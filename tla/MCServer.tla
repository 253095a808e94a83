------------------------------ MODULE MCServer ------------------------------
(* Both example programs, with a listener that may fail to open.           *)
EXTENDS Server

MCPrograms == {"http", "grpc"}

=============================================================================
