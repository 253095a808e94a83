------------------------------- MODULE MCAuth -------------------------------
EXTENDS Auth

\* The examples' admin "1" and one ordinary user "2".
MCUsers == {"1", "2"}
MCClaims == {[uid |-> "1", role |-> "admin"], [uid |-> "2", role |-> "user"]}
=============================================================================
