------------------------------ MODULE MCTracing ------------------------------
EXTENDS Tracing
=============================================================================
