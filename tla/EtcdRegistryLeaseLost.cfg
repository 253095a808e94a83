\* The example program's one service, with keepalives that may be cut off
\* for a TTL: does a registered service stay registered?
CONSTANTS
    Services = {s1}
    TTL = 2
    MaxLeases = 2
    KeepAliveMayFail = TRUE
SPECIFICATION Spec
INVARIANT RegisteredStaysAlive
