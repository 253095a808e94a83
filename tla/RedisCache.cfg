CONSTANTS
    Clients = {c1, c2}
    Keys = {k1}
    TTLs = {0, 1}
    DefaultTTL = 2
    Prefixed = FALSE
    Evicted = TRUE
    MaxDepth = 8
    MaxTime = 3
    MaxOps = 2
SPECIFICATION Spec
INVARIANT TypeOK
PROPERTY ClearRemovesOlder
