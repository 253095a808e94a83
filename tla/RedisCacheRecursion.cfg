\* One client, an empty prefix and an OnEvicted callback; a Set with a TTL
\* whose SET reaches Redis late, or a Set with ttl 0 and no default TTL:
\* does an expired Get end?
CONSTANTS
    Clients = {c1}
    Keys = {k1}
    TTLs = {0, 1}
    DefaultTTL = 0
    Prefixed = FALSE
    Evicted = TRUE
    MaxDepth = 8
    MaxTime = 3
    MaxOps = 2
SPECIFICATION Spec
INVARIANT NoStackOverflow
