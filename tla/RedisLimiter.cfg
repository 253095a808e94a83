CONSTANTS
    Clients = {c1}
    Keys = {k1}
    Rate = 1
    Burst = 2
    TTLMillis = 4000
    Costs = {0, 1, 2}
    MaxTime = 3
    MaxCalls = 4
SPECIFICATION Spec
INVARIANT TypeOK
INVARIANT RateRespected
