CONSTANTS
    Clients = {c1, c2}
    Keys = {k1}
    Rate = 1
    Burst = 2
    TTLMillis = 4000
    Costs = {0, 1, 2}
    MaxTime = 3
    MaxCalls = 3
SPECIFICATION Spec
SYMMETRY ClientSymmetry
INVARIANT RateRespected
