\* Two goroutines on one key, burst 2, one token per tick, costs 0..2.
CONSTANTS
    Callers = {c1, c2}
    Keys = {k1}
    Rate = 1
    Burst = 2
    Costs = {0, 1, 2}
    MaxTime = 3
    MaxCalls = 2
SPECIFICATION Spec
SYMMETRY CallerSymmetry
INVARIANT TypeOK
INVARIANT RateRespected
PROPERTY ImplementsTokenBucket
