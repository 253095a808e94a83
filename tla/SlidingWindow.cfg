\* One caller: timestamps reach the lock in order.  Window 2s, precision 1s,
\* rate 2 so that the window (4) holds more requests than buckets (2).
CONSTANTS
    Callers = {c1}
    Keys = {k1}
    Rate = 2
    WindowMillis = 2000
    PrecisionMillis = 1000
    Costs = {0, 1, 3}
    MaxTime = 3
    MaxCalls = 4
SPECIFICATION Spec
INVARIANT TypeOK WindowRespected MemoryBounded
