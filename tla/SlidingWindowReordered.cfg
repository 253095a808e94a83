\* Two callers whose time.Now() readings may reach the lock out of order.
CONSTANTS
    Callers = {c1, c2}
    Keys = {k1}
    Rate = 1
    WindowMillis = 2000
    PrecisionMillis = 1000
    Costs = {1}
    MaxTime = 2
    MaxCalls = 2
SPECIFICATION Spec
INVARIANT WindowRespected
