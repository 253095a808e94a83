\* The constants of CircuitBreaker.cfg: are a generation's counts only the
\* outcomes of requests it admitted?
CONSTANTS
    Callers = {c1, c2, c3}
    MaxRequests = 2
    Intervals <- MCIntervals
    Timeout = 2
    NewGenerationTTL = 2
    TripThreshold = 1
    MaxCount = 3
SPECIFICATION Spec
SYMMETRY CallerSymmetry
INVARIANT OutcomesWithinGeneration
