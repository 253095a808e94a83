\* Three concurrent callers; MaxRequests 2, trip after two consecutive
\* failures, timeout shorter than the first generation; Interval either
\* positive or negative, chosen by NewBreaker.
CONSTANTS
    Callers = {c1, c2, c3}
    MaxRequests = 2
    Intervals <- MCIntervals
    Timeout = 2
    NewGenerationTTL = 2
    TripThreshold = 1
    MaxCount = 3
SPECIFICATION Spec
SYMMETRY CallerSymmetry
INVARIANT TypeOK
INVARIANT NoMissedTrip
