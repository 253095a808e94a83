\* The example program's settings, with its batches of 5, 10, 5 and 3
\* goroutines scaled to three and its trip at five consecutive failures
\* scaled to two; one tick is a second.
CONSTANTS
    Workers = {w1, w2, w3}
    MaxRequests = 3
    Interval = 60
    Timeout = 5
    NewGenerationTTL = 60
    TripThreshold = 1
    MaxCount = 6
SPECIFICATION Spec
PROPERTY HalfOpenReached
