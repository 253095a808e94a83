\* Two messages, a local queue of one, an export every two seconds; a
\* stream of two responses.
CONSTANTS
    Messages = 2
    QueueCap = 1
    BatchTimeout = 2
    StreamLen = 2
    Requests = 2
    MaxTime = 4
SPECIFICATION Spec
INVARIANT
    TypeOK
    TraceLinked
    SpansEndedAtExit
    ClientOkAfterServer
    TxCounterExact
    NestedEndFirst
    ErrorReachesRoot
