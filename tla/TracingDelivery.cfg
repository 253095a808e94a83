\* Does a produce span without an error mean the message was delivered?
CONSTANTS
    Messages = 2
    QueueCap = 1
    BatchTimeout = 2
    StreamLen = 2
    Requests = 2
    MaxTime = 4
SPECIFICATION Spec
INVARIANT
    OkSpanDelivered
