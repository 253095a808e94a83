\* The example program: a handler that always returns nil, no crash.
CONSTANTS
    Senders = {s1, s2}
    QueueCap = 1
    HandlerMayFail = FALSE
    MayCrash = FALSE
    BrokerMayErr = FALSE
    MaxRestarts = 1
SPECIFICATION Spec
INVARIANT
    NoLostMessage
