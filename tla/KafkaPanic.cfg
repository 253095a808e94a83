\* One sender whose context is cancelled while its message is in flight.
CONSTANTS
    Senders = {s1}
    QueueCap = 1
    HandlerMayFail = FALSE
    MayCrash = FALSE
    BrokerMayErr = FALSE
    MaxRestarts = 0
SPECIFICATION Spec
INVARIANT
    NoSendOnClosed
