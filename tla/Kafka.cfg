\* Two senders and a one-message local queue; the handler may fail, the
\* broker may report errors, and the consumer process may be killed and
\* started once more.
CONSTANTS
    Senders = {s1, s2}
    QueueCap = 1
    HandlerMayFail = TRUE
    MayCrash = TRUE
    BrokerMayErr = TRUE
    MaxRestarts = 1
SPECIFICATION Spec
INVARIANTS
    NilMeansDelivered
