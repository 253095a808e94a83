\* The example program with a broker that may report a transient error:
\* does Consume keep reading?
CONSTANTS
    Senders = {s1}
    QueueCap = 1
    HandlerMayFail = FALSE
    MayCrash = FALSE
    BrokerMayErr = TRUE
    MaxRestarts = 0
SPECIFICATION Spec
PROPERTIES
    ConsumerKeepsPolling
