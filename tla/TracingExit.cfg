\* Do the programs hand every ended span to the exporter before they return?
CONSTANTS
    Messages = 2
    QueueCap = 1
    BatchTimeout = 2
    StreamLen = 2
    Requests = 2
    MaxTime = 4
SPECIFICATION Spec
INVARIANT
    ExportedBeforeExit
