\* The HTTP example alone: does a nil from Stop mean the server has stopped?
CONSTANTS
    Programs = {"http"}
    MaxRequests = 1
    ListenMayFail = FALSE
SPECIFICATION Spec
PROPERTY
    NilStopMeansStopped
