\* The HTTP and the gRPC example, two requests or streams in flight,
\* net.Listen may fail.  Stop(ctx) of the gRPC server ignores ctx.
CONSTANTS
    Programs <- MCPrograms
    MaxRequests = 2
    ListenMayFail = TRUE
SPECIFICATION Spec
PROPERTY
    StopReturns
