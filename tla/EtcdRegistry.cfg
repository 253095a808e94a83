\* One service per Registry, as in the example program; every RPC may fail
\* and a kept lease may be lost.
CONSTANTS
    Services = {s1}
    TTL = 3
    MaxLeases = 4
    KeepAliveMayFail = TRUE
SPECIFICATION Spec
INVARIANT TypeOK
INVARIANT DeregisteredGone
PROPERTY WatchReportsPut
