\* Does Recovery report every panic as an error?
CONSTANTS
    Users <- MCUsers
    Claims <- MCClaims
    Expiration = 1
    StreamLen = 2
    MaxTime = 2
SPECIFICATION Spec
INVARIANT
    RecoveredPanicIsError
