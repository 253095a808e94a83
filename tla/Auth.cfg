\* Admin "1" and user "2"; tokens live one second; the clock runs to 2.
CONSTANTS
    Users <- MCUsers
    Claims <- MCClaims
    Expiration = 1
    StreamLen = 2
    MaxTime = 2
SPECIFICATION Spec
INVARIANT
    TypeOK
    ServedOnValidToken
    RoleEnforced
    NoHandlerPanic
