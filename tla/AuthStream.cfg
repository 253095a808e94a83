\* Does a ListUsers stream stop sending when its token expires?
CONSTANTS
    Users <- MCUsers
    Claims <- MCClaims
    Expiration = 1
    StreamLen = 2
    MaxTime = 2
SPECIFICATION Spec
INVARIANT
    StreamWithinToken
