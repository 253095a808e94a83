\* Two goroutines, three keys, room for two items; ttl 1 or the default 2.
CONSTANTS
    Clients = {c1, c2}
    Keys = {"a", "b", "c"}
    TTLs = {0, 1}
    DefaultTTL = 2
    MaxEntries = 2
    MaxTime = 2
    MaxOps = 2
SPECIFICATION Spec
INVARIANT TypeOK
INVARIANT SizeBounded
PROPERTY ExpiredEventuallyRemoved
