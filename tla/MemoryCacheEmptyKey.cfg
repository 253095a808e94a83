\* MemoryCache.cfg with the empty string among the keys.
CONSTANTS
    Clients = {c1, c2}
    Keys = {"", "a", "b"}
    TTLs = {0, 1}
    DefaultTTL = 2
    MaxEntries = 2
    MaxTime = 2
    MaxOps = 2
SPECIFICATION Spec
INVARIANT SizeBounded
