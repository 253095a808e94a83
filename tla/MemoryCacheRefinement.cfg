\* The memory cache against the Cache interface's abstract specification.
CONSTANTS
    Clients = {c1, c2}
    Keys = {"a", "b"}
    TTLs = {0, 1}
    DefaultTTL = 2
    MaxEntries = 2
    MaxTime = 2
    MaxOps = 2
SPECIFICATION Spec
PROPERTY ImplementsCache
