\* Two watchers, one key, two values, two etcd events.
CONSTANTS
    Watchers = {w1, w2}
    Keys = {k1}
    Vals = {v1, v2}
    None = None
    MaxEvents = 2
SPECIFICATION Spec
SYMMETRY WatcherSymmetry
INVARIANT TypeOK
INVARIANT NoDoubleClose
