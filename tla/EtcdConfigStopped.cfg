\* One watcher, one key: a Put arrives after the watcher was stopped.
CONSTANTS
    Watchers = {w1}
    Keys = {k1}
    Vals = {v1}
    None = None
    MaxEvents = 1
SPECIFICATION Spec
INVARIANT NoSendOnClosed
