\* Two services registered through one Registry.
CONSTANTS
    Services = {s1, s2}
    TTL = 2
    MaxLeases = 2
    KeepAliveMayFail = FALSE
SPECIFICATION Spec
SYMMETRY ServiceSymmetry
INVARIANT RegisteredStaysAlive
