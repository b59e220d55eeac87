SPECIFICATION Spec
CONSTANTS
    p1 = p1
    p2 = p2
    Procs = {p1, p2}
    TTL = 1
    Jitter = 1
    Tampering = TRUE
    MaxTime = 2
SYMMETRY Symmetric
INVARIANTS
    TypeOK
    KnownGoodKept
PROPERTY EmptyOnlyIfNeverGood
