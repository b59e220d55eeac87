SPECIFICATION Spec
CONSTANTS
    p1 = p1
    p2 = p2
    Procs = {p1}
    TTL = 1
    Jitter = 0
    Tampering = FALSE
    MaxTime = 2
PROPERTY RecoversNewestValid
