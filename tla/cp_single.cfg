SPECIFICATION Spec
CONSTANTS
    t1 = t1
    t2 = t2
    p1 = p1
    p2 = p2
    NoTask = NoTask
    Procs = {p1}
    Tasks = {t1, t2}
    ProcOf <- OneProcess
    Endpoints = {e1}
    TTL = 1
    Jitter = 0
    Retention = 1
    Attempts = 1
    Outcomes = {"ok", "retryable"}
    BadRows = {}
    DiskFaults = TRUE
    Tampering = TRUE
    MaxTime = 2
    MaxVer = 2
SYMMETRY SwapTasks
INVARIANTS
    TypeOK
    LatestIsWhole
    NoSpuriousFailure
    AnswerIsStored
PROPERTIES
    LastGoodNeverLost
    FallbackPicksNewest
