SPECIFICATION Spec
CONSTANTS
    t1 = t1
    t2 = t2
    p1 = p1
    p2 = p2
    NoTask = NoTask
    Procs = {p1, p2}
    Tasks = {t1, t2}
    ProcOf <- TwoProcesses
    Endpoints = {e1}
    TTL = 1
    Jitter = 0
    Retention = 0
    Attempts = 1
    Outcomes = {"ok", "retryable"}
    BadRows = {}
    DiskFaults = FALSE
    Tampering = FALSE
    MaxTime = 1
    MaxVer = 2
SYMMETRY SwapProcesses
INVARIANT ServedIsPublished
PROPERTY RetainedUntilExpired
