SPECIFICATION FairSpec
CONSTANTS
    t1 = t1
    t2 = t2
    p1 = p1
    p2 = p2
    NoTask = NoTask
    Procs = {p1}
    Tasks = {t1, t2}
    ProcOf <- OneProcess
    Endpoints = {e1}
    TTL = 2
    Jitter = 1
    Retention = 0
    Attempts = 2
    Outcomes = {"ok", "retryable", "client_error", "malformed"}
    BadRows = {2}
    DiskFaults = TRUE
    Tampering = FALSE
    MaxTime = 1
    MaxVer = 2
PROPERTIES
    ImplementsLastGoodCache
    CallsEnd
    CallsCountDown
