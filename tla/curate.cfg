SPECIFICATION Spec
CONSTANTS
    f1 = f1
    f2 = f2
    t1 = t1
    t2 = t2
    None = None
    Unreadable = Unreadable
    Tools = {t1, t2}
    Files = {f1, f2}
    Cells <- MCCells
    Contents <- MCContents
    Seeded <- MCSeeded
    Gpus <- MCGpus
    Quants <- MCQuants
    Models <- MCModels
    Window = 0
    Days = {0, 1}
SYMMETRY Symmetric
ACTION_CONSTRAINT OverlapEnds
INVARIANTS
    TypeOK
    AuditStands
    AnchorsNearEstimate
    ExitZeroMeansMerged
PROPERTY
    TableContract
