SPECIFICATION Spec
CONSTANTS
    c1 = c1
    c2 = c2
    seed = seed
    own = own
    ra = ra
    rb = rb
    None = None
    Slugs = {seed, own}
    Repos = {ra, rb}
    Moving = {ra}
    Curated <- SeedRows
    Configs <- MCConfigs
    Calls = {c1, c2}
    MaxRev = 2
SYMMETRY Symmetric
VIEW Seen
INVARIANTS
    TypeOK
    SyncedIsAsked
    RowsWereSynced
    SyncedStaysOnDisk
PROPERTIES
    ImplementsShelf
    CommitsOnlyAdvance
    ProjectedFromDisk
