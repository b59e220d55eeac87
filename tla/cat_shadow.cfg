SPECIFICATION Spec
CONSTANTS
    c1 = c1
    c2 = c2
    seed = seed
    own = own
    ra = ra
    rb = rb
    None = None
    Slugs = {seed, own}
    Repos = {ra, rb}
    Moving = {ra}
    Curated <- SeedRows
    Configs <- MCConfigs
    Calls = {c1}
    MaxRev = 1
INVARIANT CuratedNeverShadowed
