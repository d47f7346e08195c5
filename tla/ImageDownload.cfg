SPECIFICATION FairSpec

CONSTANTS
    Images = {i, j}
    Watched = i
    Workers = {w1}
    MaxOpens = 1
    MaxBadReads = 1
    MaxFailures = 1
    None = None

INVARIANTS
    TypeOK
    NothingForgotten
    CacheIsWhole

PROPERTY ImagesArrive

CHECK_DEADLOCK FALSE
