SPECIFICATION Spec

CONSTANTS
    Images = {i, j}
    Workers = {w1, w2}
    MaxOpens = 1
    MaxBadReads = 0
    MaxFailures = 0
    None = None

INVARIANT EachShowsItsImage

CHECK_DEADLOCK FALSE
