SPECIFICATION FairSpec

CONSTANTS
    Uploads = {u, v}
    Chunked = {u}
    Chunks = 3
    Workers = {w1, w2}
    MaxBadReads = 1
    None = None

INVARIANTS
    NoPieceTwice
    StoredIsTheImage

PROPERTIES
    RefusedForItsFile
    ImplementsImageService
    EndIsAnswered

CHECK_DEADLOCK FALSE
