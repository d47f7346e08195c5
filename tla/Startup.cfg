\* Two processes, so that one can start while the other starts, serves or has died; two workers,
\* so that two histories wait for one permit; two tables are one that exists and one that does not.
CONSTANTS
    Servers = {p1, p2}
    Workers = {w1, w2}
    NTables = 2
    MaxStarts = 3
    MaxRequests = 2
    Faults = {"kill", "disk", "semaphore"}
    None = none
    p1 = p1
    p2 = p2
    w1 = w1
    w2 = w2
    none = none
SPECIFICATION FairSpec
INVARIANTS
    PermitAccounted
    ServesWholeDatabase
PROPERTIES
    StartsEnd
    HistoryIsAnswered
\* A process may wait for a permit that is lost.
CHECK_DEADLOCK FALSE
