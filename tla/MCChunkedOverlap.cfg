CONSTANTS
    Procs = {p1}
    Requests = {r1, r2, r3}
    N = 1
    None = None
    Overlap = 3
    MaxRequests = 5
    MaxKills = 1
    MaxLost = 0
    MaxLate = 0
    Reuse = FALSE
    Aging = TRUE
SPECIFICATION FairSpec
INVARIANTS
    StoredWhole
    StoredOnce
    LockExcludes
PROPERTIES
    Answered
    StagingReclaimed
CHECK_DEADLOCK FALSE
