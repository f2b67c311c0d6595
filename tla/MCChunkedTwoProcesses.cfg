CONSTANTS
    Procs = {p1, p2}
    Requests = {r1, r2}
    N = 1
    None = None
    Overlap = 2
    MaxRequests = 3
    MaxKills = 0
    MaxLost = 0
    MaxLate = 0
    Reuse = TRUE
    Aging = FALSE
SPECIFICATION Spec
INVARIANT StoredOnce
CHECK_DEADLOCK FALSE
