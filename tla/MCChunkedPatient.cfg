CONSTANTS
    Procs = {p1, p2}
    Requests = {r1}
    N = 2
    None = None
    Overlap = 1
    MaxRequests = 6
    MaxKills = 1
    MaxLost = 1
    MaxLate = 1
    Reuse = TRUE
    Aging = TRUE
SPECIFICATION Spec
SYMMETRY Symmetric
INVARIANTS
    TypeOK
    StoredWhole
    CopiesAccountedFor
PROPERTY ImplementsSession
CHECK_DEADLOCK FALSE
