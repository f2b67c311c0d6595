CONSTANTS
    Workers = {w1, w2}
    Requests = {r1, r2}
    Names = {admin, other}
    SeedName = admin
    None = None
    MaxPasswords = 2
    MaxRestarts = 2
SPECIFICATION Spec
SYMMETRY Symmetric
INVARIANTS
    TypeOK
    LastAdminStays
    SessionsAreCurrent
    DefaultIsGated
CHECK_DEADLOCK FALSE
