CONSTANTS
    Usernames = {alice, bob}
    Addresses = {a1, a2}
    Requests = {r1, r2}
    Threshold = 2
    Window = 240
    NoClient = NoClient
    Durations = {59, 62}
    MaxTime = 242
    MaxFailures = 4
SPECIFICATION Spec
SYMMETRY Symmetric
INVARIANTS
    OvershootIsBounded
    LockedUntilIsExact
    ToldWaitIsClose
PROPERTIES
    PruneUnlocksNobody
    FailuresAreNotForgiven
CHECK_DEADLOCK FALSE
