CONSTANTS
    Browsers = {b1, b2}
    Requests = {r1, r2, r3}
    Uploads = {u1}
    None = None
    MaxKeys = 2
SPECIFICATION Spec
SYMMETRY Symmetric
INVARIANTS
    ShownOnce
    ShownIsDestroyed
    ShownToItsMinter
    CurrentKeyIsHeld
    LabelNamesKey
CHECK_DEADLOCK FALSE
