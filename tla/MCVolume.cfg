CONSTANTS
    Requests = {r1, r2}
    Disk = 14
    Margin = 8
    Quota = 2
    MaxBytes = 2
    Overhead = 1
    MaxFaults = 2
SPECIFICATION Spec
INVARIANTS
    QuotaOvershootIsBounded
    AdmittedFits
    
SYMMETRY Symmetry
CHECK_DEADLOCK FALSE
