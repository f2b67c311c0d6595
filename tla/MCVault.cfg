CONSTANTS
    Tiers <- MCTiers
    Times <- MCTimes
    Buckets <- MCBuckets
    BucketOf <- MCBucketOf
    Sites = {1}
    Scopes = {full}
    Names = {n1, n2, n3}
    Requests = {r1, r2}
    Policies <- TwoPolicies
    NoJob = NoJob
    MaxUpsets = 1
SPECIFICATION Spec
SYMMETRY Symmetric
INVARIANTS
    RowHasBlob
    BinIsWhole
    NewestKept
    Settled
    BlobsAreAccountedFor
    NeverEmptied
CHECK_DEADLOCK FALSE
