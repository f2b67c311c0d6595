CONSTANTS
    Tiers <- MCTiers
    Times <- MCTimes
    Buckets <- MCBuckets
    BucketOf <- MCBucketOf
    TierOrder <- MCTierOrder
    Universe <- MCUniverse
    Policies <- MCPolicies
SPECIFICATION Spec
INVARIANT ReturnsSurvivors
CHECK_DEADLOCK FALSE
