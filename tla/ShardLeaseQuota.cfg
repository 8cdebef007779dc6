SPECIFICATION FairSpec
CONSTANTS
    a1 = a1
    a2 = a2
    NoAgent = NoAgent
    Agents <- MCOneAgent
    Shards <- MCThree
    KindOf <- MCKindEntryList
    Target <- MCTargetAnyThree
    MaxShardAttempts = 2
    maxEntrylistPerAgent = 1
    MaxCredits = 2
    MaxGrants = 1
    Operator = {"disable"}
INVARIANTS
    EntrylistCap
PROPERTIES
    OrphanedLeaseExpires
CHECK_DEADLOCK FALSE
