SPECIFICATION Spec
CONSTANTS
    a1 = a1
    a2 = a2
    NoAgent = NoAgent
    Agents <- MCAgents
    Shards <- MCOne
    KindOf <- MCKindChunk
    Target <- MCTargetAnyOne
    MaxShardAttempts = 2
    maxEntrylistPerAgent = 1
    MaxCredits = 1
    MaxGrants = 3
    Operator = {"retry", "drop", "pause", "cancel"}
SYMMETRY Symm
INVARIANTS
    TypeOK
    LiveLeaseOwner
    CountedOnce
PROPERTIES
    DoneIsFinal
    WorkedOffOnce
CHECK_DEADLOCK FALSE
