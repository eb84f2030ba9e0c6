CONSTANTS
    MaxId = 3
    NShards = 3
    ShardCap = 1
    ReorderTimeout = 3
    NotifyInterval = 1
    ResendTtl = 1
    MaxMissing = 4
    NotifiedCap = 1
    MaxNotes = 3
    MaxLosses = 2
CHECK_DEADLOCK FALSE
SPECIFICATION Spec
INVARIANTS TypeOK CacheWindow ResendBounded RepairWorks
