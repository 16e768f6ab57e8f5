\* Two threads, two shards with room for two values each, four values.
CONSTANTS
    t1 = t1
    t2 = t2
    v1 = v1
    v2 = v2
    v3 = v3
    v4 = v4
    Thread <- MCThread
    Value <- MCValue
    NoThread = NoThread
    Uninit = Uninit
    S = 2
    Limit = 2
    MaxU32 = 7
    ShardOf <- MCShardOf
    Units <- MCUnits
    FirstChunk = 1
    Chunks = 2
    OffsetLimit = 8
SPECIFICATION FairSpec
INVARIANTS OneIdPerValue GetReadsInitialized GetReturnsInterned HeldIdsAreValid ShardIntact
PROPERTIES ImplementsInterner InternTerminates
