SPECIFICATION FairSpec
CONSTANTS
    None = None
    Interning = {t1, t2}
    Resolving = {}
    Saving = {}
    Values = {1, 3, 4}
    OtherValues = {1}
    Long = {3, 4}
    ShardCount = 1
    NumWays = 1
    RegionSize = 6
    ChunkSize = 1
    NumChunks = 3
    ShardOf <- MCShardOf
    CacheKey <- MCCacheKey
    LineOf <- MCLineOf
    WayOf <- MCWayOf
    ShiftedEqual <- MCSelfShifted
    SizeOf <- MCSizeOf
INVARIANTS
    TypeOK
    ArenaInBounds
    Canonical
PROPERTIES
    CallsReturn
