SPECIFICATION Spec
CONSTANTS
    None = None
    Interning = {t1, t2}
    Resolving = {}
    Saving = {}
    Values = {1, 3}
    OtherValues = {}
    Long = {3}
    ShardCount = 1
    NumWays = 2
    RegionSize = 4
    ChunkSize = 1
    NumChunks = 3
    ShardOf <- MCShardOf
    CacheKey <- MCCacheKey
    LineOf <- MCLineOf
    WayOf <- MCWayOf
    ShiftedEqual <- MCShiftedEqual
    SizeOf <- MCSizeOf
SYMMETRY MCSymmetry
INVARIANTS
    CacheAnswers
