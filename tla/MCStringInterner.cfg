SPECIFICATION Spec
CONSTANTS
    None = None
    Interning = {t1, t2}
    Resolving = {t3}
    Saving = {t3}
    Values = {1, 3, 4}
    OtherValues = {}
    Long = {3, 4}
    ShardCount = 2
    NumWays = 2
    RegionSize = 3
    ChunkSize = 1
    NumChunks = 3
    ShardOf <- MCShardOf
    CacheKey <- MCCacheKey
    LineOf <- MCLineOf
    WayOf <- MCWayOf
    ShiftedEqual <- MCSelfShifted
    SizeOf <- MCSizeOf
SYMMETRY MCSymmetry
INVARIANTS
    Canonical
    NeverDenied
    UncheckedIsSafe
    SnapshotDecodes
