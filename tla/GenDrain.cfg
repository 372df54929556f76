CONSTANTS
    N = 4
    StoreBuffers = TRUE
    MaxGen = 3
    Trees = {"a", "b"}
    Evictors = {1, 4}
    Syncers = {2, 3}
SPECIFICATION FairSpec
INVARIANT SyncExcludesEviction
PROPERTY DrainEnds
