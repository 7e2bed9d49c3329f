SPECIFICATION MCSpec
CONSTANTS
    t1 = t1
    t2 = t2
    Threads <- TwoThreads
    Pcs = {1, 2, 3}
    MaxCached = 3
INVARIANTS
    HitIsRight
    ClearSafe
    LinksDescend
    AloneIsExact
PROPERTIES
    LookupsEnd
    ClearEnds
CHECK_DEADLOCK FALSE
