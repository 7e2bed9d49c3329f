SPECIFICATION Spec
CONSTANTS
    t1 = t1
    t2 = t2
    Threads <- MCThreads
    MaxOpens = 3
    Modes <- OnlyAnyoneCloses
INVARIANT ShortcutAgrees
CHECK_DEADLOCK FALSE
