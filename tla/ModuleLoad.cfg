\* Two ioctls of up to two segments or vmas each, any step of which may fail.
CONSTANTS
    MaxModules = 4
    MaxCalls = 2
    MaxSegments = 2
    Pages = 2
SPECIFICATION LibSpec
INVARIANTS LoadedIsMapped NothingStray ZeroMeansReady FileAccounted
CHECK_DEADLOCK FALSE
