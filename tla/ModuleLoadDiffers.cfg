\* The same, for the case that user memory reads differently than the mapping.
CONSTANTS
    MaxModules = 4
    MaxCalls = 2
    MaxSegments = 2
    Pages = 2
SPECIFICATION LibSpec
INVARIANT ListedIsMapped
CHECK_DEADLOCK FALSE
