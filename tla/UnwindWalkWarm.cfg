SPECIFICATION WalkSpec
CONSTANTS
    Code <- MCCode
    Modules <- MCModules
    Chains <- MCNoReturn
    StackTop = 100
    EntriesLimit = 4
    MaxEntries = {4}
    Others = {97}
    MaxBacktraces = 2
INVARIANT SameFunctions
CHECK_DEADLOCK FALSE
