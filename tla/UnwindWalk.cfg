SPECIFICATION ColdSpec
CONSTANTS
    Code <- MCCode
    Modules <- MCModules
    Chains <- MCChains
    StackTop = 100
    EntriesLimit = 4
    MaxEntries = {0, 2, 5}
    Others = {97, 99}
    MaxBacktraces = 2
INVARIANTS
    EntriesFit
    EntriesFollowStack
    SuccessIsComplete
    OrdinaryStacksSucceed
    ColdFunctions
PROPERTIES
    BacktraceReturns
CHECK_DEADLOCK FALSE
