SPECIFICATION SearchSpec
CONSTANTS
    WordMod <- MCWordMod
    FormMod <- MCFormMod
    UserMem <- MCUserMem
    Records <- MCRecords
    Inputs <- MCInputs
    UIntMod = 32
    MaxEntries = 4
    Addrs = {16, 18, 21, 26}
    SearchPcs = {16, 17, 18, 22, 30}
INVARIANTS
    FoundIsTheRightOne
    FoundIsWritten
PROPERTIES
    ImplementsLookup
    Terminates
CHECK_DEADLOCK FALSE
