SPECIFICATION SearchSpec
CONSTANTS
    WordMod <- MCWordMod
    FormMod <- MCFormMod
    UserMem <- MCUserMem
    Records <- MCRecords
    Inputs <- MCInputs
    UIntMod = 32
    MaxEntries = 2
    Addrs = {18, 21}
    SearchPcs = {17, 22}
INVARIANT NotFoundIsAnswered
CHECK_DEADLOCK FALSE
