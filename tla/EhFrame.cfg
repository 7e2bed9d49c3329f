SPECIFICATION Spec
CONSTANTS
    WordBits = 17
    IntBits = 12
    WordMod = 131072
    FormMod <- MCFormMod
    UserMem <- MCUserMem
    U32 = 2
    ULong = 3
    Base = 100000
    VmStart = 4096
    CharOf <- MCChar
    Images <- MCImages
INVARIANTS
    RecordsInside
    InsnsInside
    SectionIsFound
    ParseIsRight
PROPERTIES
    Terminates
CHECK_DEADLOCK FALSE
