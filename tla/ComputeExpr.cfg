\* Words of 15 bits, an int of 11, a stack of three.
CONSTANTS
    WordBits = 15
    IntBits = 11
    MaxStack = 3
    RefStack = 3
    Inputs <- MCInputs
    Frame <- MCFrame
    RefFrame <- MCRefFrame
    ReadableAddrs <- MCReadableAddrs
    Garbage <- MCGarbage
SPECIFICATION ExprSpec
INVARIANTS StackKept InBlock ValueIsRight
PROPERTIES Forward
CHECK_DEADLOCK FALSE
