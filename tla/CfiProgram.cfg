\* Every FDE program of up to five instructions, a stack of three rows.
CONSTANTS
    Regs <- MCRegs
    Rules <- MCRules
    Unreal <- MCUnreal
    Same = "same"
    Nowhere = "nowhere"
    Inputs <- MCInputs
    MaxDepth = 3
    MaxCfi = 5
SPECIFICATION Spec
INVARIANTS TypeOK RowIsRight
PROPERTIES ImplementsTable EndsWell
CHECK_DEADLOCK FALSE
