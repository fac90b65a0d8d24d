SPECIFICATION Spec
CONSTANTS
    NoReg = NoReg
    Alignment = 8
    Ops <- MCOps
    Functions <- MCFunctions
INVARIANTS
    TypeOK
    DecodesCompiled
    RecordsAsAssumed
    ReadsBack
    JumpsLandAtWidth
CHECK_DEADLOCK FALSE
