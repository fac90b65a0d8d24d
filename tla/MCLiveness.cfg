SPECIFICATION FairSpec
CONSTANTS
    NoReg = NoReg
    CodeLength = 4
    SecondBlocks = {3}
    Shapes <- MCShapes
    Functions <- MCFunctions
INVARIANTS
    TypeOK
    LiveOutExplained
    RangesAsAssumed
    ReadsCovered
PROPERTY Terminates
CHECK_DEADLOCK FALSE
