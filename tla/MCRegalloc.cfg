SPECIFICATION FairSpec
CONSTANTS
    NoReg = NoReg
    CodeLength = 4
    ArgumentEnds = {0, 2}
    Shapes <- AllShapes
    Programs <- MCPrograms
INVARIANTS
    TypeOK
    PoolPartition
    NoInterference
    NeverSpills
    NewCountIsPressure
    LiteralSlotPreserved
    MappedOperandInFrame
    DefUseKept
PROPERTIES
    Implements
    AllProcessed
CHECK_DEADLOCK FALSE
