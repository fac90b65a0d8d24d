SPECIFICATION Spec
CONSTANTS
    NoReg = NoReg
    CodeLength = 3
    ArgumentEnds = {1}
    Shapes <- PlainShapes
    Programs <- SinglePrograms
INVARIANT OperandsInFrame
CHECK_DEADLOCK FALSE
