SPECIFICATION Spec
CONSTANTS
    NoReg = NoReg
    CodeLength = 3
    SecondBlocks = {2, 3}
    Shapes <- MCShapes
    Functions <- MCFunctions
INVARIANT LiveOutAsCommented
CHECK_DEADLOCK FALSE
