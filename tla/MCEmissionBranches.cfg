SPECIFICATION Spec
CONSTANTS
    NoReg = NoReg
    Alignment = 8
    Ops <- MCOps
    Functions <- MCBranches
INVARIANT Reconstructed
CHECK_DEADLOCK FALSE
