SPECIFICATION Spec
CONSTANTS
    Length = 3
    TryLength = 6
    Codes <- MCCodes
INVARIANT JumpTargetIsLeader
CHECK_DEADLOCK FALSE
