SPECIFICATION Spec
CONSTANTS
    Length = 5
    TryLength = 7
    Codes <- MCCodes
INVARIANTS
    TypeOK
    FlowCovered
    EdgesAreFlow
    NoOrphanBlock
    DeadIsUnreachable
CHECK_DEADLOCK FALSE
