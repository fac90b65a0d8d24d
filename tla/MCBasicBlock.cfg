SPECIFICATION Spec
CONSTANTS
    Blocks <- MCBlocks
    Offsets = {0, 1}
    Graphs <- MCGraphs
    MaxCalls = 2
INVARIANTS
    TypeOK
    EdgesMirrored
PROPERTY FlowKept
CHECK_DEADLOCK FALSE
