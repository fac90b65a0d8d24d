SPECIFICATION FairSpec
CONSTANTS
    Real = 3
    Graphs <- MCGraphs
    EraseOutcomes = {"continue", "stop", "crash"}
INVARIANTS
    TypeOK
    DominatorsKept
    OnlyDominators
    IdomIsImmediate
PROPERTIES
    Terminates
CHECK_DEADLOCK FALSE
