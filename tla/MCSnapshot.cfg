SPECIFICATION FairSpec
CONSTANTS
    a = a
    b = b
    c = c
    d = d
    Functions = {a, b, c, d}
    Free = Free
    Heap = 6
    Units = 40
    Snapshots <- MCSnapshots
INVARIANTS
    TypeOK
    PoolsResolve
    BuffersApart
    OutputComplete
PROPERTIES
    PrerequisitesRan
    Terminates
CHECK_DEADLOCK FALSE
