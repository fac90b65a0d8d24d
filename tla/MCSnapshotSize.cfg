SPECIFICATION Spec
CONSTANTS
    a = a
    b = b
    c = c
    d = d
    Functions = {a, b, c, d}
    Free = Free
    Heap = 6
    Units = 10
    Snapshots <- MCOne
INVARIANT MaximumHolds
CHECK_DEADLOCK FALSE
