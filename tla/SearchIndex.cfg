CONSTANTS
    p1 = p1
    p2 = p2
    old = old
    new = new
    Nobody = Nobody
    Processes <- TwoProcesses
    Rows <- TwoRows
    MaxStarts = 3
SPECIFICATION Spec
SYMMETRY IndexSymmetry
INVARIANT SoleStarterSucceeds
INVARIANT WrittenRowsAreFound
INVARIANT SearchIsComplete
INVARIANT SomebodyComesThrough
CHECK_DEADLOCK FALSE
