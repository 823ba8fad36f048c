SPECIFICATION Spec
CONSTANTS
    Cols = {c1, c2, c3, c4}
    NULL = NULL
    MaxSubs = 2
    MaxHeld = 2
    MaxFailures = 1
SYMMETRY Symmetry
INVARIANTS PointersSound AllReclaimed
CHECK_DEADLOCK FALSE
