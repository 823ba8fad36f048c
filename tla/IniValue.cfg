SPECIFICATION Spec
CONSTANTS
    NULL = NULL
    Slots = {1, 2}
    FoldTexts <- MCFoldTexts
    Texts <- MCTexts
    FileValues <- MCFileValues
    KeyLens = {1, 3}
    Boundaries = {2, 6}
    MaxBoundary = 9
    LineTexts <- MCLineTexts
    CommentIds = {c1, c2}
    MaxLines = 2
    MaxCalls = 5
    CanFail = TRUE
SYMMETRY MCSymmetry
INVARIANTS FoldSound SavedReads OneOwner
CHECK_DEADLOCK FALSE
