SPECIFICATION Spec
CONSTANTS
    Arrays = {ra1, ra2}
    Elems = {e1, e2, e3, e4}
    NULL = NULL
    JUNK = JUNK
    MaxSlots = 3
    MaxRefs = 2
    GrowSizes = {0, 1, 2}
    ReplaceAtEnd = FALSE
    CanFail = TRUE
SYMMETRY Symmetry
INVARIANTS ElementsSound
PROPERTIES ContentIsSequence
