SPECIFICATION FairSpec
CONSTANTS
    M = 16
    Byte = {a, b}
    NUL = NUL
    JUNK = JUNK
    Idle = Idle
    MaxLen = 4
    Blocks = {0, 2, 5}
INVARIANTS WithinAlloc HoldsAdded
PROPERTIES SaveComplete EveryCallReturns
