SPECIFICATION Spec
CONSTANTS
    Keys = {0, 2, 3, 4, 6, 9}
    Values = {v1}
    UNDEF = UNDEF
    BAD = BAD
    NULL = NULL
    HashOf <- MCHashOf
    AddrBits = 4
    Bit <- MCBit
    CreateArgs <- MCCreateArgs
    DefaultDirectoryBits = 1
    DefaultSegmentBits = 1
    DefaultMinLoad = 1
    DefaultMaxLoad = 2
    CanFail = TRUE
    FailUpTo = 3
    MaxBlank = 0
INVARIANTS SegmentsLive EntryInItsBucket
PROPERTIES LoadBounded ImplementsMap
