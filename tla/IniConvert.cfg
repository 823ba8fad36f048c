SPECIFICATION Spec
CONSTANTS
    NULL = NULL
    Texts <- MCTexts
    Base = 2
    IntBits = 2
    LongBits = 3
    FracDigits = 3
    MaxDouble = 7
    Prec = 2
    Separators <- MCSeparators
    Lists <- MCLists
    Bytes <- MCBytes
    Doubles <- MCDoubles
    Numbers <- MCNumbers
INVARIANTS ReadMeans RoundTrip BuffersFit
