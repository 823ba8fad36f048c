SPECIFICATION Spec
CONSTANTS
    Names = {"foo", "FOO", "fo"}
    HeaderName = "fo"
    PrefixOf <- MCPrefixOf
    Respelled <- MCRespelled
    Types = {"INT", "STRING"}
    Ids = {i1, i2, i3, i4}
    Indexes <- MCIndexes
    NULL = NULL
SYMMETRY Symmetry
INVARIANTS ListSound InsertMeans SearchMeans
CHECK_DEADLOCK FALSE
