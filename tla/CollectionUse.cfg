SPECIFICATION Spec
CONSTANTS
    NULL = NULL
    PrefixOf = {}
    Respelled = {}
    COL_MAX_DATA = 65535
    Classes <- MCClasses
    Inputs <- MCInputs
    Changes <- MCChanges
    Sorts <- MCSorts
    Names <- MCNames
    Subs <- MCSubs
    Embeds <- MCEmbeds
    Compares <- MCCompares
    Walks <- MCWalks
    Searches <- MCSearches
    Given <- MCNames
    Ids = {"i1", "i2", "i3"}
    MaxItems <- MCMaxItems
INVARIANTS SortMeans ContentMeans VisitsMean
CHECK_DEADLOCK FALSE
