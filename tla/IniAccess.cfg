SPECIFICATION Spec
CONSTANTS
    PrefixOf <- MCPrefixOf
    Respelled <- MCRespelled
    NULL = NULL
    Names = {"s", "t"}
    Keys = {"a", "b"}
    SectionKey = "["
    Indexes <- MCIndexes
    Positions = {"END", "FRONT", "BEFORE", "INDEX", "LASTDUP"}
    Loaded <- MCLoaded
    RuleFiles <- MCRuleFiles
    Validators <- MCValidators
    Addresses <- MCAddresses
    MaxSections = 2
    MaxChanges = 2
    CanFail = TRUE
INVARIANTS ValuesOwned FoundAll FlagsMean
PROPERTIES OthersKept
CHECK_DEADLOCK FALSE
