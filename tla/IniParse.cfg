SPECIFICATION FairSpec
CONSTANTS
    Configs <- MCConfigs
    Lines <- MCLines
    MaxLines <- MCMaxLines
    CanFail <- MCCanFail
    Default = "default"
    SectionKey = "["
    NULL = NULL
INVARIANTS ConfigMeansFile NothingMisattached ErrorsReported
PROPERTIES ParseReturns
CHECK_DEADLOCK FALSE
