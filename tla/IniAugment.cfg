SPECIFICATION Spec
CONSTANTS
    SectionKey = "["
    NULL = NULL
    ALL = ALL
    Bases <- MCBases
    Snippets <- MCSnippets
    FlagSets <- MCFlagSets
    Dirs <- MCDirs
    MaxLeak = 1
    CanFail = TRUE
INVARIANTS ResultMeansMerged NothingLost
CHECK_DEADLOCK FALSE
