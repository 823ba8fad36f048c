SPECIFICATION Spec
CONSTANTS
    NULL = NULL
    Opened = {"f"}
    NewBoms = {"UTF16LE"}
    ICONV_BUFFER = 5
    Names = {"f", "g", "h"}
    Backups <- MCBackups
    InitFiles <- MCFiles
    InitTime <- MCTime
    Taken = {"f", "g", "b2"}
    Foreign = {"g"}
    MemTexts <- MCMemTexts
    Configs <- MCConfigs
    Texts <- MCTexts
    Accesses <- MCAccesses
    Templates <- MCTemplates
    BackupAccesses <- MCBackupAccesses
    Modes <- MCModes
    Devices <- MCDevices
    MaxCalls = 3
    MaxOthers = 1
    CanFail = TRUE
INVARIANTS DecodeMeans WritesMean StatsCurrent MetadataAgrees
PROPERTIES BackupKeeps Returns
CHECK_DEADLOCK FALSE
