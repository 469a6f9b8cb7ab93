SPECIFICATION FatSpec
CONSTANTS
    File = {f1, f2}
    Data <- MCData
    Seek = {0, 1}
    MaxCount = 3
    CS = 2
    total_data_clusters = 4
    PerSector = 2
    base_addr = 0
    FSI_Free_Count = 3
    SlotCount = 3
    FAT_BUF_NUM = 1
    DIR_DATA_BUF_NUM = 1
    LOCAL_DATA_BUF_NUM = 1
    CrashAnywhere = FALSE
    Deleted = deleted
    None = none
INVARIANTS
    FatInv
    BystandersOnDisk
PROPERTIES
    LosesOnlyOnFailure
    ImplementsFileStore
