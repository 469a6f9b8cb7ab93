SPECIFICATION Spec
CONSTANTS
    file32 = file32
    file2 = file2
    b1 = b1
    b2 = b2
    b3 = b3
    b4 = b4
    Fat <- MCFat
    Ext <- MCExt
    FatDir = fatdir
    ExtDir = extdir
    Chain <- OneCluster
    BlockZero = block0
    BLK = 3
    PCACHE_CAPACITY = 2
    Byte = {0, 1}
    InitSize <- MCInitSize
    InitByte <- MCInitByte
    Data <- MCData
    MaxCount = 6
    MaxGen = 1
    Fault = {"data", "inode", "mem"}
    None = none
INVARIANT VfsInv
PROPERTIES
    OwnBlocksOnly
    ImplementsFileStore
CHECK_DEADLOCK FALSE
