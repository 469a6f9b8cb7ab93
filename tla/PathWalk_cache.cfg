SPECIFICATION Spec
CONSTANTS
    Dir <- MCDir
    Root = "fat"
    Ext2Root = "ext2"
    Ext2Dir <- MCExt2Dir
    Tree <- MCTree
    Calls <- MCCalls
    DCACHE_CAPACITY = 8
    Word = 256
    MaxCalls = 6
    None = None
INVARIANTS
    PathInv
    ReachedAreCached
    CacheTellsTheDisk
PROPERTY ImplementsNamespace
CHECK_DEADLOCK FALSE
