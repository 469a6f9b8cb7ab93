SPECIFICATION MmSpec
CONSTANTS
    MAX_BUDDY_ORDER = 1
    NPages = 10
    Entries = 2
    USER_CODE_ENTRY = 1
    UserStackPage = 3
    FileSizes = {0, 1, 3}
    Vma = {v1, v2, v3}
    PageBytes = 2
    KERNEL_ENTRY = 22
    Word = 100
    Addresses <- MCAddresses
    Lengths <- MCLengths
    Sparing = TRUE
    None = none
SYMMETRY VmaSymmetry
INVARIANTS
    MmInv
    MapsItsOwn
PROPERTIES
    LosesOnlyInRunuserprog
    FreesWholeBlocks
CHECK_DEADLOCK FALSE
