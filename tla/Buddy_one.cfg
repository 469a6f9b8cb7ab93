SPECIFICATION Spec
CONSTANTS
    MAX_BUDDY_ORDER = 2
    NPages = 8
    Caller = {k}
INVARIANTS
    BuddyInv
    Tiled
    FailsOnlyWhenFull
PROPERTY ImplementsAllocator
