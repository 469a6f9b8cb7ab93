SPECIFICATION FairSpec
CONSTANTS
    RING = 4
    Reader = {shell}
    MaxKeys = 11
INVARIANT Ps2Inv
PROPERTY KeysAreRead
CHECK_DEADLOCK FALSE
