SPECIFICATION Spec
CONSTANTS
    a = a
    b = b
    c = c
    File = {a, b, c}
    Page <- MCPage
    Directory <- MCDirectory
    i_block <- MCBlock
    i_blocks <- MCBlocks
    first_data_block_no = 0
    MaxEntries = 2
    None = none
INVARIANT Ext2Inv
PROPERTIES
    OthersStayWhole
    StaysRemoved
CHECK_DEADLOCK FALSE
