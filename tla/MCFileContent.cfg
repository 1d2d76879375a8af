SPECIFICATION Spec
CONSTANTS
    TOTAL_BLOCKS = 16
    NODE_TABLE_BLOCKS = 9
    BLOCK_SIZE = 12
    DIR_ENTRY_SIZE = 4
    File <- MCOneFile
    POINTER_BLOCKS = 2
    POINTER_WORDS = 1
    Null = null
    LetterA = letterA
    Urandom = urandom
    Buffer <- MCBuffer
    None = none
    MAX_SIZE = 7
    HOLE_END = 2
    x = x
INVARIANTS TypeOK ReadReturnsContent WriteOverlays TruncateKeepsBeginning
CHECK_DEADLOCK FALSE
