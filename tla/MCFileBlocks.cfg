SPECIFICATION Spec
CONSTANTS
    TOTAL_BLOCKS = 16
    NODE_TABLE_BLOCKS = 10
    BLOCK_SIZE = 12
    DIR_ENTRY_SIZE = 4
    File <- MCFile
    POINTER_BLOCKS = 2
    POINTER_WORDS = 1
    Null = null
    LetterA = letterA
    Urandom = urandom
    Buffer <- MCBlank
    None = none
    MAX_SIZE = 4
    HOLE_END = 2
    x = x
INVARIANTS NoBlockShared NoWildPointer
PROPERTY ImplementsFlatFile
CHECK_DEADLOCK FALSE
