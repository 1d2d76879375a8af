SPECIFICATION CallsSpec
CONSTANTS
    TOTAL_BLOCKS = 8
    NODE_TABLE_BLOCKS = 2
    BLOCK_SIZE = 12
    DIR_ENTRY_SIZE = 4
    Name = {a, b}
    Junk = junk
    MAX_DEPTH = 0
    FileSize = {1, 2}
    UrandomNode <- MCUrandomNode
    UrandomEntry <- MCUrandomEntry
    SIZE_T = 4
    UNINIT = 205
    Client = {c1, c2}
    Spelling <- MCSpelling
    First = a
    SAME_MOUNT = FALSE
    MAX_CALLS = 3
INVARIANT NoOtherFile
CHECK_DEADLOCK FALSE
