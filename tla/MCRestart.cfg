SPECIFICATION SpecRestart
CONSTANTS
    TOTAL_BLOCKS = 16
    NODE_TABLE_BLOCKS = 3
    BLOCK_SIZE = 12
    DIR_ENTRY_SIZE = 4
    Name = {a, b}
    Junk = junk
    MAX_DEPTH = 1
    FileSize = {}
    UrandomNode <- MCUrandomNode
    UrandomEntry <- MCUrandomEntry
INVARIANT NodesNotShared
CHECK_DEADLOCK FALSE
