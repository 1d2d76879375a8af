SPECIFICATION ParallelSpec
CONSTANTS
    TOTAL_BLOCKS = 16
    NODE_TABLE_BLOCKS = 5
    BLOCK_SIZE = 12
    DIR_ENTRY_SIZE = 4
    Name = {a, b}
    Junk = junk
    MAX_DEPTH = 1
    FileSize = {1, 2}
    UrandomNode <- MCUrandomNode
    UrandomEntry <- MCUrandomEntry
    Thread = {t1, t2}
    Disks <- MCDisks
    OVERLAP = "mount"
    MAX_REQUESTS = 2
SYMMETRY Threads
INVARIANT NothingLost
CHECK_DEADLOCK FALSE
