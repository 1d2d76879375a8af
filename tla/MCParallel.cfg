SPECIFICATION ParallelSpec
CONSTANTS
    TOTAL_BLOCKS = 16
    NODE_TABLE_BLOCKS = 5
    BLOCK_SIZE = 12
    DIR_ENTRY_SIZE = 4
    Name = {a, b}
    Junk = junk
    MAX_DEPTH = 1
    FileSize = {1, 2}
    UrandomNode <- MCUrandomNode
    UrandomEntry <- MCUrandomEntry
    Thread = {t1, t2}
    Disks <- MCDisks
    OVERLAP = "disjoint"
    MAX_REQUESTS = 3
SYMMETRY Threads
INVARIANTS ParallelTypeOK WritesStayInTables NothingLost WholeBetweenRequests AnswersAreTrue
CHECK_DEADLOCK FALSE
