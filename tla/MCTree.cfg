SPECIFICATION Spec
CONSTANTS
    TOTAL_BLOCKS = 16
    NODE_TABLE_BLOCKS = 3
    BLOCK_SIZE = 12
    DIR_ENTRY_SIZE = 4
    Name = {a, b, c}
    Junk = junk
    MAX_DEPTH = 2
    FileSize = {1}
    UrandomNode <- MCUrandomNode
    UrandomEntry <- MCUrandomEntry
INVARIANTS TypeOK BlockOwnership TreeIntegrity Rooted NoWildPointer HalfDoneLosesOneObject
PROPERTIES OnlyRenameDuplicates ImplementsNamespace
CHECK_DEADLOCK FALSE
