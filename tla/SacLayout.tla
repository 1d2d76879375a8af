----------------------------- MODULE SacLayout -----------------------------
(***************************************************************************)
(* The layout of a SAC disk (sac-fs/src/disk.h) and the allocator that     *)
(* hands its blocks out (sac-fs/src/bitmap.c).  The disk is an array of    *)
(* blocks: the header, the bitmap, the node table (one node per block) and *)
(* the data blocks.                                                        *)
(***************************************************************************)
EXTENDS Integers

CONSTANTS
    TOTAL_BLOCKS,       \* blocks of the disk
    NODE_TABLE_BLOCKS,  \* nodes, one per block
    BLOCK_SIZE,         \* bytes of a block
    DIR_ENTRY_SIZE      \* bytes of a directory entry

BITMAP_INITIAL_BLOCK == 1

\* One bit per block, so an eighth of TOTAL_BLOCKS in bytes.
BITMAP_SIZE == TOTAL_BLOCKS \div 8

\* Blocks the bitmap fills, the last one perhaps in part.
BITMAP_BLOCKS ==
    IF BITMAP_SIZE % BLOCK_SIZE = 0 THEN BITMAP_SIZE \div BLOCK_SIZE
                                    ELSE BITMAP_SIZE \div BLOCK_SIZE + 1

NODE_TABLE_INITIAL_BLOCK == BITMAP_INITIAL_BLOCK + BITMAP_BLOCKS

DATA_INITIAL_BLOCK == NODE_TABLE_INITIAL_BLOCK + NODE_TABLE_BLOCKS

Block     == 0 .. TOTAL_BLOCKS - 1
NodeNum   == 0 .. NODE_TABLE_BLOCKS - 1
NodeBlock == NODE_TABLE_INITIAL_BLOCK .. DATA_INITIAL_BLOCK - 1
DataBlock == DATA_INITIAL_BLOCK .. TOTAL_BLOCKS - 1

\* Directory entries that fit in a block, and their places in it.
DIR_ENTRIES == BLOCK_SIZE \div DIR_ENTRY_SIZE
Slot        == 0 .. DIR_ENTRIES - 1

ASSUME LayoutAssumption ==
    /\ TOTAL_BLOCKS \in Nat /\ TOTAL_BLOCKS % 8 = 0
    /\ NODE_TABLE_BLOCKS \in Nat \ {0}
    /\ BITMAP_BLOCKS \in Nat \ {0}
    /\ DIR_ENTRIES \in Nat \ {0}
    /\ DATA_INITIAL_BLOCK <= TOTAL_BLOCKS

get_block_num_from_node_num(n) == NODE_TABLE_INITIAL_BLOCK + n

Least(S) == CHOOSE i \in S : \A j \in S : i <= j

\* _get_free_block: the first block of a region whose bit is clear.  The
\* caller handles the empty set, where the program exits.
FreeBlocks(bitmap, region) == region \ bitmap
get_free_block(bitmap, region) == Least(FreeBlocks(bitmap, region))
get_free_node_block(bitmap)    == get_free_block(bitmap, NodeBlock)
get_free_data_block(bitmap)    == get_free_block(bitmap, DataBlock)

\* What format_disk marks as used: header, bitmap and the root's node.
create_default_bitmap == {0} \cup (1 .. BITMAP_BLOCKS) \cup {BITMAP_BLOCKS + 1}
=============================================================================
