---------------------------- MODULE MCSacTree ----------------------------
EXTENDS SacTree

MCUrandomNode == {[state |-> 2, parent_block |-> 2, file_size |-> 1,
                   indirect_pointer_block |-> TOTAL_BLOCKS - 1]}
MCUrandomEntry == {[node_num |-> 1, name |-> Junk]}
=============================================================================
