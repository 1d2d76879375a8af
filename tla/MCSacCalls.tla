----------------------------- MODULE MCSacCalls -----------------------------
EXTENDS SacCalls

MCUrandomNode == {[state |-> 2, parent_block |-> 2, file_size |-> 1,
                   indirect_pointer_block |-> TOTAL_BLOCKS - 1]}
MCUrandomEntry == {[node_num |-> 1, name |-> Junk]}

\* "a" and "ab": names of different length.
MCSpelling == [n \in Name |-> IF n = First THEN <<97>> ELSE <<97, 98>>]
=============================================================================
