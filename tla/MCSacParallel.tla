--------------------------- MODULE MCSacParallel ---------------------------
EXTENDS SacParallel, TLC

MCUrandomNode == {[state |-> 2, parent_block |-> 2, file_size |-> 1,
                   indirect_pointer_block |-> TOTAL_BLOCKS - 1]}
MCUrandomEntry == {[node_num |-> 1, name |-> Junk]}

Makes(op, path, end) == [op |-> op, path |-> path, to |-> <<>>, end |-> end]

\* Directories /x and /y and the file /x/x.
MCStart ==
    LET x == CHOOSE n \in Name : TRUE
        y == CHOOSE n \in Name : n # x
    IN  <<Makes("mkdir", <<x>>, 0), Makes("mkdir", <<y>>, 0),
          Makes("open", <<x, x>>, 0), Makes("write", <<x, x>>, 1)>>

\* One request after the other makes the disks the threads find.
Apply(k, r) ==
    LET d == NodeAt(k, Folder(r.path))
    IN  CASE r.op = "open"  -> CreateNode(k, d, NameIn(r.path), 1)
          [] r.op = "mkdir" -> CreateNode(k, d, NameIn(r.path), 2)
          [] r.op = "write" -> WriteFile(k, NodeAt(k, r.path), r.end)

MCDisks ==
    {LET disk[i \in 0 .. Len(MCStart)] ==
             IF i = 0 THEN format_disk(u, e) ELSE Apply(disk[i - 1], MCStart[i])
     IN  disk[Len(MCStart)] : u \in UrandomNode, e \in UrandomEntry}

Threads == Permutations(Thread)
=============================================================================
