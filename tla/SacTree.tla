------------------------------ MODULE SacTree ------------------------------
(***************************************************************************)
(* The directory tree that the SAC server keeps on its disk: nodes,        *)
(* directory entries, the two blocks a directory (or a small file) owns,   *)
(* and the bitmap in memory, under the operations of sacio.c that create,  *)
(* remove, rename, write and truncate.  One request runs at a time.        *)
(*                                                                         *)
(* Data kept: the bytes of a data block are a row of entries, and the      *)
(* first four bytes of a block are at the same time the node number of its *)
(* first entry and the first pointer of a pointer block, as in the code.   *)
(* file_size counts units of DIR_ENTRY_SIZE bytes.  Files stay within      *)
(* their first data block.                                                 *)
(***************************************************************************)
EXTENDS SacLayout, Sequences, FiniteSets

CONSTANTS
    Name,          \* names a client uses
    Junk,          \* any other bytes where a name is stored
    MAX_DEPTH,     \* bound: components of a directory's path
    FileSize,      \* bound: sizes a file is written or truncated to
    UrandomNode,   \* what dd leaves in a node that was never written
    UrandomEntry   \* what dd leaves in a data block

VARIABLES
    bitmap,         \* the bitmap in memory: the set of used blocks
    bitmap_blocks,  \* the bitmap on disk
    node,           \* the node table
    block,          \* the data blocks
    server          \* "up"; "exit" after exit(-1); "wild" once an
                    \* uninitialised block pointer has been followed

vars == <<bitmap, bitmap_blocks, node, block, server>>

t_node == [state : 0 .. 2,                  \* 0 free, 1 file, 2 directory
           parent_block : Nat, file_size : Nat, indirect_pointer_block : Nat]

t_dir_entry == [node_num : Nat, name : Name \cup {Junk}]

ASSUME TreeAssumption ==
    /\ Junk \notin Name
    /\ MAX_DEPTH \in Nat
    /\ FileSize \subseteq 1 .. DIR_ENTRIES - 1
    /\ UrandomNode \subseteq t_node
    /\ UrandomEntry \subseteq t_dir_entry

\* The state an operation works on; each operator below maps one to the next.
fs == [bitmap |-> bitmap, node |-> node, block |-> block, server |-> server]

Store(k) ==
    /\ bitmap' = k.bitmap
    /\ node'   = k.node
    /\ block'  = k.block
    /\ server' = k.server
    /\ UNCHANGED bitmap_blocks

Exit(k) == [k EXCEPT !.server = "exit"]
Wild(k) == [k EXCEPT !.server = "wild"]

-----------------------------------------------------------------------------
(***************************************************************************)
(* Directories.                                                            *)
(***************************************************************************)

\* The data block of a node that has a pointer block.
DataOf(k, nd) == k.block[nd.indirect_pointer_block][0].node_num

\* iterate_pointers_blocks, iterate_blocks, iterate_bytes_in_block: the
\* places of the entries a scan of the node visits.
Places(nd) ==
    IF nd.state # 0 /\ nd.indirect_pointer_block # 0
      THEN 0 .. nd.file_size - 1 ELSE {}

Matches(k, nd, name) ==
    {i \in Places(nd) : k.block[DataOf(k, nd)][i].name = name}

exists_entry(k, nd, name) == Matches(k, nd, name) # {}

get_entry(k, nd, name) == k.block[DataOf(k, nd)][Least(Matches(k, nd, name))]

\* search_path.  A path is given by the nodes it visits: the root, then for
\* each component the node of the first entry with that name.  A path that
\* does not resolve has no walk: the operation returns -1 and nothing
\* changes.  The kernel asks for the attributes of every prefix first and
\* goes on only through directories.
Visits(k, n, m) ==
    /\ k.node[n].state = 2
    /\ \E name \in Name : /\ exists_entry(k, k.node[n], name)
                          /\ get_entry(k, k.node[n], name).node_num = m

search_path(k) ==
    {w \in UNION {[1 .. l -> NodeNum] : l \in 1 .. MAX_DEPTH + 1} :
        /\ w[1] = 0
        /\ \A i \in 2 .. Len(w) : Visits(k, w[i - 1], w[i])
        /\ k.node[w[Len(w)]].state = 2}

\* The pointer and data block of a node, reserved first when it has none.
FirstBlocks(k, nd) ==
    IF nd.indirect_pointer_block # 0
      THEN [bitmap |-> k.bitmap, block |-> k.block,
            pointers |-> nd.indirect_pointer_block, data |-> DataOf(k, nd)]
      ELSE LET p == get_free_data_block(k.bitmap)
               q == get_free_data_block(k.bitmap \cup {p})
           IN  [bitmap |-> k.bitmap \cup {p, q},
                block  |-> [k.block EXCEPT ![p][0].node_num = q],
                pointers |-> p, data |-> q]

\* One of the two reservations finds every data block used.
NoRoom(k, nd) ==
    /\ nd.indirect_pointer_block = 0
    /\ \/ FreeBlocks(k.bitmap, DataBlock) = {}
       \/ FreeBlocks(k.bitmap \cup {get_free_data_block(k.bitmap)}, DataBlock) = {}

\* nd is the caller's copy of node d; it is written back over the node.
add_directory_entry(k, d, nd, name, c) ==
    IF nd.file_size >= DIR_ENTRIES THEN Wild(k)
    ELSE IF NoRoom(k, nd) THEN Exit(k)
    ELSE LET a == FirstBlocks(k, nd)
         IN  [k EXCEPT
                !.bitmap  = a.bitmap,
                !.block   = [a.block EXCEPT ![a.data][nd.file_size] =
                                [node_num |-> c, name |-> name]],
                !.node[d] = [nd EXCEPT !.file_size = @ + 1,
                                       !.indirect_pointer_block = a.pointers]]

\* Mutants: the size goes down twice; the size does not go down.
MutDeleteTwice(k, d, name) ==
    IF ~exists_entry(k, k.node[d], name) THEN k
    ELSE [k EXCEPT !.node[d].file_size = @ - 2]

MutDeleteKeepsSize(k, d, name) == k

\* The entries after the removed one move down.  The last removal forgets
\* the directory's blocks without clearing their bits.
delete_directory_entry(k, d, name) ==
    IF ~exists_entry(k, k.node[d], name) THEN k
    ELSE LET nd == k.node[d]
             q  == DataOf(k, nd)
             i  == Least(Matches(k, nd, name))
         IN  [k EXCEPT
                !.block[q] = [j \in Slot |->
                    IF j < i \/ j + 1 \notin Slot THEN @[j] ELSE @[j + 1]],
                !.node[d] = [nd EXCEPT
                    !.file_size = @ - 1,
                    !.indirect_pointer_block =
                        IF nd.file_size = 1 THEN 0 ELSE @]]

-----------------------------------------------------------------------------
(***************************************************************************)
(* The operations of sacio.c, after their paths have been resolved.        *)
(***************************************************************************)

create_node(state, d) ==
    [state |-> state, parent_block |-> get_block_num_from_node_num(d),
     file_size |-> 0, indirect_pointer_block |-> 0]

\* Mutant: the new node becomes its own parent.
MutCreateOwnParent(k, d, name, state) ==
    IF FreeBlocks(k.bitmap, NodeBlock) = {} THEN Exit(k)
    ELSE LET b == get_free_node_block(k.bitmap)
             c == b - NODE_TABLE_INITIAL_BLOCK
         IN  add_directory_entry(
                [k EXCEPT !.bitmap  = @ \cup {b},
                          !.node[c] = create_node(state, c)],
                d, k.node[d], name, c)

\* create_and_save_file_node and create_dir_node_and_add_entry.
CreateNode(k, d, name, state) ==
    IF FreeBlocks(k.bitmap, NodeBlock) = {} THEN Exit(k)
    ELSE LET b == get_free_node_block(k.bitmap)
             c == b - NODE_TABLE_INITIAL_BLOCK
         IN  add_directory_entry(
                [k EXCEPT !.bitmap  = @ \cup {b},
                          !.node[c] = create_node(state, d)],
                d, k.node[d], name, c)

\* The directory a node's parent_block points at.
ParentOf(nd) == nd.parent_block - NODE_TABLE_INITIAL_BLOCK

\* The two blocks of a node in its first data block, or none.
BlocksOf(k, nd) ==
    IF nd.indirect_pointer_block = 0 THEN {}
    ELSE {nd.indirect_pointer_block, DataOf(k, nd)}

\* sac_remove: frees the blocks, then removes the entry, then the node.
RemoveFile(k, c, name) ==
    LET nd == k.node[c]
        k1 == [k EXCEPT !.bitmap = @ \ BlocksOf(k, nd)]
        k2 == delete_directory_entry(k1, ParentOf(nd), name)
    IN  [k2 EXCEPT !.node[c] = [nd EXCEPT !.state = 0],
                   !.bitmap  = @ \ {get_block_num_from_node_num(c)}]

\* sac_rmdir of an empty directory: delete_parent_entry, then
\* delete_all_directory_entries and delete_node on the directory itself.
RemoveDir(k, c, name) ==
    LET k1 == delete_directory_entry(k, ParentOf(k.node[c]), name)
    IN  [k1 EXCEPT !.node[c].state = 0,
                   !.bitmap = @ \ {get_block_num_from_node_num(c),
                                   k1.node[c].indirect_pointer_block}]

\* Mutant: the moved node keeps its old parent.
MutMoveKeepsParent(k, from, name, to, newName) ==
    LET c  == get_entry(k, k.node[from], name).node_num
        k1 == delete_directory_entry(k, from, name)
    IN  add_directory_entry(k1, to, k1.node[to], newName, c)

\* sac_rename: the entry leaves the old directory, enters the new one, and
\* the node gets its new parent.
MoveEntry(k, from, name, to, newName) ==
    LET c  == get_entry(k, k.node[from], name).node_num
        k1 == delete_directory_entry(k, from, name)
        k2 == add_directory_entry(k1, to, k1.node[to], newName, c)
    IN  IF k2.server # "up" THEN k2
        ELSE [k2 EXCEPT !.node[c].parent_block = get_block_num_from_node_num(to)]

Text == [node_num |-> 0, name |-> Junk]

\* sac_write up to byte "end" of the first data block, a hole included.
WriteFile(k, c, end) ==
    LET nd == k.node[c]
        a  == FirstBlocks(k, nd)
    IN  IF NoRoom(k, nd) THEN Exit(k)
        ELSE [k EXCEPT
                !.bitmap  = a.bitmap,
                !.block   = [a.block EXCEPT ![a.data] =
                    [j \in Slot |-> IF j < end THEN Text ELSE a.block[a.data][j]]],
                !.node[c] = [nd EXCEPT
                    !.file_size = IF end > @ THEN end ELSE @,
                    !.indirect_pointer_block = a.pointers]]

\* Mutant: truncating to zero frees the blocks and keeps the pointer.
MutTruncateKeepsPointer(k, c, length) ==
    IF length = 0
      THEN [k EXCEPT !.bitmap = @ \ BlocksOf(k, k.node[c]),
                     !.node[c].file_size = 0]
      ELSE WriteFile(k, c, length)

\* sac_truncate: longer is a write, shorter keeps the blocks, zero frees them.
TruncateFile(k, c, length) ==
    LET nd == k.node[c]
    IN  IF length > nd.file_size THEN WriteFile(k, c, length)
        ELSE IF length = 0 /\ nd.file_size > 0
          THEN [k EXCEPT !.bitmap  = @ \ BlocksOf(k, nd),
                         !.node[c] = [nd EXCEPT !.file_size = 0,
                                                !.indirect_pointer_block = 0]]
          ELSE [k EXCEPT !.node[c].file_size = length]

-----------------------------------------------------------------------------
(***************************************************************************)
(* Requests.                                                               *)
(***************************************************************************)
Up == server = "up"

\* A name looked up in directory d, and the node the first entry with that
\* name leads to.  A look-up that fails in a full directory has read past
\* its only data block: see sac_readdir.
Found(d, name) == exists_entry(fs, node[d], name)
Child(d, name) == get_entry(fs, node[d], name).node_num

\* w is the path of the directory that holds the name.
Dir(w) == w[Len(w)]

\* Mutant: no look for another file with the same name.
MutOpenAnyName(w, name) == Store(CreateNode(fs, Dir(w), name, 1))

sac_open(w, name) ==
    /\ ~Found(Dir(w), name)
    /\ Store(CreateNode(fs, Dir(w), name, 1))

sac_mkdir(w, name) ==
    /\ ~Found(Dir(w), name)
    /\ Store(CreateNode(fs, Dir(w), name, 2))

sac_remove(w, name) ==
    /\ Found(Dir(w), name)
    /\ node[Child(Dir(w), name)].state = 1
    /\ Store(RemoveFile(fs, Child(Dir(w), name), name))

sac_rmdir(w, name) ==
    /\ Found(Dir(w), name)
    /\ node[Child(Dir(w), name)].state = 2
    /\ node[Child(Dir(w), name)].file_size = 0
    /\ Store(RemoveDir(fs, Child(Dir(w), name), name))

sac_write(w, name, end) ==
    /\ Found(Dir(w), name)
    /\ node[Child(Dir(w), name)].state = 1
    /\ Store(WriteFile(fs, Child(Dir(w), name), end))

sac_truncate(w, name, length) ==
    /\ Found(Dir(w), name)
    /\ node[Child(Dir(w), name)].state = 1
    /\ Store(TruncateFile(fs, Child(Dir(w), name), length))

\* External: the renames the kernel sends.  It has looked both names up, does
\* not move a directory under itself, and replaces a target only by a
\* different node of the same kind that is not one of its ancestors.
VfsAllows(w, name, v, newName) ==
    LET c == Child(Dir(w), name)
        t == Child(Dir(v), newName)
    IN  /\ Found(Dir(w), name)
        /\ \A i \in 1 .. Len(v) : v[i] # c
        /\ Found(Dir(v), newName) =>
              /\ t # c
              /\ node[t].state = node[c].state
              /\ \A i \in 1 .. Len(w) : w[i] # t

sac_rename(w, name, v, newName) ==
    /\ VfsAllows(w, name, v, newName)
    /\ Store(MoveEntry(fs, Dir(w), name, Dir(v), newName))

\* A scan that finds nothing (sac_readdir, or sac_stat of a missing name)
\* runs past the last entry of a full directory.
sac_readdir(w) ==
    Store(IF node[Dir(w)].file_size >= DIR_ENTRIES THEN Wild(fs) ELSE fs)

\* format_disk writes the bitmap and the root and nothing else.
create_root_dir ==
    [state |-> 2, parent_block |-> 0, file_size |-> 0, indirect_pointer_block |-> 0]

Init ==
    /\ bitmap = create_default_bitmap
    /\ bitmap_blocks = create_default_bitmap
    /\ node \in {f \in [NodeNum -> UrandomNode \cup {create_root_dir}] :
                    /\ f[0] = create_root_dir
                    /\ \A n \in NodeNum \ {0} : f[n] \in UrandomNode}
    /\ block \in [DataBlock -> [Slot -> UrandomEntry]]
    /\ server = "up"

\* A formatted disk on which every unwritten node held u, every entry e.
format_disk(u, e) ==
    [bitmap |-> create_default_bitmap,
     node   |-> [n \in NodeNum |-> IF n = 0 THEN create_root_dir ELSE u],
     block  |-> [q \in DataBlock |-> [i \in Slot |-> e]],
     server |-> "up"]

Next ==
    /\ Up
    /\ \E w \in search_path(fs) :
        \/ sac_readdir(w)
        \/ \E name \in Name :
              \/ sac_open(w, name)
              \/ sac_mkdir(w, name)
              \/ sac_remove(w, name)
              \/ sac_rmdir(w, name)
              \/ \E end \in FileSize : sac_write(w, name, end)
              \/ \E length \in FileSize \cup {0} : sac_truncate(w, name, length)
              \/ \E v \in search_path(fs), newName \in Name :
                    sac_rename(w, name, v, newName)

Spec == Init /\ [][Next]_vars

\* main after a stop: the node table and the data blocks are mapped from the
\* disk, the bitmap is loaded from its blocks.  server_init never returns,
\* so unmap_bitmap, after it in main, has not stored the one in memory.
load_bitmap ==
    /\ server # "wild"
    /\ bitmap' = bitmap_blocks
    /\ server' = "up"
    /\ UNCHANGED <<bitmap_blocks, node, block>>

SpecRestart == Init /\ [][Next \/ load_bitmap]_vars

-----------------------------------------------------------------------------
(***************************************************************************)
(* What makes the tree correct.                                            *)
(***************************************************************************)
Live(k, n)  == get_block_num_from_node_num(n) \in k.bitmap
IsDir(k, d) == Live(k, d) /\ k.node[d].state = 2

Entry(k, d, i) == k.block[DataOf(k, k.node[d])][i]

\* Every variable keeps its type.
TypeOK ==
    /\ bitmap \in SUBSET Block
    /\ bitmap_blocks \in SUBSET Block
    /\ node \in [NodeNum -> t_node]
    /\ block \in [DataBlock -> [Slot -> t_dir_entry]]
    /\ server \in {"up", "exit", "wild"}

\* Every entry of a directory names a live node other than the root whose
\* parent_block leads back to the directory.
EntriesNameChildren(k) ==
    \A d \in NodeNum : IsDir(k, d) =>
        \A i \in Places(k.node[d]) :
            LET e == Entry(k, d, i)
            IN  /\ e.name \in Name
                /\ e.node_num \in NodeNum \ {0}
                /\ Live(k, e.node_num)
                /\ k.node[e.node_num].parent_block = get_block_num_from_node_num(d)

\* Every live node but the root is named by exactly one entry.
NamedOnce(k, n) ==
    \E d \in NodeNum :
        /\ IsDir(k, d)
        /\ \E i \in Places(k.node[d]) :
              /\ Entry(k, d, i).node_num = n
              /\ \A j \in Places(k.node[d]) : Entry(k, d, j).node_num = n => j = i

\* The directories form a consistent tree: what sac_open and sac_mkdir link,
\* sac_remove, sac_rmdir and sac_rename unlink or relink completely, also
\* when the node, its blocks or its parent's blocks were used before.
TreeIntegrity ==
    Up => /\ EntriesNameChildren(fs)
          /\ \A n \in NodeNum \ {0} : Live(fs, n) => NamedOnce(fs, n)

\* exit(-1) in the middle of a request, once its node is taken or its old
\* entry is gone: what stays on the disk is a tree as before, but for at most
\* one object that no directory names, the one being created or moved.
HalfDoneLosesOneObject ==
    server = "exit" =>
        /\ EntriesNameChildren(fs)
        /\ \E lost \in NodeNum : \A n \in NodeNum \ {0, lost} : Live(fs, n) => NamedOnce(fs, n)

\* No node hangs from itself: every non-empty set of live nodes without the
\* root has one whose parent is outside.  Holds because sac_rename is never
\* sent for a directory into its own subtree.
Rooted ==
    Up => \A S \in (SUBSET {n \in NodeNum \ {0} : Live(fs, n)}) \ {{}} :
            \E n \in S : ParentOf(node[n]) \notin S

\* The blocks of live nodes are reserved in the bitmap, two per node, and
\* shared by no two nodes, whatever was freed, forgotten and handed out again.
BlockOwnership ==
    Up => \A n \in NodeNum : Live(fs, n) =>
        /\ node[n].indirect_pointer_block = 0 <=> node[n].file_size = 0
        /\ node[n].indirect_pointer_block # 0 =>
              /\ BlocksOf(fs, node[n]) \subseteq DataBlock \cap bitmap
              /\ node[n].indirect_pointer_block # DataOf(fs, node[n])
        /\ \A m \in NodeNum \ {n} : Live(fs, m) =>
              BlocksOf(fs, node[n]) \cap BlocksOf(fs, node[m]) = {}

\* No operation follows a block pointer that was never written: a directory
\* never holds so many entries that a scan leaves its only data block.
NoWildPointer == server # "wild"

\* Names are unique in their directory.
UniqueNames(k) ==
    \A d \in NodeNum : IsDir(k, d) =>
        \A i, j \in Places(k.node[d]) :
            Entry(k, d, i).name = Entry(k, d, j).name => i = j

\* sac_open and sac_mkdir check for "otro archivo con el mismo nombre" first:
\* no directory holds a name twice.
NamesAreUnique == Up => UniqueNames(fs)

\* A rename onto a name that is taken.
RenameOnto ==
    \E w, v \in search_path(fs), name, newName \in Name :
        Found(Dir(v), newName) /\ sac_rename(w, name, v, newName)

\* Only a rename onto a taken name makes a name ambiguous; sac_open,
\* sac_mkdir and every other rename keep names unique.
OnlyRenameDuplicates ==
    [][UniqueNames(fs) /\ server' = "up" => UniqueNames(fs)' \/ RenameOnto]_vars

\* The server gives up for want of blocks only when live nodes hold all the
\* nodes, or all the data blocks but at most one.
ExitOnlyWhenFull ==
    LET live == {n \in NodeNum : Live(fs, n)}
    IN  server = "exit" =>
          \/ live = NodeNum
          \/ Cardinality(DataBlock \ UNION {BlocksOf(fs, node[n]) : n \in live}) < 2

\* The bitmap tells which blocks are occupied: no node that an entry names is
\* handed out to a second entry, also not after the server has restarted.
NodesNotShared ==
    Up => \A w, v \in search_path(fs) :
            \A i \in Places(node[Dir(w)]), j \in Places(node[Dir(v)]) :
               Entry(fs, Dir(w), i).node_num = Entry(fs, Dir(v), j).node_num
                  => Dir(w) = Dir(v) /\ i = j

\* The tree as the clients see it.
NoObject == [kind |-> "none"]

NameOf(n) ==
    LET d == ParentOf(node[n])
        i == CHOOSE i \in Places(node[d]) : Entry(fs, d, i).node_num = n
    IN  Entry(fs, d, i).name

Abstract ==
    [n \in NodeNum |->
        IF ~Up \/ ~Live(fs, n) THEN NoObject
        ELSE [kind |-> IF node[n].state = 2 THEN "dir" ELSE "file",
              dir  |-> IF n = 0 THEN 0 ELSE ParentOf(node[n]),
              name |-> IF n = 0 THEN NoObject ELSE NameOf(n)]]

N == INSTANCE Namespace WITH Object <- NodeNum, Root <- 0, None <- NoObject,
                             tree <- Abstract, up <- Up

\* The disk operations implement the abstract name space: each one creates,
\* deletes or moves one object and leaves the others alone.
ImplementsNamespace == N!Spec
=============================================================================
