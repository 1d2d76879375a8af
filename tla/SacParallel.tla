---------------------------- MODULE SacParallel ----------------------------
(***************************************************************************)
(* Requests that the connection threads of the server run in parallel on   *)
(* the disk.  SacTree takes a request as one step; here it is the row of   *)
(* reads and writes that sacio.c, directory.c, node.c and bitmap.c make of *)
(* it, each on a private copy of a node, without any lock: read_node copies *)
(* a node, unmap_and_destroy_node writes the copy back, also when nothing  *)
(* in it has changed.                                                      *)
(*                                                                         *)
(* A step touches one node, one data block or one byte of the bitmap; a    *)
(* node that is read while it is written is not torn.                      *)
(***************************************************************************)
EXTENDS SacTree

CONSTANTS
    Thread,
    Disks,         \* disks that earlier requests may have left
    OVERLAP,       \* which requests run at the same time, see Together
    MAX_REQUESTS   \* bound: requests of all threads

VARIABLES
    thread,      \* what each thread has in its local variables
    expected,    \* history: what the answered requests have made of a path
    lies,        \* history: the requests with a wrong answer
    requests     \* requests so far

parallelVars == <<vars, thread, expected, lies, requests>>

Path == UNION {[1 .. l -> Name] : l \in 0 .. MAX_DEPTH + 1}

Request ==
    [op : {"stat", "readdir", "read", "open", "mkdir", "remove", "rmdir"},
     path : Path, to : {<<>>}, end : {0}]
    \cup [op : {"write"},    path : Path, to : {<<>>}, end : FileSize]
    \cup [op : {"truncate"}, path : Path, to : {<<>>}, end : FileSize \cup {0}]
    \cup [op : {"rename"},   path : Path, to : Path,   end : {0}]

ASSUME ParallelAssumption ==
    /\ \A k \in Disks : /\ k.bitmap \subseteq Block
                         /\ k.node \in [NodeNum -> t_node]
                         /\ k.block \in [DataBlock -> [Slot -> t_dir_entry]]
                         /\ k.server = "up"
    /\ OVERLAP \in {"disjoint", "mount"}
    /\ MAX_REQUESTS \in Nat

Folder(path) == SubSeq(path, 1, Len(path) - 1)
NameIn(path) == path[Len(path)]
Under(q, path) == Len(q) >= Len(path) /\ SubSeq(q, 1, Len(path)) = path

-----------------------------------------------------------------------------
(***************************************************************************)
(* What clients have been told of a path, and what the disk has there.     *)
(***************************************************************************)
Absent == [state |-> 0, size |-> 0]
None   == -1

\* The places of a name in the directory's only data block.
Hits(k, nd, name) ==
    {i \in Places(nd) \cap Slot :
        /\ nd.indirect_pointer_block \in DataBlock
        /\ DataOf(k, nd) \in DataBlock
        /\ k.block[DataOf(k, nd)][i].name = name}

\* The nodes that a path leads through on disk k, None where it ends.
Lookup(k, path) ==
    LET Leads(n, name) ==
            LET hits == Hits(k, k.node[n], name)
            IN  IF hits = {} THEN None ELSE k.block[DataOf(k, k.node[n])][Least(hits)].node_num
        at[i \in 0 .. Len(path)] ==
            IF i = 0 THEN 0
            ELSE IF at[i - 1] \in NodeNum THEN Leads(at[i - 1], path[i]) ELSE None
    IN  at

NodeAt(k, path) == Lookup(k, path)[Len(path)]

\* The attributes of a node that clients see; a directory's size is not one.
Attributes(nd) ==
    [state |-> nd.state, size |-> IF nd.state = 1 THEN nd.file_size ELSE 0]

OnDisk(k, path) ==
    LET n == NodeAt(k, path)
    IN  IF n \in NodeNum THEN Attributes(k.node[n]) ELSE Absent

Children(e, path) ==
    {name \in Name : Append(path, name) \in Path /\ e[Append(path, name)] # Absent}

Succeeds(r, e) ==
    LET old == e[r.path]
    IN  CASE r.op = "stat"    -> old # Absent
          [] r.op = "readdir" -> old.state = 2
          [] r.op = "read"    -> old.size > 0
          [] r.op = "mkdir"   -> old = Absent
          [] r.op \in {"remove", "truncate"} -> old.state = 1
          [] r.op = "rmdir"   -> old.state = 2 /\ Children(e, r.path) = {}
          [] OTHER            -> TRUE

\* What a request that succeeds makes of the paths.
Result(r, e) ==
    LET old == e[r.path]
    IN  CASE r.op \in {"stat", "readdir", "read"} -> e
          [] r.op = "open"     -> IF old # Absent THEN e
                                  ELSE [e EXCEPT ![r.path] = [state |-> 1, size |-> 0]]
          [] r.op = "mkdir"    -> [e EXCEPT ![r.path] = [state |-> 2, size |-> 0]]
          [] r.op \in {"remove", "rmdir"} -> [e EXCEPT ![r.path] = Absent]
          [] r.op = "write"    -> [e EXCEPT ![r.path].size = IF r.end > @ THEN r.end ELSE @]
          [] r.op = "truncate" -> [e EXCEPT ![r.path].size = r.end]
          [] r.op = "rename"   ->
                [q \in Path |->
                    LET p == r.path \o SubSeq(q, Len(r.to) + 1, Len(q))
                    IN  IF Under(q, r.to) THEN IF p \in Path THEN e[p] ELSE Absent
                        ELSE IF Under(q, r.path) THEN Absent ELSE e[q]]

-----------------------------------------------------------------------------
(***************************************************************************)
(* The local variables of a request.                                       *)
(***************************************************************************)
NoNode == [state |-> 0, parent_block |-> 0, file_size |-> 0, indirect_pointer_block |-> 0]

Idle ==
    [todo  |-> <<>>,       \* the steps that are left
     req   |-> [op |-> "none", path |-> <<>>, to |-> <<>>, end |-> 0],
     call  |-> "none",     \* what the next node that is read is for
     names |-> <<>>,       \* the components search_path has not found yet
     next  |-> 0,          \* the node that is read next
     own   |-> 0, copy |-> NoNode,   \* the node read last and its copy
     n     |-> 0, file |-> NoNode,   \* the node of the path and its copy
     new   |-> 0,          \* the node of the entry that is added
     bit   |-> 0, byte |-> {},       \* a block, and its byte of the bitmap
     data  |-> 0, place |-> 0,       \* a data block and an entry in it
     from  |-> 0, into |-> 0,        \* sac_rename's directories
     list  |-> <<>>, at |-> 0,       \* sac_rmdir's list of nodes
     ok    |-> TRUE, seen |-> Absent, listed |-> {},   \* the answer
     uses  |-> [copies |-> {}, alters |-> {}, reserves |-> FALSE]]  \* see Together

Doing(t, step) == thread[t].todo # <<>> /\ Head(thread[t].todo) = step
Busy == {t \in Thread : thread[t].todo # <<>>}

\* An open file goes with the directory that rename r has moved.
Followed(l, r) ==
    IF l.req.op \in {"read", "write"} /\ r.op = "rename" /\ Under(l.req.path, r.path)
      THEN [l EXCEPT !.req.path = r.to \o SubSeq(@, Len(r.path) + 1, Len(@))]
    ELSE l

\* Thread t goes on with the local variables l.  After its last step it has
\* answered.
Goes(t, l) ==
    LET r    == l.req
        fits == /\ l.ok = Succeeds(r, expected)
                /\ l.ok /\ r.op \in {"stat", "read"} => l.seen = expected[r.path]
                /\ l.ok /\ r.op = "readdir" => l.listed = Children(expected, r.path)
    IN  IF l.todo # <<>>
          THEN thread' = [thread EXCEPT ![t] = l] /\ UNCHANGED <<expected, lies>>
        ELSE /\ thread' = [u \in Thread |-> IF u = t THEN Idle ELSE Followed(thread[u], r)]
             /\ expected' = IF Succeeds(r, expected) THEN Result(r, expected) ELSE expected
             /\ lies' = IF fits THEN lies ELSE lies \cup {r}

Done(t) == [thread[t] EXCEPT !.todo = Tail(@)]

-----------------------------------------------------------------------------
(***************************************************************************)
(* Nodes and directories.                                                  *)
(***************************************************************************)

\* Mutant: the pointer block is looked for last.
MutBlocks(nd) ==
    IF nd.indirect_pointer_block # 0 THEN <<>>
    ELSE <<"find_data", "set", "link", "find_pointers", "set">>

\* The steps of reserving a pointer and a data block for a node without.
Blocks(nd) ==
    IF nd.indirect_pointer_block # 0 THEN <<>>
    ELSE <<"find_pointers", "set", "find_data", "set", "link">>

\* The steps of giving the blocks of a file back.
Release(nd) ==
    IF nd.indirect_pointer_block = 0 THEN <<>>
    ELSE <<"look_data", "clear", "look_pointers", "clear">>

\* create_and_save_file_node saves the node a second time.
Creation(op, nd) ==
    <<"find_node", "set", "save">> \o Blocks(nd)
    \o (IF op = "mkdir" THEN <<"enter", "back">> ELSE <<"enter", "save", "back">>)

Refuse(l) == [l EXCEPT !.ok = FALSE, !.todo = <<"back">>]

\* delete_parent_entry after the three looks of sac_rmdir at its directory:
\* is_directory, which writes no copy back, the size, and the parent.
Rmdir(l, nd) ==
    CASE l.call = "rmdir" ->
            IF nd.state # 2 THEN [l EXCEPT !.ok = FALSE]
            ELSE [l EXCEPT !.call = "empty", !.todo = <<"read">>]
      [] l.call = "empty" ->
            IF nd.file_size > 0 THEN Refuse(l)
            ELSE [l EXCEPT !.call = "parent", !.todo = <<"read">>]
      [] l.call = "parent" ->
            [l EXCEPT !.n = l.own, !.file = nd, !.next = ParentOf(nd), !.list = <<l.own>>,
                      !.call = "unlink", !.todo = <<"read">>]
      [] l.call = "unlink" ->
            [l EXCEPT !.next = l.n, !.call = "gather", !.at = 1,
                      !.todo = <<"scan_parent", "back_file", "back", "read">>]

\* The loops of sac_rmdir: the entries of each node in the list are added to
\* it, then delete_all_directory_entries and delete_node of each.
RmdirList(l, nd) ==
    CASE l.call = "gather" -> [l EXCEPT !.todo = <<"list", "back", "read">>]
      [] l.call = "delete" ->
            [l EXCEPT !.file = nd, !.call = "erase",
                      !.todo = (IF nd.indirect_pointer_block = 0 THEN <<>>
                                ELSE <<"look_pointers", "clear">>) \o <<"back", "read">>]
      [] l.call = "erase" ->
            LET more == l.at < Len(l.list)
            IN  [l EXCEPT !.n = l.own, !.copy.state = 0, !.call = "delete", !.at = @ + 1,
                          !.next = IF more THEN l.list[l.at + 1] ELSE @,
                          !.todo = <<"back", "look_node", "clear">>
                                   \o (IF more THEN <<"read">> ELSE <<>>)]

\* sac_truncate; a longer file is written after sac_open has found it again.
Truncate(l, nd) ==
    LET end == l.req.end
    IN  IF nd.state # 1 THEN Refuse(l)
        ELSE IF end > nd.file_size
          THEN [l EXCEPT !.call = "reopen", !.names = l.req.path, !.next = 0, !.todo = <<"read">>]
        ELSE IF end = 0 /\ nd.file_size > 0
          THEN [l EXCEPT !.file = nd, !.copy.file_size = 0, !.copy.indirect_pointer_block = 0,
                         !.todo = Release(nd) \o <<"back">>]
        ELSE [l EXCEPT !.copy.file_size = end, !.todo = <<"back">>]

\* The three nodes of sac_rename: the old directory, the new one, the file.
Rename(l, nd) ==
    CASE l.call = "get"   ->
            [l EXCEPT !.call = "add", !.todo = <<"get", "scan_parent", "back", "read">>]
      [] l.call = "add"   ->
            [l EXCEPT !.next = l.n, !.call = "adopt", !.todo = Blocks(nd) \o <<"enter", "back", "read">>]
      [] l.call = "adopt" ->
            [l EXCEPT !.copy.parent_block = get_block_num_from_node_num(l.into), !.todo = <<"back">>]

\* What a request does with the node it has read.
Continue(l, nd) ==
    CASE l.names # <<>>     -> [l EXCEPT !.todo = <<"scan">>]
      [] l.names = <<>> /\ l.call = "stat" ->
            [l EXCEPT !.ok = nd.state # 0, !.seen = Attributes(nd), !.todo = <<"back">>]
      [] l.names = <<>> /\ l.call = "readdir" ->
            IF nd.state # 2 THEN Refuse(l) ELSE [l EXCEPT !.todo = <<"list", "back">>]
      [] l.names = <<>> /\ l.call = "read" ->
            IF nd.state # 1 \/ nd.indirect_pointer_block = 0 THEN Refuse(l)
            ELSE [l EXCEPT !.seen = Attributes(nd), !.todo = <<"fetch", "back">>]
      [] l.names = <<>> /\ l.call = "write" ->
            [l EXCEPT !.todo = Blocks(nd) \o <<"write", "back">>]
      [] l.names = <<>> /\ l.call = "remove" ->
            IF nd.state # 1 THEN Refuse(l)
            ELSE [l EXCEPT !.n = l.own, !.file = [nd EXCEPT !.state = 0], !.next = ParentOf(nd),
                           !.todo = Release(nd) \o <<"read", "scan_parent", "back",
                                                     "back_file", "look_node", "clear">>]
      [] l.names = <<>> /\ l.call = "truncate" -> Truncate(l, nd)
      [] l.names = <<>> /\ l.call \in {"rmdir", "empty", "parent", "unlink"} -> Rmdir(l, nd)
      [] l.names = <<>> /\ l.call \in {"gather", "delete", "erase"} -> RmdirList(l, nd)
      [] l.names = <<>> /\ l.call \in {"get", "add", "adopt"} -> Rename(l, nd)

\* read_node.
ReadNode(t) ==
    /\ Doing(t, "read")
    /\ LET n == thread[t].next
       IN  IF n \notin NodeNum THEN Store(Wild(fs)) /\ Goes(t, thread[t])
           ELSE LET l == [Done(t) EXCEPT !.own = n, !.copy = node[n]]
                IN  /\ Goes(t, IF l.todo # <<>> THEN l ELSE Continue(l, node[n]))
                    /\ UNCHANGED vars

\* search_path of sac_rename has found directory n, or None.
Resolved(l, n) ==
    LET m == [l EXCEPT !.from = n, !.call = "into", !.names = Folder(l.req.to), !.next = 0]
    IN  IF l.call = "from" /\ m.names # <<>> THEN [m EXCEPT !.todo = @ \o <<"read">>]
        ELSE LET k == IF l.call = "from" THEN [m EXCEPT !.into = 0] ELSE [l EXCEPT !.into = n]
             IN  IF k.from = None \/ k.into = None THEN [k EXCEPT !.ok = FALSE]
                 ELSE [k EXCEPT !.call = "get", !.names = <<>>, !.next = k.from,
                                !.todo = @ \o <<"read">>]

\* A scan leaves the directory's only data block, or follows no pointer.
Strays(nd, found) ==
    /\ nd.state # 0 /\ nd.indirect_pointer_block # 0
    /\ \/ nd.indirect_pointer_block \notin DataBlock
       \/ DataOf(fs, nd) \notin DataBlock
       \/ nd.file_size >= DIR_ENTRIES /\ ~found

\* A component of a path has been looked up.  sac_open, also the one within
\* sac_truncate, and sac_mkdir look the last one up in the directory
\* themselves.  A missing directory makes sac_open return -1, which
\* sac_truncate uses as a node.
Scanned(l, found, n) ==
    LET last  == Len(l.names) = 1
        rest  == [l EXCEPT !.names = Tail(@), !.next = n, !.todo = <<"back", "read">>]
    IN  IF l.call \in {"from", "into"} /\ (last \/ ~found)
          THEN Resolved(l, n)
        ELSE IF l.call \in {"open", "mkdir"} /\ last
          THEN IF found THEN [l EXCEPT !.ok = l.call = "open"]
               ELSE [l EXCEPT !.todo = Creation(l.call, l.copy)]
        ELSE IF l.call = "reopen" /\ last
          THEN IF found THEN [rest EXCEPT !.call = "write"]
               ELSE [l EXCEPT !.names = <<>>, !.call = "write",
                              !.todo = Creation("open", l.copy) \o <<"read">>]
        ELSE IF found \/ l.call = "reopen" THEN rest
        ELSE Refuse(l)

\* get_entry, in search_path or before a creation.  sac_readdir reads a node
\* whose number it has not got when its path is missing.
ScanFolder(t) ==
    /\ Doing(t, "scan")
    /\ LET l     == thread[t]
           hits  == Hits(fs, l.copy, Head(l.names))
           found == hits # {}
           n     == IF found THEN fs.block[DataOf(fs, l.copy)][Least(hits)].node_num
                    ELSE None
       IN  IF Strays(l.copy, found) \/ (l.call = "readdir" /\ ~found)
             THEN Store(Wild(fs)) /\ Goes(t, l)
           ELSE /\ Goes(t, Scanned([l EXCEPT !.todo = <<"back">>], found, n))
                /\ UNCHANGED vars

\* Mutant: the copy is not written back.
MutNoWriteBack(t) ==
    /\ Doing(t, "back")
    /\ Goes(t, Done(t))
    /\ UNCHANGED vars

\* unmap_and_destroy_node.
WriteBack(t) ==
    /\ Doing(t, "back")
    /\ Store([fs EXCEPT !.node[thread[t].own] = thread[t].copy])
    /\ Goes(t, Done(t))

\* The same of the copy kept apart; sac_remove frees the node before its bit.
WriteBackFile(t) ==
    /\ Doing(t, "back_file")
    /\ Store([fs EXCEPT !.node[thread[t].n] = thread[t].file])
    /\ Goes(t, Done(t))

\* node_to_block of the new node.
SaveNode(t) ==
    /\ Doing(t, "save")
    /\ LET l == thread[t]
       IN  /\ Store([fs EXCEPT !.node[l.new] =
                        create_node(IF l.req.op = "mkdir" THEN 2 ELSE 1, l.own)])
           /\ Goes(t, Done(t))

\* The rest of add_directory_entry.
WriteEntry(t) ==
    /\ Doing(t, "enter")
    /\ LET l == thread[t]
           q == IF l.data # 0 THEN l.data ELSE DataOf(fs, l.copy)
           i == l.copy.file_size
           path == IF l.req.op = "rename" THEN l.req.to ELSE l.req.path
       IN  IF i >= DIR_ENTRIES \/ q \notin DataBlock
             THEN Store(Wild(fs)) /\ Goes(t, l)
           ELSE /\ Store([fs EXCEPT !.block[q][i] =
                             [node_num |-> l.new, name |-> NameIn(path)]])
                /\ Goes(t, [Done(t) EXCEPT !.copy.file_size = i + 1])

\* iterate_pointers_blocks with a function that takes every entry.
ListEntries(t) ==
    /\ Doing(t, "list")
    /\ LET l    == thread[t]
           nd   == l.copy
           q    == DataOf(fs, nd)
           list == l.list \o [i \in 1 .. Cardinality(Places(nd)) |-> fs.block[q][i - 1].node_num]
           more == l.at < Len(list)
       IN  IF Strays(nd, FALSE) THEN Store(Wild(fs)) /\ Goes(t, l)
           ELSE /\ Goes(t,
                     IF l.call = "readdir"
                       THEN [Done(t) EXCEPT !.listed = {fs.block[q][i].name : i \in Places(nd)}]
                     ELSE [Done(t) EXCEPT !.list = list,
                                          !.call = IF more THEN @ ELSE "delete",
                                          !.at = IF more THEN @ + 1 ELSE 1,
                                          !.next = list[IF more THEN l.at + 1 ELSE 1]])
                /\ UNCHANGED vars

-----------------------------------------------------------------------------
(***************************************************************************)
(* The bitmap: a set bit is looked for first, and the byte it lies in is   *)
(* read, changed and written.                                              *)
(***************************************************************************)
ByteOf(b) == {c \in Block : c \div 8 = b \div 8}

\* Nothing reads the byte between the look at its bit and the reading.
Look(l, b) == [l EXCEPT !.bit = b, !.byte = bitmap \cap ByteOf(b)]

FindFree(t, step, region) ==
    /\ Doing(t, step)
    /\ LET b == get_free_block(bitmap, region)
           l == Look(Done(t), b)
       IN  IF FreeBlocks(bitmap, region) = {} THEN Store(Exit(fs)) /\ Goes(t, thread[t])
           ELSE /\ Goes(t, CASE step = "find_node" ->
                                  [l EXCEPT !.new = b - NODE_TABLE_INITIAL_BLOCK,
                                            !.next = b - NODE_TABLE_INITIAL_BLOCK]
                             [] step = "find_pointers" ->
                                  [l EXCEPT !.copy.indirect_pointer_block = b]
                             [] OTHER -> [l EXCEPT !.data = b])
                /\ UNCHANGED vars

\* Mutant: the bit found is not set.
MutSetNothing(t) == Doing(t, "set") /\ Goes(t, Done(t)) /\ UNCHANGED vars

\* bitarray_set_bit.
SetBit(t) ==
    /\ Doing(t, "set")
    /\ LET l == thread[t]
       IN  Store([fs EXCEPT !.bitmap = (@ \ ByteOf(l.bit)) \cup l.byte \cup {l.bit}])
    /\ Goes(t, Done(t))

\* The rest of create_data_block_in_pointer_block.
LinkData(t) ==
    /\ Doing(t, "link")
    /\ LET l == thread[t]
       IN  Store([fs EXCEPT !.block[l.copy.indirect_pointer_block][0].node_num = l.data])
    /\ Goes(t, Done(t))

\* The blocks whose bits are cleared.
LookAt(t, step, b) ==
    /\ Doing(t, step)
    /\ IF b \notin Block THEN Store(Wild(fs)) /\ Goes(t, thread[t])
       ELSE Goes(t, Look(Done(t), b)) /\ UNCHANGED vars

\* bitarray_clean_bit.
ClearBit(t) ==
    /\ Doing(t, "clear")
    /\ LET l == thread[t]
       IN  Store([fs EXCEPT !.bitmap = (@ \ ByteOf(l.bit)) \cup (l.byte \ {l.bit})])
    /\ Goes(t, Done(t))

-----------------------------------------------------------------------------
(***************************************************************************)
(* The removal of an entry; the contents of files.                         *)
(***************************************************************************)

\* get_entry of sac_rename.  Of a missing entry it takes an uninitialised
\* node number.
GetEntry(t) ==
    /\ Doing(t, "get")
    /\ LET l     == thread[t]
           hits  == Hits(fs, l.copy, NameIn(l.req.path))
           found == hits # {}
           n     == fs.block[DataOf(fs, l.copy)][Least(hits)].node_num
       IN  IF Strays(l.copy, found) \/ ~found THEN Store(Wild(fs)) /\ Goes(t, l)
           ELSE /\ Goes(t, [Done(t) EXCEPT !.n = n, !.new = n, !.next = l.into])
                /\ UNCHANGED vars

\* delete_directory_entry up to the place of the entry.
ScanParent(t) ==
    /\ Doing(t, "scan_parent")
    /\ LET l     == thread[t]
           hits  == Hits(fs, l.copy, NameIn(l.req.path))
           found == hits # {}
       IN  IF Strays(l.copy, found) THEN Store(Wild(fs)) /\ Goes(t, l)
           ELSE /\ Goes(t,
                     IF ~found THEN Done(t)
                     ELSE [l EXCEPT !.todo = <<"move">> \o Tail(@),
                                    !.data = DataOf(fs, l.copy),
                                    !.place = Least(hits)])
                /\ UNCHANGED vars

\* Mutant: the size goes down twice.
MutMoveTwice(t) ==
    /\ Doing(t, "move")
    /\ LET l    == thread[t]
           size == l.copy.file_size - 2
       IN  /\ UNCHANGED vars
           /\ Goes(t, [Done(t) EXCEPT
                        !.copy.file_size = size,
                        !.copy.indirect_pointer_block = IF size = 0 THEN 0 ELSE @])

MoveEntries(t) ==
    /\ Doing(t, "move")
    /\ LET l    == thread[t]
           size == l.copy.file_size - 1
       IN  /\ Store([fs EXCEPT !.block[l.data] = [j \in Slot |->
                        IF j < l.place \/ j + 1 \notin Slot THEN @[j] ELSE @[j + 1]]])
           /\ Goes(t, [Done(t) EXCEPT
                        !.data = 0,
                        !.copy.file_size = size,
                        !.copy.indirect_pointer_block = IF size = 0 THEN 0 ELSE @])

\* Mutant: the size is that of the last write.
MutWriteShrinks(t) ==
    /\ Doing(t, "write")
    /\ Goes(t, [Done(t) EXCEPT !.copy.file_size = thread[t].req.end])
    /\ UNCHANGED vars

WriteData(t) ==
    /\ Doing(t, "write")
    /\ LET l == thread[t]
           q == DataOf(fs, l.copy)
       IN  IF q \notin DataBlock THEN Store(Wild(fs)) /\ Goes(t, l)
           ELSE /\ Store([fs EXCEPT !.block[q] =
                             [j \in Slot |-> IF j < l.req.end THEN Text ELSE @[j]]])
                /\ Goes(t, [Done(t) EXCEPT !.copy.file_size =
                                IF l.req.end > @ THEN l.req.end ELSE @])

\* The data block that sac_read reads.
FetchData(t) ==
    /\ Doing(t, "fetch")
    /\ IF DataOf(fs, thread[t].copy) \notin DataBlock THEN Store(Wild(fs)) /\ Goes(t, thread[t])
       ELSE Goes(t, Done(t)) /\ UNCHANGED vars

-----------------------------------------------------------------------------
(***************************************************************************)
(* Which requests come.                                                    *)
(***************************************************************************)

\* The nodes a request copies and writes back, those of them it changes, and
\* whether it may change the bitmap.
Along(path) == {Lookup(fs, path)[i] : i \in 0 .. Len(path)} \ {None}

Copies(r) ==
    CASE r.op \in {"open", "mkdir"} -> Along(Folder(r.path))
      [] r.op \in {"read", "write"} -> {NodeAt(fs, r.path)}
      [] r.op = "rename" -> Along(r.path) \cup Along(Folder(r.to))
      [] OTHER -> Along(r.path)

Alters(r) ==
    LET n == NodeAt(fs, r.path)
        d == NodeAt(fs, Folder(r.path))
    IN  CASE r.op \in {"write", "truncate"} -> {n}
          [] r.op \in {"remove", "rmdir"} /\ Succeeds(r, expected) -> {n, d}
          [] r.op \in {"open", "mkdir"} /\ expected[r.path] = Absent -> {d}
          [] r.op = "rename" -> {n, d, NodeAt(fs, Folder(r.to))}
          [] OTHER -> {}

Uses(r) ==
    [copies |-> Copies(r), alters |-> Alters(r),
     reserves |-> IF r.op = "write"
                    THEN node[NodeAt(fs, r.path)].indirect_pointer_block = 0
                    ELSE Alters(r) # {}]

\* The directories and files the kernel locks for a request.
Locks(r) ==
    CASE r.op \in {"open", "mkdir"} -> {Folder(r.path)}
      [] r.op \in {"remove", "rmdir"} -> {Folder(r.path), r.path}
      [] r.op = "rename" -> {Folder(r.path), r.path, Folder(r.to), r.to}
      [] r.op = "stat" -> {}
      [] OTHER -> {r.path}

\* disjoint: no request copies a node that another changes, and one at a
\* time changes the bitmap.  mount: what the kernel lets one mount do at the
\* same time; it locks a directory while it changes it, and a file while it
\* writes it.  (External.)
Together(r, t) ==
    LET s == thread[t].req
        u == Uses(r)
        v == thread[t].uses
    IN  IF OVERLAP = "disjoint"
      THEN /\ u.alters \cap v.copies = {} /\ v.alters \cap u.copies = {}
           /\ ~(u.reserves /\ v.reserves)
    ELSE /\ Locks(r) \cap Locks(s) = {}
         /\ r.path = s.path => r.op = "stat" /\ s.op = "stat"

\* External: clients go through directories, write files they have opened,
\* read what is there, and look a name up before they create or rename.  A
\* rename does not replace anything, leads nowhere below itself, and
\* (bound) no object deeper than the paths.  The node of an open file is
\* found by its path while no rename of a directory above is under way.
Asks(r) ==
    LET old == expected[r.path]
    IN  /\ r.path = <<>> => r.op \in {"stat", "readdir"}
        /\ Len(r.path) > 1 => expected[Folder(r.path)].state = 2
        /\ r.op \in {"read", "write", "truncate"} => old.state = 1 /\ NodeAt(fs, r.path) \in NodeNum
        /\ r.op \in {"read", "write"} =>
              \A s \in Busy : thread[s].req.op = "rename" => ~Under(r.path, thread[s].req.path)
        /\ r.op = "read" => old.size > 0
        /\ r.op = "readdir" => old.state = 2
        /\ r.op = "open" => old.state # 2
        /\ r.op = "rename" =>
              /\ old # Absent /\ r.to # <<>> /\ expected[r.to] = Absent
              /\ expected[Folder(r.to)].state = 2
              /\ ~Under(r.to, r.path)
              /\ Len(r.to) > Len(r.path) => Children(expected, r.path) = {}

Begin(t, r) ==
    /\ thread[t].todo = <<>>
    /\ requests < MAX_REQUESTS
    /\ Asks(r)
    /\ \A s \in Busy : Together(r, s)
    /\ requests' = requests + 1
    /\ thread' = [thread EXCEPT ![t] =
          LET l == [Idle EXCEPT !.req = r, !.uses = Uses(r), !.call = r.op, !.todo = <<"read">>]
              m == [l EXCEPT !.call = "from", !.names = Folder(r.path), !.todo = <<>>]
          IN  CASE r.op \in {"read", "write"} -> [l EXCEPT !.next = NodeAt(fs, r.path)]
                [] r.op = "rename" -> IF m.names = <<>> THEN Resolved(m, 0)
                                      ELSE [m EXCEPT !.todo = <<"read">>]
                [] OTHER -> [l EXCEPT !.names = r.path]]
    /\ UNCHANGED <<vars, expected, lies>>

ParallelInit ==
    /\ \E k \in Disks :
          /\ bitmap = k.bitmap /\ node = k.node /\ block = k.block
          /\ server = k.server
          /\ expected = [path \in Path |-> OnDisk(k, path)]
    /\ bitmap_blocks = create_default_bitmap
    /\ thread = [t \in Thread |-> Idle]
    /\ lies = {}
    /\ requests = 0

Works(t) ==
    \/ ReadNode(t) \/ ScanFolder(t) \/ WriteBack(t) \/ WriteBackFile(t)
    \/ SaveNode(t) \/ WriteEntry(t) \/ ListEntries(t)
    \/ FindFree(t, "find_node", NodeBlock)
    \/ FindFree(t, "find_pointers", DataBlock)
    \/ FindFree(t, "find_data", DataBlock)
    \/ SetBit(t) \/ LinkData(t)
    \/ LookAt(t, "look_data", DataOf(fs, thread[t].file))
    \/ LookAt(t, "look_pointers", thread[t].file.indirect_pointer_block)
    \/ LookAt(t, "look_node", get_block_num_from_node_num(thread[t].n))
    \/ ClearBit(t) \/ GetEntry(t) \/ ScanParent(t) \/ MoveEntries(t)
    \/ WriteData(t) \/ FetchData(t)

ParallelNext ==
    /\ Up
    /\ \E t \in Thread :
          \/ \E r \in Request : Begin(t, r)
          \/ Works(t) /\ UNCHANGED requests

ParallelSpec == ParallelInit /\ [][ParallelNext]_parallelVars

-----------------------------------------------------------------------------
(***************************************************************************)
(* What makes parallel requests correct.                                   *)
(***************************************************************************)

\* Every variable keeps its type.
ParallelTypeOK ==
    /\ bitmap \subseteq Block
    /\ server \in {"up", "exit", "wild"}
    /\ node \in [NodeNum -> t_node]
    /\ block \in [DataBlock -> [Slot -> t_dir_entry]]
    /\ \A t \in Thread : thread[t].copy \in t_node /\ thread[t].own \in NodeNum

\* Whatever the threads do to each other, none writes a node, a pointer, the
\* entries of a directory or the bit of a reservation outside the node table
\* and the data blocks: a number is checked or found before it is written
\* through.
WritesStayInTables ==
    \A t \in Thread :
        LET l == thread[t]
        IN  /\ Doing(t, "back_file") => l.n \in NodeNum
            /\ Doing(t, "save") => l.new \in NodeNum
            /\ Doing(t, "link") => l.copy.indirect_pointer_block \in DataBlock
            /\ Doing(t, "move") => l.data \in DataBlock
            /\ Doing(t, "set") => l.bit \in NodeBlock \cup DataBlock

\* Between requests the disk has exactly the files and directories, with the
\* sizes, that the answers have promised: no update of a node, an entry or a
\* bit is lost to another thread's copy.
NothingLost ==
    Up /\ Busy = {} => \A path \in Path : OnDisk(fs, path) = expected[path]

\* Between requests the tree is whole and no block belongs to two nodes, in
\* whatever order the reads and writes of the requests came.
WholeBetweenRequests == Busy = {} => TreeIntegrity /\ BlockOwnership

\* Every request is answered as if it had run alone at the end: sac_stat
\* with the attributes the path has been given, the others with success or
\* failure as the path was there or not.
AnswersAreTrue == lies = {}
=============================================================================
