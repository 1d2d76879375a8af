------------------------------ MODULE SacCalls ------------------------------
(***************************************************************************)
(* Calls of client programs end to end: the FUSE handlers and the          *)
(* connection of the client (sac-cli/src/fuse.c and client.c), the packages *)
(* of Wire, the server's connection thread (mtserver/src/server.c and      *)
(* fs_sac.c) and the disk of SacTree.  A client is a thread of the FUSE    *)
(* process: it has one call at a time and holds at most one open file.     *)
(* Everything lies in the root directory.                                  *)
(*                                                                         *)
(* A request is executed in one step: ThreadPool has what the connection   *)
(* threads share, SacParallel what requests in parallel do to the disk.    *)
(* TCP delivers every byte once and in order, as long as both ends live.   *)
(***************************************************************************)
EXTENDS SacTree, Wire

CONSTANTS
    Client,
    Spelling,     \* the bytes of each name
    First,        \* the name of a file that is there from the start
    SAME_MOUNT,   \* TRUE: all clients use one mount, FALSE: each has its own
    MAX_CALLS     \* bound: calls of all clients together

ASSUME CallsAssumption ==
    /\ Spelling \in [Name -> Seq(Byte \ {0, 47}) \ {<<>>}]
    /\ \A n, m \in Name : Spelling[n] = Spelling[m] => n = m
    /\ First \in Name
    /\ SAME_MOUNT \in BOOLEAN
    /\ MAX_CALLS \in Nat

VARIABLES
    client,     \* pc ("idle", "connected", "waiting", "exited"), the call
                \* and what its handler has returned
    fh,         \* fi->fh of the file a client has open
    to_server,  \* bytes on the way in the client's connection
    to_client,
    worker,     \* the connection thread: pc, function, answer
    want,       \* history: what the call should return, of which file, and
                \* whether it has read a file without blocks
    birth,      \* history: how many files and directories a node has been
    calls       \* calls so far

callVars == <<client, fh, to_server, to_client, worker, want, birth, calls>>
allVars == <<vars, callVars>>

-----------------------------------------------------------------------------
(***************************************************************************)
(* The handlers of fuse.c.                                                 *)
(***************************************************************************)
NoHandle == [fd |-> -1, birth |-> 0]

Path(name) == <<47>> \o Spelling[name]
RootPath   == <<47>>

\* The names in the order of their entries.
Listing(k, d) ==
    [i \in 1 .. k.node[d].file_size |-> Spelling[k.block[DataOf(k, k.node[d])][i - 1].name]]

Send(op, data1, data2, int1, int2, int3) ==
    [op |-> op, data1 |-> data1, data2 |-> data2,
     int1 |-> int1, int2 |-> int2, int3 |-> int3]

Buffer(count) == [i \in 1 .. count |-> (64 + i) % 256]

\* A call of the kernel: handler, names, size and offset.
Call(handler, name, new_name, size, offset) ==
    [handler |-> handler, name |-> name, new_name |-> new_name,
     size |-> size, offset |-> offset]

NoCall == Call("none", Junk, Junk, 0, 0)

\* O_RDWR|O_CREAT and O_CREAT|O_WRONLY|O_TRUNC; the server reads neither.
Flags == [open |-> 66, create |-> 577]

\* What each handler gives to send_function.
Request(h, fd) ==
    CASE h.handler \in {"open", "create"} ->
                Send("open", Path(h.name), <<>>, Flags[h.handler], 0, 0)
      [] h.handler = "read"     -> Send("read", <<>>, <<>>, fd, h.size, h.offset)
      [] h.handler = "write"    -> Send("write", Buffer(h.size), <<>>, fd, h.size, h.offset)
      [] h.handler = "release"  -> Send("close", <<>>, <<>>, fd, 0, 0)
      [] h.handler = "getattr"  -> Send("stat", Path(h.name), <<>>, 0, 0, 0)
      [] h.handler = "readdir"  -> Send("readdir", RootPath, <<>>, 0, 0, 0)
      [] h.handler = "unlink"   -> Send("remove", Path(h.name), <<>>, 0, 0, 0)
      [] h.handler = "mkdir"    -> Send("mkdir", Path(h.name), <<>>, 511, 0, 0)
      [] h.handler = "rmdir"    -> Send("rmdir", Path(h.name), <<>>, 0, 0, 0)
      [] h.handler = "truncate" -> Send("truncate", Path(h.name), <<>>, h.size, 0, 0)
      [] h.handler = "rename"   ->
                Send("rename", Path(h.name), Path(h.new_name), 0, 0, 0)

ENOENT == 2
EACCES == 13
ENOTEMPTY == 39

NoStat == [state |-> 0, ino |-> 0, size |-> 0]
Returns(res, st, names) == [res |-> res, st |-> st, names |-> names]

\* _correct_path: for other names some handlers return 0 at once.
AutorunInf == <<97, 117, 116, 111, 114, 117, 110, 46, 105, 110, 102>>
_correct_path(name) ==
    name \in Name => Spelling[name][1] # 46 /\ Spelling[name] # AutorunInf
ReturnsAtOnce(h) ==
    h.handler \in {"getattr", "open", "read", "release"} /\ ~_correct_path(h.name)

\* What each handler returns for the answer p.
Handled(h, p) ==
    LET id == p.message_id
    IN  CASE h.handler \in {"open", "create"} ->
                Returns(IF id < 0 THEN -EACCES ELSE 0, NoStat, <<>>)
          [] h.handler = "getattr" ->
                IF id = 0 THEN Returns(0, __fill_stat_from_buffer(p.data), <<>>)
                          ELSE Returns(-ENOENT, NoStat, <<>>)
          [] h.handler = "readdir" ->
                IF id < 0 THEN Returns(-ENOENT, NoStat, <<>>)
                          ELSE Returns(0, NoStat, EntriesOf(p))
          [] h.handler = "read" -> Returns(IF id = 0 THEN p.size ELSE id, NoStat, <<>>)
          [] h.handler = "rmdir" -> Returns(IF id = -2 THEN -ENOTEMPTY ELSE id, NoStat, <<>>)
          [] OTHER -> Returns(id, NoStat, <<>>)

-----------------------------------------------------------------------------
(***************************************************************************)
(* External: the calls the kernel and libfuse make.  They look a name up   *)
(* first and change the directory one call at a time; no call on a name    *)
(* overlaps its removal or renaming, and an open file is not removed.      *)
(* All this within one mount: another mount knows nothing of it.           *)
(***************************************************************************)
Together(c, d) == SAME_MOUNT \/ c = d

Pending(c) == client[c].pc \in {"connected", "waiting"}

ChangesDir(h) == h.handler \in {"create", "mkdir", "unlink", "rmdir", "rename"}
Takes(h)      == h.handler \in {"unlink", "rmdir", "rename"}
Uses(h)       == {h.name, h.new_name} \ {Junk}

Clash(h, g) ==
    \/ ChangesDir(h) /\ ChangesDir(g)
    \/ (Takes(h) \/ Takes(g)) /\ Uses(h) \cap Uses(g) # {}

Opened(c, name) == fh[c] # NoHandle /\ Found(0, name) /\ Child(0, name) = fh[c].fd

IsFile(name)      == Found(0, name) /\ node[Child(0, name)].state = 1
IsDirectory(name) == Found(0, name) /\ node[Child(0, name)].state = 2

\* The calls a client may make now.
PathCalls ==
    {Call("readdir", Junk, Junk, 0, 0)} \cup
    UNION {
        {Call("getattr", n, Junk, 0, 0)} \cup
        (IF Found(0, n) THEN {} ELSE {Call("create", n, Junk, 0, 0), Call("mkdir", n, Junk, 0, 0)}) \cup
        (IF IsFile(n)
           THEN {Call("open", n, Junk, 0, 0), Call("unlink", n, Junk, 0, 0)}
                \cup {Call("truncate", n, Junk, size, 0) : size \in FileSize \cup {0}}
           ELSE {}) \cup
        (IF IsDirectory(n) THEN {Call("rmdir", n, Junk, 0, 0)} ELSE {}) \cup
        {Call("rename", n, m, 0, 0) : m \in {m \in Name : VfsAllows(<<0>>, n, <<0>>, m)}} : n \in Name}

\* The name of the open file; Junk once another mount has removed it.
HandleName(c) ==
    IF \E n \in Name : Opened(c, n) THEN CHOOSE n \in Name : Opened(c, n) ELSE Junk

HandleCalls(c) ==
    LET n == HandleName(c)
    IN  IF fh[c] = NoHandle THEN {}
        ELSE {Call("release", n, Junk, 0, 0)} \cup
             {Call("read", n, Junk, size, 0) : size \in FileSize} \cup
             {Call("write", n, Junk, w[2] - w[1], w[1]) :
                  w \in {v \in (FileSize \cup {0}) \X FileSize : v[1] < v[2]}}

MayCall(c, h) ==
    /\ h.handler \in {"open", "create"} => fh[c] = NoHandle
    /\ \A d \in Client : Together(c, d) =>
          /\ Pending(d) => ~Clash(h, client[d].call)
          /\ h.handler = "unlink" => ~Opened(d, h.name)
          /\ h.handler = "rename" => ~Opened(d, h.new_name)

-----------------------------------------------------------------------------
(***************************************************************************)
(* The server: execute, and the functions of fs_sac.c.                     *)
(***************************************************************************)

\* The last name of a path, Junk if no name is spelled like that.
Named(path) ==
    LET spelled == {n \in Name : Path(n) = CString(path)}
    IN  IF spelled = {} THEN Junk ELSE CHOOSE n \in spelled : TRUE

IsRoot(path) == CString(path) = RootPath

\* What a request leaves on the disk, and its answer.
Done(k, id)     == [k |-> k, answer |-> create_default_package(id)]
Answered(p)     == [k |-> fs, answer |-> p]

\* Mutant: the number of the block instead of that of the node.
MutOpenBlock(path) ==
    LET name == Named(path)
        k    == CreateNode(fs, 0, name, 1)
    IN  IF Found(0, name) THEN Done(fs, Child(0, name))
        ELSE IF k.server # "up" THEN Done(k, 0)
        ELSE Done(k, get_free_node_block(bitmap))

\* Mutant: the place of the entry instead of the node it names.
MutOpenPlace(path) ==
    LET name == Named(path)
        k    == CreateNode(fs, 0, name, 1)
    IN  IF Found(0, name) THEN Done(fs, Least(Matches(fs, node[0], name)))
        ELSE IF k.server # "up" THEN Done(k, 0)
        ELSE Done(k, get_free_node_block(bitmap) - NODE_TABLE_INITIAL_BLOCK)

_sac_open(path) ==
    LET name == Named(path)
        k    == CreateNode(fs, 0, name, 1)
    IN  IF Found(0, name) THEN Done(fs, Child(0, name))
        ELSE IF k.server # "up" THEN Done(k, 0)
        ELSE Done(k, get_free_node_block(bitmap) - NODE_TABLE_INITIAL_BLOCK)

\* sac_close takes the node number for the number of a block.
_sac_close(fd) ==
    Done(fs, IF fd >= NODE_TABLE_INITIAL_BLOCK /\ fd <= DATA_INITIAL_BLOCK THEN 1 ELSE 0)

\* sac_write does not look at the state of the node.
_sac_write(fd, count, offset) ==
    IF fd \notin NodeNum THEN Done(Wild(fs), 0)
    ELSE LET k == WriteFile(fs, fd, offset + count)
             q == DataOf(k, k.node[fd])
             kept == {j \in Slot : j < offset /\ j < node[fd].file_size}
         IN  IF k.server # "up" THEN Done(k, 0)
             ELSE Done([k EXCEPT !.block[q] =
                          [j \in Slot |-> IF j \in kept THEN block[q][j] ELSE @[j]]], count)

\* sac_read's -1 for a node without blocks is larger than any count.
_sac_read(fd, count, offset) ==
    IF fd \notin NodeNum THEN Answered([message_id |-> 0, size |-> count, data |-> Copy(<<>>, 0, count)])
    ELSE LET nd == node[fd]
             left == nd.file_size - offset
             size == IF nd.state # 1 \/ nd.indirect_pointer_block = 0 THEN count
                     ELSE IF left <= 0 THEN 0
                     ELSE IF count > left THEN left ELSE count
         IN  Answered([message_id |-> 0, size |-> size, data |-> Copy(<<>>, 0, size)])

_sac_remove(path) ==
    IF IsFile(Named(path))
      THEN Done(RemoveFile(fs, Child(0, Named(path)), Named(path)), 0)
      ELSE Done(fs, -1)

_sac_mkdir(path) ==
    IF Found(0, Named(path)) THEN Done(fs, -1)
    ELSE Done(CreateNode(fs, 0, Named(path), 2), 0)

_sac_rmdir(path) ==
    IF ~IsDirectory(Named(path)) THEN Done(fs, -1)
    ELSE LET n == Child(0, Named(path))
         IN  IF node[n].file_size > 0 THEN Done(fs, -2)
             ELSE Done(RemoveDir(fs, n, Named(path)), 0)

StatOf(n) == [state |-> node[n].state, ino |-> n, size |-> node[n].file_size]

_sac_stat(path) ==
    IF IsRoot(path) THEN Answered(StatAnswer(StatOf(0)))
    ELSE IF ~Found(0, Named(path)) \/ node[Child(0, Named(path))].state = 0 THEN Done(fs, -1)
    ELSE Answered(StatAnswer(StatOf(Child(0, Named(path)))))

_sac_readdir(path) ==
    IF IsRoot(path) THEN Answered(ReaddirAnswer(Listing(fs, 0)))
    ELSE IF ~IsDirectory(Named(path)) THEN Done(fs, -1)
    ELSE Answered(ReaddirAnswer(Listing(fs, Child(0, Named(path)))))

\* sac_rename does not look whether the old entry was found: the number in
\* the new one is then whatever its memory held.
_sac_rename(old_path, new_path) ==
    IF ~Found(0, Named(old_path)) THEN Done(Wild(fs), 0)
    ELSE Done(MoveEntry(fs, 0, Named(old_path), 0, Named(new_path)), 0)

_sac_truncate(path, size) ==
    IF ~IsFile(Named(path)) THEN Done(fs, -1)
    ELSE Done(TruncateFile(fs, Child(0, Named(path)), IF size < 0 THEN 0 ELSE size), 0)

execute(f) ==
    CASE f.op = "open"     -> _sac_open(f.args[1])
      [] f.op = "close"    -> _sac_close(f.args[1])
      [] f.op = "write"    -> _sac_write(f.args[1], f.args[3], f.args[4])
      [] f.op = "read"     -> _sac_read(f.args[1], f.args[2], f.args[3])
      [] f.op = "remove"   -> _sac_remove(f.args[1])
      [] f.op = "mkdir"    -> _sac_mkdir(f.args[1])
      [] f.op = "rmdir"    -> _sac_rmdir(f.args[1])
      [] f.op = "stat"     -> _sac_stat(f.args[1])
      [] f.op = "readdir"  -> _sac_readdir(f.args[1])
      [] f.op = "rename"   -> _sac_rename(f.args[1], f.args[2])
      [] f.op = "truncate" -> _sac_truncate(f.args[1], f.args[2])

-----------------------------------------------------------------------------
(***************************************************************************)
(* The client's side of a call: send_function.                             *)
(***************************************************************************)
NoFunction == [op |-> "NULL", args |-> <<>>]
NoWorker   == [pc |-> "none", f |-> NoFunction, answer |-> create_default_package(0)]
Nothing    == Returns(0, NoStat, <<>>)

\* What a call should return on the disk as it is, and, for an open, which
\* of its node's lives it has opened.
Wanted(h, fd, k) ==
    LET found   == h.name \in Name /\ Found(0, h.name)
        ok(b)   == Returns(IF b THEN 0 ELSE -1, NoStat, <<>>)
        left    == node[fd].file_size - h.offset
    IN  CASE h.handler = "getattr" ->
                IF found THEN Returns(0, StatOf(Child(0, h.name)), <<>>)
                         ELSE Returns(-ENOENT, NoStat, <<>>)
          [] h.handler = "readdir" -> Returns(0, NoStat, Listing(fs, 0))
          [] h.handler = "read"    ->
                Returns(IF left <= 0 THEN 0 ELSE IF left < h.size THEN left ELSE h.size, NoStat, <<>>)
          [] h.handler = "write"   -> Returns(h.size, NoStat, <<>>)
          [] h.handler = "unlink" \/ h.handler = "truncate" -> ok(IsFile(h.name))
          [] h.handler = "mkdir"   -> ok(~found)
          [] h.handler = "rmdir"   -> ok(IsDirectory(h.name))
          [] OTHER                 -> ok(TRUE)

\* A connection is made and the handshake sent.  Without a server the whole
\* process exits.
StartCall(c, h) ==
    /\ client[c].pc = "idle"
    /\ calls < MAX_CALLS
    /\ MayCall(c, h)
    /\ calls' = calls + 1
    /\ IF ReturnsAtOnce(h)
         THEN /\ client' = [client EXCEPT ![c] = [pc |-> "idle", call |-> h, result |-> Nothing]]
              /\ fh' = [fh EXCEPT ![c] = IF h.handler = "release" THEN NoHandle ELSE @]
              /\ UNCHANGED <<to_server, to_client, worker>>
       ELSE IF ~Up
         THEN /\ client' = [d \in Client |->
                    IF Together(c, d) THEN [client[d] EXCEPT !.pc = "exited"] ELSE client[d]]
              /\ UNCHANGED <<fh, to_server, to_client, worker>>
       ELSE   /\ client' = [client EXCEPT ![c].pc = "connected", ![c].call = h]
              /\ to_server' = [to_server EXCEPT ![c] = send_handshake]
              /\ to_client' = [to_client EXCEPT ![c] = <<>>]
              /\ worker' = [worker EXCEPT ![c] = [NoWorker EXCEPT !.pc = "handshake"]]
              /\ UNCHANGED fh
    /\ UNCHANGED <<vars, want, birth>>

\* The rest of send_function up to its wait for the answer.
SendPackage(c) ==
    /\ client[c].pc = "connected"
    /\ client' = [client EXCEPT ![c].pc = "waiting"]
    /\ to_server' = [to_server EXCEPT ![c] =
                       @ \o send_package(Serialize(Request(client[c].call, fh[c].fd)))]
    /\ UNCHANGED <<vars, fh, to_client, worker, want, birth, calls>>

ReceiveAnswer(c) ==
    /\ client[c].pc = "waiting"
    /\ Complete(to_client[c])
    /\ LET h == client[c].call
           p == receive_package(to_client[c])
       IN  /\ client' = [client EXCEPT ![c] = [pc |-> "idle", call |-> h, result |-> Handled(h, p)]]
           /\ fh' = [fh EXCEPT ![c] =
                IF h.handler = "release" THEN NoHandle
                ELSE IF h.handler \in {"open", "create"} /\ p.message_id >= 0
                  THEN [fd |-> p.message_id, birth |-> want[c].birth] ELSE @]
    /\ to_client' = [to_client EXCEPT ![c] = <<>>]
    /\ UNCHANGED <<vars, to_server, worker, want, birth, calls>>

\* The server is gone: recv fails, and the call returns what its memory held.
\* Nothing is said of the client from here on.
LoseServer(c) ==
    /\ client[c].pc = "waiting"
    /\ ~Up
    /\ ~Complete(to_client[c])
    /\ client' = [client EXCEPT ![c].pc = "exited"]
    /\ UNCHANGED <<vars, fh, to_server, to_client, worker, want, birth, calls>>

\* External: the FUSE process is killed, all its threads with it.
Die(c) ==
    /\ Pending(c)
    /\ client' = [d \in Client |->
          IF Together(c, d) THEN [client[d] EXCEPT !.pc = "exited"] ELSE client[d]]
    /\ UNCHANGED <<vars, fh, to_server, to_client, worker, want, birth, calls>>

-----------------------------------------------------------------------------
(***************************************************************************)
(* The server's side: attend_connection.                                   *)
(***************************************************************************)
ReceiveHandshake(c) ==
    /\ Up
    /\ worker[c].pc = "handshake"
    /\ Complete(to_server[c])
    /\ worker' = [worker EXCEPT ![c].pc =
          IF receive_package(to_server[c]).message_id = t_identifier_message["SAC"]
            THEN "function" ELSE "none"]
    /\ to_server' = [to_server EXCEPT ![c] = Rest(@)]
    /\ UNCHANGED <<vars, client, fh, to_client, want, birth, calls>>

\* recv's result is not looked at: if the connection has ended, the package
\* is what the memory held.  No function at all is followed as a null pointer.
ReceiveFunction(c) ==
    /\ Up
    /\ worker[c].pc = "function"
    /\ Complete(to_server[c]) \/ client[c].pc = "exited"
    /\ LET f == deserialize(receive_package(to_server[c]))
       IN  IF Complete(to_server[c]) /\ f # NoFunction
             THEN /\ worker' = [worker EXCEPT ![c].pc = "execute", ![c].f = f]
                  /\ UNCHANGED vars
             ELSE /\ worker' = worker
                  /\ Store(Wild(fs))
    /\ to_server' = [to_server EXCEPT ![c] = <<>>]
    /\ UNCHANGED <<client, fh, to_client, want, birth, calls>>

Execute(c) ==
    /\ Up
    /\ worker[c].pc = "execute"
    /\ LET done == execute(worker[c].f)
           born == [n \in NodeNum |->
                       IF Live(done.k, n) /\ ~Live(fs, n) THEN birth[n] + 1 ELSE birth[n]]
           id   == done.answer.message_id
           call == client[c].call
       IN  /\ Store(done.k)
           /\ worker' = [worker EXCEPT ![c].pc = "answer", ![c].answer = done.answer]
           /\ birth' = born
           /\ want' = [want EXCEPT ![c] =
                [returns |-> Wanted(call, fh[c].fd, done.k),
                 birth   |-> IF worker[c].f.op = "open" /\ id \in NodeNum THEN born[id] ELSE 0,
                 bare    |-> /\ call.handler = "read"
                             /\ node[fh[c].fd].indirect_pointer_block = 0]]
    /\ UNCHANGED <<client, fh, to_server, to_client, calls>>

\* A client that has gone is not noticed: MSG_NOSIGNAL.
SendAnswer(c) ==
    /\ Up
    /\ worker[c].pc = "answer"
    /\ worker' = [worker EXCEPT ![c] = NoWorker]
    /\ to_client' = [to_client EXCEPT ![c] = send_package(worker[c].answer)]
    /\ UNCHANGED <<vars, client, fh, to_server, want, birth, calls>>

-----------------------------------------------------------------------------
CallsInit ==
    /\ \E u \in UrandomNode, e \in UrandomEntry :
          LET k == WriteFile(CreateNode(format_disk(u, e), 0, First, 1), 1, 1)
          IN  /\ bitmap = k.bitmap /\ node = k.node /\ block = k.block
              /\ server = k.server
    /\ bitmap_blocks = create_default_bitmap
    /\ client = [c \in Client |-> [pc |-> "idle", call |-> NoCall, result |-> Nothing]]
    /\ fh = [c \in Client |-> NoHandle]
    /\ to_server = [c \in Client |-> <<>>]
    /\ to_client = [c \in Client |-> <<>>]
    /\ worker = [c \in Client |-> NoWorker]
    /\ want = [c \in Client |-> [returns |-> Nothing, birth |-> 0, bare |-> FALSE]]
    /\ birth = [n \in NodeNum |-> IF n = 1 THEN 1 ELSE 0]
    /\ calls = 0

ClientStep(c) == SendPackage(c) \/ ReceiveAnswer(c) \/ LoseServer(c)
WorkerStep(c) == ReceiveHandshake(c) \/ ReceiveFunction(c) \/ Execute(c) \/ SendAnswer(c)

CallsNext ==
    \E c \in Client :
        \/ /\ client[c].pc = "idle" /\ calls < MAX_CALLS
           /\ \E h \in PathCalls \cup HandleCalls(c) : StartCall(c, h)
        \/ ClientStep(c)
        \/ WorkerStep(c)
        \/ Die(c)

CallsSpec == CallsInit /\ [][CallsNext]_allVars

\* A client or a connection thread that has something to do: the states in
\* which ClientStep, WorkerStep is enabled.
ClientReady(c) ==
    \/ client[c].pc = "connected"
    \/ client[c].pc = "waiting" /\ (~Up \/ Complete(to_client[c]))

WorkerReady(c) ==
    /\ Up
    /\ \/ worker[c].pc \in {"execute", "answer"}
       \/ worker[c].pc \in {"handshake", "function"} /\ Complete(to_server[c])
       \/ worker[c].pc = "function" /\ client[c].pc = "exited"

\* Weak fairness of both, with their ENABLED written out as above: each
\* connection has a thread of its own and every thread is run.  The kernel
\* calls when it likes.
FairCalls ==
    /\ CallsSpec
    /\ \A c \in Client :
          /\ []<>~ClientReady(c) \/ []<><<ClientStep(c)>>_allVars
          /\ []<>~WorkerReady(c) \/ []<><<WorkerStep(c)>>_allVars

-----------------------------------------------------------------------------
(***************************************************************************)
(* What makes the calls correct.                                           *)
(***************************************************************************)

\* Every variable keeps its type.
CallsTypeOK ==
    /\ TypeOK
    /\ \A c \in Client :
          /\ client[c].pc \in {"idle", "connected", "waiting", "exited"}
          /\ fh[c] = NoHandle \/ fh[c].fd \in NodeNum
          /\ to_server[c] \in Seq(Byte) /\ to_client[c] \in Seq(Byte)
          /\ worker[c].pc \in {"none", "handshake", "function", "execute", "answer"}
    /\ calls \in 0 .. MAX_CALLS

\* The function and the arguments a request means.
Meant(r) ==
    CASE r.op \in {"open", "mkdir", "truncate"} -> <<r.data1 \o <<0>>, r.int1>>
      [] r.op = "close"  -> <<r.int1>>
      [] r.op = "read"   -> <<r.int1, r.int2, r.int3>>
      [] r.op = "write"  -> <<r.int1, r.data1, r.int2, r.int3>>
      [] r.op = "rename" -> <<r.data1 \o <<0>>, r.data2 \o <<0>>>>
      [] OTHER           -> <<r.data1 \o <<0>>>>

\* The server executes the function the handler has asked for, with all its
\* arguments, after serialisation, the stream and deserialisation.
ExecutesWhatWasAsked ==
    \A c \in Client : worker[c].pc = "execute" =>
        LET r == Request(client[c].call, fh[c].fd)
            f == worker[c].f
        IN  /\ f.op = r.op
            /\ \A i \in DOMAIN Meant(r) : f.args[i] = Meant(r)[i]

\* The calls that owe the kernel what the disk has.  The others: release,
\* whose result nobody reads; what _correct_path sends back at once; and a
\* read of a file without blocks, which returns the count that was asked for
\* (sac_read's -1 taken for a size_t).
Owes(c) ==
    /\ client[c].call.handler # "release" /\ ~ReturnsAtOnce(client[c].call)
    /\ ~want[c].bare

\* What a handler returns to the kernel is what the disk held when the
\* request was executed: attributes, names, numbers of bytes and errors.
ReturnsWhatTheDiskHas ==
    \A c \in Client :
        client[c].pc = "idle" /\ Owes(c) => client[c].result = want[c].returns

\* A handle leads to the file it was opened for as long as it is open,
\* whatever is removed, created and renamed meanwhile.
HandlesStayTrue ==
    \A c \in Client :
        Up /\ client[c].pc # "exited" /\ fh[c] # NoHandle =>
            /\ Live(fs, fh[c].fd) /\ node[fh[c].fd].state = 1
            /\ birth[fh[c].fd] = fh[c].birth

\* The server follows a number or a function that nobody has written only in
\* the thread of a client that has ended before its request was sent: all
\* other requests, in whatever order they come, leave it running or, when
\* the disk is full, make it exit.
OnlyACutConnectionHurts ==
    [][Up /\ server' = "wild" =>
          \E c \in Client : client[c].pc = "exited" /\ worker[c].pc = "function"]_allVars

\* do_read is documented to find its file by the path it is given: what is
\* read and written through a handle is never another file, whoever removed
\* the opened one and created others meanwhile.
NoOtherFile ==
    \A c \in Client :
        Up /\ client[c].pc # "exited" /\ fh[c] # NoHandle /\ Live(fs, fh[c].fd)
            => birth[fh[c].fd] = fh[c].birth

\* Every call returns, or its process has ended: both ends agree on how many
\* bytes there are to come.
CallsReturn == \A c \in Client : Pending(c) ~> ~Pending(c)
=============================================================================
