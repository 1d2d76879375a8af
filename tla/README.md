# SAC file system: TLA+ models and proofs

SAC is a small file system: a server keeps a disk image (`sac-fs`), a thread
pool takes requests over TCP (`mtserver`), and a FUSE client (`sac-cli`) turns
kernel calls into requests. This directory holds TLA+ modules that model the
server, its packages and the client, TLC configurations that check them on small
instances, and TLAPS proofs that hold for every size of the disk and of the pool.

## 1. Inventory

| Part | State | Operations | Interacts with |
|---|---|---|---|
| Layout and allocator (`disk.h`, `bitmap.c`, `disk.c`) | `bitmap` in memory, bitmap blocks on disk | first-fit reservation of node and data blocks, `free_block`, `format_disk` | called by every operation that grows or removes something; calls `exit(-1)` when a region is full |
| Directory tree (`directory.c`, `node.c`, `file.c`, `sacio.c`, `utils.c`) | node table (one node per block), data blocks read as rows of 128-byte entries, pointer blocks | `sac_open`, `sac_mkdir`, `sac_remove`, `sac_rmdir`, `sac_rename`, `sac_stat`, `sac_readdir` | reads a copy of a node, changes it and writes the whole copy back |
| File contents (`sacio.c`, `node.c`) | size, pointer blocks, data blocks of a file | `sac_write`, `sac_read`, `sac_truncate` | allocator; addressed by node number, not by path |
| Start and stop (`sac.c`) | bitmap loaded from the disk | `load_bitmap`, `server_init`, then (never reached) `unmap_bitmap` | disk image outlives the process through `mmap(MAP_SHARED)` |
| Thread pool (`server.c`) | `connection_threads`, its mutex, thread ids | `server_init` (accept loop), `attend_connection`, `remove_thread_from_actual_threads` | one thread per connection, one request per connection; runs the operations above with no lock |
| Packages (`serialization.c`, `fs_sac.c`) | none | serialize, deserialize, send, receive | between client and thread |
| FUSE client (`fuse.c`, `client.c`) | `fi->fh`: node number of an open file | one request per kernel call | opens a connection per request |
| Local backend (`fs_local.c`), logging, configuration | none | - | - |

What is hard to test here:

* **Sequences of requests.** A directory entry, the node it names, that node's
  `parent_block`, the two blocks of a directory and their bits in the bitmap are
  changed by separate assignments in separate functions. A mistake in one shows
  only several requests later, when a node or block has been handed out again.
* **Stopping half way.** The allocator exits the process in the middle of an
  operation; what has been written to the mapped disk stays.
* **Restart.** The bitmap is not written back, the rest of the disk is.
* **Limits.** A directory that exactly fills its data block; the last free
  block; files that end exactly at a block's end.
* **Concurrency.** A thread may end before the main thread has registered it;
  ids are reused; requests run in parallel on the same nodes, each on its own
  copy, and on the same bytes of the bitmap.
* **Two programs that must agree.** Every number and string crosses a connection
  at a place that both ends compute on their own; an error shows as another
  request, another answer or a wait that does not end.
* **Handles.** A client keeps the number of a node for as long as a file is open,
  and the server knows nothing of it.

What makes each part correct: the disk is a tree (every live node named once,
by its parent, all hanging from the root); no block has two owners and every
owned block is marked; names are unique; a request changes one object only; the
server gives up only when it is full; the pool bounds its threads, lets all of
them end, and goes on accepting; requests in parallel lose nothing; what a
client asks is what the server executes, and what the handler returns is what
the disk has; an open file stays the same file; every call returns.

`PROJECT.json` lists the components, the hazards line by line, and which
property covers each.

## 2. Modules

| Module | Contents |
|---|---|
| `SacLayout` | regions of the disk, the allocator, the bitmap of a formatted disk |
| `SacTree` | the tree under the requests of `sacio.c`; its properties |
| `Namespace` | abstract specification: a tree of named objects, one created, deleted or moved at a time |
| `MCSacTree` | instances of `SacTree` for TLC |
| `SacFile` | contents of files, down to words of data and pointer blocks; its properties |
| `FlatFile` | abstract specification: a file is a sequence of words |
| `MCSacFile` | instances of `SacFile` for TLC |
| `ThreadPool` | accept loop and connection threads |
| `MCThreadPool` | instance of `ThreadPool` for TLC |
| `SacParallel` | requests in parallel on the disk of `SacTree`, one read or write at a time |
| `MCSacParallel` | instances of `SacParallel` for TLC |
| `Wire` | packages as bytes: serialisation and deserialisation of requests and answers |
| `SacCalls` | a call from the kernel to the disk and back: `SacTree` and `Wire` composed with the client's handlers and the server's connection threads |
| `MCSacCalls` | instances of `SacCalls` for TLC |
| `LayoutLemmas` | what the proofs about the disk share: least elements, loops, quotients |
| `SacDiskLemmas` | the invariant of the tree and a lemma per operation |
| `SacTreeProofs` | theorems about `SacTree`, and its refinement of `Namespace` |
| `SacFileProofs` | what each turn and loop of `sac_write`, `sac_read`, `sac_truncate` and a removal does to a file; theorems about `SacFile`, and its refinement of `FlatFile` |
| `SacParallelProofs` | theorems about `SacParallel` |
| `WireLemmas` | numbers, strings and packages come back from their bytes as they were |
| `SacCallsProofs` | theorems about `SacCalls` |
| `ThreadPoolProofs` | theorems about `ThreadPool` |

### SacTree

The variables are the disk and the process: `node` (the node table), `block`
(the data blocks), `bitmap_blocks` (the bitmap on disk), `bitmap` (the bitmap in
memory, as the set of used blocks) and `server`, which is `"up"`, `"exit"` after
`exit(-1)`, or `"wild"` once a block number that nobody wrote has been followed.
From `"wild"` on the program reads or writes an arbitrary block, and the model
says nothing more.

* Each operation of `sacio.c` is one action: requests are taken one at a time
  (`SacParallel` takes them apart). Inside, an operator maps the record
  `fs` to the next one step of the code after the other, for example
  `delete_directory_entry`, then `add_directory_entry`, then the change of
  `parent_block` in `MoveEntry`. An operator that exits returns what is on
  the disk at that point.
* A data block is a row of `DIR_ENTRIES` entries. The first four bytes of a block
  are both the number in its first entry and the first pointer of a pointer
  block, so a pointer block that is reused as a data block, or the reverse,
  carries its old contents, as on the real disk. Blocks and nodes that were
  never written hold what `dd if=/dev/urandom` left: any member of
  `UrandomNode` and `UrandomEntry`. The proofs take arbitrary sets; the runs
  use one node that looks like a directory with blocks and one entry.
* `file_size` counts units of one directory entry. A write or truncation stays
  in the first data block of the file (`FileSize` is below `DIR_ENTRIES`):
  this is enough for the ownership of blocks; `SacFile` has the contents.
* A path is given by the sequence of nodes that `search_path` visits
  (`search_path(k)` is the set of walks that end in a directory, up to
  `MAX_DEPTH` components). A path that does not resolve makes the operation
  return -1 and change nothing, so it is no step of the model.
* `memcpy` with overlapping arguments in `delete_directory_entry`
  (`directory.c:75`) is taken to move the entries down, as `memmove` would.
* The bitmap is taken to fit in one block: `bitmap_to_block` and
  `block_to_bitmap` do not handle a second one, and the shipped disk has one.
* `VfsAllows` is external: the Linux VFS does not send a rename of a directory
  into its own subtree, onto itself, onto one of its ancestors or onto an
  object of another kind. `Rooted` depends on it; `sac_rename` has no check.
* A look-up that fails in a full directory leaves its data block. `sac_readdir`
  stands for every such scan, `sac_stat` of a missing name included.

`load_bitmap` is the start of a server on an existing disk; `SpecRestart` adds
it to the requests. A stop may come between any two requests (the bitmap of the
disk is never newer) or in the middle of one that exits.

### Namespace

`SacTree` maps to it with `Abstract`: an object is a live node, its kind the
node's state, its directory `parent_block`, its name that of the entry that
names it in that directory. `ImplementsNamespace` says that every request
creates, deletes or moves exactly one object, that a new name is free when it is
created and that only an empty object is deleted, or that the server stops. A
`Move` may take a name that is taken: that is what the code does (see "Further
disagreements").

### SacFile

The same disk, seen from a file. The variables are `bitmap`, `node` (the nodes of
the files), `block` and `server`, as in `SacTree`, but a block is a row of words of
four bytes, the size of a block pointer: `WORDS` is 1024 on the real disk, and both
the words in a data block and the pointers in a pointer block. File sizes and
offsets count words; a size that is no multiple of four bytes goes through the
same branches as one that is, since every comparison is with zero, with another
size or with a multiple of the block size.

* `sac_open`, `sac_write`, `sac_truncate` and `sac_remove` are actions. Each works on
  a record (`Open`: the disk and a copy of the node) and ends with `Close`, which
  writes the copy back, unless the process has exited in between: then the
  blocks it changed stay changed and the node is the old one.
* The loops of the code are `While(Goes, Turn, ..)`, with a bound on the turns
  that no loop reaches with work left (each turn writes or cuts a word at least, which
  `SacFileProofs` proves). What one turn does is an operator of its own:
  `FillTurn`, `WriteTurn`, `ShrinkTurn` and `ReadTurn`.
* `create_data_block_in_pointer_block` writes pointers as words;
  `DataBlockNum` reads them at a distance of `POINTER_WORDS`, the size of a
  pointer in memory, because `get_data_block_from_node` does.
* A block keeps its words when it is freed and gets a new owner, as the disk does.
* Names, directories and the bits of nodes are `SacTree`'s; `sac_open` of a file that
  exists changes nothing here.
* `sac_read` returns the words copied, or `None` for the -1 that a file without blocks
  gets. What becomes of the -1 on its way to the client is in `SacCalls` (`_sac_read`).

Clients are constrained by `MayWrite`: no size above `MAX_SIZE` (which keeps a file
away from the end of its pointer blocks and, in `file_blocks`, in the first of
them) and no gap that ends beyond `HOLE_END`. Truncations may cut a file from any size to
any other. With `HOLE_END < WORDS`, one pointer block and `POINTER_WORDS = 1` the
properties hold; what the code does beyond each of these limits is listed under
"Further disagreements".

### FlatFile

`SacFile` maps to it with `Contents`, the words of each file read straight from its
blocks.
`ImplementsFlatFile` says that each request creates or deletes one file, overlays
one with a buffer (zeros before it if there is a gap) or cuts or extends one, that all
other files keep their words, or that the server stops. A truncation keeps the
beginning of the file. It is left open in two places, where the code does not do what its
comments say: what it adds may be any of the words that the program or its clients write
(`Fill`; the violation run `truncate_fill` has the zeros that the comment promises), and
one that takes a block or more may leave less than a block too little
(`Reached`; see "Further disagreements"). Since some request always explains a change,
`WriteOverlays` and `TruncateKeepsBeginning` say the same of the very request made, from
every reachable state: what the disk operations return is `Overlay` or among the
`Truncations` of the abstract content.

### ThreadPool

A step is one access to what threads share: the look at the size of the list
(without the mutex), `accept` and `pthread_create`, the insertion (one step,
since its critical section is only waited for), and for a connection thread its
request, taking the mutex, each turn of the loop over the list, releasing the
mutex and ending. Turns are separate steps because main reads the size of the
list while a thread is in the loop. Ids are reused, as pthread ids are. `accept` takes
one of the connections that wait, whichever; clients are alike, so their order says
nothing. Not
modelled: `pthread_create` failing (its result is compared with `< 0`, which a
positive error number never is) and `accept` failing, which is a turn of main's
loop that changes nothing.

### SacParallel

The disk is `SacTree`'s, and its operators say what a scan finds and what a free
block is. `thread[t]` holds the local variables of the request that thread *t*
executes: the copy of the node it has read (`copy`, of node `own`), the
second copy of `sac_remove` and `sac_rmdir` (`file`), the byte of the bitmap it has
read to change a bit, and `todo`, the steps that are left. `todo` plays the part of a
program counter: the same functions (`read_node`, `add_directory_entry`,
`get_free_data_block`, ...) serve several requests, so a request is a row of steps.
When the row ends with the reading of a node, `Continue` says what the request does
with it, by `call`: `Rmdir` and `RmdirList` for the looks and loops of `sac_rmdir`,
`Truncate`, which runs `sac_open` and `sac_write` inside `sac_truncate`, and `Rename`. Where
the code uses a number that it has not got (`sac_rename` or `sac_readdir` of a name that
has vanished, a truncation of a file whose directory has) the server is `"wild"`.

* A step touches one node, one data block or one byte of the bitmap. Three things
  the real program could interleave more finely are left whole: a node or an
  entry that is read while it is written is not torn, a scan of a directory's data
  block is one step, and so is the look for a free bit together with the reading
  of its byte (nothing else happens between them in `bitarray_set_bit`).
* `bitarray_set_bit` and `bitarray_clean_bit` read a byte, change a bit and write
  the byte: another thread's bit in it may be lost (`ByteOf`, `SetBit`).
* `WriteBack` is `unmap_and_destroy_node`, and it comes after reading alone, too.
* The threads find a disk of `Disks`, any that earlier requests may have left; the runs
  take the one that four requests have made of a formatted disk (`MCDisks`).
* A scan finds the entries of the directory's data block (`Hits`); one that goes on
  behind that block, or follows a number that is no block, makes the server `"wild"`
  (`Strays`), and so does a bit looked for behind the bitmap (`LookAt`).
* `Asks` says what clients ask for. A read or write names its file by its path; it does
  not begin while a directory above is being renamed, for the path then leads nowhere
  although the handle is good.
* `expected` is a history variable: what the answers so far have promised of each
  path; `lies` holds the requests whose answer does not fit it.
* `Together` says which requests overlap. `"disjoint"` asks that no request copies a
  node another one changes and that one at a time changes the bitmap: under it
  everything holds, so these two kinds of conflict are the only ones (a read or write
  through a handle goes on while the directories above it are renamed). `"mount"` is
  what the Linux kernel lets one mount do (it locks a directory while it changes
  it, a file while it is written): `parallel_mount` shows that this is not enough.
* `WritesStayInTables` is what remains of the order when updates are lost: `sac_remove`,
  `sac_rmdir`, `sac_rename` and the creations write through numbers of nodes and blocks
  that an earlier step has found, in a bitmap, an entry or a pointer that others change in
  between. It is also what makes the model's writes mean something: a write
  through any other number would change nothing in it. `parallel` checks it where requests
  do not disturb each other, and the theorem of section 4 has it for both kinds of overlap. (The
  constants of `parallel_mount` can be searched for it, too, but not with a third request,
  since `sac_rmdir` lists a directory that has become its own descendant for ever.)

### Wire and SacCalls

`Wire` has the packages as sequences of bytes: numbers little-endian in the width of
their C types, strings with a length of two bytes and a zero at the end, `memcpy` that
may run past the end of its source (`Copy`; such bytes are `UNINIT`). Each `serialize_x`
and `deserialize_x` is an operator of the same name. `SIZE_T` is 4 or 8, as the
program is built.

`SacCalls` composes it with `SacTree`. A client is a thread of a FUSE process:

* `StartCall`: the kernel calls a handler (`do_open`, ...), which calls `send_function`,
  which connects and sends the handshake. `SendPackage` sends the request, and
  `ReceiveAnswer` returns what the handler makes of the answer (`Handled`), with
  `fi->fh` set or cleared. `LoseServer` is a `recv` that fails.
* `ReceiveHandshake`, `ReceiveFunction`, `Execute`, `SendAnswer` are `attend_connection`.
  `Execute` is one step; the functions `_sac_x` of `fs_sac.c` apply `SacTree`'s
  operators and build the answer.
* `Die` kills a client process, before its request is sent or after.
  `receive_package` ignores the result of `recv`: the server then has a package of
  whatever the memory held. `deserialize` returns a null pointer for most of them,
  and line 85 of `server.c` follows it: the server is `"wild"`.
* Everything lies in the root directory: `SacTree` has the walk through directories,
  and here a path is one string.
* `PathCalls`, `HandleCalls`, `MayCall` and `Clash` are external: the kernel looks names
  up before it acts on them, changes a directory one call at a time, and libfuse
  renames an open file away instead of removing it (its `.fuse_hidden` names), all
  within one mount. `SAME_MOUNT = FALSE` gives each client a mount of its own, of
  which the others know nothing.
* Clients read files of any size, also those that are empty: the scripts mount with
  `-o direct_io` (`sac-cli/scripts/fuse.sh:22`), so the kernel does not answer such reads on
  its own. For a file without a block the server then sends bytes that nobody has
  written, and `want` marks the call as `bare`.
* A name that begins with a dot is turned back by `_correct_path` in some of the handlers
  (`ReturnsAtOnce`). `ReturnsWhatTheDiskHas` is about the calls that owe the kernel an
  answer from the disk (`Owes`): all but `release`, those turned back, and those that are
  `bare`.
* The bytes of a file's content are taken for read and written, only their number
  is compared: `SacFile` has the contents, `ExecutesWhatWasAsked` the buffer of a
  write on its way.
* `want` and `birth` are history variables: what a call should return, taken from the
  disk when the server executes it; and how many files a node number has been.

## 3. Runs

| Run | Configuration | Result |
|---|---|---|
| `tree` | 3 nodes, 3 entries per block, 3 names, paths of 2 components, files of a word | `TypeOK`, `BlockOwnership`, `TreeIntegrity`, `Rooted`, `NoWildPointer`, `HalfDoneLosesOneObject`, `OnlyRenameDuplicates`, `ImplementsNamespace` hold |
| `leak` | as `tree`, with 2 names and one level of directories | `ExitOnlyWhenFull` is violated: each time the root is emptied, two blocks are lost; the last reservation exits with almost all blocks free of owners |
| `restart` | as `leak`, without writes, with `load_bitmap` | `NodesNotShared` is violated: open a, restart, open b gets a's node |
| `file_content` | 1 file, 3 words per block, 5 data blocks, up to 7 words, buffers of 1 and 4 words | `TypeOK`, `ReadReturnsContent`, `WriteOverlays`, `TruncateKeepsBeginning` hold |
| `truncate_fill` | as `file_content` | `TruncateFillsWithZeros` is violated: a file is created and extended to one word, which is a word of letters |
| `file_blocks` | 2 files, 4 data blocks, up to 4 words each | `NoBlockShared`, `NoWildPointer`, `ImplementsFlatFile` hold |
| `thread_pool` | 2 connections at once, 3 thread ids, 2 clients | `TypeOK`, `AtMostMaxThreads`, `Registered`, `ThreadsEnd` hold |
| `starvation` | as `thread_pool` | `PendingIsAccepted` is violated: two threads end before they are registered, the list stays full, main spins |
| `parallel` | requests of all ten kinds, 3 of them on 2 threads, 5 nodes, two directories and a file in one of them, `"disjoint"` | `ParallelTypeOK`, `WritesStayInTables`, `NothingLost`, `WholeBetweenRequests`, `AnswersAreTrue` hold |
| `parallel_mount` | as `parallel`, 2 requests, `"mount"` | `NothingLost` is violated: `sac_stat` of /a has copied the node of /a, `sac_mkdir` /a/b adds its entry and answers 0, `sac_stat` writes its copy back |
| `calls` | 2 clients of one mount, 3 calls, 2 nodes, 2 names, 32-bit build, one file from the start | `CallsTypeOK`, `ExecutesWhatWasAsked`, `ReturnsWhatTheDiskHas`, `HandlesStayTrue`, `OnlyACutConnectionHurts`, `CallsReturn` hold |
| `stale_handle` | as `calls`, each client a mount of its own | `NoOtherFile` is violated: one has a open, the other removes a and creates a file, which gets the node |

The six violations are recorded as findings in `PROJECT.json`, each with the
line that says otherwise.

**Further disagreements** that have no run of their own, each one constant or one
line away from a passing run:

* `POINTER_WORDS = 2` (a 64-bit build): `NoWildPointer` of `SacFile` fails on the first
  write of more than a block. `get_data_block_from_node` (`node.c:139`) looks for
  pointer *n* at `n * sizeof(u_int32_t*)`, `node.c:75` puts it at
  `n * sizeof(u_int32_t)`.
* `NODE_TABLE_BLOCKS = DIR_ENTRIES + 1` in `tree`: `NoWildPointer` of `SacTree`
  fails. A directory that exactly fills its block has `block_num = 1`, and the
  next scan (`directory.c:267`) reads a second pointer that was never written.
* A write up to the end of a block that is not the file's last reserves one more
  block (`sacio.c:227`, `<=` where the comment says `<`). Its number goes to a slot
  that a later reservation writes over, so the block stays marked after the file
  has been removed.
* A rename onto a name that is taken adds a second entry with it, and the object
  behind the second can no longer be reached (`sacio.c:413`; `sac_mkdir` and
  `sac_open` look first). `NamesAreUnique` of `SacTree` fails in `tree`; what
  holds instead is `OnlyRenameDuplicates`.
* `TruncateReachesLength` of `SacFile`, checked in `file_content`, fails. While a block or
  more is to be cut off, `deleteLastDataBlock` (`node.c:205`) sets the size to the
  blocks before the last full one: a file of 5000 bytes cut to 1 ends with 0.
  How far it may fall short is what `TruncateKeepsBeginning` bounds.
* `HOLE_END = MAX_SIZE`: `NoWildPointer` of `SacFile` fails on a write a block past the end.
  The loop that fills the gap (`sacio.c:180-202`) adds the new size before it reserves
  the next block, whose number goes one slot too far, and stops early.
* Three pointer blocks of two words in `file_blocks`: `NoBlockShared` fails.
  `add_data_block_to_node` (`node.c:111`) uses the last pointer block the node has,
  which need not be the one its size points to.
* `SIZE_T = 8` in `calls` (a 64-bit build): `ExecutesWhatWasAsked` fails on the first
  write. `serialize_write` places the data behind `sizeof(count)` (`serialization.c:71-72`),
  `deserialize_write` looks behind `sizeof(size_buffer)`.
* `ReturnsWhatTheDiskHas` fails in `calls` if reads of files without a block are not left
  out (without the last conjunct of `Owes`). `sac_read` returns -1 as
  `size_t` for a file without blocks (`sacio.c:265`), so `_sac_read` answers `count` bytes
  that nobody has written; the comment of `do_read` promises the bytes read
  or `-ENOENT` (`fuse.c:90-93`).
* A name that begins with a dot: `do_getattr`, `do_open`, `do_read` and `do_release`
  return 0 at once (`_correct_path`), `do_create`, `do_write` and the others do not.
  The attributes of such a name that is not there are "found", and a file that a client has
  created under it cannot be opened or read. libfuse makes such names itself
  (`.fuse_hidden`).
* `do_release` returns 0 or 1, as the node number compares with the numbers of blocks
  (`sacio.c:491`), where the comment says to return 0 all the same (`fuse.c:236-238`). The
  kernel ignores the value, so `ReturnsWhatTheDiskHas` leaves it out.

**Bounds.** 16 blocks leave 11 data blocks, five pairs: enough to empty and
refill directories until none is left, so that `exit(-1)` is reached from every
operation that reserves. Three nodes are enough for two children in one
directory, a move between the root and a directory in it, and a node that is handed out a
second time; moves between two directories that are not the root are in `parallel`, with
five nodes (`WholeBetweenRequests`), and the theorems have every size. Two names are
enough for a clash and for a free name, a third for a move to another one. One file size
below a full block is enough since sizes matter here only as zero or not. In the
pool, one more id than `MAX_THREADS` lets a stale entry be an id that is in use,
and two clients can both be attended. Seven
words of three make files of no block, one, two and three, that end before, at and
behind a block's end, and the block reserved ahead; a buffer of four words crosses
a boundary from every offset, and its words differ from their neighbours, from the
filling and from the zeros, so that a word in the wrong place shows. Two files and
four blocks suffice for one to take what the other has given back, and for the
blocks to run out in the middle of each loop; there the words are alike, since
only the blocks matter. In `parallel`, three requests let two interleave and a third
find what they have left, or begin while the other still runs; the conditions under
which requests overlap are on pairs, so two threads are enough; five nodes are the root, two
directories, a file and a free one; requests lead through one directory or two
levels, to a name that is there or not, of either kind. In `calls`, three calls are
an open and two calls on the handle or on the name, the other client's calls
between their steps; names of different length put what follows them at
different places; two nodes let the disk be full and a node be used again. The runs
on the tree, on files and on calls do not check for deadlock, since the server may
have exited; the runs on the pool do.

**Symmetry** of the threads is used in `parallel` and `parallel_mount`, which check
invariants only; the other runs do without.

**Fairness of `SacCalls`** (`FairCalls`). Weak fairness of each client's steps once its
call has begun, and of each connection's thread: both are threads of their own, and
the scheduler runs what can run. The kernel calls when it likes and clients may
die, without fairness. `ClientReady` and `WorkerReady` write out when these steps are
enabled, and the fairness formulas are weak fairness with `ENABLED` replaced by them
(TLC evaluates them faster).

**Fairness of `ThreadPool`.** Weak fairness of main and of each thread: the
scheduler runs what can run, a handler works for a finite time and its socket
calls return. Strong fairness of taking the mutex: main and the threads hold it
for a few instructions, and a waiting thread gets it in the end; without it a
stream of threads could keep one out for ever, which pthread mutexes do not
exclude in theory but do in practice. Clients need not connect. `starvation`
is violated under all of this fairness: the counterexample does not rest on a
thread that is never run.

## 4. Proofs

For every disk that meets `LayoutAssumption` and `TreeAssumption` and every
number of requests, in `SacTreeProofs`:

* `TreeTyped`: `Spec => []TypeOK`;
* `TreeConsistent`: `Spec => []TreeIntegrity`;
* `BlocksOwned`: `Spec => []BlockOwnership`;
* `TreeRooted`: `Spec => []Rooted`;
* `FewNodesNeverWild`: `Spec => []NoWildPointer` if
  `NODE_TABLE_BLOCKS <= DIR_ENTRIES`. The disk of `disk.h` has 32 nodes and 32
  entries in a block, the largest table the hypothesis allows;
* `OnlyRenameMakesTwins`: `Spec => OnlyRenameDuplicates`;
* `NamespaceImplemented`: `Spec => ImplementsNamespace`, the refinement.

For every disk, set of files, set of buffers and bounds that meet `LayoutAssumption` and
`FileAssumption`, in `SacFileProofs`: `FileTyped`, `Spec => []TypeOK`, with no further
hypothesis; and under the hypothesis `Envelope`

* `FilesInOrder`: `Spec => []FileInv`, the inductive invariant;
* `FilesNeverWild`: `Spec => []NoWildPointer`;
* `FileBlocksApart`: `Spec => []NoBlockShared`;
* `WritesOverlay`: `Spec => []WriteOverlays`;
* `TruncationsKeepBeginning`: `Spec => []TruncateKeepsBeginning`;
* `ReadsReturnContent`: `Spec => []ReadReturnsContent`;
* `FlatFileImplemented`: `Spec => ImplementsFlatFile`, the refinement.

`Envelope` is: `POINTER_WORDS = 1` (a 32-bit build); `HOLE_END < WORDS` (a gap ends in the
first block of a file); `(MAX_SIZE \div WORDS) + 1 < WORDS` (files leave room in their first
pointer block: on the real disk, with 1024 words per block, files of up to 4 MB). Each conjunct is there
because the code goes wrong without it: the first two and the use of a second pointer
block are three of the disagreements listed in section 3. The constants of `file_blocks`
meet it; those of `file_content`, whose files reach the last pointer of the
block, go one block beyond it, and what that run checks still holds.

For every disk, set of names with their spelling, and any number of clients of one mount
and of calls, in `SacCallsProofs`, under `WireFits` and with at least two nodes:

* `AskedIsExecuted`: `CallsSpec => []ExecutesWhatWasAsked`;
* `HandlesKept`: `CallsSpec => []HandlesStayTrue`;
* `OnlyCutsHurt`: `CallsSpec => OnlyACutConnectionHurts` if
  `NODE_TABLE_BLOCKS <= DIR_ENTRIES`, as above;
* `CallsTyped`: `CallsSpec => []CallsTypeOK`;
* `ReturnsTrue`: `CallsSpec => []ReturnsWhatTheDiskHas`, for names of every spelling
  and files of every size.

`WireFits` says that values fit the fields of `serialization.c`: both ends have a
`size_t` of four bytes (a 32-bit build), a path and the fields behind it fit a `short`
(names have 71 bytes), node numbers fit the two bytes of a file descriptor, and the size
of a file the four of a `size_t`. With a `size_t` of eight bytes the server does take
other arguments than the client has sent (section 3).

For every set of threads, every number of requests, both kinds of overlap and every disk of
`Disks`, in `SacParallelProofs`:

* `ParallelTyped`: `ParallelSpec => []ParallelTypeOK`;
* `WritesInTables`: `ParallelSpec => []WritesStayInTables`.

For every `MAX_THREADS` and every finite set of thread ids, in
`ThreadPoolProofs`: `PoolTyped`, `PoolRegistered`, `PoolBounded`
(`Spec => []TypeOK`, `[]Registered`, `[]AtMostMaxThreads`).

**The argument for the tree.** None of the properties is inductive. `Inv(k, M)`
in `SacDiskLemmas` is: the root is a live directory; every live node has blocks
if and only if it has a size, and they are marked data blocks (`NodesOK`); no two
live nodes share one (`BlocksApart`); every entry of a live directory names a
live node that is not the root and whose parent is that directory
(`EntriesOK`); no two entries name the same node (`NoTwin`); every live node
outside `M` but the root is named (`AllNamed`). `M` is what makes operations
composable: it holds the nodes that are reserved but not named *in the middle*
of an operation. `sac_open` goes from `Inv(k, {})` through a reserved node
(`AllocKeepsInv`, `M = {c}`) to its entry (`AddKeepsInv`, back to `{}`);
`sac_rename` deletes an entry (`DeleteKeepsInv`, `M = {c}`), adds one and sets
the parent (`RelinkKeepsInv`); `sac_remove` and `sac_rmdir` delete the entry and
give the node back (`FreeKeepsInv`). Each operation has a lemma; each ends in an
`Outcome`: it completes with `Inv(k, {})`, exits, or goes wild, the last only if
a directory is full, which a counting argument (`FewerEntriesThanNodes`: entries
of a directory name distinct nodes other than the root) excludes for small node
tables. `TreeInv` is `TypeOK`, `Inv(fs, {})` while the server is up, and that
bound.

`TreeRooted` adds (`NoCycleInv`) that no non-empty set of live nodes without the root is closed
under parents. It is preserved since an operation changes the parent of one node
at most (`Links`, `Unlinks`), and the walk to the node's new directory, which
`VfsAllows` keeps clear of the node itself, would have to enter the set
(`WalkEnters`).

**The argument for names and for the refinement.** An `Outcome` says that the disk
is in order afterwards, not what has become of which object. `Effect` adds that: of
two disks `k` and `l`, an operation creates one node, deletes one, moves one, or
changes none (`Creates`, `Deletes`, `Moves`, `KinAll`), and every other node is `Kin`:
as live as before, of the same kind and parent, *and* its entry is still in its
directory under the same name (`KeepsName`), although deleting another entry has
shifted it to another place. `NoTwin` and `EntriesOK` make the name a node is held under
the one that `NameOf` chooses (`HeldName`), so a node that is kin looks the same
to clients (`KinLooksSame`), and `Abstract` changes at one object (`AbsExcept`). What is
left is one object per request: a created name was free because `exists_entry` saw
every entry and every object of the directory has one (`ChildHeld`); a deleted one
had no entries, so no children; a moved one leaves the tree rooted
(`NoCycleInv'`). An operation that exits or goes wild maps to `Stop`. `Tame` is `Effect`
with the new name free, which every request but a rename onto a taken name has
(`RenameOnto`); with it two nodes of one directory that shared a name afterwards
would have shared it before (`TameKeepsUnique`).

**The argument for files.** `InOrder(s, R)` says of a file at work, on a disk where the
blocks `R` belong to others: it uses its first pointer block only, and unless it is
empty that block and the data blocks `0 .. m`, up to the one it writes next, form a
`Chain`: all reserved, all different, none in `R`. Blocks hold data and pointers in the
same words and keep them when they are freed, so nothing weaker survives a step: that
the next write finds a block number at pointer `m`, and not a word left by the
block's last owner, rests on the block having been reserved ahead at that place; that
writing data leaves the pointers alone, and that a pointer does not land in somebody's
data, on the chain being disjoint from itself and from `R`. `FileInv` is `TypeOK`, that the
server is not wild, and while it is up that each file is in order and that what two files
own (`Owned`) is disjoint. TLC has checked it on the instance of `file_blocks` and on
one with blocks of four words.

`At(s, x)` is the word at place `x` of a file, through the quotient and remainder of `x`; all
statements about contents are about `At`. A write is followed through its parts:
a gap within the first block (`FillTurnDoes`, `Filled`), the copy into one block, which
changes its own words only (`CopyKeeps`, `CopyAt`), the block reserved behind a full one
(`AddToChain`), a piece with its new size (`WritePiece`, `Put`), and any number of turns
(`WriteTurnDoes`, `WriteBlocksDoes`), which together make `Overlaid`; a
truncation through `DeleteDoes` and `ShrinkDoes` (`Fitted`, with a length in `Reached`), a
read through `ReadTurnDoes` and `ReadEnds`. The loops are recursive functions over the number of turns,
whose value the provers cannot find by induction on a definition. `LayoutLemmas` has
the two facts that replace it: a step on a set can be repeated any number of times
(`LoopExists`, hence the function of the definition exists), and a loop whose turns stay in
a set and make a measure smaller is at rest after as many turns as the measure was
large (`LoopEnds`). Both are proved from the existence of least elements. A loop
lemma (`FillHoleEnds`, `WriteBlocksEnds`, `ShrinkEnds`, `ReadEnds`) instantiates them once
with a set of states, and that set is the loop invariant.

A request then works on one file beside `Others(f)`. If it leaves the file in order
and the blocks `Others(f)` alone, the invariant and the words of the other files are
kept (`RequestKeeps`, `LeavesOthers`), since those are a function of what they own
(`LeftAlone`). For the refinement, `Overlaid` and `Fitted` become `Overlay` and `Resize`
of flat sequences (`OverlaidWords`, `FittedWords`), `LeavesOthers` becomes `Only`
(`OnlyOne`), and a program that exits on a full disk maps to `Stop` (`Stops`).

**The argument for calls.** `CallsInv` is `TypeOK` and five parts. `Connections` says what
can be in the streams of a client and its thread: before the handshake is answered, the
handshake; then the package of the client's call, or nothing, and the function the thread
has read is the one of that package; afterwards an answer, or nothing. It is what a stream
protocol without sequence numbers rests on: a thread never looks at bytes that are not the
current call's. `WireLemmas` has what those bytes mean: a number written with `Bytes` and
read with `Unsigned` is itself if it fits (quotients and remainders), a field begins where
the one before it ends (`At`, `Copy`), so each function's arguments come back
(`ReadUnderstood`, `WriteUnderstood`, ...). With the call understood, one request of the
server is one operation of the disk (`Executing`, `Leaves`), and the lemmas of
`SacDiskLemmas` apply. The other parts tie clients to the disk. `Openings`: an answer to
an open that is on the way has the number of a node, and that node is the file of that
name, in the life that was opened. `Orderly`, while the server is up: the disk is
consistent (`Inv(fs, {})`), the calls that the server still has do not clash
(`NoClashes`), what the kernel saw before it sent a call still holds (`Ready`), no unlink
on the way is about to remove the file of a handle (`Unopened`), and every handle leads to
the file it was opened for (`Handles`). This is where `SAME_MOUNT` is needed: with two
mounts the claim is false (`stale_handle`).

Two invariants on top of `CallsInv` lead to the results. `Bytewise` says that streams are
bytes and that an answer that waits can be sent (`Sound`): an answer of the server is a
number, attributes, as many bytes as a read has found or the names of a directory, and
`ExecuteTells` shows, operation by operation, that each fits its package and that the
handler makes of it what the disk has (`Tells`). The hard ones are the errors, negative
numbers in eight bytes (`ErrorComesBack`), and the listing, which the client walks from
string to string until it has used up the package's size (`ReaddirAnswerIs`, again a
recursive function followed without induction: `Rests`, `Entries`). `Results` says that
the answer that waits, the one on its way and the one taken are right (`Answering`), and
keeps a fact about the disk that the answers need: no directory but the root has
entries (`Shallow`, so `sac_rmdir` finds every directory empty), for no request gives
another one any (`Sizes`). The answer to a call of another client that is executed in between
touches neither. TLC has checked `Openings`, `Orderly` and `Results` on the instance of
`calls` (171 461 states).

**The argument for the pool.** `Registered` is what makes `AtMostMaxThreads`
inductive: a thread that attends is in the list, or main is about to put it
there, since only the loop of that thread, once it has stopped attending, removes
its id; and main accepts only after it has seen a free place, which no other
thread can fill. `PoolBounded` then maps attending threads one to one to places of the list.

**The argument for parallel requests.** Neither property of `SacParallel` is inductive: a
thread that is about to write has long lost sight of where its number came from. `ParallelInv`
therefore speaks of the whole row `todo` that a thread still has, whatever the other
threads have done to the disk. `FieldsOK` has the types of the local variables; `StepsOK` says
that a scan has a name to look for, that a node read last is read for something, that only a
request with a new name adds an entry, and that an entry goes only from a copy whose size
is not zero; `AimedOK` says that behind every write that is still to come either the step
that finds its place comes first, or the place has been found: a bit is set right
after it is found, a pointer is linked after its pointer block was found (`Linking`), a node is
saved after its number was found and no step in between takes another, the copy kept apart
belongs to a node that was read. Rows are put together from a few written ones
(`RowsOfBlocks`, `RowsOfCreation`, `WrittenRows`, `OtherRows`), a row joined to another keeps
the plan of both (`Joined`), a row whose places are planned is aimed (`PlanIsAimed`), and
so is what is left of it after its first step (`RestAimed`). What a thread reads is a
node or an entry of the right type since the disk keeps its types (`DiskOK`), and that is all
the argument takes from the other threads: it holds when they lose each other's updates.
TLC has checked `ParallelInv` on the constants of `parallel_mount`, where that happens.

**Only model-checked:** `ThreadsEnd` and `CallsReturn` (liveness is outside the prover);
`NothingLost`, `WholeBetweenRequests` and `AnswersAreTrue` of `SacParallel`, which need to know,
for each pair of places two requests may be at, that neither touches what the other has copied,
and what paths lead to while several updates are half done; and the violations. Of `SacFile` nothing is, within the
envelope; beyond it, only types are proved. Of `SacCalls` only `CallsReturn` is, for one mount
and fields that fit.

## 5. What could follow

1. Three threads and files of several blocks in `SacParallel`.
2. Proofs: `NothingLost` of `SacParallel` under `"disjoint"`.

## 6. Not modelled

* Torn reads: a node or a block that one thread copies while another writes it.
* A connection that ends before the handshake has been sent, and `getaddrinfo`,
  `socket` and `recv` that fail while both ends live.
* Modification times and the copy of the name in the node, which nothing reads
  back; permissions, which the code ignores.
* The local backend (`fs_local.c`), which passes each request on to the libc call of
  the same name and keeps no state; logging; the command line and the
  configuration, which choose a port and a backend; the scripts for manual tests.
