------------------------------ MODULE SacFile ------------------------------
(***************************************************************************)
(* The contents of files on a SAC disk: sac_write, sac_read, sac_truncate  *)
(* and the blocks they reserve and free, over any number of data and       *)
(* pointer blocks.  One request runs at a time.  SacTree has the names.    *)
(*                                                                         *)
(* Data kept: a block is a row of words of four bytes, the size of a       *)
(* block pointer; file_size and offsets count words.  The same words are   *)
(* data in one block and pointers in another, so a block that is reserved  *)
(* again carries what it held before.                                      *)
(***************************************************************************)
EXTENDS SacLayout, Sequences, FiniteSets

CONSTANTS
    File,            \* node numbers of the files
    POINTER_BLOCKS,  \* length of indirect_pointer_block (1000)
    POINTER_WORDS,   \* sizeof(u_int32_t*) in words: 1, or 2 in a 64-bit build
    Null, LetterA,   \* the words memset writes: '\0' and 'A'
    Urandom,         \* what dd leaves in a data block
    Buffer,          \* what clients write: non-empty sequences of words
    None,            \* the content of a file that does not exist, and the
                     \* answer -1 of sac_read; no sequence
    MAX_SIZE,        \* bound: size of a file
    HOLE_END         \* bound: a write past the end starts here at most

VARIABLES
    bitmap,  \* the bitmap in memory: the set of used blocks
    node,    \* the nodes of the files
    block,   \* the data blocks
    server   \* "up"; "exit" after exit(-1); "wild" once a word that is no
             \* data block has been used as one

vars == <<bitmap, node, block, server>>

\* Words of a block, which is also the number of pointers in it (1024).
WORDS == BLOCK_SIZE \div 4
Index == 0 .. WORDS - 1

Byte == {Null, LetterA} \cup UNION {{b[i] : i \in 1 .. Len(b)} : b \in Buffer}

t_node == [state : {0, 1}, file_size : Nat,
           indirect_pointer_block : [0 .. POINTER_BLOCKS - 1 -> {0} \cup DataBlock]]

ASSUME FileAssumption ==
    /\ File \subseteq NodeNum
    /\ POINTER_BLOCKS \in Nat \ {0}
    /\ POINTER_WORDS \in {1, 2}
    /\ Null # LetterA
    /\ None \notin Seq(Byte \cup {Urandom} \cup DataBlock)
    /\ (Byte \cup {Urandom}) \cap Block = {}
    /\ WORDS \in Nat \ {0}
    /\ \A b \in Buffer : b \in Seq(Byte) /\ Len(b) > 0
    /\ MAX_SIZE \in Nat /\ MAX_SIZE \div (WORDS * WORDS) + 1 < POINTER_BLOCKS
    /\ HOLE_END \in 0 .. MAX_SIZE

Least2(a, b) == IF a > b THEN b ELSE a

\* What an operation works on: the disk and its copy of a node.
Open(f) == [bitmap |-> bitmap, block |-> block, server |-> server, node |-> node[f]]

\* unmap_and_destroy_node: the copy goes back, if the program gets there.
Close(f, s) ==
    /\ bitmap' = s.bitmap
    /\ block'  = s.block
    /\ server' = s.server
    /\ node'   = IF s.server = "up" THEN [node EXCEPT ![f] = s.node] ELSE node

Exit(s) == [s EXCEPT !.server = "exit"]
Wild(s) == [s EXCEPT !.server = "wild"]

\* A loop of at most n turns.  p.s is what it works on, p.n its counter.
While(Goes(_), Turn(_), p, n) ==
    LET turn[i \in 0 .. n] ==
          IF i = 0 THEN p
          ELSE LET q == turn[i - 1]
               IN  IF q.s.server = "up" /\ Goes(q) THEN Turn(q) ELSE q
    IN  turn[n].s

-----------------------------------------------------------------------------
(***************************************************************************)
(* The blocks of a file (node.c).                                          *)
(***************************************************************************)

\* The word where the code looks for the number of the file's data block j:
\* it steps through the pointers by the size of a pointer in memory.
DataBlockNum(s, j) ==
    LET p == s.node.indirect_pointer_block[j \div WORDS]
        i == POINTER_WORDS * (j % WORDS)
    IN  IF p \in DataBlock /\ i \in Index THEN s.block[p][i] ELSE Urandom

CanFollow(s, j) == DataBlockNum(s, j) \in DataBlock

\* Pointer blocks in use: those before the first zero.
UsedPointers(nd) ==
    {i \in 0 .. POINTER_BLOCKS - 1 : \A j \in 0 .. i : nd.indirect_pointer_block[j] # 0}

create_data_block_in_pointer_block(s, a, i) ==
    IF FreeBlocks(s.bitmap, DataBlock) = {} THEN Exit(s)
    ELSE LET b == get_free_data_block(s.bitmap)
         IN  [s EXCEPT !.bitmap = @ \cup {b},
                       !.block[s.node.indirect_pointer_block[a]][i] = b]

create_pointers_block_in_node(s, a) ==
    IF FreeBlocks(s.bitmap, DataBlock) = {} THEN Exit(s)
    ELSE LET b == get_free_data_block(s.bitmap)
         IN  [s EXCEPT !.bitmap = @ \cup {b},
                       !.node.indirect_pointer_block[a] = b]

\* Mutant: the count of blocks leaves out the one in use.
MutAddSamePlace(s) ==
    LET last == Cardinality(UsedPointers(s.node)) - 1
        n    == s.node.file_size \div WORDS
        t    == create_pointers_block_in_node(s, last + 1)
    IN  IF n < WORDS * (last + 1)
          THEN create_data_block_in_pointer_block(s, last, n % WORDS)
        ELSE IF t.server = "up"
          THEN create_data_block_in_pointer_block(t, last + 1, 0)
        ELSE t

\* The place of the new block follows from the size of the file; the pointer
\* block is the last one the node has, or a new one.
add_data_block_to_node(s) ==
    LET last == Cardinality(UsedPointers(s.node)) - 1
        n    == s.node.file_size \div WORDS + 1
        t    == create_pointers_block_in_node(s, last + 1)
    IN  IF n < WORDS * (last + 1)
          THEN create_data_block_in_pointer_block(s, last, n % WORDS)
        ELSE IF t.server = "up"
          THEN create_data_block_in_pointer_block(t, last + 1, 0)
        ELSE t

\* Mutants: the freed pointer block stays in the node; no case for a file of
\* one block.
MutDeleteKeepsPointer(s) ==
    LET b == s.node.file_size \div WORDS
        p == s.node.indirect_pointer_block[b \div WORDS]
    IN  IF s.node.file_size = 0 THEN s
        ELSE IF ~CanFollow(s, b) THEN Wild(s)
        ELSE [s EXCEPT
                !.bitmap = @ \ ({DataBlockNum(s, b)} \cup IF b % WORDS = 0 THEN {p} ELSE {}),
                !.node.file_size = IF b = 0 THEN 0 ELSE (b - 1) * WORDS]

MutDeleteBelowZero(s) ==
    LET b == s.node.file_size \div WORDS
    IN  IF s.node.file_size = 0 THEN s
        ELSE [s EXCEPT !.bitmap = @ \ {DataBlockNum(s, b)},
                       !.node.file_size = (b - 1) * WORDS]

\* The last data block goes, and with the first of a pointer block that too.
deleteLastDataBlock(s) ==
    LET nd == s.node
        b  == nd.file_size \div WORDS
        a  == b \div WORDS
        p  == nd.indirect_pointer_block[a]
    IN  IF nd.file_size = 0 THEN s
        ELSE IF ~CanFollow(s, b) THEN Wild(s)
        ELSE [s EXCEPT
                !.bitmap = @ \ ({DataBlockNum(s, b)} \cup IF b % WORDS = 0 THEN {p} ELSE {}),
                !.node.indirect_pointer_block[a] = IF b % WORDS = 0 THEN 0 ELSE @,
                !.node.file_size = IF b = 0 THEN 0 ELSE (b - 1) * WORDS]

\* memcpy of words into data block j of the file.
CopyIn(s, j, at, words) ==
    [s EXCEPT !.block[DataBlockNum(s, j)] =
        [i \in Index |-> IF i - at \in 0 .. Len(words) - 1 THEN words[i - at + 1] ELSE @[i]]]

-----------------------------------------------------------------------------
(***************************************************************************)
(* The requests (sacio.c), on an open file.                                *)
(***************************************************************************)

\* The gap before a write past the end: one turn of the loop that writes
\* '\0' up to the offset, of which p.n words remain.
FillTurn(p) ==
    LET size == p.s.node.file_size
        j    == (size \div WORDS) % WORDS
        at   == size % WORDS
        n    == Least2(p.n, WORDS) - at
        t    == [CopyIn(p.s, j, at, [i \in 1 .. n |-> Null]) EXCEPT !.node.file_size = @ + n]
    IN  IF ~CanFollow(p.s, j) THEN [p EXCEPT !.s = Wild(@)]
        ELSE [n |-> p.n - n,
              s |-> IF at + n = WORDS /\ p.n > n THEN add_data_block_to_node(t) ELSE t]

FillHole(s, offset) ==
    LET Goes(p) == p.s.node.file_size < p.n
    IN  While(Goes, FillTurn, [s |-> s, n |-> offset], offset)

\* Mutant: the words written count as new, as in the line commented out.
MutWriteAddsToSize(s, offset, buffer) ==
    LET Goes(p) == p.n < Len(buffer)
        Turn(p) ==
            LET j   == (offset + p.n) \div WORDS
                at  == (offset + p.n) % WORDS
                n   == Least2(Len(buffer) - p.n, WORDS - at)
                t   == CopyIn(p.s, j, at, SubSeq(buffer, p.n + 1, p.n + n))
                u   == IF n = WORDS - at THEN add_data_block_to_node(t) ELSE t
            IN  IF ~CanFollow(p.s, j) THEN [p EXCEPT !.s = Wild(@)]
                ELSE [n |-> p.n + n, s |-> [u EXCEPT !.node.file_size = @ + n]]
    IN  While(Goes, Turn, [s |-> s, n |-> 0], Len(buffer))

\* p.n words are written.  A block that is full gets a successor, whether or
\* not the file goes on behind it.
WriteTurn(p, offset, buffer, fileSizeOriginal) ==
    LET j   == (offset + p.n) \div WORDS
        at  == (offset + p.n) % WORDS
        n   == Least2(Len(buffer) - p.n, WORDS - at)
        end == offset + p.n + n
        t   == CopyIn(p.s, j, at, SubSeq(buffer, p.n + 1, p.n + n))
        u   == IF n = WORDS - at THEN add_data_block_to_node(t) ELSE t
    IN  IF ~CanFollow(p.s, j) THEN [p EXCEPT !.s = Wild(@)]
        ELSE [n |-> p.n + n,
              s |-> IF end > fileSizeOriginal
                      THEN [u EXCEPT !.node.file_size = end] ELSE u]

WriteBlocks(s, offset, buffer) ==
    LET Goes(p) == p.n < Len(buffer)
        Turn(p) == WriteTurn(p, offset, buffer, s.node.file_size)
    IN  While(Goes, Turn, [s |-> s, n |-> 0], Len(buffer))

Write(s, offset, buffer) ==
    LET t == IF s.node.indirect_pointer_block[0] = 0 THEN add_data_block_to_node(s)
                                                      ELSE s
    IN  WriteBlocks(FillHole(t, offset), offset, buffer)

\* Mutant: the last piece is cut off with its block.
MutShrinkByBlocks(s, length) ==
    LET Goes(p) == p.s.node.file_size > p.n
        Turn(p) == [p EXCEPT !.s = deleteLastDataBlock(@)]
    IN  While(Goes, Turn, [s |-> s, n |-> length], s.node.file_size)

\* p.n is the length to reach.
ShrinkTurn(p) ==
    [p EXCEPT !.s =
        IF @.node.file_size - p.n >= WORDS \/ p.n = 0
          THEN deleteLastDataBlock(@)
          ELSE [@ EXCEPT !.node.file_size = p.n]]

Shrink(s, length) ==
    LET Goes(p) == p.s.node.file_size > p.n
    IN  While(Goes, ShrinkTurn, [s |-> s, n |-> length], s.node.file_size)

Truncate(s, length) ==
    LET size == s.node.file_size
    IN  IF length > size
          THEN Write(s, size, [i \in 1 .. length - size |-> LetterA])
          ELSE Shrink(s, length)

\* The words a removal takes for the numbers of the file's data blocks.
Freed(s) ==
    {s.block[s.node.indirect_pointer_block[x[1]]][x[2]] :
        x \in {y \in UsedPointers(s.node) \X Index :
                  y[1] * WORDS + y[2] <= s.node.file_size \div WORDS}}

Remove(s) ==
    IF ~(Freed(s) \subseteq DataBlock) THEN Wild(s)
    ELSE [s EXCEPT
            !.bitmap = @ \ (Freed(s) \cup
                {s.node.indirect_pointer_block[i] : i \in UsedPointers(s.node)}),
            !.node.state = 0]

\* Mutant: every block is read from the place in the first one.
MutReadKeepsPlace(s, want, p) ==
    LET n == Least2(want - Len(p.words), Least2(WORDS, s.node.file_size) - p.at)
    IN  [words |-> p.words \o [k \in 1 .. n |-> s.block[DataBlockNum(s, p.j)][p.at + k - 1]],
         j |-> p.j + 1, at |-> p.at]

\* p.words are copied; the next come from place p.at of data block p.j.
ReadTurn(s, want, p) ==
    LET n == Least2(want - Len(p.words), Least2(WORDS, s.node.file_size) - p.at)
    IN  [words |-> p.words \o [k \in 1 .. n |-> s.block[DataBlockNum(s, p.j)][p.at + k - 1]],
         j |-> p.j + 1, at |-> 0]

\* sac_read: the words it copies, or None for -1.
sac_read(s, offset, count) ==
    LET size == s.node.file_size
        want == Least2(count, size - offset)
        p    == [words |-> <<>>, j |-> offset \div WORDS, at |-> offset % WORDS]
        turn[i \in 0 .. want] ==
            IF i = 0 THEN p
            ELSE LET q == turn[i - 1]
                 IN  IF Len(q.words) < want THEN ReadTurn(s, want, q) ELSE q
    IN  IF s.node.state # 1 \/ s.node.indirect_pointer_block[0] = 0 THEN None
        ELSE IF offset >= size THEN <<>> ELSE turn[want].words

-----------------------------------------------------------------------------
(***************************************************************************)
(* The server.                                                             *)
(***************************************************************************)
Up == server = "up"

Exists(f) == node[f].state = 1

create_file_node ==
    [state |-> 1, file_size |-> 0,
     indirect_pointer_block |-> [i \in 0 .. POINTER_BLOCKS - 1 |-> 0]]

sac_open(f) ==
    /\ ~Exists(f)
    /\ node' = [node EXCEPT ![f] = create_file_node]
    /\ UNCHANGED <<bitmap, block, server>>

\* The requests the clients make.
MayWrite(f, offset, buffer) ==
    /\ Exists(f)
    /\ offset <= node[f].file_size \/ offset <= HOLE_END
    /\ offset + Len(buffer) <= MAX_SIZE

sac_write(f, offset, buffer) ==
    /\ MayWrite(f, offset, buffer)
    /\ Close(f, Write(Open(f), offset, buffer))

sac_truncate(f, length) ==
    /\ Exists(f)
    /\ Close(f, Truncate(Open(f), length))

sac_remove(f) ==
    /\ Exists(f)
    /\ Close(f, Remove(Open(f)))

Init ==
    /\ bitmap = create_default_bitmap
    /\ node = [f \in File |-> [create_file_node EXCEPT !.state = 0]]
    /\ block = [b \in DataBlock |-> [i \in Index |-> Urandom]]
    /\ server = "up"

Next ==
    /\ Up
    /\ \E f \in File :
        \/ sac_open(f)
        \/ \E offset \in 0 .. MAX_SIZE, buffer \in Buffer : sac_write(f, offset, buffer)
        \/ \E length \in 0 .. MAX_SIZE : sac_truncate(f, length)
        \/ sac_remove(f)

Spec == Init /\ [][Next]_vars

-----------------------------------------------------------------------------
(***************************************************************************)
(* What makes the contents correct.                                        *)
(***************************************************************************)

\* Every variable keeps its type.
TypeOK ==
    /\ bitmap \in SUBSET Block
    /\ node \in [File -> t_node]
    /\ block \in [DataBlock -> [Index -> Byte \cup {Urandom} \cup DataBlock]]
    /\ server \in {"up", "exit", "wild"}

\* The blocks of a file: its pointer blocks, the data blocks of its words and
\* the one it writes next.
Places(f) ==
    IF ~Exists(f) \/ node[f].indirect_pointer_block[0] = 0 THEN {}
    ELSE ({"pointers"} \X UsedPointers(node[f]))
         \cup ({"data"} \X (0 .. node[f].file_size \div WORDS))

BlockAt(f, x) ==
    IF x[1] = "pointers" THEN node[f].indirect_pointer_block[x[2]]
                         ELSE DataBlockNum(Open(f), x[2])

\* Whatever was written over, cut, extended or removed: the blocks a file
\* needs are reserved, and each serves one purpose in one file.
NoBlockShared ==
    Up => \A f \in File : \A x \in Places(f) :
        /\ BlockAt(f, x) \in DataBlock \cap bitmap
        /\ \A g \in File : \A y \in Places(g) :
              BlockAt(f, x) = BlockAt(g, y) => f = g /\ x = y

\* No word that is not the number of a data block is used as one.
NoWildPointer == server # "wild"

\* The words of the open file s, read straight from its blocks.
Words(s) ==
    [i \in 1 .. s.node.file_size |->
        LET j == (i - 1) \div WORDS
        IN  IF CanFollow(s, j) THEN s.block[DataBlockNum(s, j)][(i - 1) % WORDS]
                               ELSE Urandom]

Content(f) == IF Up /\ Exists(f) THEN Words(Open(f)) ELSE None

Contents == [f \in File |-> Content(f)]

F == INSTANCE FlatFile WITH Zero <- Null, Fill <- Byte, Block <- WORDS, MaxSize <- MAX_SIZE,
                            content <- Contents, up <- Up

\* Files are sequences of words that writes overlay, truncations cut or
\* extend, and requests on other files leave alone.
ImplementsFlatFile == F!Spec

\* sac_read, block by block, returns the words asked for that the file has,
\* and -1 for no file that has a word.
ReadReturnsContent ==
    Up => \A f \in File : Exists(f) =>
        \A offset \in 0 .. MAX_SIZE, count \in 1 .. MAX_SIZE :
            LET got == sac_read(Open(f), offset, count)
            IN  \/ got = SubSeq(Content(f), offset + 1,
                                Least2(offset + count, node[f].file_size))
                \/ got = None /\ Content(f) = <<>>

\* A write, in as many turns over as many blocks as it takes, leaves its words
\* at its offset, zeros in the gap before them and the rest as it was.
WriteOverlays ==
    Up => \A f \in File, offset \in 0 .. MAX_SIZE, buffer \in Buffer :
        LET s == Write(Open(f), offset, buffer)
        IN  MayWrite(f, offset, buffer) /\ s.server = "up"
                => Words(s) = F!Overlay(Content(f), offset, buffer)

\* A truncation, in as many turns as it takes, keeps the beginning of the
\* file.  It never leaves more words than asked for, nor fewer if it extends
\* the file or takes less than a block from it, and misses the length by less
\* than a block if it takes more.
TruncateKeepsBeginning ==
    Up => \A f \in File, length \in 0 .. MAX_SIZE :
        LET s == Truncate(Open(f), length)
        IN  Exists(f) /\ s.server = "up"
                => Words(s) \in F!Truncations(Content(f), length)

\* "el valor final a truncar" (sacio.c:544-545) is what the loop cuts down to:
\* a truncation gives the file the length asked for.
TruncateReachesLength ==
    Up => \A f \in File, length \in 0 .. MAX_SIZE :
        LET s == Truncate(Open(f), length)
        IN  Exists(f) /\ s.server = "up" => s.node.file_size = length

\* "Completa el bloque con /0. Arranca con offset=filesize" (sacio.c:529):
\* what a truncation adds to a file are zeros.
TruncateFillsWithZeros ==
    Up => \A f \in File, length \in 0 .. MAX_SIZE :
        LET s == Truncate(Open(f), length)
        IN  Exists(f) /\ s.server = "up"
                => \A i \in node[f].file_size + 1 .. s.node.file_size : Words(s)[i] = Null
=============================================================================
