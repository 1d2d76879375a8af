--------------------------- MODULE SacFileProofs ---------------------------
(***************************************************************************)
(* Files stay typed, their blocks stay theirs and no stray word is taken   *)
(* for a block, whatever the number and sizes of files and disks.  First   *)
(* what each step of sac_write, sac_read, sac_truncate and a removal does  *)
(* to the blocks and words of a file, then the specification as a whole.   *)
(***************************************************************************)
EXTENDS SacFile, LayoutLemmas, SequenceTheorems

Word == Byte \cup {Urandom} \cup DataBlock

\* What an operation works on.
State == [bitmap : SUBSET Block, node : t_node, block : [DataBlock -> [Index -> Word]],
          server : {"up", "exit", "wild"}]

LoopState == [s : State, n : Nat]

-----------------------------------------------------------------------------
(***************************************************************************)
(* Typing: whatever the request, the constants and the state of the disk.  *)
(***************************************************************************)
\* What the constants are assumed to be, as the proofs below use it.
LEMMA Constants ==
    /\ WORDS \in Nat \ {0} /\ 0 \in Index /\ Index \subseteq Nat
    /\ DataBlock \subseteq Block /\ DataBlock \subseteq Nat \ {0} /\ Null \in Byte /\ LetterA \in Byte
    /\ POINTER_BLOCKS \in Nat \ {0}
    /\ \A b \in Buffer : b \in Seq(Byte) /\ Len(b) \in Nat \ {0}
<1>1. DATA_INITIAL_BLOCK \in Nat \ {0}
  BY LayoutAssumption DEF DATA_INITIAL_BLOCK, NODE_TABLE_INITIAL_BLOCK, BITMAP_INITIAL_BLOCK
<1>2. WORDS \in Nat \ {0} /\ POINTER_BLOCKS \in Nat \ {0}
      /\ \A b \in Buffer : b \in Seq(Byte) /\ Len(b) \in Nat \ {0}
  BY FileAssumption
<1>3. 0 \in Index /\ Index \subseteq Nat
  BY <1>2 DEF Index
<1>4. DataBlock \subseteq Block /\ DataBlock \subseteq Nat \ {0}
  BY <1>1, LayoutAssumption DEF DataBlock, Block
<1>5. Null \in Byte /\ LetterA \in Byte
  BY DEF Byte
<1> QED
  BY <1>2, <1>3, <1>4, <1>5

\* The block and the place in it of a word of a file.
LEMMA InWords ==
    ASSUME NEW a \in Nat
    PROVE  /\ a \div WORDS \in Nat /\ a % WORDS \in 0 .. WORDS - 1 /\ a % WORDS <= a
           /\ a = WORDS * (a \div WORDS) + (a % WORDS)
           /\ WORDS * (a \div WORDS) \in 0 .. a
<1>1. /\ a \div WORDS \in Nat /\ a % WORDS \in 0 .. WORDS - 1 /\ a % WORDS <= a
      /\ a = WORDS * (a \div WORDS) + (a % WORDS)
  BY Constants, DivMod
<1> DEFINE q == a \div WORDS
           m == WORDS * q
<1>2. m \in Nat
  <2> HIDE DEF q
  <2> QED
    BY <1>1, Constants DEF q
<1> HIDE DEF m
<1>3. m \in 0 .. a
  BY <1>1, <1>2 DEF m
<1> QED
  BY <1>1, <1>3 DEF m

\* The allocator returns a free data block, if there is one.
LEMMA DataBlockFree ==
    ASSUME NEW s \in State, FreeBlocks(s.bitmap, DataBlock) # {}
    PROVE  get_free_data_block(s.bitmap) \in DataBlock \ s.bitmap
BY FreeBlockIsFree, Constants DEF get_free_data_block

\* Each operation of node.c and each turn of a loop keeps the types: the
\* reservation of a block,
LEMMA AddTyped ==
    ASSUME NEW s \in State
    PROVE  add_data_block_to_node(s) \in State
<1>1. ASSUME NEW u \in State, NEW a, NEW i
      PROVE  create_data_block_in_pointer_block(u, a, i) \in State
  <2>1. CASE FreeBlocks(u.bitmap, DataBlock) = {}
    BY <2>1 DEF create_data_block_in_pointer_block, Exit, State
  <2>2. CASE FreeBlocks(u.bitmap, DataBlock) # {}
    <3> DEFINE b == get_free_data_block(u.bitmap)
    <3>1. b \in DataBlock /\ b \in Block /\ b \in Word
      BY <2>2, DataBlockFree, Constants DEF Word
    <3> HIDE DEF b
    <3>2. [u EXCEPT !.bitmap = @ \cup {b},
                    !.block[u.node.indirect_pointer_block[a]][i] = b] \in State
      BY <3>1 DEF State
    <3> QED
      BY <2>2, <3>2 DEF create_data_block_in_pointer_block, b
  <2> QED
    BY <2>1, <2>2
<1>2. ASSUME NEW u \in State, NEW a
      PROVE  create_pointers_block_in_node(u, a) \in State
  <2>1. CASE FreeBlocks(u.bitmap, DataBlock) = {}
    BY <2>1 DEF create_pointers_block_in_node, Exit, State
  <2>2. CASE FreeBlocks(u.bitmap, DataBlock) # {}
    <3> DEFINE b == get_free_data_block(u.bitmap)
    <3>1. b \in DataBlock /\ b \in Block
      BY <2>2, DataBlockFree, Constants
    <3> HIDE DEF b
    <3>2. [u EXCEPT !.bitmap = @ \cup {b},
                    !.node.indirect_pointer_block[a] = b] \in State
      BY <3>1 DEF State, t_node
    <3> QED
      BY <2>2, <3>2 DEF create_pointers_block_in_node, b
  <2> QED
    BY <2>1, <2>2
<1> QED
  BY <1>1, <1>2 DEF add_data_block_to_node

\* memcpy writes words of its source or leaves those that are there.
LEMMA CopyInTyped ==
    ASSUME NEW s \in State, NEW j, NEW at \in Nat, NEW words \in Seq(Byte)
    PROVE  CopyIn(s, j, at, words) \in State
<1> DEFINE d == DataBlockNum(s, j)
<1>1. ASSUME d \in DataBlock
      PROVE  [i \in Index |-> IF i - at \in 0 .. Len(words) - 1 THEN words[i - at + 1]
                              ELSE s.block[d][i]] \in [Index -> Word]
  <2>1. \A i \in Index : i - at \in 0 .. Len(words) - 1 => words[i - at + 1] \in Word
    BY Constants DEF Word
  <2>2. \A i \in Index : s.block[d][i] \in Word
    BY <1>1 DEF State
  <2> QED
    BY <2>1, <2>2
<1> HIDE DEF d
<1>2. [s EXCEPT !.block[d] =
        [i \in Index |-> IF i - at \in 0 .. Len(words) - 1 THEN words[i - at + 1]
                         ELSE @[i]]] \in State
  BY <1>1 DEF State
<1> QED
  BY <1>2 DEF CopyIn, d

\* a new size,
LEMMA SizeTyped ==
    ASSUME NEW s \in State, NEW n \in Nat
    PROVE  [s EXCEPT !.node.file_size = n] \in State
BY DEF State, t_node

\* Words that lie within a block, from the place a file ends at.
LEMMA FillsSome ==
    ASSUME NEW size \in Nat, NEW n \in Nat, size < n
    PROVE  /\ size % WORDS \in 0 .. WORDS - 1
           /\ Least2(n, WORDS) - (size % WORDS) \in 1 .. n
           /\ (size % WORDS) + (Least2(n, WORDS) - (size % WORDS)) <= WORDS
<1>1. size % WORDS \in 0 .. WORDS - 1 /\ size % WORDS <= size
  BY InWords
<1> DEFINE at == size % WORDS
<1> HIDE DEF at
<1> QED
  BY <1>1, Constants DEF Least2, at

\* a turn of the loop that closes a gap, which comes nearer to its end,
LEMMA FillTurnTyped ==
    ASSUME NEW p \in LoopState, p.s.node.file_size < p.n
    PROVE  /\ FillTurn(p) \in LoopState
           /\ FillTurn(p).s.server = "up" => FillTurn(p).n < p.n
<1> DEFINE size == p.s.node.file_size
           j    == (size \div WORDS) % WORDS
           at   == size % WORDS
           n    == Least2(p.n, WORDS) - at
           fill == [i \in 1 .. n |-> Null]
           c    == CopyIn(p.s, j, at, fill)
           t    == [c EXCEPT !.node.file_size = @ + n]
<1>1. p.s \in State /\ p.n \in Nat /\ size \in Nat
  BY DEF LoopState, State, t_node
<1>2. at \in 0 .. WORDS - 1 /\ n \in 1 .. p.n
  BY <1>1, FillsSome
<1>3. fill \in Seq(Byte)
  <2>1. n \in Nat
    BY <1>1, <1>2
  <2> HIDE DEF n
  <2> QED
    BY <2>1, Constants, IsASeq
<1>4. c \in State
  <2> HIDE DEF at, fill, j
  <2> QED
    BY <1>1, <1>2, <1>3, Constants, CopyInTyped
<1>5. t \in State
  <2> HIDE DEF c, n
  <2>1. c.node.file_size \in Nat
    BY <1>4 DEF State, t_node
  <2>2. c.node.file_size + n \in Nat
    BY <1>1, <1>2, <2>1
  <2> QED
    BY <1>4, <2>2, SizeTyped
<1>6. add_data_block_to_node(t) \in State
  BY <1>5, AddTyped
<1>7. Wild(p.s) \in State /\ Wild(p.s).server = "wild"
  BY <1>1 DEF Wild, State
<1> HIDE DEF t, n
<1>8. p.n - n \in Nat /\ p.n - n < p.n
  BY <1>1, <1>2
<1>9. FillTurn(p) = IF ~CanFollow(p.s, j) THEN [p EXCEPT !.s = Wild(@)]
        ELSE [n |-> p.n - n,
              s |-> IF at + n = WORDS /\ p.n > n THEN add_data_block_to_node(t) ELSE t]
  BY DEF FillTurn, t, n
<1> HIDE DEF j, at
<1> QED
  BY <1>1, <1>5, <1>6, <1>7, <1>8, <1>9 DEF LoopState

\* a turn of the loop that writes, which writes one word at least,
LEMMA WriteTurnTyped ==
    ASSUME NEW p \in LoopState, NEW offset \in Nat, NEW buffer \in Seq(Byte), NEW original \in Nat,
           p.n < Len(buffer)
    PROVE  /\ WriteTurn(p, offset, buffer, original) \in LoopState
           /\ WriteTurn(p, offset, buffer, original).s.server = "up"
                => WriteTurn(p, offset, buffer, original).n \in p.n + 1 .. Len(buffer)
<1> DEFINE j   == (offset + p.n) \div WORDS
           at  == (offset + p.n) % WORDS
           n   == Least2(Len(buffer) - p.n, WORDS - at)
           end == offset + p.n + n
           piece == SubSeq(buffer, p.n + 1, p.n + n)
           t   == CopyIn(p.s, j, at, piece)
           u   == IF n = WORDS - at THEN add_data_block_to_node(t) ELSE t
<1>1. p.s \in State /\ p.n \in Nat /\ Len(buffer) \in Nat
  BY DEF LoopState
<1>2. at \in 0 .. WORDS - 1
  <2>1. offset + p.n \in Nat
    BY <1>1
  <2> QED
    BY <2>1, InWords
<1>3. n \in 1 .. Len(buffer) - p.n
  <2> HIDE DEF at
  <2> QED
    BY <1>1, <1>2, Constants DEF Least2
<1> HIDE DEF n
<1>4. piece \in Seq(Byte)
  BY <1>1, <1>3, SubSeqProperties
<1>5. t \in State
  <2> HIDE DEF at, j, piece
  <2> QED
    BY <1>1, <1>2, <1>4, Constants, CopyInTyped
<1>6. u \in State
  BY <1>5, AddTyped
<1>7. end \in Nat /\ p.n + n \in p.n + 1 .. Len(buffer)
  BY <1>1, <1>3
<1>8. Wild(p.s) \in State /\ Wild(p.s).server = "wild"
  BY <1>1 DEF Wild, State
<1>9. WriteTurn(p, offset, buffer, original) =
        IF ~CanFollow(p.s, j) THEN [p EXCEPT !.s = Wild(@)]
        ELSE [n |-> p.n + n,
              s |-> IF end > original THEN [u EXCEPT !.node.file_size = end] ELSE u]
  BY DEF WriteTurn, n
<1> HIDE DEF u, j, at, end
<1>10. [u EXCEPT !.node.file_size = end] \in State
  BY <1>6, <1>7, SizeTyped
<1> QED
  BY <1>1, <1>6, <1>7, <1>8, <1>9, <1>10 DEF LoopState

\* the release of the last block, which makes a file shorter,
LEMMA DeleteTyped ==
    ASSUME NEW s \in State
    PROVE  deleteLastDataBlock(s) \in State
           /\ (s.node.file_size > 0 /\ deleteLastDataBlock(s).server = "up"
                 => deleteLastDataBlock(s).node.file_size < s.node.file_size)
<1> DEFINE nd == s.node
           b  == nd.file_size \div WORDS
           a  == b \div WORDS
           p  == nd.indirect_pointer_block[a]
           size == IF b = 0 THEN 0 ELSE (b - 1) * WORDS
           bits == {DataBlockNum(s, b)} \cup IF b % WORDS = 0 THEN {p} ELSE {}
           zero == b % WORDS = 0
           t == [s EXCEPT
                   !.bitmap = @ \ bits,
                   !.node.indirect_pointer_block[a] = IF zero THEN 0 ELSE @,
                   !.node.file_size = size]
<1>1. nd \in t_node /\ nd.file_size \in Nat
  BY DEF State, t_node
<1>2. b \in Nat /\ WORDS * b \in 0 .. nd.file_size
  BY <1>1, InWords
<1>3. size \in Nat /\ (nd.file_size > 0 => size < nd.file_size)
  <2> HIDE DEF b
  <2>1. CASE b = 0
    BY <1>1, <2>1
  <2>2. CASE b # 0
    <3>1. (b - 1) * WORDS \in Nat /\ (b - 1) * WORDS < WORDS * b
      BY <1>2, <2>2, Constants
    <3> DEFINE r == (b - 1) * WORDS
               m == WORDS * b
    <3>2. r \in Nat /\ r < m /\ m \in 0 .. nd.file_size /\ size = r
      BY <1>2, <2>2, <3>1
    <3> HIDE DEF r, m, size, nd
    <3> QED
      BY <1>1, <3>2
  <2> QED
    BY <2>1, <2>2
<1>4. t \in State /\ t.node.file_size = size
  <2> HIDE DEF size, bits, a, zero
  <2> QED
    BY <1>1, <1>3 DEF State, t_node
<1>5. deleteLastDataBlock(s) =
        IF nd.file_size = 0 THEN s ELSE IF ~CanFollow(s, b) THEN Wild(s) ELSE t
  BY DEF deleteLastDataBlock
<1>6. Wild(s) \in State /\ Wild(s).server = "wild"
  BY DEF Wild, State
<1> HIDE DEF t, b, size
<1> QED
  BY <1>1, <1>3, <1>4, <1>5, <1>6

\* and a turn of the loop that cuts a file.
LEMMA ShrinkTurnTyped ==
    ASSUME NEW p \in LoopState, p.s.node.file_size > p.n
    PROVE  /\ ShrinkTurn(p) \in LoopState /\ ShrinkTurn(p).n = p.n
           /\ ShrinkTurn(p).s.server = "up"
                => ShrinkTurn(p).s.node.file_size < p.s.node.file_size
<1>1. p.s \in State /\ p.n \in Nat /\ p.s.node.file_size \in Nat
  BY DEF LoopState, State, t_node
<1>2. [p.s EXCEPT !.node.file_size = p.n] \in State
      /\ [p.s EXCEPT !.node.file_size = p.n].node.file_size = p.n
  BY <1>1 DEF State, t_node
<1>3. deleteLastDataBlock(p.s) \in State
      /\ (deleteLastDataBlock(p.s).server = "up"
            => deleteLastDataBlock(p.s).node.file_size < p.s.node.file_size)
  BY <1>1, DeleteTyped
<1> QED
  BY <1>1, <1>2, <1>3 DEF ShrinkTurn, LoopState

\* The loop that fills the gap before a write comes to its end, and what
\* each of its turns keeps holds there.
LEMMA FillHoleEnds ==
    ASSUME NEW S, S \subseteq LoopState, NEW s, NEW offset \in Nat,
           [s |-> s, n |-> offset] \in S,
           \A q \in S : q.s.server = "up" /\ q.s.node.file_size < q.n => FillTurn(q) \in S
    PROVE  \E q \in S : FillHole(s, offset) = q.s /\ ~(q.s.server = "up" /\ q.s.node.file_size < q.n)
<1> DEFINE Runs(q) == q.s.server = "up" /\ q.s.node.file_size < q.n
           p == [s |-> s, n |-> offset]
           N == offset
           step == [q \in S |-> IF Runs(q) THEN FillTurn(q) ELSE q]
           Is(g) == g = [i \in 0 .. N |->
                           IF i = 0 THEN p
                           ELSE IF Runs(g[i - 1]) THEN FillTurn(g[i - 1]) ELSE g[i - 1]]
           turn == CHOOSE g : Is(g)
           left == [q \in S |-> IF Runs(q) THEN q.n ELSE 0]
<1>1. p \in S /\ N \in Nat
  OBVIOUS
<1>2. step \in [S -> S]
  OBVIOUS
<1>3. \E g : Is(g)
  <2> HIDE DEF p, N, step, Runs, Is, turn, left
  <2>1. PICK f \in [0 .. N -> S] : f[0] = p /\ \A i \in 1 .. N : f[i] = step[f[i - 1]]
    <3>1. Repeats(S, step, p, N)
      BY <1>1, <1>2, LoopExists
    <3> QED
      BY <3>1 DEF Repeats
  <2>2. ASSUME NEW i \in 1 .. N
        PROVE  f[i] = IF Runs(f[i - 1]) THEN FillTurn(f[i - 1]) ELSE f[i - 1]
    <3>1. f[i - 1] \in S /\ f[i] = step[f[i - 1]]
      BY <1>1, <2>1
    <3> QED
      BY <3>1 DEF step
  <2>3. Is(f)
    BY <1>1, <2>1, <2>2 DEF Is
  <2> QED
    BY <2>3
<1>4. Is(turn)
  <2> HIDE DEF Is
  <2> QED
    BY <1>3
<1>5. FillHole(s, offset) = turn[N].s
  BY DEF FillHole, While
<1>6. turn[0] = p /\ \A i \in 1 .. N : turn[i - 1] \in S => turn[i] = step[turn[i - 1]]
  <2> HIDE DEF turn, p, N, Runs
  <2> QED
    BY <1>1, <1>4
<1>7. left \in [S -> Nat] /\ left[p] <= N
  <2>1. \A q \in S : Runs(q) => q.n \in Nat
    BY Constants DEF LoopState, State, t_node
  <2>2. left[p] <= N
    BY <1>1, <2>1 DEF LoopState, State, t_node
  <2> QED
    BY <2>1, <2>2
<1>8. ASSUME NEW q \in S
      PROVE  IF Runs(q) THEN left[step[q]] < left[q] ELSE step[q] = q
  <2> SUFFICES ASSUME Runs(q) PROVE left[step[q]] < left[q]
    OBVIOUS
  <2> DEFINE r == FillTurn(q)
  <2>1. r \in S /\ step[q] = r
    OBVIOUS
  <2>2. q \in LoopState
    OBVIOUS
  <2>3. r.s.server = "up" => r.n < q.n
    BY <2>2, FillTurnTyped
  <2> HIDE DEF r
  <2>4. q.n \in Nat \ {0}
    BY <2>2 DEF LoopState, State, t_node
  <2> QED
    BY <2>1, <2>3, <2>4
<1>9. turn[N] \in S /\ step[turn[N]] = turn[N]
  <2> HIDE DEF turn, p, N, left, step, Runs, Is
  <2>1. Follows(turn, S, step, N)
    BY <1>1, <1>6 DEF Follows
  <2>2. Lessens(left, S, step) /\ left[turn[0]] <= N
    BY <1>6, <1>7, <1>8 DEF Lessens
  <2>3. AtRest(turn[N], S, step)
    BY <1>1, <1>2, <2>1, <2>2, LoopEnds
  <2> QED
    BY <2>3 DEF AtRest
<1>10. ~Runs(turn[N])
  <2> HIDE DEF turn, N, left, step, Runs
  <2> QED
    BY <1>7, <1>8, <1>9
<1> QED
  BY <1>5, <1>9, <1>10

\* The same of the loop that writes.
LEMMA WriteBlocksEnds ==
    ASSUME NEW S, S \subseteq LoopState, NEW s, NEW offset \in Nat, NEW buffer \in Seq(Byte),
           s.node.file_size \in Nat,
           [s |-> s, n |-> 0] \in S,
           \A q \in S : q.s.server = "up" /\ q.n < Len(buffer) => WriteTurn(q, offset, buffer, s.node.file_size) \in S
    PROVE  \E q \in S : WriteBlocks(s, offset, buffer) = q.s /\ ~(q.s.server = "up" /\ q.n < Len(buffer))
<1> DEFINE Runs(q) == q.s.server = "up" /\ q.n < Len(buffer)
           p == [s |-> s, n |-> 0]
           N == Len(buffer)
           step == [q \in S |-> IF Runs(q) THEN WriteTurn(q, offset, buffer, s.node.file_size) ELSE q]
           Is(g) == g = [i \in 0 .. N |->
                           IF i = 0 THEN p
                           ELSE IF Runs(g[i - 1]) THEN WriteTurn(g[i - 1], offset, buffer, s.node.file_size) ELSE g[i - 1]]
           turn == CHOOSE g : Is(g)
           left == [q \in S |-> IF Runs(q) THEN (Len(buffer) - q.n) ELSE 0]
<1>1. p \in S /\ N \in Nat
  OBVIOUS
<1>2. step \in [S -> S]
  OBVIOUS
<1>3. \E g : Is(g)
  <2> HIDE DEF p, N, step, Runs, Is, turn, left
  <2>1. PICK f \in [0 .. N -> S] : f[0] = p /\ \A i \in 1 .. N : f[i] = step[f[i - 1]]
    <3>1. Repeats(S, step, p, N)
      BY <1>1, <1>2, LoopExists
    <3> QED
      BY <3>1 DEF Repeats
  <2>2. ASSUME NEW i \in 1 .. N
        PROVE  f[i] = IF Runs(f[i - 1]) THEN WriteTurn(f[i - 1], offset, buffer, s.node.file_size) ELSE f[i - 1]
    <3>1. f[i - 1] \in S /\ f[i] = step[f[i - 1]]
      BY <1>1, <2>1
    <3> QED
      BY <3>1 DEF step
  <2>3. Is(f)
    BY <1>1, <2>1, <2>2 DEF Is
  <2> QED
    BY <2>3
<1>4. Is(turn)
  <2> HIDE DEF Is
  <2> QED
    BY <1>3
<1>5. WriteBlocks(s, offset, buffer) = turn[N].s
  BY DEF WriteBlocks, While
<1>6. turn[0] = p /\ \A i \in 1 .. N : turn[i - 1] \in S => turn[i] = step[turn[i - 1]]
  <2> HIDE DEF turn, p, N, Runs
  <2> QED
    BY <1>1, <1>4
<1>7. left \in [S -> Nat] /\ left[p] <= N
  <2>1. \A q \in S : Runs(q) => (Len(buffer) - q.n) \in Nat
    BY Constants DEF LoopState, State, t_node
  <2>2. left[p] <= N
    BY <1>1, <2>1 DEF LoopState, State, t_node
  <2> QED
    BY <2>1, <2>2
<1>8. ASSUME NEW q \in S
      PROVE  IF Runs(q) THEN left[step[q]] < left[q] ELSE step[q] = q
  <2> SUFFICES ASSUME Runs(q) PROVE left[step[q]] < left[q]
    OBVIOUS
  <2> DEFINE r == WriteTurn(q, offset, buffer, s.node.file_size)
  <2>1. r \in S /\ step[q] = r
    OBVIOUS
  <2>2. q \in LoopState
    OBVIOUS
  <2>3. r.s.server = "up" => (Len(buffer) - r.n) < (Len(buffer) - q.n)
    <3> HIDE DEF r
    <3> SUFFICES ASSUME r.s.server = "up" PROVE r.n > q.n
      BY <2>1, <2>2 DEF LoopState
    <3>1. r.n \in q.n + 1 .. Len(buffer)
      BY <2>2, WriteTurnTyped DEF r
    <3> QED
      BY <2>2, <3>1 DEF LoopState
  <2> HIDE DEF r
  <2>4. (Len(buffer) - q.n) \in Nat \ {0}
    BY <2>2 DEF LoopState, State, t_node
  <2> QED
    BY <2>1, <2>3, <2>4
<1>9. turn[N] \in S /\ step[turn[N]] = turn[N]
  <2> HIDE DEF turn, p, N, left, step, Runs, Is
  <2>1. Follows(turn, S, step, N)
    BY <1>1, <1>6 DEF Follows
  <2>2. Lessens(left, S, step) /\ left[turn[0]] <= N
    BY <1>6, <1>7, <1>8 DEF Lessens
  <2>3. AtRest(turn[N], S, step)
    BY <1>1, <1>2, <2>1, <2>2, LoopEnds
  <2> QED
    BY <2>3 DEF AtRest
<1>10. ~Runs(turn[N])
  <2> HIDE DEF turn, N, left, step, Runs
  <2> QED
    BY <1>7, <1>8, <1>9
<1> QED
  BY <1>5, <1>9, <1>10

\* The same of the loop that truncates.
LEMMA ShrinkEnds ==
    ASSUME NEW S, S \subseteq LoopState, NEW s \in State, NEW length \in Nat,
           [s |-> s, n |-> length] \in S,
           \A q \in S : q.s.server = "up" /\ q.s.node.file_size > q.n => ShrinkTurn(q) \in S
    PROVE  \E q \in S : Shrink(s, length) = q.s /\ ~(q.s.server = "up" /\ q.s.node.file_size > q.n)
<1> DEFINE Runs(q) == q.s.server = "up" /\ q.s.node.file_size > q.n
           p == [s |-> s, n |-> length]
           N == s.node.file_size
           step == [q \in S |-> IF Runs(q) THEN ShrinkTurn(q) ELSE q]
           Is(g) == g = [i \in 0 .. N |->
                           IF i = 0 THEN p
                           ELSE IF Runs(g[i - 1]) THEN ShrinkTurn(g[i - 1]) ELSE g[i - 1]]
           turn == CHOOSE g : Is(g)
           left == [q \in S |-> IF Runs(q) THEN q.s.node.file_size ELSE 0]
<1>1. p \in S /\ N \in Nat
  BY DEF State, t_node
<1>2. step \in [S -> S]
  OBVIOUS
<1>3. \E g : Is(g)
  <2> HIDE DEF p, N, step, Runs, Is, turn, left
  <2>1. PICK f \in [0 .. N -> S] : f[0] = p /\ \A i \in 1 .. N : f[i] = step[f[i - 1]]
    <3>1. Repeats(S, step, p, N)
      BY <1>1, <1>2, LoopExists
    <3> QED
      BY <3>1 DEF Repeats
  <2>2. ASSUME NEW i \in 1 .. N
        PROVE  f[i] = IF Runs(f[i - 1]) THEN ShrinkTurn(f[i - 1]) ELSE f[i - 1]
    <3>1. f[i - 1] \in S /\ f[i] = step[f[i - 1]]
      BY <1>1, <2>1
    <3> QED
      BY <3>1 DEF step
  <2>3. Is(f)
    BY <1>1, <2>1, <2>2 DEF Is
  <2> QED
    BY <2>3
<1>4. Is(turn)
  <2> HIDE DEF Is
  <2> QED
    BY <1>3
<1>5. Shrink(s, length) = turn[N].s
  BY DEF Shrink, While
<1>6. turn[0] = p /\ \A i \in 1 .. N : turn[i - 1] \in S => turn[i] = step[turn[i - 1]]
  <2> HIDE DEF turn, p, N, Runs
  <2> QED
    BY <1>1, <1>4
<1>7. left \in [S -> Nat] /\ left[p] <= N
  <2>1. \A q \in S : Runs(q) => q.s.node.file_size \in Nat
    BY Constants DEF LoopState, State, t_node
  <2>2. left[p] <= N
    BY <1>1, <2>1 DEF LoopState, State, t_node
  <2> QED
    BY <2>1, <2>2
<1>8. ASSUME NEW q \in S
      PROVE  IF Runs(q) THEN left[step[q]] < left[q] ELSE step[q] = q
  <2> SUFFICES ASSUME Runs(q) PROVE left[step[q]] < left[q]
    OBVIOUS
  <2> DEFINE r == ShrinkTurn(q)
  <2>1. r \in S /\ step[q] = r
    OBVIOUS
  <2>2. q \in LoopState
    OBVIOUS
  <2>3. r.s.server = "up" => r.s.node.file_size < q.s.node.file_size
    BY <2>2, ShrinkTurnTyped
  <2> HIDE DEF r
  <2>4. q.s.node.file_size \in Nat \ {0}
    BY <2>2 DEF LoopState, State, t_node
  <2> QED
    BY <2>1, <2>3, <2>4
<1>9. turn[N] \in S /\ step[turn[N]] = turn[N]
  <2> HIDE DEF turn, p, N, left, step, Runs, Is
  <2>1. Follows(turn, S, step, N)
    BY <1>1, <1>6 DEF Follows
  <2>2. Lessens(left, S, step) /\ left[turn[0]] <= N
    BY <1>6, <1>7, <1>8 DEF Lessens
  <2>3. AtRest(turn[N], S, step)
    BY <1>1, <1>2, <2>1, <2>2, LoopEnds
  <2> QED
    BY <2>3 DEF AtRest
<1>10. ~Runs(turn[N])
  <2> HIDE DEF turn, N, left, step, Runs
  <2> QED
    BY <1>7, <1>8, <1>9
<1> QED
  BY <1>5, <1>9, <1>10

-----------------------------------------------------------------------------
(***************************************************************************)
(* Whole requests keep the types, whatever state the disk is in.           *)
(***************************************************************************)
\* A write keeps the types, wherever it starts.
LEMMA WriteTyped ==
    ASSUME NEW s \in State, NEW offset \in Nat, NEW buffer \in Seq(Byte)
    PROVE  Write(s, offset, buffer) \in State
<1> DEFINE a == IF s.node.indirect_pointer_block[0] = 0 THEN add_data_block_to_node(s) ELSE s
           b == FillHole(a, offset)
           t == WriteBlocks(b, offset, buffer)
<1>1. Write(s, offset, buffer) = t
  BY DEF Write
<1>2. a \in State
  BY AddTyped
<1> HIDE DEF a
<1>3. b \in State
  <2>1. [s |-> a, n |-> offset] \in LoopState
    BY <1>2 DEF LoopState
  <2>2. \A q \in LoopState : q.s.node.file_size < q.n => FillTurn(q) \in LoopState
    BY FillTurnTyped
  <2>3. \E q \in LoopState : b = q.s
    BY <2>1, <2>2, FillHoleEnds
  <2> QED
    BY <2>3 DEF LoopState
<1> HIDE DEF b
<1>4. t \in State
  <2> DEFINE original == b.node.file_size
  <2>1. [s |-> b, n |-> 0] \in LoopState /\ original \in Nat
    BY <1>3 DEF LoopState, State, t_node
  <2>2. \A q \in LoopState : q.n < Len(buffer) => WriteTurn(q, offset, buffer, original) \in LoopState
    <3> HIDE DEF original
    <3> QED
      BY <2>1, WriteTurnTyped
  <2>3. \E q \in LoopState : t = q.s
    BY <2>1, <2>2, WriteBlocksEnds
  <2> QED
    BY <2>3 DEF LoopState
<1> QED
  BY <1>1, <1>4

\* The letters that fill a file cut to more than it has.
LEMMA LettersTyped ==
    ASSUME NEW n \in Nat
    PROVE  /\ [i \in 1 .. n |-> LetterA] \in Seq(Byte) /\ Len([i \in 1 .. n |-> LetterA]) = n
BY Constants, IsASeq

\* A truncation keeps the types, whatever the length.
LEMMA TruncateTyped ==
    ASSUME NEW s \in State, NEW length \in Nat
    PROVE  Truncate(s, length) \in State
<1> DEFINE size == s.node.file_size
           fill == [i \in 1 .. length - size |-> LetterA]
<1>1. size \in Nat
  BY DEF State, t_node
<1>2. CASE length > size
  <2> DEFINE n == length - size
  <2>1. n \in Nat
    BY <1>1, <1>2
  <2>2. fill \in Seq(Byte)
    <3> HIDE DEF n
    <3>1. [i \in 1 .. n |-> LetterA] \in Seq(Byte)
      BY <2>1, LettersTyped
    <3> QED
      BY <3>1 DEF n
  <2>3. Truncate(s, length) = Write(s, size, fill)
    BY <1>2 DEF Truncate
  <2> HIDE DEF fill, size
  <2> QED
    BY <1>1, <2>2, <2>3, WriteTyped
<1>3. CASE ~(length > size)
  <2>1. Truncate(s, length) = Shrink(s, length)
    BY <1>3 DEF Truncate
  <2>2. [s |-> s, n |-> length] \in LoopState
    BY DEF LoopState
  <2>3. \A q \in LoopState : q.s.node.file_size > q.n => ShrinkTurn(q) \in LoopState
    BY ShrinkTurnTyped
  <2>4. \E q \in LoopState : Shrink(s, length) = q.s
    BY <2>2, <2>3, ShrinkEnds
  <2> QED
    BY <2>1, <2>4 DEF LoopState
<1> QED
  BY <1>2, <1>3

\* A removal keeps the types, whatever it frees.
LEMMA RemoveTyped ==
    ASSUME NEW s \in State
    PROVE  Remove(s) \in State
<1> DEFINE bits == Freed(s) \cup {s.node.indirect_pointer_block[i] : i \in UsedPointers(s.node)}
<1>1. Remove(s) = IF ~(Freed(s) \subseteq DataBlock) THEN Wild(s)
                  ELSE [s EXCEPT !.bitmap = @ \ bits, !.node.state = 0]
  BY DEF Remove
<1> HIDE DEF bits
<1>2. [s EXCEPT !.bitmap = @ \ bits, !.node.state = 0] \in State
  BY DEF State, t_node
<1>3. Wild(s) \in State
  BY DEF Wild, State
<1> QED
  BY <1>1, <1>2, <1>3

-----------------------------------------------------------------------------
(***************************************************************************)
(* A file in order, on a disk whose other blocks R belong to others.       *)
(***************************************************************************)

\* The limits within which the blocks of a file stay in order: a 32-bit
\* build, gaps of less than a block, and files that leave room in their first
\* pointer block.
Envelope ==
    /\ POINTER_WORDS = 1
    /\ HOLE_END < WORDS
    /\ (MAX_SIZE \div WORDS) + 1 < WORDS

Ptr(s) == s.node.indirect_pointer_block[0]

DataNum(s, j) == s.block[Ptr(s)][j]

\* The pointer block and the data blocks 0 .. m are reserved, nobody else's,
\* and all different.
Chain(s, R, m) ==
    /\ Ptr(s) \in (DataBlock \cap s.bitmap) \ R
    /\ \A j \in 0 .. m : DataNum(s, j) \in (DataBlock \cap s.bitmap) \ (R \cup {Ptr(s)})
    /\ \A i, j \in 0 .. m : DataNum(s, i) = DataNum(s, j) => i = j

\* Only the first pointer block is used.
OnePointer(s) == \A i \in 1 .. POINTER_BLOCKS - 1 : s.node.indirect_pointer_block[i] = 0

InOrder(s, R) ==
    /\ s \in State /\ s.server = "up" /\ s.node.state = 1
    /\ R \subseteq s.bitmap
    /\ OnePointer(s)
    /\ s.node.file_size <= MAX_SIZE
    /\ Ptr(s) = 0 => s.node.file_size = 0
    /\ Ptr(s) # 0 => Chain(s, R, s.node.file_size \div WORDS)

Owned(s) ==
    IF Ptr(s) = 0 THEN {}
    ELSE {Ptr(s)} \cup {DataNum(s, j) : j \in 0 .. s.node.file_size \div WORDS}

\* A removed or absent file owns nothing, so R is all that must be kept.
Same(s, t, R) == \A b \in R : t.block[b] = s.block[b]

\* The data blocks 0 .. m are the same, and hold the same.
SameData(s, t, m) ==
    \A j \in 0 .. m : /\ DataNum(t, j) = DataNum(s, j)
                      /\ t.block[DataNum(t, j)] = s.block[DataNum(s, j)]

\* The beginning of a chain of blocks is one.
LEMMA ChainShorter ==
    ASSUME NEW s, NEW R, NEW m \in Nat, NEW n \in 0 .. m, Chain(s, R, m)
    PROVE  Chain(s, R, n)
BY DEF Chain

\* add_data_block_to_node counts the pointer blocks it finds.
LEMMA PointersInUse ==
    ASSUME NEW s \in State, OnePointer(s)
    PROVE  Cardinality(UsedPointers(s.node)) = IF Ptr(s) = 0 THEN 0 ELSE 1
<1> DEFINE ptr == s.node.indirect_pointer_block
           U == {i \in 0 .. POINTER_BLOCKS - 1 : \A j \in 0 .. i : ptr[j] # 0}
<1>1. U = UsedPointers(s.node)
  BY DEF UsedPointers
<1>2. \A i \in 1 .. POINTER_BLOCKS - 1 : ptr[i] = 0
  BY DEF OnePointer
<1>3. POINTER_BLOCKS \in Nat \ {0}
  BY Constants
<1>4. CASE ptr[0] = 0
  <2>1. U = {}
    BY <1>4
  <2> QED
    BY <1>1, <1>4, <2>1, FS_EmptySet DEF Ptr
<1>5. CASE ptr[0] # 0
  <2>1. U = {0}
    BY <1>2, <1>3, <1>5
  <2> QED
    BY <1>1, <1>5, <2>1, FS_Singleton DEF Ptr
<1> QED
  BY <1>4, <1>5

\* The program exits, or a block follows the m-th.
Added(s, t, R, m) ==
    /\ t \in State
    /\ \/ t.server = "exit"
       \/ /\ t.server = "up" /\ t.node = s.node /\ s.bitmap \subseteq t.bitmap
          /\ Chain(t, R, m + 1) /\ Same(s, t, R) /\ SameData(s, t, m)

\* A reserved block is nobody's, and its number goes to one place.
LEMMA AddToChain ==
    ASSUME NEW s \in State, s.server = "up", NEW R, R \subseteq s.bitmap, OnePointer(s),
           NEW m \in Nat, s.node.file_size \div WORDS = m, m + 1 < WORDS,
           Ptr(s) # 0, Chain(s, R, m)
    PROVE  Added(s, add_data_block_to_node(s), R, m)
<1> DEFINE t == add_data_block_to_node(s)
<1>1. t \in State
  BY AddTyped
<1>2. t = add_data_block_to_node(s)
  OBVIOUS
<1> HIDE DEF t
<1>3. WORDS \in Nat \ {0} /\ m + 1 \in Index /\ DataBlock \subseteq Nat \ {0}
  BY Constants DEF Index
<1>4. t = create_data_block_in_pointer_block(s, 0, m + 1)
  <2> DEFINE n == (s.node.file_size \div WORDS) + 1
  <2>1. Cardinality(UsedPointers(s.node)) - 1 = 0
    BY PointersInUse
  <2>2. (m + 1) % WORDS = m + 1
    BY <1>3
  <2>3. m + 1 < WORDS * (0 + 1)
    BY <1>3
  <2> QED
    BY <1>2, <2>1, <2>2, <2>3 DEF add_data_block_to_node
<1>5. CASE FreeBlocks(s.bitmap, DataBlock) = {}
  BY <1>1, <1>4, <1>5 DEF create_data_block_in_pointer_block, Exit, State, Added, t
<1>6. CASE FreeBlocks(s.bitmap, DataBlock) # {}
  <2> DEFINE b == get_free_data_block(s.bitmap)
             p == Ptr(s)
  <2>1. b \in DataBlock \ s.bitmap
    BY <1>6, DataBlockFree
  <2>2. t = [s EXCEPT !.bitmap = @ \cup {b}, !.block[p][m + 1] = b]
    BY <1>4, <1>6 DEF create_data_block_in_pointer_block, Ptr
  <2> HIDE DEF b
  <2>3. p \in DataBlock /\ p \in s.bitmap /\ ~(p \in R)
    BY DEF Chain
  <2>4. t.server = "up" /\ t.node = s.node /\ t.bitmap = s.bitmap \cup {b}
    BY <2>2 DEF State
  <2>5. /\ \A c \in DataBlock : c # p => t.block[c] = s.block[c]
        /\ \A i \in Index : t.block[p][i] = IF i = m + 1 THEN b ELSE s.block[p][i]
    BY <1>3, <2>2, <2>3 DEF State
  <2>6. Ptr(t) = p
    BY <2>4 DEF Ptr
  <2>7. DataNum(t, m + 1) = b /\ \A j \in 0 .. m : DataNum(t, j) = DataNum(s, j)
    <3>1. \A j \in 0 .. m : j \in Index /\ j # m + 1
      BY <1>3 DEF Index
    <3> QED
      BY <1>3, <2>5, <2>6, <3>1 DEF DataNum
  <2>8. \A j \in 0 .. m : DataNum(s, j) \in (DataBlock \cap s.bitmap) \ (R \cup {p})
    BY DEF Chain
  <2>9. SameData(s, t, m)
    BY <2>5, <2>7, <2>8 DEF SameData
  <2>10. Same(s, t, R)
    <3> SUFFICES ASSUME NEW c \in R PROVE t.block[c] = s.block[c]
      BY DEF Same
    <3>1. CASE c \in DataBlock
      BY <2>3, <2>5, <3>1
    <3>2. CASE ~(c \in DataBlock)
      BY <2>2, <2>3, <3>2 DEF State
    <3> QED
      BY <3>1, <3>2
  <2>11. Chain(t, R, m + 1)
    <3>1. \A j \in 0 .. m + 1 : DataNum(t, j) = IF j = m + 1 THEN b ELSE DataNum(s, j)
      BY <2>7
    <3>2. \A j \in 0 .. m + 1 : DataNum(t, j) \in (DataBlock \cap t.bitmap) \ (R \cup {p})
      BY <2>1, <2>3, <2>4, <2>8, <3>1
    <3>3. \A i, j \in 0 .. m : DataNum(s, i) = DataNum(s, j) => i = j
      BY DEF Chain
    <3>4. \A i, j \in 0 .. m + 1 : DataNum(t, i) = DataNum(t, j) => i = j
      BY <2>1, <2>8, <3>1, <3>3
    <3> QED
      BY <2>3, <2>4, <2>6, <3>2, <3>4 DEF Chain
  <2> QED
    BY <1>1, <2>4, <2>9, <2>10, <2>11 DEF Added, t
<1> QED
  BY <1>5, <1>6

\* Word i of a file in order.
At(s, i) == s.block[DataNum(s, i \div WORDS)][i % WORDS]

\* Within the first pointer block the number of a data block is where the
\* code looks for it.
LEMMA NumIs ==
    ASSUME Envelope, NEW s, Ptr(s) \in DataBlock, NEW j \in Index
    PROVE  DataBlockNum(s, j) = DataNum(s, j)
<1>1. WORDS \in Nat \ {0} /\ j \in 0 .. WORDS - 1
  BY Constants DEF Index
<1>2. (WORDS * 0 + j) \div WORDS = 0 /\ (WORDS * 0 + j) % WORDS = j
  BY <1>1, DivUnique
<1>3. WORDS * 0 + j = j
  BY <1>1
<1>4. j \div WORDS = 0 /\ j % WORDS = j
  BY <1>2, <1>3
<1>5. POINTER_WORDS * (j % WORDS) = j
  BY <1>1, <1>4 DEF Envelope
<1> QED
  BY <1>4, <1>5 DEF DataBlockNum, DataNum, Ptr

\* A file that has no block yet gets its pointer block and its first.
LEMMA FirstBlock ==
    ASSUME Envelope, NEW R, NEW s, InOrder(s, R), Ptr(s) = 0,
           NEW t, t = add_data_block_to_node(s)
    PROVE  /\ t \in State
           /\ \/ t.server = "exit"
              \/ InOrder(t, R) /\ t.node.file_size = 0 /\ Ptr(t) # 0 /\ Same(s, t, R)
<1>0. /\ s \in State /\ s.server = "up" /\ s.node.state = 1 /\ s.node \in t_node
      /\ R \subseteq s.bitmap /\ OnePointer(s) /\ s.node.file_size = 0
  BY DEF InOrder, State
<1>1. t \in State
  BY <1>0, AddTyped
<1>2. WORDS \in Nat \ {0} /\ 0 \in Index /\ DataBlock \subseteq Nat \ {0} /\ DataBlock \subseteq Block
  BY Constants
<1> DEFINE u == create_pointers_block_in_node(s, 0)
<1>3. t = IF u.server = "up" THEN create_data_block_in_pointer_block(u, 0, 0) ELSE u
  <2>1. Cardinality(UsedPointers(s.node)) = 0
    BY <1>0, PointersInUse
  <2>2. ~((s.node.file_size \div WORDS) + 1 < WORDS * 0)
    BY <1>0, <1>2
  <2> QED
    BY <2>1, <2>2 DEF add_data_block_to_node
<1>4. CASE FreeBlocks(s.bitmap, DataBlock) = {}
  <2>1. u.server = "exit"
    BY <1>0, <1>4 DEF create_pointers_block_in_node, Exit, State
  <2> QED
    BY <1>1, <1>3, <2>1
<1>5. CASE FreeBlocks(s.bitmap, DataBlock) # {}
  <2> DEFINE p == get_free_data_block(s.bitmap)
  <2>1. p \in DataBlock \ s.bitmap
    BY <1>0, <1>5, DataBlockFree
  <2>2. u = [s EXCEPT !.bitmap = @ \cup {p}, !.node.indirect_pointer_block[0] = p]
    BY <1>5 DEF create_pointers_block_in_node
  <2> HIDE DEF p, u
  <2>3. /\ u.server = "up" /\ u.bitmap = s.bitmap \cup {p} /\ u.block = s.block
        /\ u.node.state = 1 /\ u.node.file_size = 0
        /\ u.node.indirect_pointer_block[0] = p
        /\ \A i \in 1 .. POINTER_BLOCKS - 1 :
              u.node.indirect_pointer_block[i] = s.node.indirect_pointer_block[i]
    BY <1>0, <2>2, Constants DEF State, t_node
  <2>4. u \in State
    BY <1>0, <1>2, <2>1, <2>2 DEF State, t_node
  <2>5. OnePointer(u)
    BY <1>0, <2>3 DEF OnePointer
  <2>6. CASE FreeBlocks(u.bitmap, DataBlock) = {}
    BY <1>1, <1>3, <2>3, <2>4, <2>6 DEF create_data_block_in_pointer_block, Exit, State
  <2>7. CASE FreeBlocks(u.bitmap, DataBlock) # {}
    <3> DEFINE b == get_free_data_block(u.bitmap)
    <3>1. b \in DataBlock \ u.bitmap
      BY <2>4, <2>7, DataBlockFree
    <3>2. t = [u EXCEPT !.bitmap = @ \cup {b}, !.block[p][0] = b]
      BY <1>3, <2>3, <2>7 DEF create_data_block_in_pointer_block
    <3> HIDE DEF b
    <3>3. t.server = "up" /\ t.node = u.node /\ t.bitmap = s.bitmap \cup {p, b}
      BY <2>3, <2>4, <3>2 DEF State
    <3>4. \A c \in DataBlock : c # p => t.block[c] = s.block[c]
      BY <2>3, <2>4, <3>2 DEF State
    <3>5. t.block[p][0] = b
      BY <1>2, <2>1, <2>3, <2>4, <3>2 DEF State
    <3>6. \A c : ~(c \in DataBlock) => t.block[c] = s.block[c]
      BY <1>0, <1>1, <2>1, <2>3, <3>2, <2>4 DEF State
    <3>7. Same(s, t, R)
      BY <1>0, <2>1, <3>4, <3>6 DEF Same
    <3>8. Ptr(t) = p /\ DataNum(t, 0) = b /\ p # 0
      BY <1>2, <2>1, <2>3, <3>3, <3>5 DEF Ptr, DataNum
    <3>9. OnePointer(t)
      BY <2>5, <3>3 DEF OnePointer
    <3>10. Chain(t, R, 0)
      <4>1. \A j \in 0 .. 0 : j = 0
        OBVIOUS
      <4> QED
        BY <1>0, <2>1, <2>3, <3>1, <3>3, <3>8, <4>1 DEF Chain
    <3>11. t.node.file_size = 0 /\ t.node.state = 1 /\ t.node.file_size \div WORDS = 0
      BY <1>2, <2>3, <3>3
    <3>12. t.node.file_size <= MAX_SIZE
      BY <3>11, FileAssumption
    <3> QED
      BY <1>0, <1>1, <3>3, <3>7, <3>8, <3>9, <3>10, <3>11, <3>12 DEF InOrder
  <2> QED
    BY <2>6, <2>7
<1> QED
  BY <1>4, <1>5

\* A copy into a data block of a file reaches no other block.
LEMMA CopyKeeps ==
    ASSUME Envelope, NEW s \in State, s.server = "up", NEW R, NEW m \in Index, Chain(s, R, m),
           NEW j \in 0 .. m, NEW at \in Index, NEW words \in Seq(Byte),
           NEW t, t = CopyIn(s, j, at, words)
    PROVE  /\ t \in State /\ t.server = "up" /\ t.node = s.node /\ t.bitmap = s.bitmap
           /\ Chain(t, R, m) /\ Same(s, t, R)
           /\ \A k \in 0 .. m : DataNum(t, k) = DataNum(s, k)
           /\ \A k \in 0 .. m, i \in Index :
                 t.block[DataNum(t, k)][i] =
                    IF k = j /\ i - at \in 0 .. Len(words) - 1 THEN words[i - at + 1]
                    ELSE s.block[DataNum(s, k)][i]
<1> DEFINE d == DataNum(s, j)
           p == Ptr(s)
           row == [i \in Index |-> IF i - at \in 0 .. Len(words) - 1 THEN words[i - at + 1]
                                   ELSE s.block[d][i]]
<1>1. t \in State
  BY Constants, CopyInTyped
<1>2. p \in DataBlock /\ j \in Index /\ d \in DataBlock /\ d # p /\ ~(d \in R)
  BY Constants DEF Chain, Index
<1>3. DataBlockNum(s, j) = d
  BY <1>2, NumIs
<1>4. t = [s EXCEPT !.block[d] = row]
  BY <1>3 DEF CopyIn
<1> HIDE DEF row
<1>5. /\ t.server = "up" /\ t.node = s.node /\ t.bitmap = s.bitmap
      /\ \A c : c # d => t.block[c] = s.block[c]
      /\ t.block[d] = row
  BY <1>2, <1>4, <1>1 DEF State
<1>6. Ptr(t) = p /\ t.block[p] = s.block[p]
  BY <1>2, <1>5 DEF Ptr
<1>7. \A k : DataNum(t, k) = DataNum(s, k)
  BY <1>6 DEF DataNum
<1>8. Chain(t, R, m)
  BY <1>5, <1>6, <1>7 DEF Chain
<1>9. Same(s, t, R)
  BY <1>2, <1>5 DEF Same
<1>10. ASSUME NEW k \in 0 .. m, NEW i \in Index
       PROVE  t.block[DataNum(t, k)][i] =
                    IF k = j /\ i - at \in 0 .. Len(words) - 1 THEN words[i - at + 1]
                    ELSE s.block[DataNum(s, k)][i]
  <2>1. CASE k = j
    <3>1. DataNum(t, k) = d /\ DataNum(s, k) = d
      BY <1>7, <2>1
    <3> HIDE DEF d
    <3>2. t.block[DataNum(t, k)] = row
      BY <1>5, <3>1
    <3> QED
      BY <2>1, <3>1, <3>2 DEF row
  <2>2. CASE k # j
    <3>1. DataNum(s, k) # d
      BY <2>2 DEF Chain
    <3> QED
      BY <1>5, <1>7, <2>2, <3>1
  <2> QED
    BY <2>1, <2>2
<1> QED
  BY <1>1, <1>5, <1>7, <1>8, <1>9, <1>10

\* Where a word of a file lies against n words that start at a place of block j.
LEMMA PlaceOf ==
    ASSUME NEW j \in Nat, NEW at \in Index, NEW n \in Nat, at + n <= WORDS, NEW x \in Nat,
           NEW base, base = WORDS * j + at
    PROVE  /\ x \div WORDS = j => (x % WORDS) - at = x - base
           /\ (x \div WORDS = j /\ (x % WORDS) - at \in 0 .. n - 1) <=> x - base \in 0 .. n - 1
<1> DEFINE q == x \div WORDS
           r == x % WORDS
           b == WORDS * j
<1>1. WORDS \in Nat \ {0} /\ at \in 0 .. WORDS - 1
  BY Constants DEF Index
<1>2. q \in Nat /\ r \in 0 .. WORDS - 1 /\ x = WORDS * q + r
  BY InWords
<1>3. b \in Nat
  BY <1>1
<1>4. q = j => r - at = x - base
  <2> SUFFICES ASSUME q = j PROVE r - at = x - base
    OBVIOUS
  <2>1. x = b + r
    BY <1>2
  <2> HIDE DEF q, r, b
  <2> QED
    BY <1>1, <1>2, <1>3, <2>1 DEF b
<1>5. ASSUME x - base \in 0 .. n - 1
      PROVE  q = j
  <2> DEFINE e == at + (x - base)
  <2>1. e \in 0 .. WORDS - 1 /\ x = b + e
    <3> HIDE DEF b, q, r
    <3> QED
      BY <1>1, <1>3, <1>5 DEF b
  <2> HIDE DEF e
  <2>2. (WORDS * j + e) \div WORDS = j
    BY <1>1, <2>1, DivUnique
  <2> QED
    BY <2>1, <2>2
<1> HIDE DEF q, r
<1> QED
  BY <1>4, <1>5 DEF q, r

\* The words of a file after a copy to a place of it.
Copied(s, t, m, base, words) ==
    \A x \in Nat : x \div WORDS <= m =>
        At(t, x) = IF x - base \in 0 .. Len(words) - 1 THEN words[(x - base) + 1] ELSE At(s, x)

\* A copy into data block j changes the words of the file from its place on.
LEMMA CopyAt ==
    ASSUME Envelope, NEW s \in State, s.server = "up", NEW R, NEW m \in Index, Chain(s, R, m),
           NEW j \in 0 .. m, NEW at \in Index, NEW words \in Seq(Byte),
           at + Len(words) <= WORDS
    PROVE  Copied(s, CopyIn(s, j, at, words), m, WORDS * j + at, words)
<1> DEFINE base == WORDS * j + at
<1> SUFFICES ASSUME NEW x \in Nat, x \div WORDS <= m
             PROVE  At(CopyIn(s, j, at, words), x) =
                       IF x - base \in 0 .. Len(words) - 1 THEN words[(x - base) + 1] ELSE At(s, x)
  BY DEF Copied
<1> DEFINE t == CopyIn(s, j, at, words)
           k == x \div WORDS
           i == x % WORDS
           n == Len(words)
<1>1. k \in 0 .. m /\ i \in Index /\ n \in Nat /\ j \in Nat /\ m \in Nat
  <2>1. m \in Nat
    BY Constants
  <2> QED
    BY InWords, <2>1 DEF Index
<1>2. t.block[DataNum(t, k)][i] =
         IF k = j /\ i - at \in 0 .. n - 1 THEN words[i - at + 1] ELSE s.block[DataNum(s, k)][i]
  <2> HIDE DEF k, i, base, n
  <2>1. t.block[DataNum(t, k)][i] =
         IF k = j /\ i - at \in 0 .. Len(words) - 1 THEN words[i - at + 1]
         ELSE s.block[DataNum(s, k)][i]
    <3>1. PICK c : c = CopyIn(s, j, at, words)
      OBVIOUS
    <3>2. \A a \in 0 .. m, b \in Index :
             c.block[DataNum(c, a)][b] =
                IF a = j /\ b - at \in 0 .. Len(words) - 1 THEN words[b - at + 1]
                ELSE s.block[DataNum(s, a)][b]
      BY <3>1, CopyKeeps
    <3>3. c.block[DataNum(c, k)][i] =
             IF k = j /\ i - at \in 0 .. Len(words) - 1 THEN words[i - at + 1]
             ELSE s.block[DataNum(s, k)][i]
      BY <1>1, <3>2, Zenon
    <3> QED
      BY <3>1, <3>3, Zenon
  <2> QED
    BY <2>1 DEF n
<1>3. (k = j => i - at = x - base) /\ ((k = j /\ i - at \in 0 .. n - 1) <=> x - base \in 0 .. n - 1)
  BY <1>1, PlaceOf
<1> HIDE DEF k, i, t, n, base
<1>4. At(t, x) = t.block[DataNum(t, k)][i] /\ At(s, x) = s.block[DataNum(s, k)][i]
  BY DEF At, k, i
<1> QED
  BY <1>2, <1>3, <1>4 DEF t, n

\* The size is kept apart from the blocks.
Resized(s, t, n) ==
    /\ t \in State /\ t.server = s.server /\ t.bitmap = s.bitmap
    /\ t.node.file_size = n /\ t.node.state = s.node.state
    /\ Ptr(t) = Ptr(s)
    /\ \A x : At(t, x) = At(s, x)
    /\ \A R, m : Chain(s, R, m) => Chain(t, R, m)
    /\ \A R : Same(s, t, R)
    /\ OnePointer(s) => OnePointer(t)

\* A new size leaves the blocks and the words in them as they were.
LEMMA SizeChanges ==
    ASSUME NEW s \in State, NEW n \in Nat
    PROVE  Resized(s, [s EXCEPT !.node.file_size = n], n)
<1> DEFINE t == [s EXCEPT !.node.file_size = n]
<1>1. /\ t \in State /\ t.server = s.server /\ t.bitmap = s.bitmap /\ t.block = s.block
      /\ t.node.file_size = n /\ t.node.state = s.node.state
      /\ t.node.indirect_pointer_block = s.node.indirect_pointer_block
  BY SizeTyped DEF State, t_node
<1> HIDE DEF t
<1>2. Ptr(t) = Ptr(s)
  BY <1>1 DEF Ptr
<1>3. \A j : DataNum(t, j) = DataNum(s, j)
  BY <1>1, <1>2 DEF DataNum
<1>4. \A x : At(t, x) = At(s, x)
  BY <1>1, <1>3 DEF At
<1>5. \A R, m : Chain(s, R, m) => Chain(t, R, m)
  BY <1>1, <1>2, <1>3 DEF Chain
<1>6. (\A R : Same(s, t, R)) /\ (OnePointer(s) => OnePointer(t))
  BY <1>1 DEF Same, OnePointer
<1> QED
  BY <1>1, <1>2, <1>4, <1>5, <1>6 DEF Resized, t

\* What a file in order of at least one block looks like.
LEMMA OrderMeans ==
    ASSUME Envelope, NEW R, NEW s, InOrder(s, R), Ptr(s) # 0
    PROVE  /\ s \in State /\ s.server = "up" /\ s.node.state = 1 /\ R \subseteq s.bitmap
           /\ OnePointer(s) /\ s.node.file_size \in 0 .. MAX_SIZE /\ MAX_SIZE \in Nat
           /\ s.node.file_size \div WORDS \in Index
           /\ (s.node.file_size \div WORDS) + 1 < WORDS
           /\ Chain(s, R, s.node.file_size \div WORDS)
<1>1. s \in State /\ s.node.file_size \in Nat /\ MAX_SIZE \in Nat
  BY FileAssumption DEF InOrder, State, t_node
<1>2. s.node.file_size \div WORDS \in Nat /\ MAX_SIZE \div WORDS \in Nat
  BY <1>1, InWords
<1>3. s.node.file_size \div WORDS <= MAX_SIZE \div WORDS
  BY <1>1, Constants DEF InOrder
<1> DEFINE a == s.node.file_size \div WORDS
           b == MAX_SIZE \div WORDS
<1> HIDE DEF a, b
<1>4. a + 1 < WORDS
  BY <1>2, <1>3, Constants DEF a, b, Envelope
<1>5. a \in Index
  BY <1>2, <1>4, Constants DEF a, Index
<1> QED
  BY <1>1, <1>4, <1>5 DEF a, InOrder

Reach(s, end) == IF s.node.file_size > end THEN s.node.file_size ELSE end

\* A gap within the first block.
Filled(s, t, R, offset) ==
    /\ InOrder(t, R) /\ Ptr(t) # 0 /\ Same(s, t, R)
    /\ t.node.file_size = Reach(s, offset)
    /\ \A x \in 0 .. t.node.file_size - 1 :
          At(t, x) = IF x < s.node.file_size THEN At(s, x) ELSE Null

\* One turn closes a gap within the first block.
LEMMA FillTurnDoes ==
    ASSUME Envelope, NEW R, NEW s, InOrder(s, R), Ptr(s) # 0, NEW offset \in Nat,
           offset <= HOLE_END, offset <= MAX_SIZE, s.node.file_size < offset,
           NEW q, q = FillTurn([s |-> s, n |-> offset])
    PROVE  q.n = s.node.file_size /\ Filled(s, q.s, R, offset)
<1> DEFINE size == s.node.file_size
           n    == offset - size
           fill == [i \in 1 .. n |-> Null]
           c    == CopyIn(s, 0, size, fill)
           t    == [c EXCEPT !.node.file_size = @ + n]
           p    == [s |-> s, n |-> offset]
<1>1. /\ s \in State /\ s.server = "up" /\ s.node.state = 1 /\ R \subseteq s.bitmap
      /\ OnePointer(s) /\ Chain(s, R, size \div WORDS) /\ size \in Nat /\ MAX_SIZE \in Nat
  BY OrderMeans
<1>2. WORDS \in Nat \ {0} /\ 0 \in Index
  BY Constants
<1>3. offset < WORDS
  BY <1>2, FileAssumption DEF Envelope
<1>4. size \in 0 .. WORDS - 1 /\ size \in Index
  BY <1>1, <1>2, <1>3 DEF Index
<1>5. \A r \in 0 .. WORDS - 1 : r \div WORDS = 0 /\ r % WORDS = r
  <2> SUFFICES ASSUME NEW r \in 0 .. WORDS - 1 PROVE r \div WORDS = 0 /\ r % WORDS = r
    OBVIOUS
  <2>1. (WORDS * 0 + r) \div WORDS = 0 /\ (WORDS * 0 + r) % WORDS = r /\ WORDS * 0 + r = r
    BY <1>2, DivUnique
  <2> QED
    BY <2>1
<1>6. size \div WORDS = 0 /\ size % WORDS = size /\ offset \div WORDS = 0 /\ 0 % WORDS = 0
  <2>1. offset \in 0 .. WORDS - 1 /\ 0 \in 0 .. WORDS - 1
    BY <1>2, <1>3
  <2> HIDE DEF size
  <2> QED
    BY <1>4, <1>5, <2>1
<1>7. Chain(s, R, 0) /\ Ptr(s) \in DataBlock /\ DataNum(s, 0) \in DataBlock
  BY <1>1, <1>6 DEF Chain
<1>8. CanFollow(s, 0)
  BY <1>2, <1>7, NumIs DEF CanFollow
<1>9. n \in Nat \ {0} /\ Least2(offset, WORDS) - size = n /\ size + n = offset /\ offset - n = size
  BY <1>1, <1>2, <1>3 DEF Least2
<1>10. fill \in Seq(Byte) /\ Len(fill) = n /\ \A i \in 1 .. n : fill[i] = Null
  <2> HIDE DEF n
  <2> QED
    BY <1>9, Constants, IsASeq
<1> HIDE DEF fill
<1>11. /\ c \in State /\ c.server = "up" /\ c.node = s.node /\ c.bitmap = s.bitmap
       /\ Chain(c, R, 0) /\ Same(s, c, R)
  <2>1. PICK d : d = CopyIn(s, 0, size, fill)
    OBVIOUS
  <2>2. 0 \in Index /\ 0 \in 0 .. 0 /\ size \in Index
    BY <1>2, <1>4 DEF Index
  <2>3. /\ d \in State /\ d.server = "up" /\ d.node = s.node /\ d.bitmap = s.bitmap
        /\ Chain(d, R, 0) /\ Same(s, d, R)
    BY <1>1, <1>7, <1>10, <2>1, <2>2, CopyKeeps
  <2> QED
    BY <2>1, <2>3, Zenon
<1>12. size + Len(fill) <= WORDS /\ WORDS * 0 + size = size /\ 0 \in 0 .. 0
  <2> HIDE DEF n, size
  <2> QED
    BY <1>2, <1>3, <1>4, <1>9, <1>10
<1>13. Copied(s, c, 0, size, fill)
  <2>1. Copied(s, c, 0, WORDS * 0 + size, fill)
    <3> HIDE DEF n, size
    <3> QED
      BY <1>1, <1>2, <1>4, <1>7, <1>10, <1>12, CopyAt
  <2> QED
    BY <2>1, <1>12
<1>14. \A x \in 0 .. WORDS - 1 :
          At(c, x) = IF x - size \in 0 .. n - 1 THEN Null ELSE At(s, x)
  <2> SUFFICES ASSUME NEW x \in 0 .. WORDS - 1
               PROVE  At(c, x) = IF x - size \in 0 .. n - 1 THEN Null ELSE At(s, x)
    OBVIOUS
  <2>1. x \in Nat /\ x \div WORDS <= 0
    <3>1. x \div WORDS = 0
      BY <1>5
    <3> QED
      BY <1>2, <3>1
  <2>3. At(c, x) = IF x - size \in 0 .. Len(fill) - 1 THEN fill[(x - size) + 1] ELSE At(s, x)
    <3> HIDE DEF n, size
    <3> QED
      BY <1>13, <2>1 DEF Copied
  <2>4. x - size \in 0 .. n - 1 => fill[(x - size) + 1] = Null
    <3> HIDE DEF n, size
    <3> QED
      BY <1>4, <1>9, <1>10
  <2> HIDE DEF n, size
  <2> QED
    BY <1>10, <2>3, <2>4
<1> HIDE DEF c
<1>15. t = [c EXCEPT !.node.file_size = offset]
  <2>1. c.node.file_size + n = offset
    BY <1>9, <1>11
  <2> QED
    BY <2>1, <1>11
<1>16. q = [n |-> size, s |-> t]
  <2>1. p.s = s /\ p.n = offset
    OBVIOUS
  <2>2. (size + n = WORDS) = FALSE
    BY <1>3, <1>9
  <2>3. c = CopyIn(p.s, (size \div WORDS) % WORDS, size % WORDS,
                   [i \in 1 .. Least2(p.n, WORDS) - (size % WORDS) |-> Null])
    BY <1>6, <1>9 DEF c, fill
  <2> HIDE DEF n, p
  <2> QED
    BY <1>6, <1>8, <1>9, <2>1, <2>2, <2>3 DEF FillTurn, p
<1> HIDE DEF t
<1>17. /\ t \in State /\ t.server = "up" /\ t.bitmap = s.bitmap /\ t.node.file_size = offset
       /\ t.node.state = 1 /\ Ptr(t) = Ptr(s) /\ Chain(t, R, 0) /\ OnePointer(t)
       /\ \A x : At(t, x) = At(c, x)
  <2>1. OnePointer(c)
    BY <1>1, <1>11 DEF OnePointer
  <2>2. Ptr(c) = Ptr(s)
    BY <1>11 DEF Ptr
  <2>3. Resized(c, t, offset)
    <3>1. offset \in Nat /\ c \in State
      BY <1>1, <1>11
    <3> QED
      BY <1>15, <3>1, SizeChanges
  <2>4. /\ t \in State /\ t.server = c.server /\ t.bitmap = c.bitmap
        /\ t.node.file_size = offset /\ t.node.state = c.node.state
        /\ Ptr(t) = Ptr(c) /\ (\A x : At(t, x) = At(c, x))
        /\ (Chain(c, R, 0) => Chain(t, R, 0)) /\ (OnePointer(c) => OnePointer(t))
    BY <2>3, Zenon DEF Resized
  <2> QED
    BY <1>1, <1>11, <2>1, <2>2, <2>4
<1>18. Same(s, t, R)
  <2>1. Same(c, t, R)
    BY <1>1, <1>11, <1>15, SizeChanges DEF Resized
  <2> QED
    BY <1>11, <2>1 DEF Same
<1>19. InOrder(t, R)
  BY <1>1, <1>6, <1>17 DEF InOrder
<1>20. \A x \in 0 .. offset - 1 : At(t, x) = IF x < size THEN At(s, x) ELSE Null
  <2> SUFFICES ASSUME NEW x \in 0 .. offset - 1
               PROVE  At(t, x) = IF x < size THEN At(s, x) ELSE Null
    OBVIOUS
  <2>1. x \in 0 .. WORDS - 1 /\ x \in Nat
    BY <1>2, <1>3
  <2>2. At(t, x) = IF x - size \in 0 .. n - 1 THEN Null ELSE At(s, x)
    BY <1>14, <1>17, <2>1
  <2> HIDE DEF size
  <2>3. x - size \in 0 .. n - 1 <=> ~(x < size)
    BY <1>4, <1>9, <2>1
  <2> QED
    BY <2>2, <2>3
<1>21. t.node.file_size = Reach(s, offset)
  BY <1>1, <1>17 DEF Reach
<1> QED
  BY <1>16, <1>17, <1>18, <1>19, <1>20, <1>21 DEF Filled

\* A gap that starts a block before the offset or nearer is closed.
LEMMA FillHoleDoes ==
    ASSUME Envelope, NEW R, NEW s, InOrder(s, R), Ptr(s) # 0, NEW offset \in Nat,
           offset <= s.node.file_size \/ offset <= HOLE_END, offset <= MAX_SIZE
    PROVE  Filled(s, FillHole(s, offset), R, offset)
<1> DEFINE p == [s |-> s, n |-> offset]
           q == FillTurn(p)
<1>1. s \in State /\ s.node.file_size \in Nat /\ p \in LoopState /\ p.s = s /\ p.n = offset
  BY OrderMeans DEF LoopState
<1>2. CASE offset <= s.node.file_size
  <2> DEFINE S == {p}
  <2>1. \E x \in S : FillHole(s, offset) = x.s /\ ~(x.s.server = "up" /\ x.s.node.file_size < x.n)
    <3>1. S \subseteq LoopState /\ p \in S
      BY <1>1
    <3>2. \A x \in S : ~(x.s.node.file_size < x.n)
      BY <1>1, <1>2
    <3> HIDE DEF S
    <3> QED
      BY <3>1, <3>2, FillHoleEnds
  <2>2. FillHole(s, offset) = s
    BY <1>1, <2>1
  <2>3. s.node.file_size = Reach(s, offset)
    BY <1>1, <1>2 DEF Reach
  <2>4. \A x \in 0 .. s.node.file_size - 1 : x < s.node.file_size
    BY <1>1
  <2> QED
    BY <2>2, <2>3, <2>4 DEF Filled, Same
<1>3. CASE ~(offset <= s.node.file_size)
  <2> DEFINE S == {p, q}
  <2>1. q.n = s.node.file_size /\ Filled(s, q.s, R, offset)
    <3>1. s.node.file_size < offset /\ offset <= HOLE_END
      BY <1>1, <1>3
    <3> HIDE DEF q
    <3> QED
      BY <3>1, FillTurnDoes DEF q
  <2>2. q \in LoopState
    <3>1. p.s.node.file_size < p.n
      BY <1>1, <1>3
    <3> HIDE DEF p
    <3> QED
      BY <1>1, <3>1, FillTurnTyped
  <2>3. q.s.node.file_size = offset
    BY <1>1, <1>3, <2>1 DEF Filled, Reach
  <2> HIDE DEF q
  <2>4. ~(q.s.node.file_size < q.n)
    BY <1>1, <1>3, <2>1, <2>3
  <2>5. \E x \in S : FillHole(s, offset) = x.s /\ ~(x.s.server = "up" /\ x.s.node.file_size < x.n)
    <3>1. S \subseteq LoopState /\ p \in S
      BY <1>1, <2>2
    <3>2. \A x \in S : x.s.server = "up" /\ x.s.node.file_size < x.n => FillTurn(x) \in S
      BY <2>4 DEF q
    <3> HIDE DEF S
    <3> QED
      BY <3>1, <3>2, FillHoleEnds
  <2>6. s.server = "up" /\ p.s.node.file_size < p.n
    BY <1>1, <1>3, OrderMeans
  <2>7. FillHole(s, offset) = q.s
    BY <1>1, <2>5, <2>6
  <2> QED
    BY <2>1, <2>7
<1> QED
  BY <1>2, <1>3

\* Later words lie in later blocks.
LEMMA DivGrows ==
    ASSUME NEW a \in Nat, NEW b \in Nat, a <= b
    PROVE  a \div WORDS <= b \div WORDS
BY Constants

\* Word r of block j lies in block j, and the next block starts behind it.
LEMMA BlockEnds ==
    ASSUME NEW j \in Nat, NEW r \in 0 .. WORDS - 1
    PROVE  /\ WORDS * j \in Nat /\ WORDS * (j + 1) = (WORDS * j) + WORDS
           /\ ((WORDS * j) + r) \div WORDS = j
           /\ ((WORDS * j) + WORDS) \div WORDS = j + 1
<1>1. WORDS \in Nat \ {0}
  BY Constants
<1>2. WORDS * j \in Nat /\ WORDS * (j + 1) = (WORDS * j) + WORDS
  BY <1>1
<1>3. ((WORDS * j) + r) \div WORDS = j
  BY <1>1, DivUnique
<1> DEFINE i == j + 1
<1>4. i \in Nat /\ 0 \in 0 .. WORDS - 1
  BY <1>1
<1> HIDE DEF i
<1>5. ((WORDS * i) + 0) \div WORDS = i
  BY <1>1, <1>4, DivUnique
<1>6. (WORDS * i) + 0 = (WORDS * j) + WORDS
  BY <1>1, <1>2 DEF i
<1> QED
  BY <1>2, <1>3, <1>5, <1>6 DEF i

\* A piece of a write and the block that follows one it fills.
Piece(s, t, R, base, words) ==
    /\ t \in State /\ t.server = "up" /\ t.node = s.node
    /\ R \subseteq t.bitmap /\ OnePointer(t) /\ Same(s, t, R)
    /\ Chain(t, R, s.node.file_size \div WORDS)
    /\ Chain(t, R, (base + Len(words)) \div WORDS)
    /\ Copied(s, t, s.node.file_size \div WORDS, base, words)

\* The program exits or the piece is in place.
Put(s, t, R, j, base, words) ==
    CanFollow(s, j) /\ t \in State /\ (t.server = "exit" \/ Piece(s, t, R, base, words))

\* A piece written into a block, and the block reserved behind a full one.
LEMMA WritePiece ==
    ASSUME Envelope, NEW R, NEW s, InOrder(s, R), Ptr(s) # 0,
           NEW base \in 0 .. s.node.file_size, NEW words \in Seq(Byte),
           NEW j \in Nat, NEW at \in Index, base = WORDS * j + at, at + Len(words) <= WORDS,
           NEW c, c = CopyIn(s, j, at, words),
           NEW t, t = IF Len(words) = WORDS - at THEN add_data_block_to_node(c) ELSE c
    PROVE  Put(s, t, R, j, base, words)
<1> DEFINE m == s.node.file_size \div WORDS
           n == Len(words)
<1>1. /\ s \in State /\ s.server = "up" /\ s.node.state = 1 /\ R \subseteq s.bitmap
      /\ OnePointer(s) /\ Chain(s, R, m) /\ s.node.file_size \in Nat
      /\ m \in Index /\ m + 1 < WORDS /\ m \in Nat
  BY ONLY Envelope, InOrder(s, R), Ptr(s) # 0, OrderMeans, Constants
<1>2. WORDS \in Nat \ {0} /\ n \in Nat
  BY Constants
<1>3. base \in Nat /\ j \in 0 .. m /\ j \in Index
  <2>1. base \in Nat /\ base <= s.node.file_size
    BY <1>1
  <2>2. base \div WORDS = j
    BY BlockEnds DEF Index
  <2>3. j <= m
    <3> HIDE DEF m
    <3> QED
      BY <1>1, <2>1, <2>2, DivGrows DEF m
  <2> HIDE DEF m
  <2>4. j \in Nat
    OBVIOUS
  <2> QED
    BY ONLY <1>1, <1>2, <2>1, <2>3, <2>4 DEF Index
<1>4. CanFollow(s, j)
  <2>1. Ptr(s) \in DataBlock /\ DataNum(s, j) \in DataBlock
    BY <1>1, <1>3 DEF Chain
  <2> QED
    BY <1>3, <2>1, NumIs DEF CanFollow
<1> HIDE DEF m
<1>5. /\ c \in State /\ c.server = "up" /\ c.node = s.node /\ c.bitmap = s.bitmap
      /\ Chain(c, R, m) /\ Same(s, c, R) /\ Copied(s, c, m, base, words)
  <2>1. Copied(s, c, m, WORDS * j + at, words)
    BY <1>1, <1>3, CopyAt
  <2>2. /\ c \in State /\ c.server = "up" /\ c.node = s.node /\ c.bitmap = s.bitmap
        /\ Chain(c, R, m) /\ Same(s, c, R)
    BY <1>1, <1>3, CopyKeeps
  <2> QED
    BY <1>3, <2>1, <2>2
<1>6. Ptr(c) = Ptr(s) /\ OnePointer(c) /\ c.node.file_size \div WORDS = m
  BY <1>1, <1>5 DEF Ptr, OnePointer, m
<1> DEFINE b == WORDS * j
<1>7. b \in Nat /\ base = b + at /\ at \in Nat
  BY BlockEnds, Constants
<1> HIDE DEF b, n
<1>8. CASE n # WORDS - at
  <2>1. at + n \in 0 .. WORDS - 1 /\ base + n = b + (at + n)
    BY <1>2, <1>7, <1>8 DEF n
  <2>2. (base + n) \div WORDS = j
    <3> DEFINE r == at + n
    <3> HIDE DEF r
    <3>1. (b + r) \div WORDS = j
      BY <2>1, BlockEnds DEF b, r
    <3> QED
      BY <2>1, <3>1 DEF r
  <2>3. Chain(c, R, j)
    BY <1>1, <1>3, <1>5, ChainShorter
  <2> QED
    BY <1>1, <1>4, <1>5, <1>6, <1>8, <2>2, <2>3 DEF Piece, Put, m, n
<1>9. CASE n = WORDS - at
  <2>1. (base + n) \div WORDS = j + 1
    <3>1. base + n = b + WORDS
      BY <1>2, <1>7, <1>9
    <3>2. (b + WORDS) \div WORDS = j + 1
      <4>1. 0 \in 0 .. WORDS - 1
        BY <1>2
      <4> QED
        BY <4>1, BlockEnds DEF b
    <3> QED
      BY <3>1, <3>2
  <2>2. t = add_data_block_to_node(c) /\ R \subseteq c.bitmap /\ Ptr(c) # 0
    BY <1>1, <1>5, <1>6, <1>9 DEF n
  <2>3. /\ t \in State
        /\ \/ t.server = "exit"
           \/ /\ t.server = "up" /\ t.node = c.node /\ c.bitmap \subseteq t.bitmap
              /\ Chain(t, R, m + 1) /\ Same(c, t, R) /\ SameData(c, t, m)
    <3>1. Added(c, t, R, m)
      BY <1>1, <1>5, <1>6, <2>2, AddToChain
    <3> QED
      BY <3>1 DEF Added
  <2>4. CASE t.server # "exit"
    <3>1. Chain(t, R, m) /\ Chain(t, R, j + 1)
      <4>1. m + 1 \in Nat /\ m \in 0 .. m + 1 /\ j + 1 \in 0 .. m + 1
        BY <1>1, <1>3
      <4> QED
        BY <2>3, <2>4, <4>1, ChainShorter
    <3>2. Same(s, t, R)
      BY <1>5, <2>3, <2>4 DEF Same
    <3>3. Copied(s, t, m, base, words)
      <4>1. \A x \in Nat : x \div WORDS <= m => At(t, x) = At(c, x)
        <5> SUFFICES ASSUME NEW x \in Nat, x \div WORDS <= m PROVE At(t, x) = At(c, x)
          OBVIOUS
        <5>1. x \div WORDS \in 0 .. m
          BY <1>1, InWords
        <5> QED
          BY <2>3, <2>4, <5>1 DEF SameData, At
      <4> QED
        BY <1>5, <4>1 DEF Copied
    <3>4. OnePointer(t) /\ t.node = s.node /\ R \subseteq t.bitmap
      BY <1>1, <1>5, <1>6, <2>3, <2>4 DEF OnePointer
    <3> QED
      BY <1>4, <2>1, <2>3, <2>4, <3>1, <3>2, <3>3, <3>4 DEF Piece, Put, m, n
  <2> QED
    BY <1>4, <2>3, <2>4 DEF Put
<1> QED
  BY <1>8, <1>9

\* The first n words of the buffer are written.
Written(s, t, R, offset, buffer, n) ==
    /\ InOrder(t, R) /\ Ptr(t) # 0 /\ Same(s, t, R)
    /\ t.node.file_size = Reach(s, offset + n)
    /\ \A x \in 0 .. t.node.file_size - 1 :
          At(t, x) = IF x - offset \in 0 .. n - 1 THEN buffer[(x - offset) + 1] ELSE At(s, x)

\* The piece of the buffer that a turn writes.
LEMMA PieceOf ==
    ASSUME NEW buffer \in Seq(Byte), NEW a \in Nat, NEW n \in Nat \ {0}, a + n <= Len(buffer)
    PROVE  LET piece == SubSeq(buffer, a + 1, a + n)
           IN  piece \in Seq(Byte) /\ Len(piece) = n /\ \A i \in 1 .. n : piece[i] = buffer[a + i]
<1> DEFINE lo == a + 1
           hi == a + n
<1>1. lo \in Int /\ hi \in Int /\ lo <= hi /\ (hi - lo) + 1 = n
  OBVIOUS
<1>2. \A i \in lo .. hi : buffer[i] \in Byte
  OBVIOUS
<1>3. \A i \in 1 .. n : (lo + i) - 1 = a + i
  OBVIOUS
<1> HIDE DEF lo, hi
<1>4. /\ SubSeq(buffer, lo, hi) \in Seq(Byte) /\ Len(SubSeq(buffer, lo, hi)) = n
      /\ \A i \in 1 .. n : SubSeq(buffer, lo, hi)[i] = buffer[(lo + i) - 1]
  BY <1>1, <1>2, SubSeqProperties
<1>5. \A i \in 1 .. n : SubSeq(buffer, lo, hi)[i] = buffer[a + i]
  BY <1>3, <1>4
<1> QED
  BY <1>4, <1>5 DEF lo, hi

\* A word of a piece in the words written before it and with it.
LEMMA PieceShift ==
    ASSUME NEW x \in Nat, NEW o \in Nat, NEW k \in Nat, NEW n \in Nat \ {0},
           NEW b, b = o + k
    PROVE  /\ x - b \in 0 .. n - 1 => /\ k + ((x - b) + 1) = (x - o) + 1
                                     /\ x - o \in 0 .. (k + n) - 1
           /\ ~(x - b \in 0 .. n - 1) => (x - o \in 0 .. (k + n) - 1 <=> x - o \in 0 .. k - 1)
OBVIOUS

\* A turn of the loop that writes: the program exits or some more is written.
LEMMA WriteTurnDoes ==
    ASSUME Envelope, NEW R, NEW s, InOrder(s, R), Ptr(s) # 0,
           NEW offset \in 0 .. s.node.file_size, NEW buffer \in Seq(Byte),
           offset + Len(buffer) <= MAX_SIZE,
           NEW q \in LoopState, q.n < Len(buffer), Written(s, q.s, R, offset, buffer, q.n)
    PROVE  LET r == WriteTurn(q, offset, buffer, s.node.file_size)
           IN  r.s.server = "exit" \/ Written(s, r.s, R, offset, buffer, r.n)
<1> DEFINE r     == WriteTurn(q, offset, buffer, s.node.file_size)
           size  == s.node.file_size
           base  == offset + q.n
           j     == base \div WORDS
           at    == base % WORDS
           n     == Least2(Len(buffer) - q.n, WORDS - at)
           end   == base + n
           piece == SubSeq(buffer, q.n + 1, q.n + n)
           c     == CopyIn(q.s, j, at, piece)
           u     == IF n = WORDS - at THEN add_data_block_to_node(c) ELSE c
           t     == IF end > size THEN [u EXCEPT !.node.file_size = end] ELSE u
           m     == q.s.node.file_size \div WORDS
<1> HIDE DEF r, size, base, j, at, n, end, piece, c, u, t, m
<1>1. /\ size \in Nat /\ MAX_SIZE \in Nat /\ Len(buffer) \in Nat /\ q.n \in Nat /\ offset \in 0 .. size
      /\ q.s \in State /\ q.s.node.file_size \in Nat /\ InOrder(q.s, R) /\ Ptr(q.s) # 0
  <2>1. size \in Nat /\ MAX_SIZE \in Nat
    BY OrderMeans DEF size
  <2>2. InOrder(q.s, R) /\ Ptr(q.s) # 0
    BY DEF Written
  <2>3. q.s \in State /\ q.s.node.file_size \in 0 .. MAX_SIZE
    BY <2>2, OrderMeans
  <2> QED
    BY <2>1, <2>2, <2>3 DEF LoopState, size
<1>2. base \in Nat /\ base <= MAX_SIZE /\ base \in 0 .. q.s.node.file_size
      /\ q.s.node.file_size = IF size > base THEN size ELSE base
  BY <1>1 DEF base, Written, Reach, size
<1>3. WORDS \in Nat \ {0} /\ j \in Nat /\ at \in 0 .. WORDS - 1 /\ at \in Index
  BY <1>2, InWords, Constants DEF j, at, Index
<1>4. base = WORDS * j + at
  BY <1>2, InWords DEF j, at
<1>5. /\ n \in Nat \ {0} /\ at + n <= WORDS /\ q.n + n <= Len(buffer)
      /\ (n = WORDS - at \/ q.n + n = Len(buffer))
  BY ONLY <1>1, <1>3, q.n < Len(buffer) DEF n, Least2
<1>6. piece \in Seq(Byte) /\ Len(piece) = n /\ \A i \in 1 .. n : piece[i] = buffer[q.n + i]
  BY <1>1, <1>5, PieceOf DEF piece
<1>7. CanFollow(q.s, j) /\ u \in State /\ (u.server = "exit" \/ Piece(q.s, u, R, base, piece))
  <2>1. at + Len(piece) <= WORDS
    BY <1>5, <1>6
  <2>2. u = IF Len(piece) = WORDS - at THEN add_data_block_to_node(c) ELSE c
    BY <1>6 DEF u
  <2>3. c = CopyIn(q.s, j, at, piece)
    BY DEF c
  <2>4. Put(q.s, u, R, j, base, piece)
    BY ONLY Envelope, <1>1, <1>2, <1>3, <1>4, <1>6, <2>1, <2>2, <2>3, WritePiece
  <2> QED
    BY <2>4 DEF Put
<1>8. r = [n |-> q.n + n, s |-> t]
  <2>1. r = IF ~CanFollow(q.s, j) THEN [q EXCEPT !.s = Wild(@)] ELSE [n |-> q.n + n, s |-> t]
    BY DEF r, WriteTurn, t, u, c, piece, end, n, at, j, base, size
  <2> QED
    BY <1>7, <2>1
<1>9. base = offset + q.n /\ offset \in Nat /\ q.n \in Nat /\ n \in Nat \ {0}
  BY <1>1, <1>5 DEF base
<1>10. t \in State /\ t.server = u.server /\ end \in Nat
  <2>1. end \in Nat
    BY <1>2, <1>5 DEF end
  <2> QED
    BY <1>7, <2>1, SizeChanges DEF t, Resized
<1>11. CASE u.server # "exit"
  <2>1. Piece(q.s, u, R, base, piece)
    BY <1>7, <1>11
  <2>2. /\ u.server = "up" /\ u.node = q.s.node /\ R \subseteq u.bitmap /\ OnePointer(u)
        /\ Same(q.s, u, R) /\ Chain(u, R, m) /\ Chain(u, R, end \div WORDS)
        /\ Copied(q.s, u, m, base, piece)
    BY <1>6, <2>1 DEF Piece, m, end
  <2>3. t.node.file_size = Reach(s, end) /\ (t.node.file_size = end \/ t.node.file_size = q.s.node.file_size)
    <3>1. CASE end > size
      <4>1. t.node.file_size = end
        BY <1>7, <1>10, <3>1, SizeChanges DEF t, Resized
      <4> QED
        BY <1>1, <1>10, <3>1, <4>1 DEF Reach, size
    <3>2. CASE ~(end > size)
      <4>1. t = u
        BY <3>2 DEF t
      <4>2. base < size
        BY <1>1, <1>2, <1>5, <3>2 DEF end
      <4>3. q.s.node.file_size = size
        BY <1>1, <1>2, <4>2
      <4> QED
        BY <1>1, <1>10, <2>2, <3>2, <4>1, <4>3 DEF Reach, size
    <3> QED
      BY <3>1, <3>2
  <2>4. /\ t.bitmap = u.bitmap /\ OnePointer(t) /\ Same(u, t, R) /\ t.node.state = u.node.state
        /\ Ptr(t) = Ptr(u) /\ (\A x : At(t, x) = At(u, x))
        /\ (\A k : Chain(u, R, k) => Chain(t, R, k))
    <3>1. CASE end > size
      <4>1. t = [u EXCEPT !.node.file_size = end]
        BY <3>1 DEF t
      <4>2. Resized(u, t, end)
        BY <1>7, <1>10, <4>1, SizeChanges
      <4> QED
        BY <2>2, <4>2, Zenon DEF Resized
    <3>2. CASE ~(end > size)
      <4>1. t = u
        BY <3>2 DEF t
      <4> QED
        BY <2>2, <4>1 DEF Same
    <3> QED
      BY <3>1, <3>2
  <2>5. Ptr(t) # 0
    BY <1>1, <2>2, <2>4 DEF Ptr
  <2>6. Same(s, t, R)
    BY <2>2, <2>4 DEF Same, Written
  <2>7. Chain(t, R, t.node.file_size \div WORDS)
    BY <2>2, <2>3, <2>4 DEF m
  <2>8. t.node.file_size <= MAX_SIZE
    <3>1. q.s.node.file_size <= MAX_SIZE
      BY <1>1 DEF InOrder
    <3>2. end <= MAX_SIZE
      BY <1>1, <1>5, <1>10 DEF end, base
    <3> QED
      BY <2>3, <3>1, <3>2
  <2>9. InOrder(t, R)
    <3>1. t.node.state = 1
      BY <1>1, <2>2, <2>4 DEF InOrder
    <3> QED
      BY <1>10, <2>2, <2>4, <2>5, <2>7, <2>8, <3>1 DEF InOrder
  <2>10. ASSUME NEW x \in 0 .. t.node.file_size - 1
         PROVE  At(t, x) = IF x - offset \in 0 .. (q.n + n) - 1 THEN buffer[(x - offset) + 1]
                           ELSE At(s, x)
    <3>1. x \in Nat /\ (x < end \/ x < q.s.node.file_size)
      BY <1>1, <1>10, <2>3
    <3>2. x \div WORDS <= m
      <4>1. CASE x < q.s.node.file_size
        BY <1>1, <3>1, <4>1, DivGrows DEF m
      <4>2. CASE x < end
        <5>1. base \div WORDS <= m
          BY <1>1, <1>2, DivGrows DEF m
        <5>2. x \div WORDS <= j
          <6> DEFINE b == WORDS * j
          <6>1. b \in Nat /\ (b + (WORDS - 1)) \div WORDS = j
            <7>1. WORDS - 1 \in 0 .. WORDS - 1
              BY <1>3
            <7> QED
              BY <1>3, <7>1, BlockEnds
          <6>2. end <= b + WORDS
            <7>1. base = b + at
              BY <1>4
            <7> HIDE DEF b
            <7> QED
              BY ONLY <1>3, <1>5, <6>1, <7>1 DEF end
          <6> HIDE DEF b
          <6>3. x <= b + (WORDS - 1) /\ b + (WORDS - 1) \in Nat
            BY ONLY <1>3, <1>10, <3>1, <4>2, <6>1, <6>2
          <6> QED
            BY ONLY <3>1, <6>1, <6>3, DivGrows
        <5> QED
          <6>1. m \in Nat /\ j \in Nat /\ x \div WORDS \in Nat /\ j <= m
            BY <1>1, <1>3, <3>1, <5>1, InWords DEF m, j
          <6> QED
            BY ONLY <5>2, <6>1
      <4> QED
        BY <3>1, <4>1, <4>2
    <3>3. At(t, x) = IF x - base \in 0 .. n - 1 THEN piece[(x - base) + 1] ELSE At(q.s, x)
      BY <1>6, <2>2, <2>4, <3>1, <3>2 DEF Copied
    <3>4. CASE x - base \in 0 .. n - 1
      <4>1. piece[(x - base) + 1] = buffer[q.n + ((x - base) + 1)]
        BY <1>5, <1>6, <3>4
      <4>2. q.n + ((x - base) + 1) = (x - offset) + 1 /\ x - offset \in 0 .. (q.n + n) - 1
        BY ONLY <1>9, <3>1, <3>4, PieceShift
      <4> QED
        BY <3>3, <3>4, <4>1, <4>2
    <3>5. CASE ~(x - base \in 0 .. n - 1)
      <4>1. x < q.s.node.file_size
        BY <1>1, <1>2, <1>5, <3>1, <3>5 DEF end
      <4>2. At(q.s, x) = IF x - offset \in 0 .. q.n - 1 THEN buffer[(x - offset) + 1] ELSE At(s, x)
        BY <1>1, <3>1, <4>1 DEF Written
      <4>3. x - offset \in 0 .. (q.n + n) - 1 <=> x - offset \in 0 .. q.n - 1
        BY ONLY <1>9, <3>1, <3>5, PieceShift
      <4> QED
        BY <3>3, <3>5, <4>2, <4>3
    <3> QED
      BY <3>4, <3>5
  <2>11. end = offset + (q.n + n)
    BY <1>1, <1>5 DEF end, base
  <2> QED
    BY <1>8, <2>3, <2>5, <2>6, <2>9, <2>10, <2>11 DEF Written, r
<1> QED
  BY <1>8, <1>10, <1>11 DEF r

\* All turns of sac_write together write the buffer, or the disk is full.
LEMMA WriteBlocksDoes ==
    ASSUME Envelope, NEW R, NEW s, InOrder(s, R), Ptr(s) # 0,
           NEW offset \in 0 .. s.node.file_size, NEW buffer \in Seq(Byte),
           offset + Len(buffer) <= MAX_SIZE
    PROVE  LET t == WriteBlocks(s, offset, buffer)
           IN  t \in State /\ (t.server = "exit" \/ Written(s, t, R, offset, buffer, Len(buffer)))
<1> DEFINE Good(q) == q.s.server = "exit" \/ (q.n <= Len(buffer) /\ Written(s, q.s, R, offset, buffer, q.n))
           S == {q \in LoopState : Good(q)}
           p == [s |-> s, n |-> 0]
           size == s.node.file_size
<1>1. s \in State /\ size \in Nat /\ offset \in Nat /\ Len(buffer) \in Nat
  BY OrderMeans
<1>2. p \in S
  <2>1. p \in LoopState /\ p.s = s /\ p.n = 0
    BY <1>1 DEF LoopState
  <2>2. size = Reach(s, offset + 0)
    BY <1>1 DEF Reach
  <2>3. Written(s, s, R, offset, buffer, 0)
    <3>1. \A x : ~(x - offset \in 0 .. 0 - 1)
      OBVIOUS
    <3> QED
      BY <2>2, <3>1 DEF Written, Same
  <2> HIDE DEF p
  <2> QED
    BY <1>1, <2>1, <2>3
<1>3. ASSUME NEW q \in S, q.s.server = "up", q.n < Len(buffer)
      PROVE  WriteTurn(q, offset, buffer, size) \in S
  <2> DEFINE r == WriteTurn(q, offset, buffer, size)
  <2>1. q \in LoopState /\ Written(s, q.s, R, offset, buffer, q.n)
    BY <1>3
  <2>2. r \in LoopState /\ (r.s.server = "up" => r.n \in q.n + 1 .. Len(buffer))
    <3> HIDE DEF size
    <3> QED
      BY <1>1, <1>3, <2>1, WriteTurnTyped
  <2>3. r.s.server = "exit" \/ Written(s, r.s, R, offset, buffer, r.n)
    BY <1>3, <2>1, WriteTurnDoes
  <2> HIDE DEF r
  <2>4. Written(s, r.s, R, offset, buffer, r.n) => r.s.server = "up"
    BY DEF Written, InOrder
  <2>5. Good(r)
    BY <1>1, <2>1, <2>2, <2>3, <2>4 DEF LoopState
  <2> HIDE DEF Good
  <2> QED
    BY <2>2, <2>5 DEF r
<1>4. PICK q \in S : WriteBlocks(s, offset, buffer) = q.s /\ ~(q.s.server = "up" /\ q.n < Len(buffer))
  <2>1. S \subseteq LoopState
    OBVIOUS
  <2> HIDE DEF S, p, size
  <2> QED
    BY <1>1, <1>2, <1>3, <2>1, WriteBlocksEnds DEF p, size
<1>5. q \in LoopState /\ Good(q)
  OBVIOUS
<1>6. CASE q.s.server # "exit"
  <2>1. q.n <= Len(buffer) /\ Written(s, q.s, R, offset, buffer, q.n)
    BY <1>5, <1>6
  <2>2. q.s.server = "up"
    BY <2>1 DEF Written, InOrder
  <2>3. q.n = Len(buffer)
    BY <1>1, <1>4, <1>5, <2>1, <2>2 DEF LoopState
  <2> HIDE DEF Good, S
  <2> QED
    BY <1>4, <1>5, <2>1, <2>3 DEF LoopState
<1> HIDE DEF Good, S
<1> QED
  BY <1>4, <1>5, <1>6 DEF LoopState

\* A program that has stopped does not go through its loops.
LEMMA StoppedFill ==
    ASSUME NEW s \in State, s.server # "up", NEW offset \in Nat
    PROVE  FillHole(s, offset) = s
<1> DEFINE p == [s |-> s, n |-> offset]
           S == {p}
<1>1. p \in LoopState /\ p.s = s
  BY DEF LoopState
<1>2. \E q \in S : FillHole(s, offset) = q.s /\ ~(q.s.server = "up" /\ q.s.node.file_size < q.n)
  <2>1. S \subseteq LoopState /\ p \in S /\ \A q \in S : q.s.server # "up"
    BY <1>1
  <2> HIDE DEF S
  <2> QED
    BY <2>1, FillHoleEnds
<1> QED
  BY <1>1, <1>2

\* The same of the loop that writes.
LEMMA StoppedWrite ==
    ASSUME NEW s \in State, s.server # "up", NEW offset \in Nat, NEW buffer \in Seq(Byte)
    PROVE  WriteBlocks(s, offset, buffer) = s
<1> DEFINE p == [s |-> s, n |-> 0]
           S == {p}
<1>1. p \in LoopState /\ p.s = s /\ s.node.file_size \in Nat
  BY DEF LoopState, State, t_node
<1>2. \E q \in S : WriteBlocks(s, offset, buffer) = q.s /\ ~(q.s.server = "up" /\ q.n < Len(buffer))
  <2>1. S \subseteq LoopState /\ p \in S /\ \A q \in S : q.s.server # "up"
    BY <1>1
  <2> HIDE DEF S
  <2> QED
    BY <1>1, <2>1, WriteBlocksEnds
<1> QED
  BY <1>1, <1>2

\* What sac_write leaves of a file and of the blocks of others.
Overlaid(s, t, R, offset, buffer) ==
    /\ InOrder(t, R) /\ Ptr(t) # 0 /\ Same(s, t, R)
    /\ t.node.file_size = Reach(s, offset + Len(buffer))
    /\ \A x \in 0 .. t.node.file_size - 1 :
          At(t, x) = IF x - offset \in 0 .. Len(buffer) - 1 THEN buffer[(x - offset) + 1]
                     ELSE IF x < s.node.file_size THEN At(s, x) ELSE Null

\* sac_write overlays the words of the file, or the program exits on a full
\* disk.
LEMMA WriteDoes ==
    ASSUME Envelope, NEW R, NEW s, InOrder(s, R), NEW offset \in Nat, NEW buffer \in Seq(Byte),
           offset <= s.node.file_size \/ offset <= HOLE_END, offset + Len(buffer) <= MAX_SIZE
    PROVE  LET t == Write(s, offset, buffer)
           IN  t \in State /\ (t.server = "exit" \/ Overlaid(s, t, R, offset, buffer))
<1> DEFINE a == IF s.node.indirect_pointer_block[0] = 0 THEN add_data_block_to_node(s) ELSE s
           b == FillHole(a, offset)
           t == WriteBlocks(b, offset, buffer)
<1>1. Write(s, offset, buffer) = t
  BY DEF Write
<1>2. s \in State /\ s.node.file_size \in Nat /\ MAX_SIZE \in Nat /\ Len(buffer) \in Nat
  BY FileAssumption DEF InOrder, State, t_node
<1> HIDE DEF a
<1>3. /\ a \in State
      /\ \/ a.server = "exit"
         \/ /\ InOrder(a, R) /\ Ptr(a) # 0 /\ Same(s, a, R)
            /\ a.node.file_size = s.node.file_size
            /\ \A x \in 0 .. s.node.file_size - 1 : At(a, x) = At(s, x)
  <2>1. CASE Ptr(s) = 0
    <3>1. a = add_data_block_to_node(s)
      BY <2>1 DEF a, Ptr
    <3>2. s.node.file_size = 0
      BY <2>1 DEF InOrder
    <3> QED
      BY <2>1, <3>1, <3>2, FirstBlock
  <2>2. CASE Ptr(s) # 0
    <3>1. a = s
      BY <2>2 DEF a, Ptr
    <3> QED
      BY <1>2, <2>2, <3>1 DEF Same
  <2> QED
    BY <2>1, <2>2
<1>4. CASE a.server = "exit"
  <2>1. b = a
    BY <1>3, <1>4, StoppedFill
  <2>2. t = b
    BY <1>3, <1>4, <2>1, StoppedWrite
  <2> QED
    BY <1>1, <1>3, <1>4, <2>1, <2>2
<1>5. CASE a.server # "exit"
  <2>1. Filled(a, b, R, offset)
    <3>1. offset <= MAX_SIZE
      BY <1>2
    <3> HIDE DEF b
    <3> QED
      BY <1>3, <1>5, <3>1, FillHoleDoes DEF b
  <2> HIDE DEF b
  <2>2. /\ InOrder(b, R) /\ Ptr(b) # 0 /\ Same(a, b, R) /\ b.node.file_size \in Nat
        /\ b.node.file_size = Reach(a, offset) /\ offset \in 0 .. b.node.file_size
    <3>1. b.node.file_size = Reach(a, offset) /\ InOrder(b, R) /\ Ptr(b) # 0 /\ Same(a, b, R)
      BY <2>1 DEF Filled
    <3> QED
      BY <1>2, <1>3, <1>5, <3>1 DEF Reach
  <2>3. t \in State /\ (t.server = "exit" \/ Written(b, t, R, offset, buffer, Len(buffer)))
    BY <2>2, WriteBlocksDoes
  <2> HIDE DEF t
  <2>4. CASE Written(b, t, R, offset, buffer, Len(buffer))
    <3>1. InOrder(t, R) /\ Ptr(t) # 0 /\ Same(b, t, R)
          /\ t.node.file_size = Reach(b, offset + Len(buffer))
      BY <2>4 DEF Written
    <3>2. Same(s, t, R)
      BY <1>3, <1>5, <2>2, <3>1 DEF Same
    <3>3. t.node.file_size = Reach(s, offset + Len(buffer)) /\ t.node.file_size \in Nat
      BY <1>2, <1>3, <1>5, <2>2, <3>1 DEF Reach
    <3>4. ASSUME NEW x \in 0 .. t.node.file_size - 1
          PROVE  At(t, x) = IF x - offset \in 0 .. Len(buffer) - 1 THEN buffer[(x - offset) + 1]
                            ELSE IF x < s.node.file_size THEN At(s, x) ELSE Null
      <4>1. At(t, x) = IF x - offset \in 0 .. Len(buffer) - 1 THEN buffer[(x - offset) + 1] ELSE At(b, x)
        BY <2>4 DEF Written
      <4>2. CASE ~(x - offset \in 0 .. Len(buffer) - 1)
        <5>1. x \in 0 .. b.node.file_size - 1
          BY <1>2, <1>3, <1>5, <2>2, <3>3, <4>2 DEF Reach
        <5>2. At(b, x) = IF x < a.node.file_size THEN At(a, x) ELSE Null
          BY <2>1, <5>1 DEF Filled
        <5>3. x < s.node.file_size => x \in 0 .. s.node.file_size - 1
          BY <1>2, <3>3
        <5> QED
          BY <1>3, <1>5, <4>1, <4>2, <5>2, <5>3
      <4> QED
        BY <4>1, <4>2
    <3> QED
      BY <1>1, <2>3, <3>1, <3>2, <3>3, <3>4 DEF Overlaid
  <2> QED
    BY <1>1, <2>3, <2>4
<1> QED
  BY <1>4, <1>5

\* What deleteLastDataBlock leaves of a file and of the blocks of others: all
\* words of the last block are gone, and all of the block before it.
Shortened(s, t, R) ==
    /\ InOrder(t, R) /\ Same(s, t, R)
    /\ s.node.file_size - t.node.file_size \in 1 .. 2 * WORDS - 1
    /\ t.node.file_size > 0 => \A x : At(t, x) = At(s, x)

\* The last block of a file goes back, and with the first the pointer block.
LEMMA DeleteDoes ==
    ASSUME Envelope, NEW R, NEW s, InOrder(s, R), s.node.file_size > 0
    PROVE  Shortened(s, deleteLastDataBlock(s), R)
<1> DEFINE b == s.node.file_size \div WORDS
           p == Ptr(s)
           d == DataNum(s, b)
           t == deleteLastDataBlock(s)
<1>1. /\ s \in State /\ s.server = "up" /\ s.node.state = 1 /\ R \subseteq s.bitmap /\ OnePointer(s)
      /\ s.node.file_size \in 0 .. MAX_SIZE /\ MAX_SIZE \in Nat /\ b \in Index /\ Chain(s, R, b) /\ p # 0
  <2>1. p # 0
    BY DEF InOrder
  <2> QED
    BY <2>1, OrderMeans
<1> HIDE DEF b
<1>2. WORDS \in Nat \ {0} /\ b \in 0 .. WORDS - 1 /\ 0 \in 0 .. POINTER_BLOCKS - 1
  BY <1>1, Constants DEF Index
<1>3. p \in DataBlock /\ p \in s.bitmap /\ ~(p \in R)
      /\ \A k \in 0 .. b : DataNum(s, k) \in (DataBlock \cap s.bitmap) \ (R \cup {p})
  BY <1>1 DEF Chain
<1>4. CanFollow(s, b) /\ DataBlockNum(s, b) = d /\ d \in DataBlock /\ ~(d \in R) /\ d # p
  <2>1. d \in DataBlock /\ ~(d \in R) /\ d # p
    BY <1>2, <1>3
  <2> QED
    BY <1>1, <1>3, <2>1, NumIs DEF CanFollow
<1>5. b \div WORDS = 0 /\ b % WORDS = b
  <2>1. (WORDS * 0 + b) \div WORDS = 0 /\ (WORDS * 0 + b) % WORDS = b
    BY <1>2, DivUnique
  <2>2. WORDS * 0 + b = b
    BY <1>2
  <2> QED
    BY <2>1, <2>2
<1> HIDE DEF d, p
<1>6. t = [s EXCEPT
             !.bitmap = @ \ ({d} \cup IF b = 0 THEN {p} ELSE {}),
             !.node.indirect_pointer_block[0] = IF b = 0 THEN 0 ELSE @,
             !.node.file_size = IF b = 0 THEN 0 ELSE (b - 1) * WORDS]
  <2>1. t = IF s.node.file_size = 0 THEN s
            ELSE IF ~CanFollow(s, b) THEN Wild(s)
            ELSE [s EXCEPT
                    !.bitmap = @ \ ({DataBlockNum(s, b)} \cup
                        IF b % WORDS = 0 THEN {s.node.indirect_pointer_block[b \div WORDS]} ELSE {}),
                    !.node.indirect_pointer_block[b \div WORDS] = IF b % WORDS = 0 THEN 0 ELSE @,
                    !.node.file_size = IF b = 0 THEN 0 ELSE (b - 1) * WORDS]
    BY DEF deleteLastDataBlock, b
  <2>2. s.node.indirect_pointer_block[0] = p /\ ~(s.node.file_size = 0)
    BY <1>1 DEF p, Ptr
  <2> HIDE DEF t
  <2> QED
    BY ONLY <2>1, <2>2, <1>4, <1>5
<1>7. t \in State /\ (t.server = "up" => t.node.file_size < s.node.file_size)
  BY <1>1, DeleteTyped
<1> HIDE DEF t
<1>8. /\ t.server = "up" /\ t.node.state = 1 /\ t.block = s.block
      /\ t.bitmap = s.bitmap \ ({d} \cup IF b = 0 THEN {p} ELSE {})
      /\ t.node.file_size = IF b = 0 THEN 0 ELSE (b - 1) * WORDS
      /\ t.node.indirect_pointer_block[0] = IF b = 0 THEN 0 ELSE p
      /\ \A i \in 1 .. POINTER_BLOCKS - 1 :
            t.node.indirect_pointer_block[i] = s.node.indirect_pointer_block[i]
  <2> DEFINE size == IF b = 0 THEN 0 ELSE (b - 1) * WORDS
             bits == {d} \cup IF b = 0 THEN {p} ELSE {}
  <2>1. t = [s EXCEPT !.bitmap = @ \ bits,
                      !.node.indirect_pointer_block[0] = IF b = 0 THEN 0 ELSE @,
                      !.node.file_size = size]
    BY <1>6
  <2> HIDE DEF size, bits
  <2>2. /\ t.server = "up" /\ t.node.state = 1 /\ t.block = s.block /\ t.bitmap = s.bitmap \ bits
        /\ t.node.file_size = size
        /\ t.node.indirect_pointer_block[0] = IF b = 0 THEN 0 ELSE p
        /\ \A i \in 1 .. POINTER_BLOCKS - 1 :
              t.node.indirect_pointer_block[i] = s.node.indirect_pointer_block[i]
    <3> DEFINE nd == [s.node EXCEPT !.indirect_pointer_block[0] = IF b = 0 THEN 0 ELSE @,
                                    !.file_size = size]
    <3>1. s.node \in t_node
      BY <1>1 DEF State
    <3>2. /\ nd.file_size = size /\ nd.state = 1
          /\ nd.indirect_pointer_block[0] = IF b = 0 THEN 0 ELSE p
          /\ \A i \in 1 .. POINTER_BLOCKS - 1 :
                nd.indirect_pointer_block[i] = s.node.indirect_pointer_block[i]
      <4> DEFINE old == s.node.indirect_pointer_block
                 new == [old EXCEPT ![0] = IF b = 0 THEN 0 ELSE @]
      <4>1. DOMAIN old = 0 .. POINTER_BLOCKS - 1 /\ old[0] = p
        BY <3>1 DEF t_node, Ptr, p
      <4>2. /\ new[0] = IF b = 0 THEN 0 ELSE p
            /\ \A i \in 1 .. POINTER_BLOCKS - 1 : new[i] = old[i]
        <5> HIDE DEF old
        <5>1. \A i \in 1 .. POINTER_BLOCKS - 1 : i \in 0 .. POINTER_BLOCKS - 1 /\ i # 0
          BY Constants
        <5> QED
          BY <1>2, <4>1, <5>1
      <4>3. nd = [s.node EXCEPT !.indirect_pointer_block = new, !.file_size = size]
        OBVIOUS
      <4> HIDE DEF new, nd
      <4>4. nd.file_size = size /\ nd.state = 1 /\ nd.indirect_pointer_block = new
        BY <1>1, <3>1, <4>3 DEF t_node
      <4> QED
        BY <4>2, <4>4
    <3> HIDE DEF nd
    <3>3. t = [s EXCEPT !.bitmap = @ \ bits, !.node = nd]
      BY <2>1 DEF nd
    <3>4. t.server = "up" /\ t.block = s.block /\ t.bitmap = s.bitmap \ bits /\ t.node = nd
      BY <1>1, <3>3 DEF State
    <3> QED
      BY <3>2, <3>4
  <2> QED
    BY <2>2 DEF size, bits
<1>9. Same(s, t, R) /\ OnePointer(t) /\ R \subseteq t.bitmap
  <2>1. Same(s, t, R)
    BY <1>8 DEF Same
  <2>2. OnePointer(t)
    BY <1>1, <1>8 DEF OnePointer
  <2>3. R \subseteq t.bitmap
    BY <1>1, <1>3, <1>4, <1>8
  <2> QED
    BY <2>1, <2>2, <2>3
<1>10. t.node.file_size <= MAX_SIZE
  <2>1. t.node.file_size \in Nat
    BY <1>7 DEF State, t_node
  <2> QED
    BY <1>1, <1>7, <1>8, <2>1
<1>11. ASSUME b = 0
       PROVE  InOrder(t, R)
  <2>1. Ptr(t) = 0 /\ t.node.file_size = 0
    BY <1>8, <1>11 DEF Ptr
  <2> QED
    BY <1>7, <1>8, <1>9, <1>10, <2>1 DEF InOrder
<1>12. ASSUME b # 0
       PROVE  InOrder(t, R)
  <2> DEFINE c == b - 1
  <2>1. c \in Nat /\ c \in 0 .. b /\ b \notin 0 .. c
    BY <1>2, <1>12
  <2>2. t.node.file_size \div WORDS = c
    <3>1. 0 \in 0 .. WORDS - 1
      BY <1>2
    <3>2. t.node.file_size = c * WORDS
      BY <1>8, <1>12
    <3> HIDE DEF c
    <3>3. WORDS * c \in Nat /\ ((WORDS * c) + 0) \div WORDS = c
      BY <2>1, <3>1, BlockEnds
    <3>4. c * WORDS = (WORDS * c) + 0
      BY <1>2, <2>1
    <3> QED
      BY <3>2, <3>3, <3>4
  <2>3. Ptr(t) = p
    BY <1>8, <1>12 DEF Ptr
  <2>4. \A k : DataNum(t, k) = DataNum(s, k)
    BY <1>8, <2>3 DEF DataNum, p
  <2>5. \A i, k \in 0 .. b : DataNum(s, i) = DataNum(s, k) => i = k
    BY <1>1 DEF Chain
  <2>6. t.bitmap = s.bitmap \ {d}
    BY <1>8, <1>12
  <2>7. \A k \in 0 .. c : k \in 0 .. b /\ k # b
    BY <1>2, <1>12
  <2> HIDE DEF c
  <2>8. \A k \in 0 .. c : DataNum(s, k) # d
    BY <1>2, <2>5, <2>7 DEF d
  <2>9. Chain(t, R, c)
    BY <1>3, <1>4, <2>3, <2>4, <2>5, <2>6, <2>7, <2>8 DEF Chain
  <2> QED
    BY <1>1, <1>7, <1>8, <1>9, <1>10, <2>2, <2>3, <2>9 DEF InOrder
<1>13. s.node.file_size - t.node.file_size \in 1 .. 2 * WORDS - 1
  <2>1. PICK size \in Nat : size = s.node.file_size
    BY <1>1
  <2>2. PICK rest \in 0 .. WORDS - 1 : size = WORDS * b + rest
    BY <2>1, InWords DEF b
  <2>3. CASE b = 0
    <3>1. WORDS * b = 0
      BY <1>2, <2>3
    <3>2. t.node.file_size = 0 /\ size = rest /\ size > 0
      BY <1>8, <2>1, <2>2, <2>3, <3>1
    <3> QED
      BY <1>2, <2>1, <2>2, <3>2
  <2>4. CASE b # 0
    <3>1. PICK c \in Nat : b = c + 1
      <4>1. b - 1 \in Nat /\ b = (b - 1) + 1
        BY <1>2, <2>4
      <4> QED
        BY <4>1
    <3>2. t.node.file_size = c * WORDS
      BY <1>8, <2>4, <3>1
    <3>3. WORDS * b = c * WORDS + WORDS /\ c * WORDS \in Nat
      BY <1>2, <3>1
    <3> QED
      BY <1>2, <2>1, <2>2, <3>2, <3>3
  <2> QED
    BY <2>3, <2>4
<1>14. t.node.file_size > 0 => \A x : At(t, x) = At(s, x)
  <2> SUFFICES ASSUME t.node.file_size > 0 PROVE \A x : At(t, x) = At(s, x)
    OBVIOUS
  <2>1. Ptr(t) = Ptr(s)
    BY <1>8 DEF Ptr, p
  <2> QED
    BY <1>8, <2>1 DEF At, DataNum
<1> QED
  BY <1>9, <1>11, <1>12, <1>13, <1>14 DEF Shortened, t

\* What a truncation to less leaves of a file and of the blocks of others.
Cut(s, t, R, length) ==
    /\ InOrder(t, R) /\ Same(s, t, R)
    /\ t.node.file_size \in F!Reached(s.node.file_size, length)
    /\ \A x \in 0 .. t.node.file_size - 1 : At(t, x) = At(s, x)

\* sac_truncate cuts a file to the length asked for, or, if it takes whole
\* blocks, to less than a block below it.
LEMMA ShrinkDoes ==
    ASSUME Envelope, NEW R, NEW s, InOrder(s, R), NEW length \in 0 .. s.node.file_size
    PROVE  Cut(s, Shrink(s, length), R, length)
<1> DEFINE size == s.node.file_size
           Good(q) == /\ q.n = length
                      /\ InOrder(q.s, R) /\ Same(s, q.s, R)
                      /\ q.s.node.file_size \in 0 .. size
                      /\ \/ q.s.node.file_size >= length
                         \/ /\ size - length >= WORDS
                            /\ length - q.s.node.file_size < WORDS
                      /\ \A x \in 0 .. length - 1 :
                            x < q.s.node.file_size => At(q.s, x) = At(s, x)
           S == {q \in LoopState : Good(q)}
           p == [s |-> s, n |-> length]
<1>1. s \in State /\ size \in Nat /\ length \in Nat /\ WORDS \in Nat \ {0}
  BY Constants, FileAssumption DEF InOrder, State, t_node
<1>2. p \in S
  <2>1. p \in LoopState /\ p.s = s /\ p.n = length
    BY <1>1 DEF LoopState
  <2> HIDE DEF p
  <2> QED
    BY <1>1, <2>1 DEF Same
<1>3. ASSUME NEW q \in S, q.s.server = "up", q.s.node.file_size > q.n
      PROVE  ShrinkTurn(q) \in S
  <2> DEFINE r == ShrinkTurn(q)
  <2>1. q \in LoopState /\ Good(q)
    OBVIOUS
  <2>2. /\ r \in LoopState /\ r.n = q.n
        /\ (r.s.server = "up" => r.s.node.file_size < q.s.node.file_size)
    BY <1>3, <2>1, ShrinkTurnTyped
  <2>3. q.s \in State /\ q.s.node.file_size \in Nat /\ r.s \in State /\ r.s.node.file_size \in Nat
    BY <2>1, <2>2 DEF LoopState, State, t_node
  <2>4. CASE q.s.node.file_size - length >= WORDS \/ length = 0
    <3>1. r.s = deleteLastDataBlock(q.s)
      BY <1>3, <2>1, <2>4 DEF ShrinkTurn, LoopState
    <3>2. Shortened(q.s, r.s, R)
      <4>1. q.s.node.file_size > 0
        BY <1>1, <1>3, <2>1, <2>3
      <4> HIDE DEF r
      <4> QED
        BY <2>1, <3>1, <4>1, DeleteDoes
    <3> HIDE DEF r
    <3>3. InOrder(r.s, R) /\ Same(s, r.s, R)
      BY <2>1, <3>2 DEF Shortened, Same
    <3>4. PICK m, n : m = q.s.node.file_size /\ n = r.s.node.file_size
      OBVIOUS
    <3>5. m \in 0 .. size /\ n \in Nat /\ m - n \in 1 .. 2 * WORDS - 1
      BY <2>1, <2>3, <3>2, <3>4 DEF Shortened
    <3>6. /\ n \in 0 .. size
          /\ n >= length \/ (size - length >= WORDS /\ length - n < WORDS)
      BY <1>1, <2>4, <3>4, <3>5
    <3>7. ASSUME NEW x \in 0 .. length - 1, x < n
          PROVE  At(r.s, x) = At(s, x)
      <4>1. n > 0 /\ x < m
        BY <1>1, <3>5, <3>7
      <4>2. At(r.s, x) = At(q.s, x)
        BY <3>2, <3>4, <4>1 DEF Shortened
      <4> QED
        BY <2>1, <3>4, <4>1, <4>2
    <3>8. Good(r)
      BY <2>1, <2>2, <3>3, <3>4, <3>6, <3>7
    <3> HIDE DEF Good
    <3> QED
      BY <2>2, <3>8 DEF r
  <2>5. CASE ~(q.s.node.file_size - length >= WORDS \/ length = 0)
    <3>1. ~(q.s.node.file_size - q.n >= WORDS \/ q.n = 0)
      BY <2>1, <2>5
    <3>2. r.s = [q.s EXCEPT !.node.file_size = length]
      BY <2>1, <3>1 DEF ShrinkTurn, LoopState
    <3>3. Resized(q.s, r.s, length)
      <4> HIDE DEF r
      <4> QED
        BY <1>1, <2>3, <3>2, SizeChanges
    <3> HIDE DEF r
    <3>4. Ptr(q.s) # 0
      BY <1>1, <1>3, <2>1, <2>3 DEF InOrder
    <3>5. Chain(r.s, R, length \div WORDS)
      <4>1. Chain(q.s, R, q.s.node.file_size \div WORDS)
        BY <2>1, <3>4, OrderMeans
      <4>2. length \div WORDS \in 0 .. q.s.node.file_size \div WORDS
        <5>1. length \div WORDS \in Nat /\ q.s.node.file_size \div WORDS \in Nat
          BY <1>1, <2>3, InWords
        <5>2. length \div WORDS <= q.s.node.file_size \div WORDS
          <6>1. length <= q.s.node.file_size
            BY <1>1, <1>3, <2>1, <2>3
          <6> QED
            BY <1>1, <2>3, <6>1, DivGrows
        <5> QED
          BY <5>1, <5>2
      <4>3. q.s.node.file_size \div WORDS \in Nat
        BY <2>3, InWords
      <4>4. Chain(q.s, R, length \div WORDS)
        BY <4>1, <4>2, <4>3, ChainShorter
      <4> QED
        BY <3>3, <4>4 DEF Resized
    <3>6. InOrder(r.s, R)
      <4>1. length <= MAX_SIZE
        BY <1>1, FileAssumption DEF InOrder
      <4> QED
        BY <2>1, <3>3, <3>4, <3>5, <4>1 DEF InOrder, Resized
    <3>7. Same(s, r.s, R)
      BY <2>1, <3>3 DEF Same, Resized
    <3>8. \A x : At(r.s, x) = At(q.s, x)
      BY <3>3 DEF Resized
    <3>9. r.s.node.file_size = length /\ length <= size /\ length < q.s.node.file_size
      BY <1>1, <1>3, <2>1, <3>3 DEF Resized
    <3>10. \A x \in 0 .. length - 1 : At(r.s, x) = At(s, x)
      <4>1. \A x \in 0 .. length - 1 : x < q.s.node.file_size
        BY <1>1, <2>3, <3>9
      <4> QED
        BY <2>1, <3>8, <4>1
    <3>11. Good(r)
      BY <1>1, <2>1, <2>2, <3>6, <3>7, <3>9, <3>10
    <3> HIDE DEF Good
    <3> QED
      BY <2>2, <3>11 DEF r
  <2> QED
    BY <2>4, <2>5
<1>4. PICK q \in S : Shrink(s, length) = q.s /\ ~(q.s.server = "up" /\ q.s.node.file_size > q.n)
  <2>1. S \subseteq LoopState
    OBVIOUS
  <2> HIDE DEF S, p, size
  <2> QED
    BY <1>1, <1>2, <1>3, <2>1, ShrinkEnds DEF p
<1>5. q \in LoopState /\ Good(q)
  OBVIOUS
<1>6. q.s.node.file_size \in Nat /\ ~(q.s.node.file_size > length)
  <2>1. q.s.server = "up"
    BY <1>5 DEF InOrder
  <2> HIDE DEF S
  <2> QED
    BY <1>1, <1>4, <1>5, <2>1
<1>7. q.s.node.file_size \in F!Reached(size, length)
  <2>1. PICK n : n = q.s.node.file_size
    OBVIOUS
  <2>2. n \in Nat /\ n <= length
        /\ (n >= length \/ (size - length >= WORDS /\ length - n < WORDS))
    BY <1>1, <1>5, <1>6, <2>1
  <2>3. n \in F!Reached(size, length)
    <3> HIDE DEF size
    <3> QED
      BY <1>1, <2>2 DEF F!Reached
  <2> QED
    BY <2>1, <2>3
<1>8. \A x \in 0 .. q.s.node.file_size - 1 : At(q.s, x) = At(s, x)
  <2>1. \A x \in 0 .. q.s.node.file_size - 1 : x \in 0 .. length - 1 /\ x < q.s.node.file_size
    BY <1>1, <1>6
  <2> QED
    BY <1>5, <2>1
<1> HIDE DEF S
<1> QED
  BY <1>4, <1>5, <1>7, <1>8 DEF Cut

\* What a removal leaves of the blocks of others.
LEMMA RemoveDoes ==
    ASSUME Envelope, NEW R, NEW s, InOrder(s, R)
    PROVE  LET t == Remove(s)
           IN  /\ t \in State /\ t.server = "up" /\ t.node.state = 0 /\ R \subseteq t.bitmap
               /\ Same(s, t, R)
<1> DEFINE ptr == s.node.indirect_pointer_block
           used == UsedPointers(s.node)
           nums == {ptr[i] : i \in used}
           m == s.node.file_size \div WORDS
<1>1. /\ s \in State /\ s.server = "up" /\ R \subseteq s.bitmap /\ OnePointer(s)
      /\ POINTER_BLOCKS \in Nat \ {0} /\ WORDS \in Nat \ {0}
  BY Constants DEF InOrder
<1>2. Freed(s) \subseteq DataBlock /\ Freed(s) \cap R = {} /\ nums \cap R = {}
  <2>1. CASE Ptr(s) = 0
    <3>1. used = {}
      BY <1>1, <2>1 DEF UsedPointers, Ptr
    <3>2. Freed(s) = {} /\ nums = {}
      BY <3>1 DEF Freed
    <3> QED
      BY <3>2
  <2>2. CASE Ptr(s) # 0
    <3>1. used = {0}
      BY <1>1, <2>2 DEF UsedPointers, Ptr, OnePointer
    <3>2. Chain(s, R, m) /\ m \in Nat
      BY <2>2, OrderMeans, Constants
    <3>3. Freed(s) \subseteq {DataNum(s, j) : j \in 0 .. m}
      <4> SUFFICES ASSUME NEW y \in used \X Index, y[1] * WORDS + y[2] <= m
                   PROVE  s.block[ptr[y[1]]][y[2]] \in {DataNum(s, j) : j \in 0 .. m}
        BY DEF Freed
      <4>1. y[1] = 0 /\ y[2] \in Index
        BY <3>1
      <4>2. y[1] * WORDS + y[2] = y[2] /\ y[2] \in Nat
        BY <1>1, <4>1 DEF Index
      <4>3. y[2] \in 0 .. m
        BY <3>2, <4>2
      <4>4. s.block[ptr[y[1]]][y[2]] = DataNum(s, y[2])
        BY <4>1 DEF DataNum, Ptr
      <4> QED
        BY <4>3, <4>4
    <3>4. nums = {Ptr(s)}
      BY <3>1 DEF Ptr
    <3> HIDE DEF m, nums
    <3> QED
      BY <3>2, <3>3, <3>4 DEF Chain
  <2> QED
    BY <2>1, <2>2
<1> DEFINE bits == Freed(s) \cup nums
<1>3. Remove(s) = [s EXCEPT !.bitmap = @ \ bits, !.node.state = 0]
  BY <1>2 DEF Remove
<1>4. bits \cap R = {}
  BY <1>2
<1> HIDE DEF bits
<1> DEFINE t == [s EXCEPT !.bitmap = @ \ bits, !.node.state = 0]
<1>5. /\ t \in State /\ t.server = "up" /\ t.node.state = 0 /\ t.bitmap = s.bitmap \ bits
      /\ t.block = s.block
  BY <1>1 DEF State, t_node
<1>6. Same(s, t, R) /\ R \subseteq t.bitmap
  BY <1>1, <1>4, <1>5 DEF Same
<1> HIDE DEF t
<1> QED
  BY <1>3, <1>5, <1>6 DEF t

-----------------------------------------------------------------------------
(***************************************************************************)
(* sac_read.                                                               *)
(***************************************************************************)

\* Words copied so far by a read of the words offset .. offset + want - 1.
Reading(s, offset, want, p) ==
    LET got == Len(p.words)
    IN  /\ p.words \in Seq(Word) /\ got <= want
        /\ \A k \in 1 .. got : p.words[k] = At(s, offset + k - 1)
        /\ got < want => p.j = (offset + got) \div WORDS /\ p.at = (offset + got) % WORDS

\* A turn copies some more of them.
LEMMA ReadTurnDoes ==
    ASSUME Envelope, NEW R, NEW s, InOrder(s, R), Ptr(s) # 0, NEW offset \in Nat, NEW want \in Nat,
           offset + want <= s.node.file_size,
           NEW p, Reading(s, offset, want, p), Len(p.words) < want
    PROVE  /\ Reading(s, offset, want, ReadTurn(s, want, p))
           /\ Len(ReadTurn(s, want, p).words) > Len(p.words)
<1> DEFINE size == s.node.file_size
           m    == size \div WORDS
           got  == Len(p.words)
           x    == offset + got
           j    == p.j
           at   == p.at
           n    == Least2(want - got, Least2(WORDS, size) - at)
           c    == s.block[DataBlockNum(s, j)]
           e    == [k \in 1 .. n |-> c[at + k - 1]]
           q    == ReadTurn(s, want, p)
<1>1. s \in State /\ size \in Nat /\ Chain(s, R, m) /\ m \in Index /\ m \in Nat
  BY OrderMeans, Constants
<1>2. p.words \in Seq(Word) /\ got \in Nat /\ got < want /\ (\A k \in 1 .. got : p.words[k] = At(s, offset + k - 1))
      /\ j = x \div WORDS /\ at = x % WORDS
  BY DEF Reading
<1>3. q = [words |-> p.words \o e, j |-> j + 1, at |-> 0]
  BY DEF ReadTurn
<1>4. x \in Nat /\ x < size /\ offset + want <= size
  BY <1>1, <1>2
<1> HIDE DEF size, m, got, x, j, at, n, c, e, q
<1>5. WORDS \in Nat \ {0} /\ j \in Nat /\ at \in 0 .. WORDS - 1
  BY <1>2, <1>4, Constants, InWords
<1> DEFINE b == WORDS * j
<1>6. b \in Nat /\ x = b + at
  BY <1>2, <1>4, <1>5, InWords, BlockEnds
<1> HIDE DEF b
<1>7. j \in 0 .. m
  BY <1>1, <1>2, <1>4, <1>5, DivGrows DEF m
<1>8. n \in 1 .. want - got /\ at + n <= WORDS /\ (got + n < want => at + n = WORDS)
  <2>1. CASE WORDS > size
    <3>1. x \in 0 .. WORDS - 1
      BY <1>1, <1>4, <1>5, <2>1
    <3>2. ((WORDS * 0) + x) \div WORDS = 0
      BY <3>1, BlockEnds
    <3>3. j = 0
      BY <1>2, <1>5, <3>1, <3>2
    <3>4. b = 0
      BY <1>5, <3>3 DEF b
    <3>5. at = x
      BY <1>4, <1>5, <1>6, <3>4
    <3>6. n = want - got
      BY <1>1, <1>2, <1>4, <2>1, <3>5 DEF n, Least2, x
    <3> QED
      BY <1>1, <1>2, <1>4, <1>5, <2>1, <3>5, <3>6 DEF x
  <2>2. CASE ~(WORDS > size)
    <3>1. n = Least2(want - got, WORDS - at)
      BY <1>1, <1>5, <2>2 DEF n, Least2
    <3> QED
      BY <1>2, <1>5, <3>1 DEF Least2
  <2> QED
    BY <2>1, <2>2
<1>9. n \in Nat \ {0} /\ got + n \in Nat /\ got + n <= want
  BY <1>2, <1>8
<1>10. ASSUME NEW k \in 1 .. n
       PROVE  c[at + k - 1] = At(s, x + k - 1) /\ At(s, x + k - 1) \in Word
  <2> DEFINE r == at + k - 1
             y == x + k - 1
  <2>1. r \in 0 .. WORDS - 1 /\ y = b + r
    BY <1>5, <1>6, <1>8, <1>9
  <2> HIDE DEF r, y
  <2>2. (b + r) \div WORDS = j
    BY <1>5, <2>1, BlockEnds DEF b
  <2>3. (b + r) % WORDS = r
    BY <1>5, <2>1, DivUnique DEF b
  <2>4. Ptr(s) \in DataBlock /\ j \in Index /\ DataNum(s, j) \in DataBlock
    BY <1>1, <1>7, Constants DEF Chain, Index
  <2>5. At(s, y) = s.block[DataNum(s, j)][r]
    BY <2>1, <2>2, <2>3 DEF At
  <2>6. c = s.block[DataNum(s, j)]
    BY <2>4, NumIs DEF c
  <2>7. At(s, y) \in Word
    <3>1. s.block \in [DataBlock -> [Index -> Word]] /\ r \in Index
      BY <1>1, <2>1 DEF State, Index
    <3> QED
      BY <2>4, <2>5, <3>1
  <2> QED
    BY <2>5, <2>6, <2>7 DEF r, y
<1>11. e \in Seq(Word) /\ Len(e) = n /\ \A k \in 1 .. n : e[k] = At(s, x + k - 1)
  BY <1>9, <1>10, IsASeq DEF e
<1>12. /\ q.words \in Seq(Word) /\ Len(q.words) = got + n
       /\ \A k \in 1 .. got + n : q.words[k] = IF k <= got THEN p.words[k] ELSE e[k - got]
  BY <1>2, <1>3, <1>11, ConcatProperties DEF got
<1>13. ASSUME NEW k \in 1 .. got + n
       PROVE  q.words[k] = At(s, offset + k - 1)
  <2>1. CASE k <= got
    BY <1>2, <1>12, <2>1
  <2>2. CASE ~(k <= got)
    <3>1. k - got \in 1 .. n /\ x + (k - got) - 1 = offset + k - 1
      BY <1>2, <1>9, <2>2 DEF x
    <3> QED
      BY <1>11, <1>12, <2>2, <3>1
  <2> QED
    BY <2>1, <2>2
<1>14. ASSUME got + n < want
       PROVE  q.j = (offset + (got + n)) \div WORDS /\ q.at = (offset + (got + n)) % WORDS
  <2> DEFINE i == j + 1
  <2>1. offset + (got + n) = b + WORDS
    <3>1. at + n = WORDS
      BY <1>8, <1>14
    <3>2. offset + got = b + at
      BY <1>6 DEF x
    <3> QED
      BY ONLY <1>2, <1>5, <1>6, <1>9, <3>1, <3>2, offset \in Nat
  <2>2. i \in Nat /\ WORDS * i = b + WORDS /\ 0 \in 0 .. WORDS - 1
    BY <1>5, BlockEnds DEF b
  <2> HIDE DEF i
  <2>3. ((WORDS * i) + 0) \div WORDS = i /\ ((WORDS * i) + 0) % WORDS = 0
    BY <1>5, <2>2, DivUnique
  <2>4. offset + (got + n) = (WORDS * i) + 0
    BY <1>5, <1>6, <2>1, <2>2
  <2>5. q.j = i /\ q.at = 0
    BY <1>3 DEF i
  <2> QED
    BY <2>3, <2>4, <2>5
<1>15. Reading(s, offset, want, q)
  BY <1>9, <1>12, <1>13, <1>14 DEF Reading
<1> QED
  BY <1>2, <1>9, <1>12, <1>15 DEF q, got

\* Turn after turn, all the words wanted are copied.
LEMMA ReadEnds ==
    ASSUME Envelope, NEW R, NEW s, InOrder(s, R), Ptr(s) # 0,
           NEW offset \in Nat, NEW count \in Nat \ {0}, offset < s.node.file_size
    PROVE  LET want == Least2(count, s.node.file_size - offset)
               w    == sac_read(s, offset, count)
           IN  w \in Seq(Word) /\ Len(w) = want /\ \A k \in 1 .. want : w[k] = At(s, offset + k - 1)
<1> DEFINE size == s.node.file_size
           N    == Least2(count, size - offset)
           Run  == [words : Seq(Word), j : Nat, at : Nat]
           S    == {q \in Run : Reading(s, offset, N, q)}
           Runs(q) == Len(q.words) < N
           p    == [words |-> <<>>, j |-> offset \div WORDS, at |-> offset % WORDS]
           step == [q \in S |-> IF Runs(q) THEN ReadTurn(s, N, q) ELSE q]
           Is(g) == g = [i \in 0 .. N |->
                           IF i = 0 THEN p
                           ELSE IF Runs(g[i - 1]) THEN ReadTurn(s, N, g[i - 1]) ELSE g[i - 1]]
           turn == CHOOSE g : Is(g)
           left == [q \in S |-> N - Len(q.words)]
<1>1. size \in Nat /\ N \in Nat \ {0} /\ offset + N <= size
  <2>1. size \in Nat
    BY OrderMeans
  <2> QED
    BY <2>1 DEF Least2
<1>2. p \in S
  <2>1. offset \div WORDS \in Nat /\ offset % WORDS \in Nat
    <3> HIDE DEF p, N, Run, S
    <3>1. offset \div WORDS \in Nat /\ offset % WORDS \in 0 .. WORDS - 1
      BY InWords
    <3> QED
      BY <3>1
  <2>2. <<>> \in Seq(Word) /\ Len(<<>>) = 0
    OBVIOUS
  <2>3. p \in Run /\ Len(p.words) = 0 /\ p.j = offset \div WORDS /\ p.at = offset % WORDS
    BY <2>1, <2>2
  <2> HIDE DEF p, N, Run, size
  <2>4. offset + 0 = offset
    OBVIOUS
  <2>5. Reading(s, offset, N, p)
    BY <1>1, <2>2, <2>3, <2>4 DEF Reading, Run
  <2> QED
    BY <2>3, <2>5
<1>3. ASSUME NEW q \in S, Runs(q)
      PROVE  ReadTurn(s, N, q) \in S /\ Len(ReadTurn(s, N, q).words) > Len(q.words)
  <2> DEFINE r == ReadTurn(s, N, q)
  <2> HIDE DEF N, size
  <2>1. Reading(s, offset, N, r) /\ Len(r.words) > Len(q.words)
    BY <1>1, <1>3, ReadTurnDoes DEF size
  <2>2. r.words \in Seq(Word)
    BY <2>1 DEF Reading
  <2>3. \E w : r = [words |-> w, j |-> q.j + 1, at |-> 0]
    BY DEF ReadTurn
  <2>4. q.j + 1 \in Nat
    OBVIOUS
  <2> HIDE DEF r
  <2>5. r \in Run
    BY <2>2, <2>3, <2>4
  <2> QED
    BY <2>1, <2>5 DEF r
<1>4. step \in [S -> S]
  BY <1>3
<1>5. \E g : Is(g)
  <2> HIDE DEF p, N, S, step, Runs, Is, turn, left
  <2>1. PICK f \in [0 .. N -> S] : f[0] = p /\ \A i \in 1 .. N : f[i] = step[f[i - 1]]
    <3>1. Repeats(S, step, p, N)
      BY <1>1, <1>2, <1>4, LoopExists
    <3> QED
      BY <3>1 DEF Repeats
  <2>2. ASSUME NEW i \in 1 .. N
        PROVE  f[i] = IF Runs(f[i - 1]) THEN ReadTurn(s, N, f[i - 1]) ELSE f[i - 1]
    <3>1. f[i - 1] \in S /\ f[i] = step[f[i - 1]]
      BY <1>1, <2>1
    <3> QED
      BY <3>1 DEF step
  <2>3. \A i \in 0 .. N : i # 0 => i \in 1 .. N
    BY <1>1
  <2>4. Is(f)
    BY <2>1, <2>2, <2>3 DEF Is
  <2> QED
    BY <2>4
<1>6. Is(turn)
  <2> HIDE DEF Is
  <2> QED
    BY <1>5
<1>7. sac_read(s, offset, count) = turn[N].words
  <2>1. s.node.state = 1 /\ s.node.indirect_pointer_block[0] # 0 /\ ~(offset >= s.node.file_size)
    BY <1>1 DEF Ptr, InOrder
  <2> QED
    BY ONLY <2>1 DEF sac_read, turn, Is, Runs, N, size, p
<1>8. turn[0] = p /\ \A i \in 1 .. N : turn[i - 1] \in S => turn[i] = step[turn[i - 1]]
  <2> HIDE DEF turn, p, N, Runs, S
  <2> QED
    BY <1>1, <1>6
<1>9. \A q \in S : Len(q.words) \in Nat /\ Len(q.words) <= N
  BY DEF Reading
<1>10. left \in [S -> Nat] /\ left[p] <= N
  <2> HIDE DEF N, S
  <2> QED
    BY <1>1, <1>2, <1>9
<1>11. ASSUME NEW q \in S
       PROVE  IF Runs(q) THEN left[step[q]] < left[q] ELSE step[q] = q
  <2> SUFFICES ASSUME Runs(q) PROVE left[step[q]] < left[q]
    OBVIOUS
  <2> DEFINE r == ReadTurn(s, N, q)
  <2>1. r \in S /\ step[q] = r /\ Len(r.words) > Len(q.words)
    BY <1>3
  <2> HIDE DEF r, N, S, step
  <2> QED
    BY <1>1, <1>9, <2>1
<1>12. turn[N] \in S /\ step[turn[N]] = turn[N]
  <2> HIDE DEF turn, p, N, left, step, Runs, Is, S
  <2>1. Follows(turn, S, step, N)
    BY <1>1, <1>2, <1>8 DEF Follows
  <2>2. Lessens(left, S, step) /\ left[turn[0]] <= N
    BY <1>8, <1>10, <1>11 DEF Lessens
  <2>3. AtRest(turn[N], S, step)
    BY <1>1, <1>4, <2>1, <2>2, LoopEnds
  <2> QED
    BY <2>3 DEF AtRest
<1>13. ~Runs(turn[N])
  <2> HIDE DEF turn, N, left, step, Runs, S
  <2> QED
    BY <1>10, <1>11, <1>12
<1>14. Len(turn[N].words) = N /\ Reading(s, offset, N, turn[N])
  <2> HIDE DEF turn, N
  <2> QED
    BY <1>1, <1>9, <1>12, <1>13
<1> HIDE DEF turn, N
<1>15. /\ turn[N].words \in Seq(Word)
       /\ \A k \in 1 .. N : turn[N].words[k] = At(s, offset + k - 1)
  BY <1>14 DEF Reading
<1> QED
  BY <1>7, <1>14, <1>15 DEF N

-----------------------------------------------------------------------------
(***************************************************************************)
(* The specification: types, the inductive invariant, contents, and the    *)
(* refinement of FlatFile.                                                 *)
(***************************************************************************)

\* The inductive invariant: each file is in order, and no two share a block.
FileInv ==
    /\ TypeOK
    /\ server # "wild"
    /\ Up => /\ \A f \in File : Exists(f) => InOrder(Open(f), {})
             /\ \A f, g \in File :
                   Exists(f) /\ Exists(g) /\ f # g => Owned(Open(f)) \cap Owned(Open(g)) = {}

\* What the other files own while one is worked on.
Others(f) == UNION {Owned(Open(g)) : g \in {h \in File : Exists(h) /\ h # f}}

-----------------------------------------------------------------------------
(***************************************************************************)
(* Types.                                                                  *)
(***************************************************************************)
\* What an operation works on is typed.
LEMMA OpenTyped ==
    ASSUME TypeOK, NEW f \in File
    PROVE  Open(f) \in State
<1>1. /\ bitmap \in SUBSET Block /\ node[f] \in t_node
      /\ block \in [DataBlock -> [Index -> Word]] /\ server \in {"up", "exit", "wild"}
  BY DEF TypeOK, Word
<1> QED
  BY <1>1 DEF Open, State

\* An operation that keeps the types of its copy keeps those of the disk.
LEMMA CloseTyped ==
    ASSUME TypeOK, NEW f \in File, NEW s \in State, Close(f, s)
    PROVE  TypeOK'
<1>1. /\ s.bitmap \in SUBSET Block /\ s.node \in t_node
      /\ s.block \in [DataBlock -> [Index -> Word]] /\ s.server \in {"up", "exit", "wild"}
  BY DEF State
<1>2. node' \in [File -> t_node]
  BY <1>1 DEF Close, TypeOK
<1> QED
  BY <1>1, <1>2 DEF Close, TypeOK, Word

\* A new file has a node like any other.
LEMMA NewNode ==
    create_file_node \in t_node /\ [create_file_node EXCEPT !.state = 0] \in t_node
<1>1. 0 \in Nat
  OBVIOUS
<1> QED
  BY <1>1 DEF create_file_node, t_node

\* A formatted disk is typed.
LEMMA InitTyped ==
    ASSUME Init
    PROVE  TypeOK
<1>1. bitmap \in SUBSET Block
  BY LayoutAssumption DEF Init, create_default_bitmap, Block, DATA_INITIAL_BLOCK,
                          NODE_TABLE_INITIAL_BLOCK, BITMAP_INITIAL_BLOCK
<1>2. node \in [File -> t_node]
  BY NewNode DEF Init
<1>3. block \in [DataBlock -> [Index -> Byte \cup {Urandom} \cup DataBlock]]
  BY DEF Init
<1> QED
  BY <1>1, <1>2, <1>3 DEF Init, TypeOK

\* Each request keeps the types.
LEMMA StepTyped ==
    ASSUME TypeOK, [Next]_vars
    PROVE  TypeOK'
<1>1. ASSUME NEW f \in File, sac_open(f)
      PROVE  TypeOK'
  BY <1>1, NewNode DEF sac_open, TypeOK
<1>2. ASSUME NEW f \in File, NEW offset \in 0 .. MAX_SIZE, NEW buffer \in Buffer,
             sac_write(f, offset, buffer)
      PROVE  TypeOK'
  <2>1. Write(Open(f), offset, buffer) \in State
    BY OpenTyped, WriteTyped, Constants, FileAssumption
  <2> QED
    BY <1>2, <2>1, CloseTyped DEF sac_write
<1>3. ASSUME NEW f \in File, NEW length \in 0 .. MAX_SIZE, sac_truncate(f, length)
      PROVE  TypeOK'
  <2>1. Truncate(Open(f), length) \in State
    BY OpenTyped, TruncateTyped, FileAssumption
  <2> QED
    BY <1>3, <2>1, CloseTyped DEF sac_truncate
<1>4. ASSUME NEW f \in File, sac_remove(f)
      PROVE  TypeOK'
  <2>1. Remove(Open(f)) \in State
    BY OpenTyped, RemoveTyped
  <2> QED
    BY <1>4, <2>1, CloseTyped DEF sac_remove
<1>5. CASE UNCHANGED vars
  BY <1>5 DEF vars, TypeOK
<1> QED
  BY <1>1, <1>2, <1>3, <1>4, <1>5 DEF Next

\* Every variable keeps its type, within the envelope and beyond it.
THEOREM FileTyped == Spec => []TypeOK
<1>1. Init => TypeOK
  BY InitTyped
<1>2. TypeOK /\ [Next]_vars => TypeOK'
  BY StepTyped
<1> QED
  BY <1>1, <1>2, PTL DEF Spec

-----------------------------------------------------------------------------
(***************************************************************************)
(* Order.                                                                  *)
(***************************************************************************)

\* What a file owns is reserved, and is no secret of the others.
LEMMA OwnedReserved ==
    ASSUME Envelope, NEW R, NEW s, InOrder(s, R)
    PROVE  Owned(s) \subseteq DataBlock \cap s.bitmap /\ Owned(s) \cap R = {}
<1>1. CASE Ptr(s) = 0
  BY <1>1 DEF Owned
<1>2. CASE Ptr(s) # 0
  <2>1. Chain(s, R, s.node.file_size \div WORDS)
    BY <1>2, OrderMeans
  <2> QED
    BY <2>1 DEF Owned, Chain
<1> QED
  BY <1>1, <1>2

\* A file in order by itself is so beside blocks it does not own.
LEMMA OrderBeside ==
    ASSUME NEW R, NEW Q, NEW s, InOrder(s, Q), R \subseteq s.bitmap, Owned(s) \cap R = {}
    PROVE  InOrder(s, R)
<1>1. ASSUME Ptr(s) # 0
      PROVE  Chain(s, R, s.node.file_size \div WORDS)
  <2> DEFINE m == s.node.file_size \div WORDS
  <2> HIDE DEF m
  <2>1. Chain(s, Q, m)
    BY <1>1 DEF InOrder, m
  <2>2. Ptr(s) \in Owned(s) /\ \A j \in 0 .. m : DataNum(s, j) \in Owned(s)
    BY <1>1 DEF Owned, m
  <2>3. Chain(s, R, m)
    BY <2>1, <2>2 DEF Chain
  <2> QED
    BY <2>3 DEF m
<1> QED
  BY <1>1 DEF InOrder

\* A file whose node and blocks are left alone stays in order and keeps its
\* words.
LEMMA LeftAlone ==
    ASSUME Envelope, NEW s, InOrder(s, {}), NEW t \in State, t.server = "up", t.node = s.node,
           Owned(s) \subseteq t.bitmap, Same(s, t, Owned(s))
    PROVE  /\ InOrder(t, {}) /\ Owned(t) = Owned(s)
           /\ \A x \in 0 .. s.node.file_size - 1 : At(t, x) = At(s, x)
<1> DEFINE m == s.node.file_size \div WORDS
<1> HIDE DEF m
<1>1. s \in State /\ s.node.file_size \in Nat /\ Ptr(t) = Ptr(s) /\ (Ptr(s) = 0 => s.node.file_size = 0)
  BY DEF InOrder, State, t_node, Ptr
<1>2. CASE Ptr(s) = 0
  <2>1. InOrder(t, {})
    BY <1>1, <1>2 DEF InOrder, OnePointer
  <2>2. Owned(t) = Owned(s)
    BY <1>1, <1>2 DEF Owned
  <2>3. \A x \in 0 .. s.node.file_size - 1 : FALSE
    BY <1>1, <1>2
  <2> QED
    BY <2>1, <2>2, <2>3
<1>3. CASE Ptr(s) # 0
  <2>1. Chain(s, {}, m) /\ m \in Nat
    BY <1>3, OrderMeans, Constants DEF m
  <2>2. Ptr(s) \in Owned(s) /\ \A j \in 0 .. m : DataNum(s, j) \in Owned(s)
    BY <1>3 DEF Owned, m
  <2>3. \A j : DataNum(t, j) = DataNum(s, j)
    BY <1>1, <2>2 DEF DataNum, Same
  <2>4. Chain(t, {}, m)
    BY <1>1, <2>1, <2>2, <2>3 DEF Chain
  <2>5. InOrder(t, {})
    BY <1>1, <1>3, <2>4 DEF InOrder, OnePointer, m
  <2>6. Owned(t) = Owned(s)
    BY <1>1, <1>3, <2>3 DEF Owned
  <2>7. ASSUME NEW x \in 0 .. s.node.file_size - 1
        PROVE  At(t, x) = At(s, x)
    <3>1. x \div WORDS \in 0 .. m
      <4>1. x \in Nat /\ x <= s.node.file_size
        BY <1>1
      <4>2. x \div WORDS \in Nat /\ x \div WORDS <= m
        BY <1>1, <4>1, DivGrows, InWords DEF m
      <4> QED
        BY <2>1, <4>2
    <3> QED
      BY <2>2, <2>3, <3>1 DEF At, Same
  <2> QED
    BY <2>5, <2>6, <2>7
<1> QED
  BY <1>2, <1>3

\* What the other files own is reserved, and the file at work is in order
\* beside it.
LEMMA OthersReserved ==
    ASSUME Envelope, FileInv, Up, NEW f \in File
    PROVE  /\ Others(f) \subseteq bitmap
           /\ \A g \in File : Exists(g) /\ g # f => Owned(Open(g)) \subseteq Others(f)
           /\ Exists(f) => InOrder(Open(f), Others(f))
<1>1. \A g \in File : Exists(g) => Owned(Open(g)) \subseteq bitmap
  <2> SUFFICES ASSUME NEW g \in File, Exists(g) PROVE Owned(Open(g)) \subseteq bitmap
    OBVIOUS
  <2>1. InOrder(Open(g), {})
    BY DEF FileInv
  <2>2. Open(g).bitmap = bitmap
    BY DEF Open
  <2> QED
    BY <2>1, <2>2, OwnedReserved
<1>2. Others(f) \subseteq bitmap
  BY <1>1 DEF Others
<1>3. \A g \in File : Exists(g) /\ g # f => Owned(Open(g)) \subseteq Others(f)
  BY DEF Others
<1>4. ASSUME Exists(f)
      PROVE  InOrder(Open(f), Others(f))
  <2>1. InOrder(Open(f), {})
    BY <1>4 DEF FileInv
  <2>2. Owned(Open(f)) \cap Others(f) = {}
    BY <1>4 DEF FileInv, Others
  <2>3. Open(f).bitmap = bitmap
    BY DEF Open
  <2> QED
    BY <1>2, <2>1, <2>2, <2>3, OrderBeside
<1> QED
  BY <1>2, <1>3, <1>4

\* A request on file f leaves the words of the other files as they are.
LeavesOthers(f) ==
    \A g \in File : g # f =>
        /\ Exists(g)' <=> Exists(g)
        /\ Exists(g) => /\ Open(g)'.node = Open(g).node
                        /\ InOrder(Open(g)', {})
                        /\ \A x \in 0 .. node[g].file_size - 1 : At(Open(g)', x) = At(Open(g), x)

\* A request that leaves its file in order, or absent, and the blocks of
\* the other files alone, keeps the invariant and the words of the others.
LEMMA RequestKeeps ==
    ASSUME Envelope, FileInv, Up, NEW f \in File, NEW t \in State, t.server = "up", Close(f, t),
           Others(f) \subseteq t.bitmap, Same(Open(f), t, Others(f)),
           t.node.state = 1 => InOrder(t, Others(f))
    PROVE  /\ FileInv'
           /\ Open(f)' = t
           /\ LeavesOthers(f)
<1>1. TypeOK /\ TypeOK'
  BY CloseTyped DEF FileInv
<1>2. /\ bitmap' = t.bitmap /\ block' = t.block /\ server' = "up"
      /\ node' = [node EXCEPT ![f] = t.node] /\ node'[f] = t.node
      /\ \A g \in File : g # f => node'[g] = node[g]
  BY <1>1 DEF Close, TypeOK
<1>3. Open(f)' = t
  <2>1. t = [bitmap |-> t.bitmap, block |-> t.block, server |-> t.server, node |-> t.node]
    BY DEF State
  <2> QED
    BY <1>2, <2>1 DEF Open
<1>4. ASSUME NEW g \in File, g # f
      PROVE  Exists(g)' <=> Exists(g)
  BY <1>2, <1>4 DEF Exists
<1>5. ASSUME NEW g \in File, g # f, Exists(g)
      PROVE  /\ Open(g)'.node = Open(g).node
             /\ InOrder(Open(g)', {}) /\ Owned(Open(g)') = Owned(Open(g))
             /\ \A x \in 0 .. node[g].file_size - 1 : At(Open(g)', x) = At(Open(g), x)
  <2> DEFINE s == Open(g)
             u == [bitmap |-> bitmap', block |-> block', server |-> server', node |-> node'[g]]
  <2>1. InOrder(s, {}) /\ Owned(s) \subseteq Others(f)
    BY <1>5, OthersReserved DEF FileInv
  <2>2. u \in State
    BY <1>1, <1>2 DEF TypeOK, State, Word
  <2>3. u.server = "up" /\ u.node = s.node /\ s.node.file_size = node[g].file_size
    BY <1>2, <1>5 DEF Open
  <2>4. Owned(s) \subseteq u.bitmap
    BY <1>2, <2>1
  <2>5. Same(s, u, Owned(s))
    <3>1. s.block = Open(f).block /\ u.block = t.block
      BY <1>2 DEF Open
    <3> HIDE DEF s, u
    <3> QED
      BY <2>1, <3>1 DEF Same
  <2>6. Open(g)' = u
    BY DEF Open
  <2> HIDE DEF s, u
  <2>7. InOrder(u, {}) /\ Owned(u) = Owned(s) /\ \A x \in 0 .. s.node.file_size - 1 : At(u, x) = At(s, x)
    BY <2>1, <2>2, <2>3, <2>4, <2>5, LeftAlone
  <2> QED
    BY <2>3, <2>6, <2>7 DEF s
<1>6. ASSUME Exists(f)'
      PROVE  InOrder(t, {}) /\ Owned(t) \cap Others(f) = {}
  <2>1. InOrder(t, Others(f))
    BY <1>2, <1>6 DEF Exists
  <2>2. Owned(t) \cap Others(f) = {}
    BY <2>1, OwnedReserved
  <2>3. InOrder(t, {})
    BY <2>1, OrderBeside
  <2> QED
    BY <2>2, <2>3
<1>7. \A g \in File : Exists(g)' => InOrder(Open(g)', {})
  BY <1>3, <1>4, <1>5, <1>6
<1>8. ASSUME NEW g \in File, NEW h \in File, Exists(g)', Exists(h)', g # h
      PROVE  Owned(Open(g)') \cap Owned(Open(h)') = {}
  <2>1. CASE g = f
    <3>1. Owned(Open(h)') \subseteq Others(f)
      BY <1>4, <1>5, <1>8, <2>1, OthersReserved
    <3> QED
      BY <1>3, <1>6, <1>8, <2>1, <3>1
  <2>2. CASE h = f
    <3>1. Owned(Open(g)') \subseteq Others(f)
      BY <1>4, <1>5, <1>8, <2>2, OthersReserved
    <3> QED
      BY <1>3, <1>6, <1>8, <2>2, <3>1
  <2>3. CASE g # f /\ h # f
    BY <1>4, <1>5, <1>8, <2>3 DEF FileInv
  <2> QED
    BY <2>1, <2>2, <2>3
<1>9. FileInv'
  BY <1>1, <1>2, <1>7, <1>8 DEF FileInv
<1> QED
  BY <1>3, <1>4, <1>5, <1>9 DEF LeavesOthers

\* A program that exits leaves nothing to keep but the types.
LEMMA ExitKeeps ==
    ASSUME FileInv, NEW f \in File, NEW t \in State, t.server = "exit", Close(f, t)
    PROVE  FileInv' /\ ~Up'
<1>1. TypeOK' /\ server' = "exit"
  BY CloseTyped DEF FileInv, Close
<1> QED
  BY <1>1 DEF FileInv, Up

\* What sac_truncate leaves of a file and of the blocks of others.
Fitted(s, t, R, length) ==
    /\ InOrder(t, R) /\ Same(s, t, R)
    /\ t.node.file_size \in F!Reached(s.node.file_size, length)
    /\ \A x \in 0 .. t.node.file_size - 1 :
          At(t, x) = IF x < s.node.file_size THEN At(s, x) ELSE LetterA

\* sac_truncate cuts or extends the file, or exits on a full disk.
LEMMA TruncateDoes ==
    ASSUME Envelope, NEW R, NEW s, InOrder(s, R), NEW length \in 0 .. MAX_SIZE
    PROVE  LET t == Truncate(s, length)
           IN  t \in State /\ (t.server = "exit" \/ Fitted(s, t, R, length))
<1> DEFINE t == Truncate(s, length)
           size == s.node.file_size
<1>1. s \in State /\ size \in Nat /\ MAX_SIZE \in Nat /\ length \in Nat
  BY FileAssumption DEF InOrder, State, t_node
<1>2. t \in State
  BY <1>1, TruncateTyped
<1>3. CASE length > size
  <2> DEFINE n == length - size
             fill == [i \in 1 .. n |-> LetterA]
  <2>1. n \in Nat \ {0} /\ size + n = length
    BY <1>1, <1>3
  <2>2. fill \in Seq(Byte) /\ Len(fill) = n /\ \A i \in 1 .. n : fill[i] = LetterA
    <3> HIDE DEF n
    <3> QED
      BY <2>1, LettersTyped
  <2>3. t = Write(s, size, fill)
    BY <1>3 DEF Truncate
  <2> HIDE DEF fill, n, t
  <2>4. t.server = "exit" \/ Overlaid(s, t, R, size, fill)
    <3>1. size + Len(fill) <= MAX_SIZE
      BY <1>1, <2>1, <2>2
    <3>2. size <= s.node.file_size /\ size \in Nat
      BY <1>1
    <3> HIDE DEF size
    <3> QED
      BY <2>2, <2>3, <3>1, <3>2, WriteDoes
  <2>5. ASSUME Overlaid(s, t, R, size, fill)
        PROVE  Fitted(s, t, R, length)
    <3>1. t.node.file_size = length
      BY <1>1, <2>1, <2>2, <2>5 DEF Overlaid, Reach
    <3>2. ASSUME NEW x \in 0 .. length - 1
          PROVE  At(t, x) = IF x < size THEN At(s, x) ELSE LetterA
      <4>1. At(t, x) = IF x - size \in 0 .. n - 1 THEN fill[(x - size) + 1]
                       ELSE IF x < size THEN At(s, x) ELSE Null
        BY <2>2, <2>5, <3>1 DEF Overlaid
      <4>2. x - size \in 0 .. n - 1 <=> ~(x < size)
        BY <1>1, <2>1
      <4>3. x - size \in 0 .. n - 1 => fill[(x - size) + 1] = LetterA
        <5>1. PICK i \in Int : i = x - size
          BY <1>1
        <5>2. i \in 0 .. n - 1 => i + 1 \in 1 .. n
          BY ONLY <2>1, i \in Int
        <5> QED
          BY <2>2, <5>1, <5>2
      <4> QED
        BY <4>1, <4>2, <4>3
    <3>3. length \in F!Reached(size, length)
      <4>1. size - length < WORDS
        BY <1>1, <1>3, Constants
      <4> QED
        BY <4>1 DEF F!Reached
    <3> QED
      BY <2>5, <3>1, <3>2, <3>3 DEF Overlaid, Fitted
  <2> QED
    BY <1>2, <2>4, <2>5 DEF t
<1>4. CASE ~(length > size)
  <2>1. t = Shrink(s, length)
    BY <1>4 DEF Truncate
  <2>2. length \in 0 .. size
    BY <1>1, <1>4
  <2> HIDE DEF t
  <2>3. Cut(s, t, R, length)
    BY <2>1, <2>2, ShrinkDoes
  <2>4. \A x \in 0 .. t.node.file_size - 1 : x < size
    <3>1. PICK n : n = t.node.file_size
      OBVIOUS
    <3>2. n \in F!Reached(size, length)
      BY <2>3, <3>1 DEF Cut
    <3>3. n \in 0 .. length
      <4> HIDE DEF size
      <4> QED
        BY <1>1, <3>2 DEF F!Reached
    <3> QED
      BY <1>1, <2>2, <3>1, <3>3
  <2>5. Fitted(s, t, R, length)
    BY <2>3, <2>4 DEF Cut, Fitted
  <2> QED
    BY <1>2, <2>5 DEF t
<1> QED
  BY <1>3, <1>4

\* Requests keep the invariant and leave the other files alone: a creation,
LEMMA OpenKeeps ==
    ASSUME Envelope, FileInv, Up, NEW f \in File, sac_open(f)
    PROVE  /\ FileInv' /\ Up' /\ Exists(f)' /\ node'[f] = create_file_node
           /\ LeavesOthers(f)
<1> DEFINE t == [bitmap |-> bitmap, block |-> block, server |-> server, node |-> create_file_node]
<1>1. /\ t \in State /\ t.server = "up" /\ t.bitmap = bitmap /\ t.block = block
      /\ t.node = create_file_node
  BY NewNode DEF FileInv, TypeOK, State, Word, Up
<1> HIDE DEF t
<1>2. Close(f, t) /\ server' = "up" /\ node'[f] = create_file_node
  BY <1>1 DEF sac_open, Close, Up, FileInv, TypeOK
<1>3. Others(f) \subseteq bitmap
  BY OthersReserved
<1>4. Same(Open(f), t, Others(f))
  BY <1>1 DEF Same, Open
<1>5. InOrder(t, Others(f))
  <2>1. /\ create_file_node.state = 1 /\ create_file_node.file_size = 0
        /\ \A i \in 0 .. POINTER_BLOCKS - 1 : create_file_node.indirect_pointer_block[i] = 0
    BY DEF create_file_node
  <2>2. Ptr(t) = 0 /\ OnePointer(t) /\ t.node.file_size = 0 /\ t.node.state = 1
    BY <1>1, <2>1, Constants DEF Ptr, OnePointer
  <2>3. t.node.file_size <= MAX_SIZE
    BY <2>2, FileAssumption
  <2> QED
    BY <1>1, <1>3, <2>2, <2>3 DEF InOrder
<1>6. Exists(f)' /\ Up'
  BY <1>2 DEF Exists, Up, create_file_node
<1> QED
  BY <1>1, <1>2, <1>3, <1>4, <1>5, <1>6, RequestKeeps

\* a write,
LEMMA WriteKeeps ==
    ASSUME Envelope, FileInv, Up, NEW f \in File, NEW offset \in 0 .. MAX_SIZE, NEW buffer \in Buffer,
           sac_write(f, offset, buffer)
    PROVE  /\ FileInv'
           /\ \/ ~Up'
              \/ /\ Up' /\ Exists(f) /\ Exists(f)' /\ LeavesOthers(f)
                 /\ Overlaid(Open(f), Open(f)', Others(f), offset, buffer)
<1> DEFINE R == Others(f)
           t == Write(Open(f), offset, buffer)
<1>1. Exists(f) /\ Close(f, t) /\ offset + Len(buffer) <= MAX_SIZE
      /\ (offset <= Open(f).node.file_size \/ offset <= HOLE_END)
  BY DEF sac_write, MayWrite, Open
<1>2. InOrder(Open(f), R) /\ offset \in Nat /\ buffer \in Seq(Byte)
  BY <1>1, OthersReserved, Constants, FileAssumption
<1>3. t \in State /\ (t.server = "exit" \/ Overlaid(Open(f), t, R, offset, buffer))
  <2> HIDE DEF R
  <2> QED
    BY <1>1, <1>2, WriteDoes
<1> HIDE DEF t
<1>4. CASE t.server = "exit"
  BY <1>1, <1>3, <1>4, ExitKeeps
<1>5. CASE Overlaid(Open(f), t, R, offset, buffer)
  <2>1. InOrder(t, R) /\ Same(Open(f), t, R)
    BY <1>5 DEF Overlaid
  <2>2. t.server = "up" /\ t.node.state = 1 /\ R \subseteq t.bitmap
    BY <2>1 DEF InOrder
  <2>3. FileInv' /\ Open(f)' = t /\ LeavesOthers(f)
    BY <1>1, <1>3, <2>1, <2>2, RequestKeeps
  <2>4. Exists(f)' /\ Up'
    <3>1. Open(f)'.node = node'[f] /\ Open(f)'.server = server'
      BY DEF Open
    <3> QED
      BY <2>2, <2>3, <3>1 DEF Exists, Up
  <2> QED
    BY <1>1, <1>5, <2>3, <2>4
<1> QED
  BY <1>3, <1>4, <1>5

\* a truncation
LEMMA TruncateKeeps ==
    ASSUME Envelope, FileInv, Up, NEW f \in File, NEW length \in 0 .. MAX_SIZE,
           sac_truncate(f, length)
    PROVE  /\ FileInv'
           /\ \/ ~Up'
              \/ /\ Up' /\ Exists(f) /\ Exists(f)' /\ LeavesOthers(f)
                 /\ Fitted(Open(f), Open(f)', Others(f), length)
<1> DEFINE R == Others(f)
           t == Truncate(Open(f), length)
<1>1. Exists(f) /\ Close(f, t)
  BY DEF sac_truncate
<1>2. InOrder(Open(f), R)
  BY <1>1, OthersReserved
<1>3. t \in State /\ (t.server = "exit" \/ Fitted(Open(f), t, R, length))
  <2> HIDE DEF R
  <2> QED
    BY <1>1, <1>2, TruncateDoes
<1> HIDE DEF t
<1>4. CASE t.server = "exit"
  BY <1>1, <1>3, <1>4, ExitKeeps
<1>5. CASE Fitted(Open(f), t, R, length)
  <2>1. InOrder(t, R) /\ Same(Open(f), t, R)
    BY <1>5 DEF Fitted
  <2>2. t.server = "up" /\ t.node.state = 1 /\ R \subseteq t.bitmap
    BY <2>1 DEF InOrder
  <2>3. FileInv' /\ Open(f)' = t /\ LeavesOthers(f)
    BY <1>1, <1>3, <2>1, <2>2, RequestKeeps
  <2>4. Exists(f)' /\ Up'
    <3>1. Open(f)'.node = node'[f] /\ Open(f)'.server = server'
      BY DEF Open
    <3> QED
      BY <2>2, <2>3, <3>1 DEF Exists, Up
  <2> QED
    BY <1>1, <1>5, <2>3, <2>4
<1> QED
  BY <1>3, <1>4, <1>5

\* and a removal.
LEMMA RemoveKeeps ==
    ASSUME Envelope, FileInv, Up, NEW f \in File, sac_remove(f)
    PROVE  FileInv' /\ Up' /\ Exists(f) /\ ~Exists(f)' /\ LeavesOthers(f)
<1> DEFINE R == Others(f)
           t == Remove(Open(f))
<1>1. Exists(f) /\ Close(f, t)
  BY DEF sac_remove
<1>2. InOrder(Open(f), R)
  BY <1>1, OthersReserved
<1>3. /\ t \in State /\ t.server = "up" /\ t.node.state = 0 /\ R \subseteq t.bitmap
      /\ Same(Open(f), t, R)
  <2> HIDE DEF R
  <2> QED
    BY <1>2, RemoveDoes
<1> HIDE DEF t
<1>4. FileInv' /\ Open(f)' = t /\ LeavesOthers(f)
  BY <1>1, <1>3, RequestKeeps
<1>5. ~Exists(f)' /\ Up'
  <2>1. Open(f)'.node = node'[f] /\ Open(f)'.server = server'
    BY DEF Open
  <2> QED
    BY <1>3, <1>4, <2>1 DEF Exists, Up
<1> QED
  BY <1>1, <1>4, <1>5

\* The invariant of every disk within the envelope.
THEOREM FilesInOrder ==
    ASSUME Envelope
    PROVE  Spec => []FileInv
<1>1. Init => FileInv
  <2> SUFFICES ASSUME Init PROVE FileInv
    OBVIOUS
  <2>1. \A f \in File : ~Exists(f)
    BY DEF Init, Exists, create_file_node
  <2> QED
    BY <2>1, InitTyped DEF FileInv, Init
<1>2. FileInv /\ [Next]_vars => FileInv'
  <2> SUFFICES ASSUME FileInv, [Next]_vars PROVE FileInv'
    OBVIOUS
  <2>1. ASSUME Up, NEW f \in File, sac_open(f)
        PROVE  FileInv'
    BY <2>1, OpenKeeps
  <2>2. ASSUME Up, NEW f \in File, NEW offset \in 0 .. MAX_SIZE, NEW buffer \in Buffer,
               sac_write(f, offset, buffer)
        PROVE  FileInv'
    BY <2>2, WriteKeeps
  <2>3. ASSUME Up, NEW f \in File, NEW length \in 0 .. MAX_SIZE, sac_truncate(f, length)
        PROVE  FileInv'
    BY <2>3, TruncateKeeps
  <2>4. ASSUME Up, NEW f \in File, sac_remove(f)
        PROVE  FileInv'
    BY <2>4, RemoveKeeps
  <2>5. CASE UNCHANGED vars
    BY <2>5 DEF vars, FileInv, TypeOK, Up, Exists, Open
  <2> QED
    BY <2>1, <2>2, <2>3, <2>4, <2>5 DEF Next
<1> QED
  BY <1>1, <1>2, PTL DEF Spec

\* No word of a file is ever used as the number of a block unless it is one.
THEOREM FilesNeverWild ==
    ASSUME Envelope
    PROVE  Spec => []NoWildPointer
<1>1. FileInv => NoWildPointer
  BY DEF FileInv, NoWildPointer
<1> QED
  BY <1>1, FilesInOrder, PTL

\* The blocks a file needs are reserved, each for one purpose in one file.
THEOREM FileBlocksApart ==
    ASSUME Envelope
    PROVE  Spec => []NoBlockShared
<1>1. FileInv => NoBlockShared
  <2> SUFFICES ASSUME FileInv, Up PROVE NoBlockShared
    BY DEF NoBlockShared
  <2>1. ASSUME NEW f \in File, NEW x \in Places(f)
        PROVE  /\ BlockAt(f, x) \in Owned(Open(f)) /\ Exists(f) /\ Ptr(Open(f)) # 0
               /\ \/ x = <<"pointers", 0>> /\ BlockAt(f, x) = Ptr(Open(f))
                  \/ /\ x[1] = "data" /\ x[2] \in 0 .. node[f].file_size \div WORDS
                     /\ x = <<"data", x[2]>>
                     /\ BlockAt(f, x) = DataNum(Open(f), x[2])
    <3> DEFINE s == Open(f)
               m == s.node.file_size \div WORDS
    <3>1. Exists(f) /\ s.node = node[f] /\ Ptr(s) = node[f].indirect_pointer_block[0] /\ Ptr(s) # 0
          /\ x \in ({"pointers"} \X UsedPointers(s.node)) \cup ({"data"} \X (0 .. m))
      BY <2>1 DEF Places, Open, Ptr
    <3>2. InOrder(s, {})
      BY <3>1 DEF FileInv
    <3> HIDE DEF s
    <3>3. /\ s \in State /\ OnePointer(s) /\ Chain(s, {}, m) /\ m \in Index
      BY <3>1, <3>2, OrderMeans
    <3> HIDE DEF m
    <3>4. CASE x \in {"pointers"} \X UsedPointers(s.node)
      <4>1. UsedPointers(s.node) \subseteq {0}
        BY <3>3, Constants DEF UsedPointers, OnePointer
      <4>2. x = <<"pointers", 0>> /\ x[1] = "pointers" /\ x[2] = 0
        BY <3>4, <4>1
      <4>3. BlockAt(f, x) = Ptr(s)
        BY <3>1, <4>2 DEF BlockAt
      <4> QED
        BY <3>1, <4>2, <4>3 DEF Owned, s
    <3>5. CASE x \in {"data"} \X (0 .. m)
      <4>1. x[1] = "data" /\ x[2] \in 0 .. m /\ x = <<"data", x[2]>>
        BY <3>5
      <4>2. x[2] \in Index /\ Ptr(s) \in DataBlock
        BY <3>3, <4>1, Constants DEF Index, Chain
      <4>3. BlockAt(f, x) = DataNum(s, x[2])
        BY <4>1, <4>2, NumIs DEF BlockAt, s
      <4> QED
        BY <3>1, <4>1, <4>3 DEF Owned, s, m
    <3> QED
      BY <3>1, <3>4, <3>5
  <2>2. ASSUME NEW f \in File, NEW x \in Places(f)
        PROVE  BlockAt(f, x) \in DataBlock \cap bitmap
    <3>1. BlockAt(f, x) \in Owned(Open(f)) /\ InOrder(Open(f), {}) /\ Open(f).bitmap = bitmap
      BY <2>1 DEF FileInv, Open
    <3> QED
      BY <3>1, OwnedReserved
  <2>3. ASSUME NEW f \in File, NEW x \in Places(f), NEW g \in File, NEW y \in Places(g),
               BlockAt(f, x) = BlockAt(g, y)
        PROVE  f = g /\ x = y
    <3>1. f = g
      BY <2>1, <2>3 DEF FileInv
    <3>2. InOrder(Open(f), {}) /\ Ptr(Open(f)) # 0 /\ Open(f).node = node[f]
      BY <2>1 DEF FileInv, Open
    <3>3. Chain(Open(f), {}, node[f].file_size \div WORDS)
      BY <3>2, OrderMeans
    <3>4. x = y
      BY <2>1, <2>3, <3>1, <3>3 DEF Chain
    <3> QED
      BY <3>1, <3>4
  <2> QED
    BY <2>2, <2>3 DEF NoBlockShared
<1> QED
  BY <1>1, FilesInOrder, PTL

-----------------------------------------------------------------------------
(***************************************************************************)
(* Contents.                                                               *)
(***************************************************************************)

\* The words of a file in order, read through the code's own steps.
LEMMA WordsAre ==
    ASSUME Envelope, NEW R, NEW s, InOrder(s, R)
    PROVE  /\ s.node.file_size \in Nat
           /\ Words(s) = [i \in 1 .. s.node.file_size |-> At(s, i - 1)]
           /\ Words(s) \in Seq(Word) /\ Len(Words(s)) = s.node.file_size
<1> DEFINE size == s.node.file_size
           m == size \div WORDS
<1>1. s \in State /\ size \in Nat /\ (Ptr(s) = 0 => size = 0)
  BY DEF InOrder, State, t_node
<1>2. ASSUME NEW i \in 1 .. size
      PROVE  LET j == (i - 1) \div WORDS
             IN  /\ (IF CanFollow(s, j) THEN s.block[DataBlockNum(s, j)][(i - 1) % WORDS] ELSE Urandom)
                      = At(s, i - 1)
                 /\ At(s, i - 1) \in Word
  <2> DEFINE x == i - 1
             j == x \div WORDS
  <2>1. Ptr(s) # 0 /\ x \in Nat /\ x <= size
    BY <1>1, <1>2
  <2>2. Chain(s, R, m) /\ m \in Index
    BY <2>1, OrderMeans
  <2>3. j \in Nat /\ j <= m /\ x % WORDS \in Index
    <3> HIDE DEF x
    <3> QED
      BY <1>1, <2>1, DivGrows, InWords DEF Index
  <2> HIDE DEF m, j
  <2>4. j \in 0 .. m /\ j \in Index
    BY <2>2, <2>3, Constants DEF Index
  <2>5. Ptr(s) \in DataBlock /\ DataNum(s, j) \in DataBlock
    BY <2>2, <2>4 DEF Chain
  <2>6. DataBlockNum(s, j) = DataNum(s, j) /\ CanFollow(s, j)
    BY <2>4, <2>5, NumIs DEF CanFollow
  <2>7. At(s, x) = s.block[DataNum(s, j)][x % WORDS]
    BY DEF At, j
  <2>8. At(s, x) \in Word
    BY <1>1, <2>3, <2>5, <2>7 DEF State
  <2> QED
    BY <2>6, <2>7, <2>8 DEF j
<1>3. Words(s) = [i \in 1 .. size |-> At(s, i - 1)]
  BY <1>2 DEF Words
<1> HIDE DEF size
<1>4. Words(s) \in Seq(Word) /\ Len(Words(s)) = size
  <2>1. \A i \in 1 .. size : At(s, i - 1) \in Word
    BY <1>2
  <2> QED
    BY <1>1, <1>3, <2>1, IsASeq
<1> QED
  BY <1>1, <1>3, <1>4 DEF size

\* A write seen as an overlay of flat sequences.
LEMMA OverlaidWords ==
    ASSUME Envelope, NEW R, NEW s, InOrder(s, R), NEW offset \in Nat, NEW buffer \in Seq(Byte),
           NEW t, Overlaid(s, t, R, offset, buffer)
    PROVE  Words(t) = F!Overlay(Words(s), offset, buffer)
<1> DEFINE size == s.node.file_size
           n == Len(buffer)
           end == t.node.file_size
           v == Words(s)
           w == Words(t)
<1>1. /\ size \in Nat /\ v = [i \in 1 .. size |-> At(s, i - 1)] /\ Len(v) = size
  BY WordsAre
<1>2. InOrder(t, R) /\ end = Reach(s, offset + n)
      /\ \A x \in 0 .. end - 1 :
            At(t, x) = IF x - offset \in 0 .. n - 1 THEN buffer[(x - offset) + 1]
                       ELSE IF x < size THEN At(s, x) ELSE Null
  BY DEF Overlaid
<1>3. end \in Nat /\ w = [i \in 1 .. end |-> At(t, i - 1)]
  BY <1>2, WordsAre
<1>4. n \in Nat
  OBVIOUS
<1> HIDE DEF size, end, n, v, w
<1>5. end = F!Larger(Len(v), offset + n)
  BY <1>1, <1>2, <1>4 DEF F!Larger, Reach, size
<1>6. ASSUME NEW i \in 1 .. end
      PROVE  At(t, i - 1) = IF i - offset \in 1 .. n THEN buffer[i - offset]
                            ELSE IF i <= size THEN v[i] ELSE Null
  <2> DEFINE x == i - 1
  <2>1. At(t, x) = IF x - offset \in 0 .. n - 1 THEN buffer[(x - offset) + 1]
                   ELSE IF x < size THEN At(s, x) ELSE Null
    <3>1. x \in 0 .. end - 1
      BY <1>3
    <3> HIDE DEF x
    <3> QED
      BY <1>2, <3>1
  <2>2. /\ (x - offset \in 0 .. n - 1 <=> i - offset \in 1 .. n) /\ (x - offset) + 1 = i - offset
        /\ (x < size <=> i <= size)
    BY <1>1, <1>3, <1>4
  <2>3. i <= size => v[i] = At(s, x)
    BY <1>1, <1>3
  <2> HIDE DEF x
  <2> QED
    BY <2>1, <2>2, <2>3 DEF x
<1>7. w = [i \in 1 .. end |-> IF i - offset \in 1 .. n THEN buffer[i - offset]
                              ELSE IF i <= size THEN v[i] ELSE Null]
  BY <1>3, <1>6
<1> QED
  BY <1>1, <1>5, <1>7 DEF F!Overlay, n, v, w

\* A truncation seen as one of a flat sequence.
LEMMA FittedWords ==
    ASSUME Envelope, NEW R, NEW s, InOrder(s, R), NEW length \in Nat,
           NEW t, Fitted(s, t, R, length)
    PROVE  Words(t) \in F!Truncations(Words(s), length)
<1> DEFINE size == s.node.file_size
           n == t.node.file_size
           v == Words(s)
           w == Words(t)
<1>1. /\ size \in Nat /\ v = [i \in 1 .. size |-> At(s, i - 1)] /\ Len(v) = size
  BY WordsAre
<1>2. /\ InOrder(t, R) /\ n \in F!Reached(size, length)
      /\ \A x \in 0 .. n - 1 : At(t, x) = IF x < size THEN At(s, x) ELSE LetterA
  BY DEF Fitted
<1>3. n \in Nat /\ w = [i \in 1 .. n |-> At(t, i - 1)]
  BY <1>2, WordsAre
<1> HIDE DEF size, n, v, w
<1>4. ASSUME NEW i \in 1 .. n
      PROVE  At(t, i - 1) = IF i <= size THEN v[i] ELSE LetterA
  <2> DEFINE x == i - 1
  <2>1. x \in 0 .. n - 1 /\ (x < size <=> i <= size)
    BY <1>1, <1>3
  <2>2. i <= size => v[i] = At(s, x)
    BY <1>1, <1>3
  <2> HIDE DEF x
  <2> QED
    BY <1>2, <2>1, <2>2 DEF x
<1>5. w = F!Resize(v, n, LetterA)
  BY <1>1, <1>3, <1>4 DEF F!Resize
<1>6. n \in F!Reached(Len(v), length) /\ LetterA \in Byte
  BY <1>1, <1>2, Constants
<1>7. w \in F!Truncations(v, length)
  BY <1>5, <1>6 DEF F!Truncations
<1> QED
  BY <1>7 DEF v, w

\* A write leaves its words at its offset, zeros in the gap before them and
\* the rest as it was, in any file of any disk within the envelope.
THEOREM WritesOverlay ==
    ASSUME Envelope
    PROVE  Spec => []WriteOverlays
<1>1. FileInv => WriteOverlays
  <2> SUFFICES ASSUME FileInv, Up, NEW f \in File, NEW offset \in 0 .. MAX_SIZE, NEW buffer \in Buffer,
                      MayWrite(f, offset, buffer), Write(Open(f), offset, buffer).server = "up"
               PROVE  Words(Write(Open(f), offset, buffer)) = F!Overlay(Content(f), offset, buffer)
    BY DEF WriteOverlays
  <2> DEFINE s == Open(f)
             t == Write(s, offset, buffer)
  <2>1. Exists(f) /\ InOrder(s, {}) /\ offset \in Nat /\ buffer \in Seq(Byte)
        /\ offset + Len(buffer) <= MAX_SIZE
        /\ (offset <= s.node.file_size \/ offset <= HOLE_END)
    BY Constants, FileAssumption DEF MayWrite, FileInv, Open
  <2>2. Content(f) = Words(s)
    BY <2>1 DEF Content
  <2> HIDE DEF s
  <2>3. Overlaid(s, t, {}, offset, buffer)
    <3>1. t.server = "exit" \/ Overlaid(s, t, {}, offset, buffer)
      BY <2>1, WriteDoes
    <3>2. t.server = "up"
      BY DEF s
    <3> QED
      BY <3>1, <3>2
  <2> HIDE DEF t
  <2>4. Words(t) = F!Overlay(Words(s), offset, buffer)
    BY <2>1, <2>3, OverlaidWords
  <2> QED
    BY <2>2, <2>4 DEF s, t
<1> QED
  BY <1>1, FilesInOrder, PTL

\* A truncation, in as many turns as it takes, keeps the beginning of the
\* file: it ends with the length asked for if it extends the file or takes
\* less than a block from it, and otherwise with less than a block below it,
\* in any file of any disk within the envelope.
THEOREM TruncationsKeepBeginning ==
    ASSUME Envelope
    PROVE  Spec => []TruncateKeepsBeginning
<1>1. FileInv => TruncateKeepsBeginning
  <2> SUFFICES ASSUME FileInv, Up, NEW f \in File, NEW length \in 0 .. MAX_SIZE,
                      Exists(f), Truncate(Open(f), length).server = "up"
               PROVE  Words(Truncate(Open(f), length)) \in F!Truncations(Content(f), length)
    BY DEF TruncateKeepsBeginning
  <2> DEFINE s == Open(f)
             t == Truncate(s, length)
  <2>1. InOrder(s, {}) /\ length \in Nat
    BY FileAssumption DEF FileInv
  <2>2. Content(f) = Words(s)
    BY DEF Content
  <2> HIDE DEF s
  <2>3. Fitted(s, t, {}, length)
    <3>1. t.server = "exit" \/ Fitted(s, t, {}, length)
      BY <2>1, TruncateDoes
    <3>2. t.server = "up"
      BY DEF s
    <3> QED
      BY <3>1, <3>2
  <2> HIDE DEF t
  <2>4. Words(t) \in F!Truncations(Words(s), length)
    BY <2>1, <2>3, FittedWords
  <2> QED
    BY <2>2, <2>4 DEF s, t
<1> QED
  BY <1>1, FilesInOrder, PTL

\* sac_read returns the words asked for that a file with blocks has.
LEMMA ReadDoes ==
    ASSUME Envelope, NEW R, NEW s, InOrder(s, R), Ptr(s) # 0,
           NEW offset \in Nat, NEW count \in Nat \ {0}
    PROVE  sac_read(s, offset, count) =
               SubSeq(Words(s), offset + 1, Least2(offset + count, s.node.file_size))
<1> DEFINE size == s.node.file_size
           to   == Least2(offset + count, size)
           v    == Words(s)
           w    == sac_read(s, offset, count)
<1>1. size \in Nat /\ v = [i \in 1 .. size |-> At(s, i - 1)] /\ Len(v) = size /\ v \in Seq(Word)
  BY WordsAre
<1>2. CASE offset >= size
  <2>1. w = <<>>
    BY <1>2 DEF sac_read, Ptr, InOrder
  <2>2. to \in Int /\ to < offset + 1
    BY <1>1, <1>2 DEF Least2
  <2> HIDE DEF to, v, w
  <2>3. SubSeq(v, offset + 1, to) = <<>>
    BY <2>2, SubSeqEmpty
  <2> QED
    BY <2>1, <2>3 DEF to, v, w
<1>3. CASE offset < size
  <2> DEFINE n == Least2(count, size - offset)
             u == SubSeq(v, offset + 1, to)
  <2>1. w \in Seq(Word) /\ Len(w) = n /\ \A k \in 1 .. n : w[k] = At(s, offset + k - 1)
    BY ONLY Envelope, InOrder(s, R), Ptr(s) # 0, offset \in Nat, count \in Nat \ {0}, <1>3, ReadEnds
  <2>2. to = offset + n /\ n \in Nat \ {0} /\ to <= size
    <3> HIDE DEF size, v, w, u
    <3> QED
      BY <1>1, <1>3 DEF Least2
  <2> HIDE DEF size, to, v, w, n
  <2>3. u \in Seq(Word) /\ Len(u) = n /\ \A k \in 1 .. n : u[k] = v[offset + k]
    <3>1. \A i \in offset + 1 .. to : v[i] \in Word
      BY <1>1, <2>2
    <3>2. /\ u \in Seq(Word) /\ Len(u) = (to - (offset + 1)) + 1
          /\ \A i \in 1 .. (to - (offset + 1)) + 1 : u[i] = v[((offset + 1) + i) - 1]
      BY <2>2, <3>1, SubSeqProperties
    <3> HIDE DEF u
    <3> QED
      BY <2>2, <3>2
  <2> HIDE DEF u
  <2>4. \A k \in 1 .. n : w[k] = u[k]
    <3> SUFFICES ASSUME NEW k \in 1 .. n PROVE w[k] = u[k]
      OBVIOUS
    <3>1. offset + k \in 1 .. size /\ (offset + k) - 1 = offset + k - 1
      BY <1>1, <2>2
    <3>2. v[offset + k] = At(s, offset + k - 1)
      BY <1>1, <3>1
    <3> QED
      BY <2>1, <2>3, <3>2
  <2>5. w = u
    BY <2>1, <2>2, <2>3, <2>4
  <2> QED
    BY <2>5 DEF u, w, v, to, size
<1> HIDE DEF size
<1>4. offset >= size \/ offset < size
  BY <1>1
<1> QED
  BY <1>2, <1>3, <1>4

\* sac_read, block by block, returns the words asked for that the file has,
\* and -1 for no file that has a word, in any file of any disk within the
\* envelope.
THEOREM ReadsReturnContent ==
    ASSUME Envelope
    PROVE  Spec => []ReadReturnsContent
<1>1. FileInv => ReadReturnsContent
  <2> SUFFICES ASSUME FileInv, Up, NEW f \in File, Exists(f),
                      NEW offset \in 0 .. MAX_SIZE, NEW count \in 1 .. MAX_SIZE
               PROVE  LET got == sac_read(Open(f), offset, count)
                      IN  \/ got = SubSeq(Content(f), offset + 1,
                                          Least2(offset + count, node[f].file_size))
                          \/ got = None /\ Content(f) = <<>>
    BY DEF ReadReturnsContent
  <2>1. InOrder(Open(f), {}) /\ Open(f).node = node[f] /\ offset \in Nat /\ count \in Nat \ {0}
    BY FileAssumption DEF FileInv, Open
  <2>2. Content(f) = Words(Open(f))
    BY DEF Content
  <2>3. CASE Ptr(Open(f)) = 0
    <3>1. sac_read(Open(f), offset, count) = None
      BY <2>3 DEF sac_read, Ptr
    <3>2. Len(Words(Open(f))) = 0 /\ Words(Open(f)) \in Seq(Word)
      BY <2>1, <2>3, WordsAre DEF InOrder
    <3> QED
      BY <2>2, <3>1, <3>2
  <2>4. CASE Ptr(Open(f)) # 0
    BY <2>1, <2>2, <2>4, ReadDoes
  <2> QED
    BY <2>3, <2>4
<1> QED
  BY <1>1, FilesInOrder, PTL

-----------------------------------------------------------------------------
(***************************************************************************)
(* Files as flat sequences of words.                                       *)
(***************************************************************************)

\* What the files hold, one by one.
LEMMA ContentsAre ==
    /\ Contents = [f \in File |-> Contents[f]]
    /\ Contents' = [f \in File |-> Contents'[f]]
    /\ \A f \in File :
          /\ Contents[f] = IF Up /\ Exists(f) THEN Words(Open(f)) ELSE None
          /\ Contents'[f] = IF Up' /\ Exists(f)' THEN Words(Open(f)') ELSE None
<1>1. \A f \in File : Words(Open(f))' = Words(Open(f)')
  OBVIOUS
<1>2. Contents = [f \in File |-> Content(f)] /\ Contents' = [f \in File |-> Content(f)']
  BY DEF Contents
<1>3. \A f \in File : Content(f)' = IF Up' /\ Exists(f)' THEN Words(Open(f)') ELSE None
  BY <1>1 DEF Content
<1> QED
  BY <1>2, <1>3 DEF Content

\* A file that exists has a content.
LEMMA SomeContent ==
    ASSUME Envelope, NEW R, NEW s, InOrder(s, R)
    PROVE  Words(s) # None
BY WordsAre, FileAssumption DEF Word

\* What a request leaves alone, its clients see unchanged.
LEMMA OnlyOne ==
    ASSUME Envelope, FileInv, Up, Up', NEW f \in File, LeavesOthers(f)
    PROVE  F!Only(f)
<1>1. ASSUME NEW g \in File, g # f
      PROVE  Contents'[g] = Contents[g]
  <2>1. (Exists(g)' <=> Exists(g)) /\ (~Exists(g) => Contents'[g] = Contents[g])
    BY <1>1, ContentsAre DEF LeavesOthers
  <2>2. ASSUME Exists(g)
        PROVE  Words(Open(g)') = Words(Open(g))
    <3> DEFINE n == node[g].file_size
    <3>1. PICK s, t : s = Open(g) /\ t = Open(g)'
      OBVIOUS
    <3>2. /\ InOrder(s, {}) /\ s.node = node[g] /\ s.node.file_size = n
          /\ t.node = s.node /\ InOrder(t, {})
          /\ \A x \in 0 .. n - 1 : At(t, x) = At(s, x)
      BY <1>1, <2>2, <3>1 DEF FileInv, LeavesOthers, Open
    <3> HIDE DEF n
    <3>3. n \in Nat /\ Words(s) = [i \in 1 .. n |-> At(s, i - 1)]
      BY <3>2, WordsAre
    <3>4. Words(t) = [i \in 1 .. n |-> At(t, i - 1)]
      BY <3>2, WordsAre
    <3>5. \A i \in 1 .. n : i - 1 \in 0 .. n - 1
      BY <3>3
    <3>6. \A i \in 1 .. n : At(t, i - 1) = At(s, i - 1)
      BY <3>2, <3>5
    <3> QED
      BY <3>1, <3>3, <3>4, <3>6
  <2> QED
    BY <2>1, <2>2, ContentsAre
<1>2. PICK c, d : c = Contents /\ d = Contents'
  OBVIOUS
<1>3. /\ c = [g \in File |-> c[g]] /\ d = [g \in File |-> d[g]]
      /\ \A g \in File : g # f => d[g] = c[g]
  BY <1>1, <1>2, ContentsAre
<1>4. d = [c EXCEPT ![f] = d[f]]
  BY <1>3
<1> QED
  BY <1>2, <1>4 DEF F!Only

\* A stopped server has no files.
LEMMA Stops ==
    ASSUME ~Up'
    PROVE  F!Stop
<1>1. PICK d : d = Contents'
  OBVIOUS
<1>2. d = [f \in File |-> d[f]] /\ \A f \in File : d[f] = None
  BY <1>1, ContentsAre
<1>3. d = [f \in File |-> None]
  BY <1>2
<1> QED
  BY <1>1, <1>3 DEF F!Stop

\* Each request does what a client of a flat file expects of it.
LEMMA StepImplements ==
    ASSUME Envelope, FileInv, Next
    PROVE  F!Next
<1>1. Up
  BY DEF Next
<1>2. ASSUME NEW f \in File, sac_open(f)
      PROVE  F!Next
  <2>1. Up' /\ Exists(f)' /\ node'[f] = create_file_node /\ LeavesOthers(f) /\ ~Exists(f) /\ FileInv'
    BY <1>1, <1>2, OpenKeeps DEF sac_open
  <2>2. F!Only(f)
    BY <1>1, <2>1, OnlyOne
  <2>3. Contents'[f] = <<>>
    <3>1. PICK t : t = Open(f)'
      OBVIOUS
    <3>2. InOrder(t, {}) /\ t.node = node'[f]
      BY <2>1, <3>1 DEF FileInv, Open
    <3>3. t.node.file_size = 0
      BY <2>1, <3>2 DEF create_file_node
    <3>4. Words(t) \in Seq(Word) /\ Len(Words(t)) = 0
      BY <3>2, <3>3, WordsAre
    <3>5. Words(t) = <<>>
      BY <3>4
    <3> QED
      BY <2>1, <3>1, <3>5, ContentsAre
  <2>4. F!Create(f)
    BY <2>1, <2>3, ContentsAre DEF F!Create
  <2> QED
    BY <1>1, <2>2, <2>4 DEF F!Next
<1>3. ASSUME NEW f \in File, NEW offset \in 0 .. MAX_SIZE, NEW buffer \in Buffer,
             sac_write(f, offset, buffer), Up'
      PROVE  F!Next
  <2>1. /\ Exists(f) /\ Exists(f)' /\ LeavesOthers(f)
        /\ Overlaid(Open(f), Open(f)', Others(f), offset, buffer)
    BY <1>1, <1>3, WriteKeeps
  <2>2. F!Only(f)
    BY <1>1, <1>3, <2>1, OnlyOne
  <2>3. InOrder(Open(f), Others(f))
    BY <1>1, <2>1, OthersReserved
  <2>4. /\ Contents[f] = Words(Open(f)) /\ Contents[f] # None
        /\ Contents'[f] = Words(Open(f)')
    BY <1>1, <1>3, <2>1, <2>3, ContentsAre, SomeContent
  <2>5. offset \in Nat /\ buffer \in Seq(Byte)
    BY Constants, FileAssumption
  <2>6. Words(Open(f)') = F!Overlay(Words(Open(f)), offset, buffer)
    BY <2>1, <2>3, <2>5, OverlaidWords
  <2>7. offset + Len(buffer) <= MAX_SIZE
    BY <1>3 DEF sac_write, MayWrite
  <2>8. F!Write(f, offset, buffer)
    BY <2>4, <2>6, <2>7 DEF F!Write
  <2> QED
    BY <1>1, <2>2, <2>8 DEF F!Next
<1>4. ASSUME NEW f \in File, NEW length \in 0 .. MAX_SIZE, sac_truncate(f, length), Up'
      PROVE  F!Next
  <2>1. /\ Exists(f) /\ Exists(f)' /\ LeavesOthers(f)
        /\ Fitted(Open(f), Open(f)', Others(f), length)
    BY <1>1, <1>4, TruncateKeeps
  <2>2. F!Only(f)
    BY <1>1, <1>4, <2>1, OnlyOne
  <2>3. InOrder(Open(f), Others(f))
    BY <1>1, <2>1, OthersReserved
  <2>4. /\ Contents[f] = Words(Open(f)) /\ Contents[f] # None
        /\ Contents'[f] = Words(Open(f)')
    BY <1>1, <1>4, <2>1, <2>3, ContentsAre, SomeContent
  <2>5. length \in Nat
    BY FileAssumption
  <2>6. Words(Open(f)') \in F!Truncations(Words(Open(f)), length)
    BY <2>1, <2>3, <2>5, FittedWords
  <2>7. F!Truncate(f, length)
    BY <2>4, <2>6 DEF F!Truncate
  <2> QED
    BY <1>1, <2>2, <2>7 DEF F!Next
<1>5. ASSUME NEW f \in File, sac_remove(f)
      PROVE  F!Next
  <2>1. Up' /\ Exists(f) /\ ~Exists(f)' /\ LeavesOthers(f)
    BY <1>1, <1>5, RemoveKeeps
  <2>2. F!Only(f)
    BY <1>1, <2>1, OnlyOne
  <2>3. InOrder(Open(f), Others(f))
    BY <1>1, <2>1, OthersReserved
  <2>4. Contents[f] # None /\ Contents'[f] = None
    BY <1>1, <2>1, <2>3, ContentsAre, SomeContent
  <2>5. F!Delete(f)
    BY <2>4 DEF F!Delete
  <2> QED
    BY <1>1, <2>2, <2>5 DEF F!Next
<1>6. ASSUME ~Up'
      PROVE  F!Next
  BY <1>1, <1>6, Stops DEF F!Next
<1> QED
  BY <1>2, <1>3, <1>4, <1>5, <1>6 DEF Next

\* Seen by its clients, a file is a sequence of words that writes overlay,
\* truncations cut or extend and requests on other files leave alone,
\* on every disk within the envelope.
THEOREM FlatFileImplemented ==
    ASSUME Envelope
    PROVE  Spec => ImplementsFlatFile
<1>1. Init => F!Init
  <2> SUFFICES ASSUME Init PROVE F!Init
    OBVIOUS
  <2>1. \A f \in File : ~Exists(f)
    BY DEF Init, Exists, create_file_node
  <2>2. Contents = [f \in File |-> None]
    BY <2>1 DEF Contents, Content
  <2>3. Up = TRUE
    BY DEF Init, Up
  <2> QED
    BY <2>2, <2>3 DEF F!Init
<1>2. FileInv /\ [Next]_vars => [F!Next]_<<Contents, Up>>
  <2>1. ASSUME UNCHANGED vars
        PROVE  UNCHANGED <<Contents, Up>>
    BY <2>1 DEF vars, Contents, Content, Up, Exists, Open
  <2> QED
    BY <2>1, StepImplements
<1> QED
  BY <1>1, <1>2, FilesInOrder, PTL DEF Spec, ImplementsFlatFile, F!Spec
=============================================================================
