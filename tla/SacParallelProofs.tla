------------------------- MODULE SacParallelProofs -------------------------
(***************************************************************************)
(* Types of the disk and of the local variables of the threads, and the    *)
(* places that the threads write to, whichever requests run at the same    *)
(* time and in whatever order their reads and writes come: also when they  *)
(* lose each other's updates.                                              *)
(***************************************************************************)
EXTENDS SacParallel, LayoutLemmas, SequenceTheorems

Fields ==
    {"todo", "req", "call", "names", "next", "own", "copy", "n", "file", "new",
     "bit", "byte", "data", "place", "from", "into", "list", "at", "ok", "seen",
     "listed", "uses"}

Step ==
    {"read", "scan", "back", "back_file", "save", "enter", "list", "find_node",
     "find_pointers", "find_data", "set", "link", "look_data", "look_pointers",
     "look_node", "clear", "get", "scan_parent", "move", "write", "fetch"}

\* What a node that has been read can be for, once the path is found.
Ready ==
    {"stat", "readdir", "read", "write", "remove", "truncate", "rmdir", "empty",
     "parent", "unlink", "gather", "delete", "erase", "get", "add", "adopt"}

\* What a request is at that may still add an entry.
Adding == {"open", "mkdir", "truncate", "reopen", "from", "into", "get", "add", "adopt"}

\* Steps that need nothing of the local variables when their turn comes.
Quiet   == Step \ {"move", "scan"}
Calm(s) == s \in Seq(Quiet)
Adds(s) == \E i \in 1 .. Len(s) : s[i] = "enter"
EndsInRead(s) == s # <<>> /\ s[Len(s)] = "read"
Has(s, step) == \E i \in 1 .. Len(s) : s[i] = step

\* A bit is set after it has been found, a pointer is written into a pointer
\* block that has been found.
Finds    == {"find_node", "find_pointers", "find_data"}
Reserved == NodeBlock \cup DataBlock
Linking(s, i) ==
    /\ i > 4 /\ s[i - 4] = "find_pointers"
    /\ s[i - 3] = "set" /\ s[i - 2] = "find_data" /\ s[i - 1] = "set"
Planned(s) ==
    \A i \in 1 .. Len(s) : /\ s[i] = "set"  => i > 1 /\ s[i - 1] \in Finds
                           /\ s[i] = "link" => Linking(s, i)
Free(s) == ~Has(s, "save") /\ ~Has(s, "get") /\ ~Has(s, "back_file")

\* The entry a request adds has a name.
Named(r) ==
    /\ r.path # <<>>
    /\ NameIn(IF r.op = "rename" THEN r.to ELSE r.path) \in Name
    /\ r.op \notin {"read", "write"}

FieldsOK(l) ==
    /\ DOMAIN l = Fields
    /\ DOMAIN l.req = {"op", "path", "to", "end"}
    /\ l.req.path \in Seq(Name) /\ l.req.to \in Seq(Name) /\ l.req.end \in Nat
    /\ l.copy \in t_node /\ l.file \in t_node /\ l.own \in NodeNum
    /\ l.new \in Nat /\ l.data \in Nat /\ l.bit \in Block /\ l.byte \subseteq Block
    /\ l.names \in Seq(Name)
    /\ l.call \in Ready \cup Adding \/ (l.call = "none" /\ l.names = <<>>)
    /\ l.call \in {"get", "add", "adopt"} => l.into \in Nat
    /\ l.call \in Adding => Named(l.req)
    /\ l.call = "unlink" => l.n \in NodeNum

\* A scan has a name to look for, an entry that goes leaves a size that is
\* not negative, a node that is read last is read for something.
StepsOK(l) ==
    /\ l.todo \in Seq(Step)
    /\ \A i \in 2 .. Len(l.todo) : l.todo[i] \in Quiet
    /\ l.todo # <<>> =>
          /\ l.todo[1] = "move" => l.copy.file_size > 0
          /\ l.todo[1] = "scan" => l.names # <<>>
    /\ EndsInRead(l.todo) => l.names # <<>> \/ l.call \in Ready
    /\ Adds(l.todo) => Named(l.req)

\* What is still to be found of the place of a write is found by a step
\* before it.
AimedOK(l) ==
    /\ \A i \in 1 .. Len(l.todo) :
          /\ l.todo[i] = "set" =>
                IF i = 1 THEN l.bit \in Reserved ELSE l.todo[i - 1] \in Finds
          /\ l.todo[i] = "link" =>
                \/ Linking(l.todo, i)
                \/ /\ l.copy.indirect_pointer_block \in DataBlock
                   /\ \A j \in 1 .. i - 1 : l.todo[j] \in {"set", "find_data"}
    /\ Has(l.todo, "save") =>
          ~Has(l.todo, "get") /\ (l.new \in NodeNum \/ l.todo[1] = "find_node")
    /\ Has(l.todo, "back_file") => ~Has(l.todo, "get") /\ l.n \in NodeNum
    /\ Has(l.todo, "get") => l.call # "unlink"
    /\ l.todo # <<>> /\ l.todo[1] = "move" => l.data \in DataBlock

LocalOK(l) == FieldsOK(l) /\ StepsOK(l) /\ AimedOK(l)

DiskOK(k) ==
    /\ k.bitmap \subseteq Block
    /\ k.node \in [NodeNum -> t_node]
    /\ k.block \in [DataBlock -> [Slot -> t_dir_entry]]
    /\ k.server \in {"up", "exit", "wild"}

ParallelInv ==
    /\ DiskOK(fs)
    /\ DOMAIN thread = Thread
    /\ \A t \in Thread : LocalOK(thread[t])

-----------------------------------------------------------------------------
(***************************************************************************)
(* Rows of steps.                                                          *)
(***************************************************************************)

\* One row after another.
LEMMA Joined ==
    ASSUME NEW s, NEW u, Calm(s), Calm(u)
    PROVE  /\ Calm(s \o u)
           /\ Adds(s \o u) => Adds(s) \/ Adds(u)
           /\ \A step : Has(s \o u, step) => Has(s, step) \/ Has(u, step)
           /\ Planned(s) /\ Planned(u) => Planned(s \o u)
           /\ u # <<>> => (EndsInRead(s \o u) => EndsInRead(u))
<1>1. /\ s \o u \in Seq(Quiet) /\ Len(s \o u) = Len(s) + Len(u)
      /\ \A i \in 1 .. Len(s) + Len(u) :
            (s \o u)[i] = IF i <= Len(s) THEN s[i] ELSE u[i - Len(s)]
  BY ConcatProperties DEF Calm
<1>2. Len(s) \in Nat /\ Len(u) \in Nat
  BY LenProperties DEF Calm
<1>3. ASSUME NEW i \in 1 .. Len(s \o u)
      PROVE  \/ i \in 1 .. Len(s) /\ (s \o u)[i] = s[i]
             \/ i - Len(s) \in 1 .. Len(u) /\ (s \o u)[i] = u[i - Len(s)]
  <2>1. CASE i <= Len(s)
    BY <1>1, <1>2, <2>1
  <2>2. CASE ~(i <= Len(s))
    BY <1>1, <1>2, <2>2
  <2> QED
    BY <2>1, <2>2
<1>4. u # <<>> => (s \o u)[Len(s \o u)] = u[Len(u)]
  <2> SUFFICES ASSUME u # <<>> PROVE (s \o u)[Len(s \o u)] = u[Len(u)]
    OBVIOUS
  <2>1. Len(u) > 0
    BY EmptySeq, <1>2 DEF Calm
  <2> QED
    BY <1>1, <1>2, <2>1
<1>5. ASSUME Planned(s), Planned(u) PROVE Planned(s \o u)
  <2> DEFINE w == s \o u
  <2> SUFFICES ASSUME NEW i \in 1 .. Len(w)
               PROVE  /\ w[i] = "set"  => i > 1 /\ w[i - 1] \in Finds
                      /\ w[i] = "link" => Linking(w, i)
    BY DEF Planned
  <2>1. CASE i <= Len(s)
    <3>1. i \in 1 .. Len(s) /\ \A j \in 1 .. i : w[j] = s[j]
      BY <1>1, <1>2, <2>1
    <3> HIDE DEF w
    <3>2. w[i] = "set" => i > 1 /\ s[i - 1] \in Finds /\ w[i - 1] = s[i - 1]
      BY <1>2, <1>5, <3>1 DEF Planned
    <3>3. ASSUME w[i] = "link" PROVE Linking(w, i)
      <4>1. Linking(s, i)
        BY <1>5, <3>1, <3>3 DEF Planned
      <4> QED
        BY <1>2, <3>1, <4>1 DEF Linking
    <3> QED
      BY <3>2, <3>3
  <2>2. CASE ~(i <= Len(s))
    <3> DEFINE k == i - Len(s)
    <3>1. /\ k \in 1 .. Len(u) /\ w[i] = u[k]
          /\ k > 1 => i > 1 /\ w[i - 1] = u[k - 1]
          /\ k > 4 => /\ i > 4 /\ w[i - 4] = u[k - 4] /\ w[i - 3] = u[k - 3]
                      /\ w[i - 2] = u[k - 2] /\ w[i - 1] = u[k - 1]
      <4>1. k \in 1 .. Len(u) /\ i \in Int /\ i - 0 = i /\ k - 0 = k
        BY <1>1, <1>2, <2>2
      <4>2. ASSUME NEW j \in 0 .. 4, k > j PROVE i > j /\ w[i - j] = u[k - j]
        <5>1. /\ i - j \in 1 .. Len(s) + Len(u) /\ ~(i - j <= Len(s)) /\ i > j
              /\ (i - j) - Len(s) = k - j
          BY <1>1, <1>2, <2>2, <4>2
        <5> HIDE DEF k
        <5> QED
          BY <1>1, <5>1
      <4> HIDE DEF k, w
      <4>3. k > 0 => w[i - 0] = u[k - 0]
        BY <4>2
      <4>4. k > 1 => i > 1 /\ w[i - 1] = u[k - 1]
        BY <4>2
      <4>5. k > 2 => w[i - 2] = u[k - 2]
        BY <4>2
      <4>6. k > 3 => w[i - 3] = u[k - 3]
        BY <4>2
      <4>7. k > 4 => i > 4 /\ w[i - 4] = u[k - 4]
        BY <4>2
      <4> QED
        BY <4>1, <4>3, <4>4, <4>5, <4>6, <4>7
    <3> HIDE DEF w
    <3>2. w[i] = "set" => i > 1 /\ w[i - 1] \in Finds
      <4>1. u[k] = "set" => k > 1 /\ u[k - 1] \in Finds
        BY <1>5, <3>1 DEF Planned
      <4> QED
        BY <3>1, <4>1
    <3>3. ASSUME w[i] = "link" PROVE Linking(w, i)
      <4>1. Linking(u, k)
        BY <1>5, <3>1, <3>3 DEF Planned
      <4> QED
        BY <3>1, <4>1 DEF Linking
    <3> QED
      BY <3>2, <3>3
  <2> QED
    BY <2>1, <2>2
<1>6. \A step : Has(s \o u, step) => Has(s, step) \/ Has(u, step)
  BY <1>3 DEF Has
<1> QED
  BY <1>1, <1>3, <1>4, <1>5, <1>6 DEF Calm, Adds, EndsInRead

\* The first step of the first of two rows.
LEMMA FirstOfTwo ==
    ASSUME NEW s, NEW u, Calm(s), Calm(u), s # <<>>
    PROVE  s \o u # <<>> /\ (s \o u)[1] = s[1]
<1>1. Len(s) \in Nat \ {0} /\ Len(u) \in Nat
  BY EmptySeq, LenProperties DEF Calm
<1>2. Len(s \o u) = Len(s) + Len(u) /\ (s \o u)[1] = s[1]
  BY <1>1, ConcatProperties DEF Calm
<1>3. Len(s \o u) # 0
  BY <1>1, <1>2
<1>4. Len(<<>>) = 0
  OBVIOUS
<1> QED
  BY <1>2, <1>3, <1>4, Zenon

\* The rows of an operation on blocks: no entry is added, no node is read
\* last.
LEMMA RowsOfBlocks ==
    ASSUME NEW nd
    PROVE  /\ Calm(Blocks(nd)) /\ ~Adds(Blocks(nd)) /\ ~EndsInRead(Blocks(nd))
           /\ Planned(Blocks(nd)) /\ Free(Blocks(nd))
           /\ Calm(Release(nd)) /\ ~Adds(Release(nd)) /\ ~EndsInRead(Release(nd))
           /\ Planned(Release(nd)) /\ Free(Release(nd))
<1>1. /\ Calm(<<>>) /\ ~Adds(<<>>) /\ ~EndsInRead(<<>>) /\ Planned(<<>>) /\ Free(<<>>)
  BY DEF Calm, Adds, EndsInRead, Planned, Free, Has
<1>2. LET s == <<"find_pointers", "set", "find_data", "set", "link">>
      IN  Calm(s) /\ ~Adds(s) /\ ~EndsInRead(s) /\ Planned(s) /\ Free(s)
  <2> DEFINE s == <<"find_pointers", "set", "find_data", "set", "link">>
  <2>1. {"find_pointers", "set", "find_data", "link"} \subseteq Quiet
    BY DEF Quiet, Step
  <2>2. Calm(s) /\ ~Adds(s) /\ ~EndsInRead(s)
    BY <2>1 DEF Calm, Adds, EndsInRead
  <2>3. Free(s)
    BY DEF Free, Has
  <2>4. /\ Len(s) = 5 /\ s[1] = "find_pointers" /\ s[2] = "set" /\ s[3] = "find_data"
        /\ s[4] = "set" /\ s[5] = "link"
    OBVIOUS
  <2> HIDE DEF s
  <2>5. Planned(s)
    <3>1. /\ s[1] \in Finds /\ s[3] \in Finds
          /\ s[1] \notin {"set", "link"} /\ s[2] # "link" /\ s[4] # "link"
          /\ s[3] \notin {"set", "link"} /\ s[5] # "set"
      BY <2>4 DEF Finds
    <3>2. Linking(s, 5)
      BY <2>4 DEF Linking
    <3>3. \A i \in 1 .. Len(s) : i = 1 \/ i = 2 \/ i = 3 \/ i = 4 \/ i = 5
      BY <2>4
    <3> QED
      BY <3>1, <3>2, <3>3 DEF Planned
  <2> QED
    BY <2>2, <2>3, <2>5 DEF s
<1>3. LET s == <<"look_data", "clear", "look_pointers", "clear">>
      IN  Calm(s) /\ ~Adds(s) /\ ~EndsInRead(s) /\ Planned(s) /\ Free(s)
  <2>1. {"look_data", "clear", "look_pointers"} \subseteq Quiet
    BY DEF Quiet, Step
  <2> QED
    BY <2>1 DEF Calm, Adds, EndsInRead, Planned, Free, Has
<1> QED
  BY <1>1, <1>2, <1>3, Zenon DEF Blocks, Release

\* The row that creates a node and its entry.
LEMMA RowsOfCreation ==
    ASSUME NEW op, NEW nd
    PROVE  LET s == Creation(op, nd)
           IN  /\ Calm(s) /\ ~EndsInRead(s) /\ Planned(s)
               /\ ~Has(s, "get") /\ ~Has(s, "back_file")
               /\ s # <<>> /\ s[1] = "find_node"
<1> DEFINE a == <<"find_node", "set", "save">>
           b == IF op = "mkdir" THEN <<"enter", "back">> ELSE <<"enter", "save", "back">>
           c == a \o Blocks(nd)
<1>1. {"find_node", "set", "save", "enter", "back"} \subseteq Quiet
  BY DEF Quiet, Step
<1>2. /\ Calm(a) /\ Planned(a) /\ ~Has(a, "get") /\ ~Has(a, "back_file")
      /\ Len(a) = 3 /\ a[1] = "find_node"
  BY <1>1 DEF Calm, Planned, Has, Finds
<1>3. /\ Calm(b) /\ ~EndsInRead(b) /\ b # <<>> /\ Planned(b)
      /\ ~Has(b, "get") /\ ~Has(b, "back_file")
  <2>1. LET s == <<"enter", "back">>
        IN  /\ Calm(s) /\ ~EndsInRead(s) /\ s # <<>> /\ Planned(s)
            /\ ~Has(s, "get") /\ ~Has(s, "back_file")
    BY <1>1 DEF Calm, EndsInRead, Planned, Has
  <2>2. LET s == <<"enter", "save", "back">>
        IN  /\ Calm(s) /\ ~EndsInRead(s) /\ s # <<>> /\ Planned(s)
            /\ ~Has(s, "get") /\ ~Has(s, "back_file")
    BY <1>1 DEF Calm, EndsInRead, Planned, Has
  <2> QED
    BY <2>1, <2>2, Zenon
<1>4. Creation(op, nd) = c \o b
  BY DEF Creation
<1> HIDE DEF a, b
<1>5. /\ Calm(c) /\ Planned(c) /\ ~Has(c, "get") /\ ~Has(c, "back_file")
  BY <1>2, RowsOfBlocks, Joined DEF Free
<1>6. c # <<>> /\ c[1] = "find_node"
  <2>1. a # <<>>
    BY <1>2, Zenon DEF a
  <2> QED
    BY <1>2, <2>1, RowsOfBlocks, FirstOfTwo
<1> HIDE DEF c
<1>7. c \o b # <<>> /\ (c \o b)[1] = "find_node"
  BY <1>3, <1>5, <1>6, FirstOfTwo
<1> QED
  BY <1>3, <1>4, <1>5, <1>7, Joined

\* A sequence is one of the elements it has.
LEMMA SeqNarrows ==
    ASSUME NEW S, NEW R, NEW s \in Seq(S), \A i \in 1 .. Len(s) : s[i] \in R
    PROVE  s \in Seq(R)
<1>1. Len(s) \in Nat /\ s \in [1 .. Len(s) -> S]
  BY LenProperties
<1>2. s \in [1 .. Len(s) -> R]
  BY <1>1
<1> QED
  BY <1>1, <1>2, SeqDef

\* What is left of a row after its first step.
LEMMA RestOfRow ==
    ASSUME NEW l, LocalOK(l), l.todo # <<>>
    PROVE  LET s == Tail(l.todo)
           IN  /\ Calm(s)
               /\ Adds(s) => Named(l.req)
               /\ EndsInRead(s) => l.names # <<>> \/ l.call \in Ready
<1> USE DEF LocalOK, StepsOK
<1> DEFINE s == Tail(l.todo)
<1>1. /\ s \in Seq(Step) /\ Len(s) = Len(l.todo) - 1
      /\ \A i \in 1 .. Len(s) : s[i] = l.todo[i + 1]
  BY HeadTailProperties
<1>2. Len(l.todo) \in Nat \ {0}
  BY EmptySeq
<1>3. \A i \in 1 .. Len(s) : i + 1 \in 2 .. Len(l.todo)
  BY <1>1, <1>2
<1>4. Calm(s)
  <2>1. \A i \in 1 .. Len(s) : s[i] \in Quiet
    BY <1>1, <1>3
  <2> QED
    BY <1>1, <2>1, SeqNarrows DEF Calm
<1>5. Adds(s) => Adds(l.todo)
  BY <1>1, <1>2, <1>3 DEF Adds
<1>6. ASSUME EndsInRead(s) PROVE EndsInRead(l.todo)
  <2>1. Len(s) \in 1 .. Len(s)
    BY <1>1, <1>6, EmptySeq DEF EndsInRead
  <2>2. s[Len(s)] = l.todo[Len(l.todo)]
    BY <1>1, <1>2, <2>1
  <2> QED
    BY <1>6, <2>2 DEF EndsInRead
<1> QED
  BY <1>4, <1>5, <1>6

\* A calm row suits any local variables that it asks nothing of.
LEMMA CalmIsOK ==
    ASSUME NEW l, FieldsOK(l), Calm(l.todo), Adds(l.todo) => Named(l.req),
           EndsInRead(l.todo) => l.names # <<>> \/ l.call \in Ready, AimedOK(l)
    PROVE  LocalOK(l)
<1>1. Len(l.todo) \in Nat /\ \A i \in 1 .. Len(l.todo) : l.todo[i] \in Quiet
  BY LenProperties, ElementOfSeq DEF Calm
<1>2. Quiet \subseteq Step /\ "move" \notin Quiet /\ "scan" \notin Quiet
  BY DEF Quiet
<1>3. l.todo \in Seq(Step)
  BY <1>2, SeqMonotonic DEF Calm
<1>4. l.todo # <<>> => l.todo[1] \in Quiet
  <2>1. l.todo # <<>> => 1 \in 1 .. Len(l.todo)
    BY EmptySeq DEF Calm
  <2> QED
    BY <1>1, <2>1
<1>5. \A i \in 2 .. Len(l.todo) : l.todo[i] \in Quiet
  BY <1>1
<1> QED
  BY <1>2, <1>3, <1>4, <1>5 DEF LocalOK, StepsOK

\* The step that a thread does first.
LEMMA HeadOfRow ==
    ASSUME NEW t, NEW step, Doing(t, step), LocalOK(thread[t])
    PROVE  thread[t].todo # <<>> /\ thread[t].todo[1] = step
  BY HeadTailProperties DEF Doing, LocalOK, StepsOK

\* The rows that are written out: none adds an entry but one, and some end
\* with a node to be read.
Plain(s) == Calm(s) /\ ~Adds(s) /\ Planned(s) /\ Free(s)
Shut(s)  == Plain(s) /\ ~EndsInRead(s)

LEMMA WrittenRows ==
    /\ Shut(<<>>) /\ Shut(<<"back">>) /\ Shut(<<"list", "back">>)
    /\ Shut(<<"fetch", "back">>) /\ Shut(<<"write", "back">>)
    /\ Shut(<<"look_pointers", "clear">>) /\ Shut(<<"back", "look_node", "clear">>)
    /\ Plain(<<"read">>) /\ Plain(<<"back", "read">>) /\ Plain(<<"list", "back", "read">>)
<1>1. /\ "back" \in Quiet /\ "list" \in Quiet /\ "fetch" \in Quiet /\ "write" \in Quiet
      /\ "look_pointers" \in Quiet /\ "clear" \in Quiet /\ "look_node" \in Quiet
      /\ "read" \in Quiet
  BY DEF Quiet, Step
<1> USE DEF Shut, Plain, Calm, Adds, EndsInRead, Planned, Free, Has
<1>2. Shut(<<>>) /\ Shut(<<"back">>) /\ Shut(<<"list", "back">>)
  BY <1>1
<1>3. Shut(<<"fetch", "back">>) /\ Shut(<<"write", "back">>)
  BY <1>1
<1>4. Shut(<<"look_pointers", "clear">>) /\ Shut(<<"back", "look_node", "clear">>)
  BY <1>1
<1>5. Plain(<<"read">>) /\ Plain(<<"back", "read">>) /\ Plain(<<"list", "back", "read">>)
  BY <1>1
<1> QED
  BY <1>2, <1>3, <1>4, <1>5

\* The written rows that are not plain.
LEMMA OtherRows ==
    /\ LET s == <<"read", "scan_parent", "back", "back_file", "look_node", "clear">>
       IN  Calm(s) /\ ~Adds(s) /\ ~EndsInRead(s) /\ Planned(s)
           /\ ~Has(s, "save") /\ ~Has(s, "get")
    /\ LET s == <<"scan_parent", "back_file", "back", "read">>
       IN  Calm(s) /\ ~Adds(s) /\ Planned(s) /\ ~Has(s, "save") /\ ~Has(s, "get")
    /\ LET s == <<"get", "scan_parent", "back", "read">>
       IN  Calm(s) /\ ~Adds(s) /\ Planned(s) /\ ~Has(s, "save") /\ ~Has(s, "back_file")
    /\ LET s == <<"enter", "back", "read">>
       IN  Calm(s) /\ Planned(s) /\ Free(s)
<1>1. /\ "back" \in Quiet /\ "clear" \in Quiet /\ "look_node" \in Quiet
      /\ "read" \in Quiet /\ "scan_parent" \in Quiet /\ "back_file" \in Quiet
      /\ "get" \in Quiet /\ "enter" \in Quiet
  BY DEF Quiet, Step
<1> USE DEF Calm, Adds, EndsInRead, Planned, Free, Has
<1>2. LET s == <<"read", "scan_parent", "back", "back_file", "look_node", "clear">>
      IN  Calm(s) /\ ~Adds(s) /\ ~EndsInRead(s) /\ Planned(s)
          /\ ~Has(s, "save") /\ ~Has(s, "get")
  BY <1>1
<1>3. LET s == <<"scan_parent", "back_file", "back", "read">>
      IN  Calm(s) /\ ~Adds(s) /\ Planned(s) /\ ~Has(s, "save") /\ ~Has(s, "get")
  BY <1>1
<1>4. LET s == <<"get", "scan_parent", "back", "read">>
      IN  Calm(s) /\ ~Adds(s) /\ Planned(s) /\ ~Has(s, "save") /\ ~Has(s, "back_file")
  BY <1>1
<1>5. LET s == <<"enter", "back", "read">>
      IN  Calm(s) /\ Planned(s) /\ Free(s)
  BY <1>1
<1> QED
  BY <1>2, <1>3, <1>4, <1>5

\* Rows of blocks with written rows behind them.
LEMMA JoinedRows ==
    /\ \A s, u : Shut(s) /\ Shut(u) => Shut(s \o u)
    /\ \A s, u : Shut(s) /\ Plain(u) => Plain(s \o u)
    /\ \A nd : Shut(Blocks(nd)) /\ Shut(Release(nd))
<1>1. ASSUME NEW s, NEW u, Shut(s), Shut(u) PROVE Shut(s \o u)
  <2>1. CASE u = <<>>
    BY <1>1, <2>1, ConcatEmptySeq DEF Shut, Plain, Calm
  <2>2. CASE u # <<>>
    BY <1>1, <2>2, Joined DEF Shut, Plain, Free
  <2> QED
    BY <2>1, <2>2
<1>2. ASSUME NEW s, NEW u, Shut(s), Plain(u) PROVE Plain(s \o u)
  BY <1>2, Joined DEF Shut, Plain, Free
<1>3. \A nd : Shut(Blocks(nd)) /\ Shut(Release(nd))
  BY RowsOfBlocks DEF Shut, Plain
<1> QED
  BY <1>1, <1>2, <1>3

\* A row that finds the place of each of its writes, or has it.
LEMMA PlanIsAimed ==
    ASSUME NEW l, Calm(l.todo), Planned(l.todo),
           Has(l.todo, "save") => ~Has(l.todo, "get") /\ l.todo[1] = "find_node",
           Has(l.todo, "back_file") => ~Has(l.todo, "get") /\ l.n \in NodeNum,
           Has(l.todo, "get") => l.call # "unlink"
    PROVE  AimedOK(l)
<1>1. ASSUME l.todo # <<>> PROVE l.todo[1] # "move"
  <2>1. 1 \in 1 .. Len(l.todo)
    BY <1>1, LenProperties, EmptySeq DEF Calm
  <2>2. l.todo[1] \in Quiet
    BY <2>1, ElementOfSeq DEF Calm
  <2> QED
    BY <2>2 DEF Quiet
<1>2. \A i \in 1 .. Len(l.todo) :
         /\ l.todo[i] = "set" =>
               IF i = 1 THEN l.bit \in Reserved ELSE l.todo[i - 1] \in Finds
         /\ l.todo[i] = "link" => Linking(l.todo, i)
  BY DEF Planned
<1> QED
  BY <1>1, <1>2 DEF AimedOK

\* What is left of a row after its first step, if that step has found what it
\* should.
LEMMA RestAimed ==
    ASSUME NEW l, LocalOK(l), l.todo # <<>>, NEW m, m.todo = Tail(l.todo),
           m.call = l.call \/ m.call # "unlink",
           l.todo[1] \in Finds => m.bit \in Reserved,
           l.todo[1] = "find_pointers" => m.copy.indirect_pointer_block \in DataBlock,
           l.todo[1] \in {"set", "find_data"} => m.copy = l.copy,
           l.todo[1] = "find_node" => m.new \in NodeNum,
           l.todo[1] \notin {"find_node", "get"} => m.new = l.new,
           l.todo[1] # "get" => m.n = l.n
    PROVE  AimedOK(m)
<1> DEFINE s == l.todo
           u == m.todo
<1>1. /\ Len(s) \in Nat \ {0} /\ Len(u) = Len(s) - 1
      /\ \A i \in 1 .. Len(u) : u[i] = s[i + 1] /\ i + 1 \in 2 .. Len(s)
  <2>1. s \in Seq(Step)
    BY DEF LocalOK, StepsOK
  <2>2. Len(s) \in Nat \ {0} /\ Len(u) = Len(s) - 1 /\ \A i \in 1 .. Len(u) : u[i] = s[i + 1]
    BY <2>1, HeadTailProperties, EmptySeq
  <2> HIDE DEF s, u
  <2> QED
    BY <2>2
<1>2. AimedOK(l)
  BY DEF LocalOK
<1> HIDE DEF s, u
<1>3. ASSUME NEW i \in 1 .. Len(u), u[i] = "set"
      PROVE  IF i = 1 THEN m.bit \in Reserved ELSE u[i - 1] \in Finds
  <2>1. s[i + 1] = "set" /\ i + 1 \in 2 .. Len(s)
    BY <1>1, <1>3
  <2>2. s[i] \in Finds
    <3>1. i + 1 \in 1 .. Len(s) /\ i + 1 # 1 /\ (i + 1) - 1 = i
      BY <1>1, <2>1
    <3>2. s[(i + 1) - 1] \in Finds
      BY <1>2, <2>1, <3>1 DEF AimedOK, s
    <3> QED
      BY <3>1, <3>2
  <2>3. CASE i = 1
    BY <2>2, <2>3 DEF s
  <2>4. CASE i # 1
    <3>1. i - 1 \in 1 .. Len(u) /\ (i - 1) + 1 = i
      BY <1>1, <2>4
    <3>2. u[i - 1] = s[i]
      BY <1>1, <3>1
    <3> QED
      BY <2>2, <2>4, <3>2
  <2> QED
    BY <2>3, <2>4
<1>4. ASSUME NEW i \in 1 .. Len(u), u[i] = "link"
      PROVE  \/ Linking(u, i)
             \/ /\ m.copy.indirect_pointer_block \in DataBlock
                /\ \A j \in 1 .. i - 1 : u[j] \in {"set", "find_data"}
  <2>1. s[i + 1] = "link" /\ i + 1 \in 1 .. Len(s) /\ i \in Nat \ {0}
    BY <1>1, <1>4
  <2>2. \A j \in 1 .. i - 1 : u[j] = s[j + 1]
    BY <1>1
  <2>3. CASE Linking(s, i + 1)
    <3>1. /\ i > 3 /\ s[i - 3] = "find_pointers"
          /\ s[i - 2] = "set" /\ s[i - 1] = "find_data" /\ s[i] = "set"
      <4>1. /\ i + 1 > 4 /\ (i + 1) - 4 = i - 3 /\ (i + 1) - 3 = i - 2
            /\ (i + 1) - 2 = i - 1 /\ (i + 1) - 1 = i
        BY <2>1, <2>3 DEF Linking
      <4> QED
        BY <2>1, <2>3, <4>1 DEF Linking
    <3>2. CASE i > 4
      <4>1. /\ u[i - 4] = s[(i - 4) + 1] /\ u[i - 3] = s[(i - 3) + 1]
            /\ u[i - 2] = s[(i - 2) + 1] /\ u[i - 1] = s[(i - 1) + 1]
        BY <2>2, <3>2
      <4>2. /\ (i - 4) + 1 = i - 3 /\ (i - 3) + 1 = i - 2 /\ (i - 2) + 1 = i - 1
            /\ (i - 1) + 1 = i
        BY <2>1
      <4>3. Linking(u, i)
        BY <3>1, <3>2, <4>1, <4>2 DEF Linking
      <4> QED
        BY <4>3
    <3>3. CASE i = 4
      <4>1. /\ s[1] = "find_pointers" /\ s[2] = "set" /\ s[3] = "find_data" /\ s[4] = "set"
        BY <3>1, <3>3
      <4>2. m.copy.indirect_pointer_block \in DataBlock
        BY <4>1 DEF s
      <4>3. \A j \in 1 .. i - 1 : j = 1 \/ j = 2 \/ j = 3
        BY <3>3
      <4>4. u[1] = s[2] /\ u[2] = s[3] /\ u[3] = s[4]
        BY <2>2, <3>3
      <4> QED
        BY <4>1, <4>2, <4>3, <4>4
    <3> QED
      BY <2>1, <3>1, <3>2, <3>3
  <2>4. CASE ~Linking(s, i + 1)
    <3>1. /\ l.copy.indirect_pointer_block \in DataBlock
          /\ \A j \in 1 .. (i + 1) - 1 : s[j] \in {"set", "find_data"}
      BY <1>2, <2>1, <2>4 DEF AimedOK, s
    <3>2. s[1] \in {"set", "find_data"}
      BY <2>1, <3>1
    <3>3. m.copy.indirect_pointer_block \in DataBlock
      BY <3>1, <3>2 DEF s
    <3>4. \A j \in 1 .. i - 1 : j + 1 \in 1 .. (i + 1) - 1
      BY <2>1
    <3> QED
      BY <2>2, <3>1, <3>3, <3>4
  <2> QED
    BY <2>3, <2>4
<1>5. \A step : Has(u, step) => Has(s, step)
  <2>1. \A i \in 1 .. Len(u) : u[i] = s[i + 1] /\ i + 1 \in 1 .. Len(s)
    BY <1>1
  <2> QED
    BY <2>1 DEF Has
<1>6. Has(s, s[1])
  <2>1. 1 \in 1 .. Len(s)
    BY <1>1
  <2> QED
    BY <2>1 DEF Has
<1>7. Has(u, "save") => ~Has(u, "get") /\ (m.new \in NodeNum \/ u[1] = "find_node")
  <2> SUFFICES ASSUME Has(u, "save") PROVE ~Has(u, "get") /\ m.new \in NodeNum
    OBVIOUS
  <2>1. ~Has(s, "get") /\ (l.new \in NodeNum \/ s[1] = "find_node")
    BY <1>2, <1>5 DEF AimedOK, s
  <2> QED
    BY <1>5, <1>6, <2>1 DEF s
<1>8. Has(u, "back_file") => ~Has(u, "get") /\ m.n \in NodeNum
  BY <1>2, <1>5, <1>6 DEF AimedOK, s
<1>9. Has(u, "get") => m.call # "unlink"
  BY <1>2, <1>5 DEF AimedOK, s
<1>10. u # <<>> => u[1] # "move"
  <2> SUFFICES ASSUME u # <<>> PROVE u[1] # "move"
    OBVIOUS
  <2>1. Calm(u)
    BY RestOfRow DEF u
  <2>2. 1 \in 1 .. Len(u)
    BY <2>1, EmptySeq, LenProperties DEF Calm
  <2>3. u[1] \in Quiet
    BY <2>1, <2>2, ElementOfSeq DEF Calm
  <2> QED
    BY <2>3 DEF Quiet
<1> QED
  BY <1>3, <1>4, <1>7, <1>8, <1>9, <1>10 DEF AimedOK, u

\* Local variables with a new row.
LEMMA ShutIsOK ==
    ASSUME NEW l, FieldsOK(l)
    PROVE  /\ Shut(l.todo) => LocalOK(l)
           /\ Plain(l.todo) /\ (l.names # <<>> \/ l.call \in Ready) => LocalOK(l)
  BY CalmIsOK, PlanIsAimed DEF Shut, Plain, Free

-----------------------------------------------------------------------------
(***************************************************************************)
(* What a request does next.                                               *)
(***************************************************************************)

LEMMA RefuseOK ==
    ASSUME NEW l, FieldsOK(l) PROVE LocalOK(Refuse(l))
<1>1. FieldsOK(Refuse(l)) /\ Refuse(l).todo = <<"back">>
  BY DEF FieldsOK, Fields, Refuse
<1> QED
  BY <1>1, WrittenRows, ShutIsOK

\* The looks of sac_rmdir.
LEMMA RmdirOK ==
    ASSUME NEW l, FieldsOK(l), l.todo = <<>>, NEW nd \in t_node,
           l.call \in {"rmdir", "empty", "parent", "unlink"}
    PROVE  LocalOK(Rmdir(l, nd))
<1> DEFINE m == Rmdir(l, nd)
<1>1. CASE l.call = "rmdir" /\ nd.state # 2
  <2>1. m = [l EXCEPT !.ok = FALSE]
    BY <1>1 DEF Rmdir
  <2>2. FieldsOK(m) /\ m.todo = <<>>
    BY <2>1 DEF FieldsOK, Fields
  <2> QED
    BY <2>2, WrittenRows, ShutIsOK
<1>2. CASE l.call = "rmdir" /\ nd.state = 2
  <2>1. m = [l EXCEPT !.call = "empty", !.todo = <<"read">>]
    BY <1>2 DEF Rmdir
  <2>2. FieldsOK(m) /\ m.todo = <<"read">> /\ m.call = "empty"
    BY <2>1 DEF FieldsOK, Fields, Adding, Ready
  <2> QED
    BY <2>2, WrittenRows, ShutIsOK DEF Ready
<1>3. CASE l.call = "empty" /\ nd.file_size > 0
  BY <1>3, RefuseOK DEF Rmdir
<1>4. CASE l.call = "empty" /\ ~(nd.file_size > 0)
  <2>1. m = [l EXCEPT !.call = "parent", !.todo = <<"read">>]
    BY <1>4 DEF Rmdir
  <2>2. FieldsOK(m) /\ m.todo = <<"read">> /\ m.call = "parent"
    BY <2>1 DEF FieldsOK, Fields, Adding, Ready
  <2> QED
    BY <2>2, WrittenRows, ShutIsOK DEF Ready
<1>5. CASE l.call = "parent"
  <2>1. m = [l EXCEPT !.n = l.own, !.file = nd, !.next = ParentOf(nd), !.list = <<l.own>>,
                      !.call = "unlink", !.todo = <<"read">>]
    BY <1>5 DEF Rmdir
  <2>2. FieldsOK(m) /\ m.todo = <<"read">> /\ m.call = "unlink"
    BY <2>1 DEF FieldsOK, Fields, Adding, Ready
  <2> QED
    BY <2>2, WrittenRows, ShutIsOK DEF Ready
<1>6. CASE l.call = "unlink"
  <2>1. m = [l EXCEPT !.next = l.n, !.call = "gather", !.at = 1,
                      !.todo = <<"scan_parent", "back_file", "back", "read">>]
    BY <1>6 DEF Rmdir
  <2>2. /\ FieldsOK(m) /\ m.todo = <<"scan_parent", "back_file", "back", "read">>
        /\ m.call = "gather" /\ m.n = l.n /\ l.n \in NodeNum
    BY <1>6, <2>1 DEF FieldsOK, Fields, Adding, Ready
  <2> HIDE DEF m
  <2>3. AimedOK(m)
    BY <2>2, OtherRows, PlanIsAimed
  <2> QED
    BY <2>2, <2>3, OtherRows, CalmIsOK DEF Ready, m
<1> QED
  BY <1>1, <1>2, <1>3, <1>4, <1>5, <1>6

\* The loops of sac_rmdir.
LEMMA RmdirListOK ==
    ASSUME NEW l, FieldsOK(l), l.todo = <<>>, NEW nd \in t_node,
           l.call \in {"gather", "delete", "erase"}
    PROVE  LocalOK(RmdirList(l, nd))
<1> DEFINE m == RmdirList(l, nd)
<1>1. CASE l.call = "gather"
  <2>1. m = [l EXCEPT !.todo = <<"list", "back", "read">>]
    BY <1>1 DEF RmdirList
  <2>2. FieldsOK(m) /\ m.todo = <<"list", "back", "read">> /\ m.call = "gather"
    BY <1>1, <2>1 DEF FieldsOK, Fields, Adding, Ready
  <2> QED
    BY <2>2, WrittenRows, ShutIsOK DEF Ready
<1>2. CASE l.call = "delete"
  <2> DEFINE a == IF nd.indirect_pointer_block = 0 THEN <<>> ELSE <<"look_pointers", "clear">>
  <2>1. m = [l EXCEPT !.file = nd, !.call = "erase", !.todo = a \o <<"back", "read">>]
    BY <1>2 DEF RmdirList
  <2>2. Shut(a)
    BY WrittenRows
  <2> HIDE DEF a
  <2>3. FieldsOK(m) /\ m.todo = a \o <<"back", "read">> /\ m.call = "erase"
    BY <2>1 DEF FieldsOK, Fields, Adding, Ready
  <2>4. Plain(a \o <<"back", "read">>)
    BY <2>2, WrittenRows, JoinedRows
  <2> QED
    BY <2>3, <2>4, ShutIsOK DEF Ready
<1>3. CASE l.call = "erase"
  <2> DEFINE more == l.at < Len(l.list)
             b == IF more THEN <<"read">> ELSE <<>>
             x == IF more THEN l.list[l.at + 1] ELSE l.next
  <2>1. m = [l EXCEPT !.n = l.own, !.copy.state = 0, !.call = "delete", !.at = @ + 1,
                      !.next = x, !.todo = <<"back", "look_node", "clear">> \o b]
    BY <1>3 DEF RmdirList
  <2>2. Plain(b)
    BY WrittenRows DEF Shut
  <2> HIDE DEF more, b, x
  <2>3. [l.copy EXCEPT !.state = 0] \in t_node
    <3>1. l.copy \in t_node
      BY DEF FieldsOK
    <3>2. 0 \in 0 .. 2
      OBVIOUS
    <3> QED
      BY ONLY <3>1, <3>2 DEF t_node
  <2>4. /\ FieldsOK(m) /\ m.todo = <<"back", "look_node", "clear">> \o b
        /\ m.call = "delete"
    BY <2>1, <2>3 DEF FieldsOK, Fields, Adding, Ready
  <2>5. Plain(<<"back", "look_node", "clear">> \o b)
    BY <2>2, WrittenRows, JoinedRows
  <2> QED
    BY <2>4, <2>5, ShutIsOK DEF Ready
<1> QED
  BY <1>1, <1>2, <1>3

\* sac_truncate.
LEMMA TruncateOK ==
    ASSUME NEW l, FieldsOK(l), l.todo = <<>>, NEW nd \in t_node, l.call = "truncate"
    PROVE  LocalOK(Truncate(l, nd))
<1> DEFINE m == Truncate(l, nd)
           end == l.req.end
<1>1. CASE nd.state # 1
  BY <1>1, RefuseOK DEF Truncate
<1>2. CASE nd.state = 1 /\ end > nd.file_size
  <2>1. m = [l EXCEPT !.call = "reopen", !.names = l.req.path, !.next = 0, !.todo = <<"read">>]
    BY <1>2 DEF Truncate
  <2>2. FieldsOK(m) /\ m.todo = <<"read">> /\ m.names # <<>>
    BY <2>1 DEF FieldsOK, Fields, Adding, Ready, Named
  <2> QED
    BY <2>2, WrittenRows, ShutIsOK
<1>3. CASE nd.state = 1 /\ ~(end > nd.file_size) /\ end = 0 /\ nd.file_size > 0
  <2>1. m = [l EXCEPT !.file = nd, !.copy.file_size = 0, !.copy.indirect_pointer_block = 0,
                      !.todo = Release(nd) \o <<"back">>]
    BY <1>3 DEF Truncate
  <2>2. [l.copy EXCEPT !.file_size = 0, !.indirect_pointer_block = 0] \in t_node
    BY DEF FieldsOK, t_node
  <2>3. FieldsOK(m) /\ m.todo = Release(nd) \o <<"back">>
    BY <2>1, <2>2 DEF FieldsOK, Fields
  <2> QED
    BY <2>3, WrittenRows, JoinedRows, ShutIsOK
<1>4. CASE nd.state = 1 /\ ~(end > nd.file_size) /\ ~(end = 0 /\ nd.file_size > 0)
  <2>1. m = [l EXCEPT !.copy.file_size = end, !.todo = <<"back">>]
    BY <1>4 DEF Truncate
  <2>2. [l.copy EXCEPT !.file_size = end] \in t_node
    BY DEF FieldsOK, t_node
  <2>3. FieldsOK(m) /\ m.todo = <<"back">>
    BY <2>1, <2>2 DEF FieldsOK, Fields
  <2> QED
    BY <2>3, WrittenRows, ShutIsOK
<1> QED
  BY <1>1, <1>2, <1>3, <1>4

\* The nodes of sac_rename.
LEMMA RenameOK ==
    ASSUME NEW l, FieldsOK(l), l.todo = <<>>, NEW nd \in t_node,
           l.call \in {"get", "add", "adopt"}
    PROVE  LocalOK(Rename(l, nd))
<1> DEFINE m == Rename(l, nd)
<1>1. CASE l.call = "get"
  <2>1. m = [l EXCEPT !.call = "add", !.todo = <<"get", "scan_parent", "back", "read">>]
    BY <1>1 DEF Rename
  <2>2. /\ FieldsOK(m) /\ m.todo = <<"get", "scan_parent", "back", "read">>
        /\ m.call = "add"
    BY <1>1, <2>1 DEF FieldsOK, Fields, Adding, Ready
  <2> HIDE DEF m
  <2>3. AimedOK(m)
    BY <2>2, OtherRows, PlanIsAimed
  <2> QED
    BY <2>2, <2>3, OtherRows, CalmIsOK DEF Ready, m
<1>2. CASE l.call = "add"
  <2> DEFINE s == Blocks(nd) \o <<"enter", "back", "read">>
  <2>1. m = [l EXCEPT !.next = l.n, !.call = "adopt", !.todo = s]
    BY <1>2 DEF Rename
  <2>2. Calm(s) /\ Planned(s) /\ Free(s)
    BY RowsOfBlocks, OtherRows, Joined DEF Free
  <2> HIDE DEF s
  <2>3. FieldsOK(m) /\ m.todo = s /\ m.call = "adopt"
    BY <1>2, <2>1 DEF FieldsOK, Fields, Adding, Ready
  <2>4. Named(m.req)
    BY <1>2, <2>1 DEF FieldsOK, Fields, Adding, Ready
  <2> HIDE DEF m
  <2>5. AimedOK(m)
    BY <2>2, <2>3, PlanIsAimed DEF Free
  <2> QED
    BY <2>2, <2>3, <2>4, <2>5, CalmIsOK DEF Ready, m
<1>3. CASE l.call = "adopt"
  <2>1. m = [l EXCEPT !.copy.parent_block = get_block_num_from_node_num(l.into),
                      !.todo = <<"back">>]
    BY <1>3 DEF Rename
  <2>2. get_block_num_from_node_num(l.into) \in Nat
    BY <1>3, LayoutAssumption DEF FieldsOK, get_block_num_from_node_num,
                                  NODE_TABLE_INITIAL_BLOCK, BITMAP_INITIAL_BLOCK
  <2>3. [l.copy EXCEPT !.parent_block = get_block_num_from_node_num(l.into)] \in t_node
    BY <2>2 DEF FieldsOK, t_node
  <2>4. FieldsOK(m) /\ m.todo = <<"back">>
    BY <2>1, <2>3 DEF FieldsOK, Fields
  <2> QED
    BY <2>4, WrittenRows, ShutIsOK
<1> QED
  BY <1>1, <1>2, <1>3

\* A thread that has read the last node of its row goes on.
LEMMA ContinueOK ==
    ASSUME NEW l, FieldsOK(l), l.todo = <<>>, NEW nd \in t_node,
           l.names # <<>> \/ l.call \in Ready
    PROVE  LocalOK(Continue(l, nd))
<1> DEFINE m == Continue(l, nd)
<1>1. CASE l.names # <<>>
  <2>1. m = [l EXCEPT !.todo = <<"scan">>]
    BY <1>1 DEF Continue
  <2>2. FieldsOK(m) /\ m.todo = <<"scan">> /\ m.names # <<>>
    BY <1>1, <2>1 DEF FieldsOK, Fields
  <2>3. <<"scan">> \in Seq(Step) /\ ~EndsInRead(<<"scan">>) /\ ~Adds(<<"scan">>)
    <3>1. "scan" \in Step
      BY DEF Step
    <3> QED
      BY <3>1 DEF EndsInRead, Adds
  <2> HIDE DEF m
  <2>4. AimedOK(m)
    BY <2>2 DEF AimedOK, Has
  <2> QED
    BY <2>2, <2>3, <2>4 DEF LocalOK, StepsOK, m
<1>2. CASE l.names = <<>> /\ l.call = "stat"
  <2>1. m = [l EXCEPT !.ok = nd.state # 0, !.seen = Attributes(nd), !.todo = <<"back">>]
    BY <1>2 DEF Continue
  <2>2. FieldsOK(m) /\ m.todo = <<"back">>
    BY <2>1 DEF FieldsOK, Fields
  <2> QED
    BY <2>2, WrittenRows, ShutIsOK
<1>3. CASE l.names = <<>> /\ l.call = "readdir"
  <2>1. CASE nd.state # 2
    BY <1>3, <2>1, RefuseOK DEF Continue
  <2>2. CASE nd.state = 2
    <3>1. m = [l EXCEPT !.todo = <<"list", "back">>]
      BY <1>3, <2>2 DEF Continue
    <3>2. FieldsOK(m) /\ m.todo = <<"list", "back">>
      BY <3>1 DEF FieldsOK, Fields
    <3> QED
      BY <3>2, WrittenRows, ShutIsOK
  <2> QED
    BY <2>1, <2>2
<1>4. CASE l.names = <<>> /\ l.call = "read"
  <2>1. CASE nd.state # 1 \/ nd.indirect_pointer_block = 0
    BY <1>4, <2>1, RefuseOK DEF Continue
  <2>2. CASE ~(nd.state # 1 \/ nd.indirect_pointer_block = 0)
    <3>1. m = [l EXCEPT !.seen = Attributes(nd), !.todo = <<"fetch", "back">>]
      BY <1>4, <2>2 DEF Continue
    <3>2. FieldsOK(m) /\ m.todo = <<"fetch", "back">>
      BY <3>1 DEF FieldsOK, Fields
    <3> QED
      BY <3>2, WrittenRows, ShutIsOK
  <2> QED
    BY <2>1, <2>2
<1>5. CASE l.names = <<>> /\ l.call = "write"
  <2>1. m = [l EXCEPT !.todo = Blocks(nd) \o <<"write", "back">>]
    BY <1>5 DEF Continue
  <2>2. FieldsOK(m) /\ m.todo = Blocks(nd) \o <<"write", "back">>
    BY <2>1 DEF FieldsOK, Fields
  <2> QED
    BY <2>2, WrittenRows, JoinedRows, ShutIsOK
<1>6. CASE l.names = <<>> /\ l.call = "remove"
  <2>1. CASE nd.state # 1
    BY <1>6, <2>1, RefuseOK DEF Continue
  <2>2. CASE nd.state = 1
    <3> DEFINE u == <<"read", "scan_parent", "back", "back_file", "look_node", "clear">>
               s == Release(nd) \o u
    <3> DEFINE x == [nd EXCEPT !.state = 0]
    <3>1. m = [l EXCEPT !.n = l.own, !.file = x, !.next = ParentOf(nd), !.todo = s]
      BY <1>6, <2>2 DEF Continue
    <3>2. /\ Calm(s) /\ ~Adds(s) /\ ~EndsInRead(s) /\ Planned(s)
          /\ ~Has(s, "save") /\ ~Has(s, "get")
      <4>1. u # <<>>
        OBVIOUS
      <4>2. /\ Calm(u) /\ ~Adds(u) /\ ~EndsInRead(u) /\ Planned(u)
            /\ ~Has(u, "save") /\ ~Has(u, "get")
        BY OtherRows
      <4> HIDE DEF u
      <4> QED
        BY <4>1, <4>2, RowsOfBlocks, Joined DEF Free
    <3> HIDE DEF s
    <3>3. x \in t_node
      <4>1. 0 \in 0 .. 2
        OBVIOUS
      <4> QED
        BY ONLY <4>1, nd \in t_node DEF t_node
    <3> HIDE DEF x
    <3>4. FieldsOK(m) /\ m.todo = s /\ m.n = l.own
      <4>1. DOMAIN l = Fields
        BY DEF FieldsOK
      <4>2. /\ m.todo = s /\ m.n = l.own /\ m.file = x /\ DOMAIN m = Fields
            /\ m.req = l.req /\ m.copy = l.copy /\ m.own = l.own /\ m.new = l.new
            /\ m.data = l.data /\ m.bit = l.bit /\ m.byte = l.byte /\ m.names = l.names
            /\ m.call = l.call /\ m.into = l.into
        BY <3>1, <4>1 DEF Fields
      <4> HIDE DEF m
      <4> QED
        BY <1>6, <3>3, <4>2 DEF FieldsOK
    <3> HIDE DEF m
    <3>5. AimedOK(m)
      <4>1. l.own \in NodeNum
        BY DEF FieldsOK
      <4> QED
        BY <3>2, <3>4, <4>1, PlanIsAimed
    <3> QED
      BY <3>2, <3>4, <3>5, CalmIsOK DEF m
  <2> QED
    BY <2>1, <2>2
<1>7. CASE l.names = <<>> /\ l.call = "truncate"
  BY <1>7, TruncateOK DEF Continue
<1>8. CASE l.names = <<>> /\ l.call \in {"rmdir", "empty", "parent", "unlink"}
  BY <1>8, RmdirOK DEF Continue
<1>9. CASE l.names = <<>> /\ l.call \in {"gather", "delete", "erase"}
  BY <1>9, RmdirListOK DEF Continue
<1>10. CASE l.names = <<>> /\ l.call \in {"get", "add", "adopt"}
  BY <1>10, RenameOK DEF Continue
<1> QED
  BY <1>1, <1>2, <1>3, <1>4, <1>5, <1>6, <1>7, <1>8, <1>9, <1>10 DEF Ready

\* A directory of sac_rename has been found, or not.
LEMMA ResolvedOK ==
    ASSUME NEW l, FieldsOK(l), Shut(l.todo), l.call \in {"from", "into"},
           NEW n \in Nat \cup {None}
    PROVE  LocalOK(Resolved(l, n))
<1> DEFINE m == [l EXCEPT !.from = n, !.call = "into", !.names = Folder(l.req.to), !.next = 0]
           k == IF l.call = "from" THEN [m EXCEPT !.into = 0] ELSE [l EXCEPT !.into = n]
<1>0. Named(l.req) /\ Plain(l.todo \o <<"read">>)
  BY WrittenRows, JoinedRows DEF FieldsOK, Adding
<1>1. FieldsOK(m) /\ m.todo = l.todo /\ m.names = Folder(l.req.to)
  <2>1. Folder(l.req.to) \in Seq(Name)
    <3>1. l.req.to \in Seq(Name)
      BY DEF FieldsOK
    <3>2. Len(l.req.to) \in Nat /\ \A i \in 1 .. Len(l.req.to) - 1 : l.req.to[i] \in Name
      BY <3>1, LenProperties, ElementOfSeq
    <3> QED
      BY <3>2, SubSeqProperties DEF Folder
  <2> QED
    BY <1>0, <2>1 DEF FieldsOK, Fields, Adding, Ready
<1>2. FieldsOK(k) /\ k.todo = l.todo /\ k.into \in Nat \cup {None} /\ Named(k.req)
  <2>1. CASE l.call = "from"
    <3>1. k = [m EXCEPT !.into = 0]
      BY <2>1
    <3>2. FieldsOK(m) /\ m.todo = l.todo /\ m.req = l.req /\ m.call = "into"
      BY <1>1 DEF FieldsOK, Fields
    <3> HIDE DEF m, k
    <3> QED
      BY <1>0, <3>1, <3>2 DEF FieldsOK, Fields
  <2>2. CASE l.call = "into"
    <3>1. k = [l EXCEPT !.into = n]
      BY <2>2
    <3> HIDE DEF m, k
    <3> QED
      BY <1>0, <2>2, <3>1 DEF FieldsOK, Fields
  <2> QED
    BY <2>1, <2>2
<1>3. CASE l.call = "from" /\ m.names # <<>>
  <2> DEFINE r == [m EXCEPT !.todo = @ \o <<"read">>]
  <2>1. Resolved(l, n) = r
    BY <1>3 DEF Resolved
  <2> HIDE DEF m, k
  <2>2. FieldsOK(r) /\ r.todo = l.todo \o <<"read">> /\ r.names # <<>>
    BY <1>1, <1>3 DEF FieldsOK, Fields
  <2> QED
    BY <1>0, <2>1, <2>2, ShutIsOK
<1>4. CASE ~(l.call = "from" /\ m.names # <<>>) /\ (k.from = None \/ k.into = None)
  <2> DEFINE r == [k EXCEPT !.ok = FALSE]
  <2>1. Resolved(l, n) = r
    BY <1>4 DEF Resolved
  <2> HIDE DEF m, k
  <2>2. FieldsOK(r) /\ r.todo = l.todo
    BY <1>2 DEF FieldsOK, Fields
  <2> QED
    BY <2>1, <2>2, ShutIsOK
<1>5. CASE ~(l.call = "from" /\ m.names # <<>>) /\ ~(k.from = None \/ k.into = None)
  <2> DEFINE r == [k EXCEPT !.call = "get", !.names = <<>>, !.next = k.from,
                            !.todo = @ \o <<"read">>]
  <2>1. Resolved(l, n) = r
    BY <1>5 DEF Resolved
  <2> HIDE DEF m, k
  <2>2. <<>> \in Seq(Name)
    BY EmptySeq
  <2>3. k.into \in Nat
    BY <1>2, <1>5
  <2>4. FieldsOK(r) /\ r.todo = l.todo \o <<"read">> /\ r.call = "get"
    BY <1>2, <2>2, <2>3 DEF FieldsOK, Fields, Ready
  <2> QED
    BY <1>0, <2>1, <2>4, ShutIsOK DEF Ready
<1> QED
  BY <1>3, <1>4, <1>5

\* A component of a path has been looked up.
LEMMA ScannedOK ==
    ASSUME NEW l, FieldsOK(l), l.todo = <<"back">>, l.names # <<>>,
           NEW found \in BOOLEAN, NEW n \in Nat \cup {None}
    PROVE  LocalOK(Scanned(l, found, n))
<1> DEFINE last == Len(l.names) = 1
           rest == [l EXCEPT !.names = Tail(@), !.next = n, !.todo = <<"back", "read">>]
<1>1. /\ Tail(l.names) \in Seq(Name)
      /\ Tail(l.names) = <<>> => last
  <2>1. /\ l.names \in Seq(Name) /\ Len(l.names) \in Nat \ {0}
        /\ Tail(l.names) \in Seq(Name) /\ Len(Tail(l.names)) = Len(l.names) - 1
    BY HeadTailProperties, EmptySeq DEF FieldsOK
  <2>2. ASSUME Tail(l.names) = <<>> PROVE last
    <3>1. Len(Tail(l.names)) = 0
      <4>1. Len(<<>>) = 0
        OBVIOUS
      <4> QED
        BY <2>2, <4>1, Zenon
    <3> QED
      BY <2>1, <3>1
  <2> QED
    BY <2>1, <2>2
<1>2. /\ FieldsOK(rest) /\ rest.todo = <<"back", "read">> /\ rest.call = l.call
      /\ rest.names = Tail(l.names) /\ rest.req = l.req
  BY <1>1 DEF FieldsOK, Fields
<1>3. l.call \in Ready \cup {"open", "mkdir", "reopen", "from", "into"}
  BY DEF FieldsOK, Ready, Adding
<1>4. rest.names # <<>> \/ rest.call \in Ready => LocalOK(rest)
  BY <1>2, WrittenRows, ShutIsOK
<1>5. CASE l.call \in {"from", "into"} /\ (last \/ ~found)
  <2>1. Shut(l.todo)
    BY WrittenRows
  <2> QED
    BY <1>5, <2>1, ResolvedOK DEF Scanned
<1>6. CASE l.call \in {"open", "mkdir"} /\ last
  <2>1. CASE found
    <3> DEFINE m == [l EXCEPT !.ok = l.call = "open"]
    <3>1. Scanned(l, found, n) = m
      BY <1>6, <2>1 DEF Scanned
    <3>2. FieldsOK(m) /\ m.todo = <<"back">>
      BY DEF FieldsOK, Fields
    <3> QED
      BY <3>1, <3>2, WrittenRows, ShutIsOK
  <2>2. CASE ~found
    <3> DEFINE s == Creation(l.call, l.copy)
               m == [l EXCEPT !.todo = s]
    <3>1. Scanned(l, found, n) = m
      BY <1>6, <2>2 DEF Scanned
    <3> HIDE DEF s
    <3>2. FieldsOK(m) /\ m.todo = s /\ Named(m.req)
      BY <1>6 DEF FieldsOK, Fields, Adding, Ready
    <3>3. /\ Calm(s) /\ ~EndsInRead(s) /\ Planned(s)
          /\ ~Has(s, "get") /\ ~Has(s, "back_file") /\ s[1] = "find_node"
      BY RowsOfCreation DEF s
    <3> HIDE DEF m
    <3>4. AimedOK(m)
      BY <3>2, <3>3, PlanIsAimed
    <3> QED
      BY <3>1, <3>2, <3>3, <3>4, CalmIsOK
  <2> QED
    BY <2>1, <2>2
<1>7. CASE l.call = "reopen" /\ last
  <2>1. CASE found
    <3> DEFINE m == [rest EXCEPT !.call = "write"]
    <3>1. Scanned(l, found, n) = m
      BY <1>7, <2>1 DEF Scanned
    <3> HIDE DEF rest
    <3>2. FieldsOK(m) /\ m.todo = <<"back", "read">> /\ m.call = "write"
      BY <1>2 DEF FieldsOK, Fields, Adding, Ready
    <3> QED
      BY <3>1, <3>2, WrittenRows, ShutIsOK DEF Ready
  <2>2. CASE ~found
    <3> DEFINE s == Creation("open", l.copy) \o <<"read">>
               m == [l EXCEPT !.names = <<>>, !.call = "write", !.todo = s]
    <3>1. Scanned(l, found, n) = m
      BY <1>7, <2>2 DEF Scanned
    <3> HIDE DEF s
    <3>2. <<>> \in Seq(Name)
      BY EmptySeq
    <3>3. FieldsOK(m) /\ m.todo = s /\ Named(m.req) /\ m.call = "write"
      BY <1>7, <3>2 DEF FieldsOK, Fields, Adding, Ready
    <3>4. /\ Calm(s) /\ Planned(s) /\ ~Has(s, "get") /\ ~Has(s, "back_file")
          /\ s[1] = "find_node"
      <4> DEFINE c == Creation("open", l.copy)
      <4>1. /\ Calm(c) /\ Planned(c) /\ ~Has(c, "get") /\ ~Has(c, "back_file")
            /\ c[1] = "find_node" /\ c # <<>>
        BY RowsOfCreation
      <4> HIDE DEF c
      <4>2. s = c \o <<"read">>
        BY DEF s, c
      <4>3. s[1] = c[1]
        BY <4>1, <4>2, WrittenRows, FirstOfTwo DEF Plain
      <4> QED
        BY <4>1, <4>2, <4>3, WrittenRows, Joined DEF Plain, Free
    <3> HIDE DEF m
    <3>5. AimedOK(m)
      BY <3>3, <3>4, PlanIsAimed
    <3> QED
      BY <3>1, <3>3, <3>4, <3>5, CalmIsOK DEF Ready
  <2> QED
    BY <2>1, <2>2
<1>8. CASE /\ ~(l.call \in {"from", "into"} /\ (last \/ ~found))
           /\ ~(l.call \in {"open", "mkdir", "reopen"} /\ last)
  <2>1. CASE found \/ l.call = "reopen"
    <3>1. Scanned(l, found, n) = rest
      BY <1>8, <2>1, Zenon DEF Scanned
    <3>2. ~last \/ l.call \in Ready
      BY <1>3, <1>8, <2>1
    <3> HIDE DEF rest, last
    <3> QED
      BY <1>1, <1>2, <1>4, <3>1, <3>2
  <2>2. CASE ~found /\ l.call # "reopen"
    <3>1. Scanned(l, found, n) = Refuse(l)
      BY <1>8, <2>2 DEF Scanned
    <3> QED
      BY <3>1, RefuseOK
  <2> QED
    BY <2>1, <2>2
<1> QED
  BY <1>5, <1>6, <1>7, <1>8

-----------------------------------------------------------------------------
(***************************************************************************)
(* One step of a thread.                                                   *)
(***************************************************************************)

\* What the layout makes of the sets of blocks and nodes.
LEMMA Numbers ==
    /\ 0 \in NodeNum /\ NodeNum \subseteq Nat /\ 0 \in Block /\ 0 \in Slot
    /\ NodeBlock \subseteq Nat /\ NodeBlock \subseteq Block
    /\ DataBlock \subseteq Nat /\ DataBlock \subseteq Block
    /\ \A b \in NodeBlock : b - NODE_TABLE_INITIAL_BLOCK \in NodeNum
    /\ \A n \in Nat : get_block_num_from_node_num(n) \in Nat
  BY LayoutAssumption
     DEF NodeNum, Block, Slot, NodeBlock, DataBlock, DATA_INITIAL_BLOCK,
         NODE_TABLE_INITIAL_BLOCK, BITMAP_INITIAL_BLOCK, get_block_num_from_node_num

LEMMA IdleOK == LocalOK(Idle)
<1>1. NoNode \in t_node
  <2>1. 0 \in 0 .. 2 /\ 0 \in Nat
    OBVIOUS
  <2> QED
    BY <2>1 DEF NoNode, t_node
<1>2. <<>> \in Seq(Name)
  BY EmptySeq
<1>3. /\ DOMAIN Idle = Fields /\ DOMAIN Idle.req = {"op", "path", "to", "end"}
      /\ Idle.req.path = <<>> /\ Idle.req.to = <<>> /\ Idle.req.end = 0
      /\ Idle.copy = NoNode /\ Idle.file = NoNode /\ Idle.own = 0 /\ Idle.new = 0
      /\ Idle.data = 0 /\ Idle.bit = 0 /\ Idle.byte = {} /\ Idle.names = <<>>
      /\ Idle.call = "none" /\ Idle.todo = <<>>
  BY DEF Idle, Fields
<1>4. FieldsOK(Idle)
  BY <1>1, <1>2, <1>3, Numbers DEF FieldsOK, Adding
<1> QED
  BY <1>3, <1>4, WrittenRows, ShutIsOK

\* The file of a request goes with its directory.
LEMMA FollowedOK ==
    ASSUME NEW l, LocalOK(l), NEW r, r.path \in Seq(Name), r.to \in Seq(Name)
    PROVE  LocalOK(Followed(l, r))
<1> DEFINE q == SubSeq(l.req.path, Len(r.path) + 1, Len(l.req.path))
           m == [l EXCEPT !.req.path = r.to \o q]
<1>1. CASE ~(l.req.op \in {"read", "write"} /\ r.op = "rename" /\ Under(l.req.path, r.path))
  BY <1>1 DEF Followed
<1>2. CASE l.req.op \in {"read", "write"} /\ r.op = "rename" /\ Under(l.req.path, r.path)
  <2>1. Followed(l, r) = m
    BY <1>2 DEF Followed
  <2>2. r.to \o q \in Seq(Name)
    <3>1. l.req.path \in Seq(Name)
      BY DEF LocalOK, FieldsOK
    <3>2. /\ Len(r.path) \in Nat /\ Len(l.req.path) \in Nat
          /\ \A i \in Len(r.path) + 1 .. Len(l.req.path) : l.req.path[i] \in Name
      BY <3>1, LenProperties, ElementOfSeq
    <3>3. q \in Seq(Name)
      BY <3>2, SubSeqProperties
    <3> QED
      BY <3>3, ConcatProperties
  <2> HIDE DEF q
  <2>3. ~Named(l.req)
    BY <1>2 DEF Named
  <2>4. l.call \notin Adding /\ ~Adds(l.todo)
    BY <2>3 DEF LocalOK, FieldsOK, StepsOK
  <2>5. FieldsOK(m)
    BY <2>2, <2>4 DEF LocalOK, FieldsOK, Fields
  <2>6. StepsOK(m)
    <3>1. m.todo = l.todo /\ m.copy = l.copy /\ m.names = l.names /\ m.call = l.call
      BY DEF LocalOK, FieldsOK, Fields
    <3> HIDE DEF m
    <3> QED
      BY <2>4, <3>1 DEF LocalOK, StepsOK
  <2>7. AimedOK(m)
    <3>1. /\ m.todo = l.todo /\ m.copy = l.copy /\ m.bit = l.bit /\ m.new = l.new
          /\ m.n = l.n /\ m.data = l.data /\ m.call = l.call
      BY DEF LocalOK, FieldsOK, Fields
    <3> HIDE DEF m
    <3> QED
      BY <3>1 DEF LocalOK, AimedOK
  <2> QED
    BY <2>1, <2>5, <2>6, <2>7 DEF LocalOK
<1> QED
  BY <1>1, <1>2

\* A thread goes on or has answered.
LEMMA GoesOK ==
    ASSUME ParallelInv, NEW t \in Thread, NEW l, LocalOK(l), Goes(t, l)
    PROVE  DOMAIN thread' = Thread /\ \A u \in Thread : LocalOK(thread'[u])
<1>1. CASE l.todo # <<>>
  <2>1. thread' = [thread EXCEPT ![t] = l]
    BY <1>1 DEF Goes
  <2> QED
    BY <2>1 DEF ParallelInv
<1>2. CASE l.todo = <<>>
  <2>1. thread' = [u \in Thread |-> IF u = t THEN Idle ELSE Followed(thread[u], l.req)]
    BY <1>2 DEF Goes
  <2>2. l.req.path \in Seq(Name) /\ l.req.to \in Seq(Name)
    BY DEF LocalOK, FieldsOK
  <2>3. ASSUME NEW u \in Thread PROVE LocalOK(thread'[u])
    <3>1. CASE u = t
      BY <2>1, <3>1, IdleOK
    <3>2. CASE u # t
      <4>1. LocalOK(Followed(thread[u], l.req))
        BY <2>2, FollowedOK DEF ParallelInv
      <4> QED
        BY <2>1, <3>2, <4>1
    <3> QED
      BY <3>1, <3>2
  <2> QED
    BY <2>1, <2>3
<1> QED
  BY <1>1, <1>2

\* What is stored is the next disk.
LEMMA StoredOK ==
    ASSUME NEW k, DiskOK(k), Store(k)
    PROVE  DiskOK(fs')
  BY DEF DiskOK, Store, fs

LEMMA StepOK ==
    ASSUME ParallelInv, NEW t \in Thread
    PROVE  /\ \A k, l : DiskOK(k) /\ Store(k) /\ LocalOK(l) /\ Goes(t, l) => ParallelInv'
           /\ \A l : UNCHANGED vars /\ LocalOK(l) /\ Goes(t, l) => ParallelInv'
           /\ Store(Wild(fs)) /\ Goes(t, thread[t]) => ParallelInv'
           /\ Store(Exit(fs)) /\ Goes(t, thread[t]) => ParallelInv'
<1>1. ASSUME NEW k, NEW l, DiskOK(k), Store(k), LocalOK(l), Goes(t, l) PROVE ParallelInv'
  BY <1>1, StoredOK, GoesOK DEF ParallelInv
<1>2. ASSUME NEW l, UNCHANGED vars, LocalOK(l), Goes(t, l) PROVE ParallelInv'
  <2>1. DiskOK(fs')
    BY <1>2 DEF ParallelInv, vars, fs, DiskOK
  <2> QED
    BY <1>2, <2>1, GoesOK DEF ParallelInv
<1>3. DiskOK(Wild(fs)) /\ DiskOK(Exit(fs)) /\ LocalOK(thread[t])
  BY DEF ParallelInv, DiskOK, Wild, Exit, fs
<1> QED
  BY <1>1, <1>2, <1>3

\* What a step that changes only the row leaves.
LEMMA DoneFields ==
    ASSUME ParallelInv, NEW t \in Thread
    PROVE  /\ Done(t).todo = Tail(thread[t].todo) /\ Done(t).req = thread[t].req
           /\ Done(t).names = thread[t].names /\ Done(t).call = thread[t].call
           /\ Done(t).copy = thread[t].copy /\ Done(t).n = thread[t].n
           /\ Done(t).new = thread[t].new
  BY DEF ParallelInv, LocalOK, FieldsOK, Fields, Done

\* The local variables after a step that changes only the row.
LEMMA DoneOK ==
    ASSUME ParallelInv, NEW t \in Thread, thread[t].todo # <<>>
    PROVE  /\ FieldsOK(Done(t)) /\ Calm(Done(t).todo)
           /\ thread[t].todo[1] \notin Finds => LocalOK(Done(t))
           /\ Adds(Done(t).todo) => Named(Done(t).req)
           /\ EndsInRead(Done(t).todo) => Done(t).names # <<>> \/ Done(t).call \in Ready
<1> DEFINE l == thread[t]
           m == Done(t)
<1>1. LocalOK(l) /\ l.todo # <<>>
  BY DEF ParallelInv
<1>2. m = [l EXCEPT !.todo = Tail(@)]
  BY DEF Done
<1> HIDE DEF l, m
<1>3. /\ FieldsOK(m) /\ m.todo = Tail(l.todo) /\ m.req = l.req /\ m.names = l.names
      /\ m.call = l.call /\ m.copy = l.copy /\ m.n = l.n /\ m.new = l.new
  BY <1>1, <1>2 DEF LocalOK, FieldsOK, Fields
<1>4. /\ Calm(m.todo)
      /\ Adds(m.todo) => Named(m.req)
      /\ EndsInRead(m.todo) => m.names # <<>> \/ m.call \in Ready
  BY <1>1, <1>3, RestOfRow
<1>5. ASSUME l.todo[1] \notin Finds PROVE LocalOK(m)
  <2>1. AimedOK(m)
    BY <1>1, <1>3, <1>5, RestAimed DEF Finds
  <2> QED
    BY <1>3, <1>4, <2>1, CalmIsOK
<1> QED
  BY <1>3, <1>4, <1>5 DEF m, l

\* The local variables after a step that leaves the row's needs alone.
LEMMA DoneWith ==
    ASSUME ParallelInv, NEW t \in Thread, thread[t].todo # <<>>, NEW l, FieldsOK(l),
           l.todo = Done(t).todo, l.req = Done(t).req, l.names = Done(t).names,
           l.call = Done(t).call, thread[t].todo[1] \notin Finds \cup {"set"},
           thread[t].todo[1] = "get" \/ (l.n = Done(t).n /\ l.new = Done(t).new)
    PROVE  LocalOK(l)
<1>1. LocalOK(thread[t])
  BY DEF ParallelInv
<1>2. AimedOK(l)
  BY <1>1, DoneFields, RestAimed DEF Finds
<1> QED
  BY <1>2, DoneOK, CalmIsOK

\* read_node keeps the types.
LEMMA ReadNodeOK ==
    ASSUME ParallelInv, NEW t \in Thread, ReadNode(t) PROVE ParallelInv'
<1> DEFINE n == thread[t].next
           d == Done(t)
           l == [d EXCEPT !.own = n, !.copy = node[n]]
<1>0. thread[t].todo # <<>>
  BY DEF ReadNode, Doing
<1>1. CASE n \notin NodeNum
  BY <1>1, StepOK DEF ReadNode
<1>2. CASE n \in NodeNum
  <2>1. node[n] \in t_node
    BY <1>2 DEF ParallelInv, DiskOK, fs
  <2>2. /\ FieldsOK(d) /\ Calm(d.todo)
        /\ Adds(d.todo) => Named(d.req)
        /\ EndsInRead(d.todo) => d.names # <<>> \/ d.call \in Ready
    BY <1>0, DoneOK
  <2>3. Goes(t, IF l.todo # <<>> THEN l ELSE Continue(l, node[n])) /\ UNCHANGED vars
    BY <1>2 DEF ReadNode
  <2>4. d.todo = <<>> => d.names # <<>> \/ d.call \in Ready
    <3>1. CASE d.todo = <<>>
      <4>1. /\ thread[t].todo # <<>> /\ LocalOK(thread[t]) /\ thread[t].todo[1] = "read"
        BY HeadOfRow DEF ReadNode, ParallelInv
      <4>2. Len(thread[t].todo) = 1
        <5>1. d.todo = Tail(thread[t].todo)
          BY DEF Done, ParallelInv, LocalOK, FieldsOK, Fields
        <5>2. /\ Len(Tail(thread[t].todo)) = Len(thread[t].todo) - 1
              /\ Len(thread[t].todo) \in Nat
          BY <4>1, HeadTailProperties, LenProperties DEF LocalOK, StepsOK
        <5>3. Len(Tail(thread[t].todo)) = 0
          <6>1. Len(<<>>) = 0
            OBVIOUS
          <6> QED
            BY <3>1, <5>1, <6>1, Zenon
        <5> QED
          BY <5>2, <5>3
      <4>3. EndsInRead(thread[t].todo)
        BY <4>1, <4>2 DEF EndsInRead
      <4>4. d.names = thread[t].names /\ d.call = thread[t].call
        BY DEF Done, ParallelInv, LocalOK, FieldsOK, Fields
      <4> QED
        BY <4>1, <4>3, <4>4 DEF LocalOK, StepsOK
    <3> QED
      BY <3>1
  <2> HIDE DEF d
  <2>5. FieldsOK(l) /\ l.todo = d.todo /\ l.names = d.names /\ l.call = d.call /\ l.req = d.req
    BY <1>2, <2>1, <2>2 DEF LocalOK, FieldsOK, Fields
  <2> HIDE DEF l
  <2>6. CASE d.todo # <<>>
    <3>1. thread[t].todo[1] = "read"
      BY HeadOfRow DEF ReadNode, ParallelInv
    <3>2. l.n = d.n /\ l.new = d.new
      BY <2>2 DEF FieldsOK, Fields, l
    <3>3. LocalOK(l)
      BY <1>0, <2>5, <3>1, <3>2, DoneWith DEF d, Finds
    <3> QED
      BY <2>3, <2>5, <2>6, <3>3, StepOK
  <2>7. CASE d.todo = <<>>
    <3>1. LocalOK(Continue(l, node[n]))
      BY <2>1, <2>4, <2>5, <2>7, ContinueOK
    <3> QED
      BY <2>3, <2>5, <2>7, <3>1, StepOK
  <2> QED
    BY <2>6, <2>7
<1> QED
  BY <1>1, <1>2

\* A node with another size or pointer.
LEMMA NodeWith ==
    ASSUME NEW nd \in t_node, NEW n \in Nat
    PROVE  /\ [nd EXCEPT !.file_size = n] \in t_node
           /\ [nd EXCEPT !.indirect_pointer_block = n] \in t_node
           /\ [nd EXCEPT !.file_size = n, !.indirect_pointer_block = 0] \in t_node
  BY DEF t_node

\* An entry that a scan has found lies in the directory's data block.
LEMMA HitIsEntry ==
    ASSUME ParallelInv, NEW nd \in t_node, NEW name, Hits(fs, nd, name) # {}, ~Strays(nd, TRUE)
    PROVE  /\ DataOf(fs, nd) \in DataBlock /\ nd.file_size > 0
           /\ fs.block[DataOf(fs, nd)][Least(Hits(fs, nd, name))].node_num \in Nat
<1>1. nd.state # 0 /\ nd.indirect_pointer_block # 0 /\ nd.file_size > 0
  <2>1. PICK i \in Places(nd) : TRUE
    BY DEF Hits
  <2> QED
    BY <2>1 DEF Places, t_node
<1>2. DataOf(fs, nd) \in DataBlock
  BY <1>1 DEF Strays
<1>3. Least(Hits(fs, nd, name)) \in Slot
  <2>1. Hits(fs, nd, name) \subseteq Slot /\ Slot \subseteq Nat
    BY DEF Hits, Slot
  <2> QED
    BY <2>1, LeastExists
<1>4. fs.block[DataOf(fs, nd)][Least(Hits(fs, nd, name))] \in t_dir_entry
  BY <1>2, <1>3 DEF ParallelInv, DiskOK
<1> QED
  BY <1>1, <1>2, <1>4 DEF t_dir_entry

\* A look-up keeps the types.
LEMMA ScanFolderOK ==
    ASSUME ParallelInv, NEW t \in Thread, ScanFolder(t) PROVE ParallelInv'
<1> DEFINE l     == thread[t]
           hits  == Hits(fs, l.copy, Head(l.names))
           found == hits # {}
           h     == fs.block[DataOf(fs, l.copy)][Least(hits)].node_num
           n     == IF found THEN h ELSE None
           m     == [l EXCEPT !.todo = <<"back">>]
<1>1. LocalOK(l) /\ l.todo # <<>> /\ l.todo[1] = "scan"
  BY HeadOfRow DEF ScanFolder, ParallelInv
<1>2. CASE Strays(l.copy, found) \/ (l.call = "readdir" /\ ~found)
  BY <1>2, StepOK DEF ScanFolder
<1>3. CASE ~(Strays(l.copy, found) \/ (l.call = "readdir" /\ ~found))
  <2>1. Goes(t, Scanned(m, found, n)) /\ UNCHANGED vars
    BY <1>3 DEF ScanFolder
  <2>2. n \in Nat \cup {None}
    <3>1. CASE found
      <4>1. l.copy \in t_node /\ ~Strays(l.copy, TRUE)
        BY <1>1, <1>3, <3>1 DEF LocalOK, FieldsOK
      <4>2. h \in Nat
        BY <3>1, <4>1, HitIsEntry
      <4> QED
        BY <3>1, <4>2
    <3>2. CASE ~found
      BY <3>2
    <3> QED
      BY <3>1, <3>2
  <2> HIDE DEF l, hits, n
  <2>3. FieldsOK(m) /\ m.todo = <<"back">> /\ m.names # <<>>
    BY <1>1 DEF LocalOK, FieldsOK, StepsOK, Fields
  <2> HIDE DEF m, found
  <2>4. found \in BOOLEAN
    BY DEF found
  <2>5. LocalOK(Scanned(m, found, n))
    BY <2>2, <2>3, <2>4, ScannedOK
  <2> QED
    BY <2>1, <2>5, StepOK
<1> QED
  BY <1>2, <1>3

\* The writes of nodes keep the types.
LEMMA WriteBackOK ==
    ASSUME ParallelInv, NEW t \in Thread, WriteBack(t) PROVE ParallelInv'
<1> DEFINE k == [fs EXCEPT !.node[thread[t].own] = thread[t].copy]
<1>0. thread[t].todo # <<>> /\ thread[t].todo[1] = "back"
  BY HeadOfRow DEF WriteBack, ParallelInv
<1>1. Store(k) /\ Goes(t, Done(t))
  BY DEF WriteBack
<1>2. DiskOK(k)
  BY DEF ParallelInv, LocalOK, FieldsOK, DiskOK, fs
<1> QED
  BY <1>0, <1>1, <1>2, DoneOK, StepOK DEF Finds

LEMMA WriteBackFileOK ==
    ASSUME ParallelInv, NEW t \in Thread, WriteBackFile(t) PROVE ParallelInv'
<1> DEFINE k == [fs EXCEPT !.node[thread[t].n] = thread[t].file]
<1>0. thread[t].todo # <<>> /\ thread[t].todo[1] = "back_file"
  BY HeadOfRow DEF WriteBackFile, ParallelInv
<1>1. Store(k) /\ Goes(t, Done(t))
  BY DEF WriteBackFile
<1>2. DiskOK(k)
  BY DEF ParallelInv, LocalOK, FieldsOK, DiskOK, fs
<1> QED
  BY <1>0, <1>1, <1>2, DoneOK, StepOK DEF Finds

LEMMA SaveNodeOK ==
    ASSUME ParallelInv, NEW t \in Thread, SaveNode(t) PROVE ParallelInv'
<1> DEFINE x == create_node(IF thread[t].req.op = "mkdir" THEN 2 ELSE 1, thread[t].own)
           k == [fs EXCEPT !.node[thread[t].new] = x]
<1>0. thread[t].todo # <<>> /\ thread[t].todo[1] = "save"
  BY HeadOfRow DEF SaveNode, ParallelInv
<1>1. Store(k) /\ Goes(t, Done(t))
  BY DEF SaveNode
<1>2. x \in t_node
  <2>1. get_block_num_from_node_num(thread[t].own) \in Nat
    BY Numbers DEF ParallelInv, LocalOK, FieldsOK
  <2> QED
    BY <2>1 DEF create_node, t_node
<1> HIDE DEF x
<1>3. DiskOK(k)
  BY <1>2 DEF ParallelInv, DiskOK, fs
<1> QED
  BY <1>0, <1>1, <1>3, DoneOK, StepOK DEF Finds

\* The write of an entry keeps the types: it has a name, and the size stays
\* a number.
LEMMA WriteEntryOK ==
    ASSUME ParallelInv, NEW t \in Thread, WriteEntry(t) PROVE ParallelInv'
<1> DEFINE l == thread[t]
           q == IF l.data # 0 THEN l.data ELSE DataOf(fs, l.copy)
           i == l.copy.file_size
           path == IF l.req.op = "rename" THEN l.req.to ELSE l.req.path
           e == [node_num |-> l.new, name |-> NameIn(path)]
           k == [fs EXCEPT !.block[q][i] = e]
           d == Done(t)
           m == [d EXCEPT !.copy.file_size = i + 1]
<1>1. LocalOK(l) /\ l.todo # <<>> /\ l.todo[1] = "enter"
  BY HeadOfRow DEF WriteEntry, ParallelInv
<1>2. CASE i >= DIR_ENTRIES \/ q \notin DataBlock
  BY <1>2, StepOK DEF WriteEntry
<1>3. CASE ~(i >= DIR_ENTRIES \/ q \notin DataBlock)
  <2>1. Store(k) /\ Goes(t, m)
    BY <1>3 DEF WriteEntry
  <2>2. e \in t_dir_entry
    <3>1. 1 \in 1 .. Len(l.todo)
      BY <1>1, EmptySeq DEF LocalOK, StepsOK
    <3>2. NameIn(path) \in Name
      BY <1>1, <3>1 DEF LocalOK, StepsOK, Adds, Named
    <3>3. l.new \in Nat
      BY <1>1 DEF LocalOK, FieldsOK
    <3> HIDE DEF path, l
    <3> QED
      BY <3>2, <3>3 DEF t_dir_entry
  <2>3. DiskOK(k)
    <3> HIDE DEF e, q, i
    <3> QED
      BY <2>2 DEF ParallelInv, DiskOK, fs
  <2>4. d.copy = l.copy /\ FieldsOK(d)
    <3> HIDE DEF m, k, e, q, i, path
    <3> QED
      BY <1>1, DoneOK, DoneFields
  <2>5. [l.copy EXCEPT !.file_size = i + 1] \in t_node
    <3> HIDE DEF m, k, e, q, path, d, l
    <3>1. l.copy \in t_node
      BY <1>1 DEF LocalOK, FieldsOK
    <3>2. i + 1 \in Nat
      BY <3>1 DEF t_node
    <3> HIDE DEF i
    <3> QED
      BY <3>1, <3>2, NodeWith
  <2> HIDE DEF d, l, k
  <2>6. /\ FieldsOK(m) /\ m.todo = d.todo /\ m.req = d.req /\ m.names = d.names
        /\ m.call = d.call /\ m.n = d.n /\ m.new = d.new
    BY <2>4, <2>5 DEF LocalOK, FieldsOK, Fields
  <2>7. LocalOK(m)
    <3> HIDE DEF m
    <3> QED
      BY <1>1, <2>6, DoneWith DEF d, l, Finds
  <2> QED
    BY <2>1, <2>3, <2>7, StepOK
<1> QED
  BY <1>2, <1>3

\* The list of a directory changes nothing on the disk.
LEMMA ListEntriesOK ==
    ASSUME ParallelInv, NEW t \in Thread, ListEntries(t) PROVE ParallelInv'
<1> DEFINE l    == thread[t]
           nd   == l.copy
           list == l.list \o [i \in 1 .. Cardinality(Places(nd)) |->
                                 fs.block[DataOf(fs, nd)][i - 1].node_num]
           more == l.at < Len(list)
           d    == Done(t)
           names == {fs.block[DataOf(fs, nd)][i].name : i \in Places(nd)}
           call == IF more THEN d.call ELSE "delete"
           at   == IF more THEN d.at + 1 ELSE 1
           next == list[IF more THEN l.at + 1 ELSE 1]
           m    == [d EXCEPT !.list = list, !.call = call, !.at = at, !.next = next]
           r    == [d EXCEPT !.listed = names]
<1>1. LocalOK(l) /\ l.todo # <<>> /\ l.todo[1] = "list"
  BY HeadOfRow DEF ListEntries, ParallelInv
<1>2. CASE Strays(nd, FALSE)
  BY <1>2, StepOK DEF ListEntries
<1>3. CASE ~Strays(nd, FALSE)
  <2>1. Goes(t, IF l.call = "readdir" THEN r ELSE m) /\ UNCHANGED vars
    BY <1>3 DEF ListEntries
  <2>2. FieldsOK(d) /\ d.call = l.call
    BY <1>1, DoneOK DEF Done, LocalOK, FieldsOK, Fields
  <2>3. call \in {d.call, "delete"}
    BY Zenon
  <2> HIDE DEF d, names, list, more, call, at, next, l
  <2>4. LocalOK(r)
    <3>1. /\ FieldsOK(r) /\ r.todo = d.todo /\ r.req = d.req /\ r.names = d.names
          /\ r.call = d.call /\ r.n = d.n /\ r.new = d.new
      BY <2>2 DEF LocalOK, FieldsOK, Fields
    <3> HIDE DEF r
    <3> QED
      BY <1>1, <3>1, DoneWith DEF d, l, Finds
  <2>5. LocalOK(m)
    <3>1. /\ m.todo = d.todo /\ m.req = d.req /\ m.names = d.names /\ m.call = call
          /\ m.copy = d.copy /\ m.n = d.n /\ m.new = d.new
      BY <2>2 DEF LocalOK, FieldsOK, Fields
    <3>2. FieldsOK(m)
      BY <2>2, <2>3 DEF LocalOK, FieldsOK, Fields, Ready, Adding
    <3> HIDE DEF m
    <3>3. CASE call = d.call
      BY <1>1, <3>1, <3>2, <3>3, DoneWith DEF d, l, Finds
    <3>4. CASE call = "delete"
      <4>1. Calm(m.todo) /\ m.call \in Ready /\ (Adds(m.todo) => Named(m.req))
        BY <1>1, <3>1, <3>4, DoneOK DEF d, l, Ready
      <4>2. /\ d.todo = Tail(l.todo) /\ d.copy = l.copy /\ d.n = l.n /\ d.new = l.new
        BY DoneFields DEF d, l
      <4>3. AimedOK(m)
        BY <1>1, <3>1, <3>4, <4>2, RestAimed DEF Finds
      <4> QED
        BY <3>2, <4>1, <4>3, CalmIsOK
    <3> QED
      BY <2>3, <3>3, <3>4
  <2> QED
    BY <2>1, <2>4, <2>5, StepOK
<1> QED
  BY <1>2, <1>3

\* The look for a free block.
LEMMA FindFreeOK ==
    ASSUME ParallelInv, NEW t \in Thread, NEW step, NEW region,
           \/ step = "find_node" /\ region = NodeBlock
           \/ step \in {"find_pointers", "find_data"} /\ region = DataBlock,
           FindFree(t, step, region)
    PROVE  ParallelInv'
<1> DEFINE b == get_free_block(bitmap, region)
           d == Done(t)
           l == Look(d, b)
           x == [l EXCEPT !.new = b - NODE_TABLE_INITIAL_BLOCK,
                          !.next = b - NODE_TABLE_INITIAL_BLOCK]
           y == [l EXCEPT !.copy.indirect_pointer_block = b]
           z == [l EXCEPT !.data = b]
           u == thread[t]
<1>0. LocalOK(u) /\ u.todo # <<>> /\ u.todo[1] = step
  BY HeadOfRow DEF FindFree, ParallelInv
<1>1. CASE FreeBlocks(bitmap, region) = {}
  BY <1>1, StepOK DEF FindFree
<1>2. CASE FreeBlocks(bitmap, region) # {}
  <2>1. b \in region
    BY <1>2, FreeBlockIsFree, Numbers
  <2>2. /\ UNCHANGED vars
        /\ \/ Goes(t, x) /\ step = "find_node"
           \/ Goes(t, y) /\ step = "find_pointers"
           \/ Goes(t, z) /\ step = "find_data"
    BY <1>2 DEF FindFree
  <2>3. /\ FieldsOK(d) /\ Calm(d.todo)
        /\ Adds(d.todo) => Named(d.req)
        /\ EndsInRead(d.todo) => d.names # <<>> \/ d.call \in Ready
        /\ d.todo = Tail(u.todo) /\ d.call = u.call /\ d.copy = u.copy
        /\ d.n = u.n /\ d.new = u.new
    BY <1>0, DoneOK, DoneFields
  <2>4. /\ b \in Block /\ b \in Nat /\ b \in Reserved
        /\ bitmap \cap ByteOf(b) \subseteq Block
    BY <2>1, Numbers DEF ByteOf, Reserved
  <2> HIDE DEF b, d, u
  <2>5. /\ FieldsOK(l) /\ l.todo = d.todo /\ l.req = d.req /\ l.names = d.names
        /\ l.call = d.call /\ l.copy = d.copy /\ l.n = d.n /\ l.new = d.new /\ l.bit = b
    BY <2>3, <2>4 DEF FieldsOK, Fields, Look
  <2> HIDE DEF l
  <2>6. ASSUME step = "find_node" PROVE LocalOK(x)
    <3>1. b - NODE_TABLE_INITIAL_BLOCK \in NodeNum /\ NodeNum \subseteq Nat
      BY <2>1, <2>6, Numbers
    <3>2. /\ FieldsOK(x) /\ x.todo = d.todo /\ x.req = d.req /\ x.names = d.names
          /\ x.call = d.call /\ x.n = d.n /\ x.bit = b
          /\ x.new = b - NODE_TABLE_INITIAL_BLOCK
      BY <2>5, <3>1 DEF FieldsOK, Fields
    <3> HIDE DEF x
    <3>3. AimedOK(x)
      BY <1>0, <2>3, <2>4, <2>6, <3>1, <3>2, RestAimed
    <3> QED
      BY <2>3, <3>2, <3>3, CalmIsOK
  <2>7. ASSUME step = "find_pointers" PROVE LocalOK(y)
    <3>1. [l.copy EXCEPT !.indirect_pointer_block = b] \in t_node
      BY <2>4, <2>5, NodeWith DEF FieldsOK
    <3>2. /\ FieldsOK(y) /\ y.todo = d.todo /\ y.req = d.req /\ y.names = d.names
          /\ y.call = d.call /\ y.n = d.n /\ y.new = d.new /\ y.bit = b
      BY <2>5, <3>1 DEF FieldsOK, Fields
    <3>3. y.copy.indirect_pointer_block = b /\ b \in DataBlock
      BY <2>1, <2>5, <2>7 DEF FieldsOK, Fields, t_node
    <3> HIDE DEF y
    <3>4. AimedOK(y)
      BY <1>0, <2>3, <2>4, <2>7, <3>2, <3>3, RestAimed
    <3> QED
      BY <2>3, <3>2, <3>4, CalmIsOK
  <2>8. ASSUME step = "find_data" PROVE LocalOK(z)
    <3>1. /\ FieldsOK(z) /\ z.todo = d.todo /\ z.req = d.req /\ z.names = d.names
          /\ z.call = d.call /\ z.copy = d.copy /\ z.n = d.n /\ z.new = d.new /\ z.bit = b
      BY <2>4, <2>5 DEF FieldsOK, Fields
    <3> HIDE DEF z
    <3>2. AimedOK(z)
      BY <1>0, <2>3, <2>4, <2>8, <3>1, RestAimed
    <3> QED
      BY <2>3, <3>1, <3>2, CalmIsOK
  <2> HIDE DEF x, y, z
  <2> QED
    BY <2>2, <2>6, <2>7, <2>8, StepOK
<1> QED
  BY <1>1, <1>2

\* The writes of a byte of the bitmap set and clear no bit beyond the disk.
LEMMA SetBitOK ==
    ASSUME ParallelInv, NEW t \in Thread, SetBit(t) PROVE ParallelInv'
<1> DEFINE l == thread[t]
           k == [fs EXCEPT !.bitmap = (@ \ ByteOf(l.bit)) \cup l.byte \cup {l.bit}]
<1>0. thread[t].todo # <<>> /\ thread[t].todo[1] = "set"
  BY HeadOfRow DEF SetBit, ParallelInv
<1>1. Store(k) /\ Goes(t, Done(t))
  BY DEF SetBit
<1>2. DiskOK(k)
  BY DEF ParallelInv, LocalOK, FieldsOK, DiskOK, fs
<1> QED
  BY <1>0, <1>1, <1>2, DoneOK, StepOK DEF Finds

LEMMA ClearBitOK ==
    ASSUME ParallelInv, NEW t \in Thread, ClearBit(t) PROVE ParallelInv'
<1> DEFINE l == thread[t]
           k == [fs EXCEPT !.bitmap = (@ \ ByteOf(l.bit)) \cup (l.byte \ {l.bit})]
<1>0. thread[t].todo # <<>> /\ thread[t].todo[1] = "clear"
  BY HeadOfRow DEF ClearBit, ParallelInv
<1>1. Store(k) /\ Goes(t, Done(t))
  BY DEF ClearBit
<1>2. DiskOK(k)
  BY DEF ParallelInv, LocalOK, FieldsOK, DiskOK, fs
<1> QED
  BY <1>0, <1>1, <1>2, DoneOK, StepOK DEF Finds

LEMMA LookAtOK ==
    ASSUME ParallelInv, NEW t \in Thread, NEW step \in {"look_data", "look_pointers", "look_node"},
           NEW b, LookAt(t, step, b)
    PROVE  ParallelInv'
<1> DEFINE d == Done(t)
           l == Look(d, b)
<1>0. thread[t].todo # <<>> /\ thread[t].todo[1] = step
  BY HeadOfRow DEF LookAt, ParallelInv
<1>1. CASE b \notin Block
  BY <1>1, StepOK DEF LookAt
<1>2. CASE b \in Block
  <2>1. Goes(t, l) /\ UNCHANGED vars
    BY <1>2 DEF LookAt
  <2>2. FieldsOK(d)
    BY <1>0, DoneOK
  <2>3. bitmap \cap ByteOf(b) \subseteq Block
    BY DEF ByteOf
  <2> HIDE DEF d
  <2>4. /\ FieldsOK(l) /\ l.todo = d.todo /\ l.req = d.req /\ l.names = d.names
        /\ l.call = d.call /\ l.n = d.n /\ l.new = d.new
    BY <1>2, <2>2, <2>3 DEF LocalOK, FieldsOK, Fields, Look
  <2> HIDE DEF l
  <2>5. LocalOK(l)
    BY <1>0, <2>4, DoneWith DEF d, Finds
  <2> QED
    BY <2>1, <2>5, StepOK
<1> QED
  BY <1>1, <1>2

\* The write of a pointer.
LEMMA LinkDataOK ==
    ASSUME ParallelInv, NEW t \in Thread, LinkData(t) PROVE ParallelInv'
<1> DEFINE l == thread[t]
           q == l.copy.indirect_pointer_block
           k == [fs EXCEPT !.block[q][0].node_num = l.data]
<1>0. thread[t].todo # <<>> /\ thread[t].todo[1] = "link"
  BY HeadOfRow DEF LinkData, ParallelInv
<1>1. Store(k) /\ Goes(t, Done(t))
  BY DEF LinkData
<1>2. DiskOK(k)
  <2>1. l.data \in Nat
    BY DEF ParallelInv, LocalOK, FieldsOK
  <2>2. CASE q \notin DataBlock
    <3>1. k = fs
      BY <2>2 DEF ParallelInv, DiskOK, fs
    <3> QED
      BY <3>1 DEF ParallelInv
  <2>3. CASE q \in DataBlock
    <3>1. block[q][0] \in t_dir_entry
      BY <2>3, Numbers DEF ParallelInv, DiskOK, fs
    <3>2. [block[q][0] EXCEPT !.node_num = l.data] \in t_dir_entry
      BY <2>1, <3>1 DEF t_dir_entry
    <3> HIDE DEF l, q
    <3> QED
      BY <2>3, <3>2, Numbers DEF ParallelInv, DiskOK, fs
  <2> QED
    BY <2>2, <2>3
<1> QED
  BY <1>0, <1>1, <1>2, DoneOK, StepOK DEF Finds

\* sac_rename takes the node it moves from an entry.
LEMMA GetEntryOK ==
    ASSUME ParallelInv, NEW t \in Thread, GetEntry(t) PROVE ParallelInv'
<1> DEFINE l     == thread[t]
           hits  == Hits(fs, l.copy, NameIn(l.req.path))
           found == hits # {}
           n     == fs.block[DataOf(fs, l.copy)][Least(hits)].node_num
           d     == Done(t)
           m     == [d EXCEPT !.n = n, !.new = n, !.next = l.into]
<1>1. LocalOK(l) /\ l.todo # <<>> /\ l.todo[1] = "get"
  BY HeadOfRow DEF GetEntry, ParallelInv
<1>2. CASE Strays(l.copy, found) \/ ~found
  BY <1>2, StepOK DEF GetEntry
<1>3. CASE ~(Strays(l.copy, found) \/ ~found)
  <2>1. Goes(t, m) /\ UNCHANGED vars
    BY <1>3 DEF GetEntry
  <2>2. n \in Nat
    <3>1. l.copy \in t_node /\ ~Strays(l.copy, TRUE) /\ found
      BY <1>1, <1>3 DEF LocalOK, FieldsOK
    <3> QED
      BY <3>1, HitIsEntry
  <2>3. FieldsOK(d) /\ d.call # "unlink"
    <3>1. Has(l.todo, "get")
      <4>1. 1 \in 1 .. Len(l.todo)
        BY <1>1, LenProperties, EmptySeq DEF LocalOK, StepsOK
      <4> QED
        BY <1>1, <4>1 DEF Has
    <3> QED
      BY <1>1, <3>1, DoneOK, DoneFields DEF LocalOK, AimedOK
  <2> HIDE DEF n, d, l
  <2>4. /\ FieldsOK(m) /\ m.todo = d.todo /\ m.req = d.req /\ m.names = d.names
        /\ m.call = d.call
    BY <2>2, <2>3 DEF LocalOK, FieldsOK, Fields
  <2> HIDE DEF m
  <2>5. LocalOK(m)
    BY <1>1, <2>4, DoneWith DEF d, l, Finds
  <2> QED
    BY <2>1, <2>5, StepOK
<1> QED
  BY <1>2, <1>3

\* A row whose first step gives way to the removal of the entry is as well
\* aimed as before.
LEMMA MovesLikeScan ==
    ASSUME NEW l, LocalOK(l), l.todo # <<>>, l.todo[1] = "scan_parent", NEW m,
           m.todo[1] = "move", Len(m.todo) = 1 + Len(Tail(l.todo)),
           \A i \in 2 .. Len(m.todo) : m.todo[i] = Tail(l.todo)[i - 1],
           m.data \in DataBlock, m.bit = l.bit, m.new = l.new, m.n = l.n,
           m.copy = l.copy, m.call = l.call
    PROVE  AimedOK(m)
<1> DEFINE s == l.todo
           w == m.todo
<1>1. s \in Seq(Step) /\ s # <<>>
  BY DEF LocalOK, StepsOK
<1>2. /\ Len(s) \in Nat \ {0} /\ Len(w) = Len(s)
      /\ \A i \in 2 .. Len(s) : w[i] = s[i]
  <2>1. Len(s) \in Nat \ {0} /\ Len(Tail(s)) = Len(s) - 1
        /\ \A i \in 1 .. Len(Tail(s)) : Tail(s)[i] = s[i + 1]
    BY <1>1, HeadTailProperties, EmptySeq
  <2> HIDE DEF s, w
  <2>2. Len(w) = 1 + Len(Tail(s)) /\ \A i \in 2 .. Len(w) : w[i] = Tail(s)[i - 1]
    BY DEF s, w
  <2>3. ASSUME NEW i \in 2 .. Len(s) PROVE w[i] = s[i]
    <3>1. i \in 2 .. Len(w) /\ i - 1 \in 1 .. Len(Tail(s)) /\ (i - 1) + 1 = i
      BY <2>1, <2>2
    <3>2. w[i] = Tail(s)[i - 1] /\ Tail(s)[i - 1] = s[(i - 1) + 1]
      BY <2>1, <2>2, <3>1
    <3> QED
      BY <3>1, <3>2
  <2> QED
    BY <2>1, <2>2, <2>3
<1>3. AimedOK(l) /\ s[1] = "scan_parent" /\ w[1] = "move"
  BY DEF LocalOK
<1>4. \A step : step # "move" /\ Has(w, step) => Has(s, step)
  <2>1. ASSUME NEW step, step # "move", NEW i \in 1 .. Len(w), w[i] = step PROVE Has(s, step)
    <3>1. i # 1
      BY <1>3, <2>1
    <3>2. i \in 2 .. Len(s) /\ i \in 1 .. Len(s)
      BY <1>2, <3>1
    <3> QED
      BY <1>2, <2>1, <3>2 DEF Has
  <2> QED
    BY <2>1 DEF Has
<1> HIDE DEF s, w
<1>5. ASSUME NEW i \in 1 .. Len(w), w[i] = "set"
      PROVE  IF i = 1 THEN m.bit \in Reserved ELSE w[i - 1] \in Finds
  <2>1. i # 1 /\ i \in 2 .. Len(s) /\ i \in 1 .. Len(s)
    BY <1>2, <1>3, <1>5
  <2>2. s[i - 1] \in Finds
    BY <1>2, <1>3, <1>5, <2>1 DEF AimedOK, s
  <2>3. i - 1 # 1
    BY <1>3, <2>2 DEF Finds
  <2>4. i - 1 \in 2 .. Len(s)
    BY <1>2, <2>1, <2>3
  <2>5. w[i - 1] = s[i - 1]
    BY <1>2, <2>4
  <2> QED
    BY <2>1, <2>2, <2>5
<1>6. ASSUME NEW i \in 1 .. Len(w), w[i] = "link" PROVE Linking(w, i)
  <2>1. i # 1 /\ i \in 2 .. Len(s) /\ i \in 1 .. Len(s) /\ s[i] = "link"
    BY <1>2, <1>3, <1>6
  <2>2. Linking(s, i)
    <3>1. 1 \in 1 .. i - 1
      BY <2>1
    <3>2. s[1] \notin {"set", "find_data"}
      BY <1>3
    <3> QED
      BY <1>3, <2>1, <3>1, <3>2 DEF AimedOK, s
  <2>3. i > 4 /\ s[i - 4] = "find_pointers"
    BY <2>2 DEF Linking
  <2>4. i - 4 # 1
    BY <1>3, <2>3
  <2>5. /\ i - 4 \in 2 .. Len(s) /\ i - 3 \in 2 .. Len(s)
        /\ i - 2 \in 2 .. Len(s) /\ i - 1 \in 2 .. Len(s)
    BY <1>2, <2>1, <2>3, <2>4
  <2>6. /\ w[i - 4] = s[i - 4] /\ w[i - 3] = s[i - 3]
        /\ w[i - 2] = s[i - 2] /\ w[i - 1] = s[i - 1]
    BY <1>2, <2>5
  <2> QED
    BY <2>2, <2>6 DEF Linking
<1>7. Has(w, "save") => ~Has(w, "get") /\ (m.new \in NodeNum \/ w[1] = "find_node")
  BY <1>3, <1>4 DEF AimedOK, s
<1>8. Has(w, "back_file") => ~Has(w, "get") /\ m.n \in NodeNum
  BY <1>3, <1>4 DEF AimedOK, s
<1>9. Has(w, "get") => m.call # "unlink"
  BY <1>3, <1>4 DEF AimedOK, s
<1> QED
  BY <1>5, <1>6, <1>7, <1>8, <1>9 DEF AimedOK, w

\* An entry that is to go has been found, so the size is not zero.
LEMMA ScanParentOK ==
    ASSUME ParallelInv, NEW t \in Thread, ScanParent(t) PROVE ParallelInv'
<1> DEFINE l     == thread[t]
           hits  == Hits(fs, l.copy, NameIn(l.req.path))
           found == hits # {}
           s     == Tail(l.todo)
           p     == Least(hits)
           q     == DataOf(fs, l.copy)
           m     == [l EXCEPT !.todo = <<"move">> \o s, !.data = q, !.place = p]
<1>1. LocalOK(l) /\ l.todo # <<>> /\ l.todo[1] = "scan_parent"
  BY HeadOfRow DEF ScanParent, ParallelInv
<1>2. CASE Strays(l.copy, found)
  BY <1>2, StepOK DEF ScanParent
<1>3. CASE ~Strays(l.copy, found) /\ ~found
  <2>1. Goes(t, Done(t)) /\ UNCHANGED vars
    BY <1>3 DEF ScanParent
  <2> QED
    BY <1>1, <2>1, DoneOK, StepOK DEF Finds
<1>4. CASE ~Strays(l.copy, found) /\ found
  <2>1. Goes(t, m) /\ UNCHANGED vars
    BY <1>4 DEF ScanParent
  <2>2. l.copy \in t_node /\ q \in DataBlock /\ l.copy.file_size > 0
    <3>1. l.copy \in t_node /\ ~Strays(l.copy, TRUE) /\ found
      BY <1>1, <1>4 DEF LocalOK, FieldsOK
    <3> QED
      BY <3>1, HitIsEntry
  <2>3. q \in Nat
    BY <2>2, Numbers
  <2>4. /\ Calm(s)
        /\ Adds(s) => Named(l.req)
        /\ EndsInRead(s) => l.names # <<>> \/ l.call \in Ready
    BY <1>1, RestOfRow
  <2> HIDE DEF l, s, q, p
  <2>5. /\ FieldsOK(m) /\ m.todo = <<"move">> \o s /\ m.copy = l.copy
        /\ m.req = l.req /\ m.names = l.names /\ m.call = l.call
    BY <1>1, <2>3 DEF LocalOK, FieldsOK, Fields
  <2> DEFINE w == <<"move">> \o s
  <2>6. /\ w \in Seq(Step) /\ w[1] = "move" /\ Len(w) = 1 + Len(s) /\ Len(s) \in Nat
        /\ \A i \in 2 .. Len(w) : i - 1 \in 1 .. Len(s) /\ w[i] = s[i - 1]
    <3>1. s \in Seq(Step) /\ Len(s) \in Nat
      BY <2>4, SeqMonotonic, LenProperties DEF Calm, Quiet
    <3>2. <<"move">> \in Seq(Step) /\ Len(<<"move">>) = 1 /\ <<"move">>[1] = "move"
      BY DEF Step
    <3>3. /\ w \in Seq(Step) /\ Len(w) = 1 + Len(s)
          /\ \A i \in 1 .. 1 + Len(s) : w[i] = IF i <= 1 THEN <<"move">>[i] ELSE s[i - 1]
      BY <3>1, <3>2, ConcatProperties
    <3> QED
      BY <3>1, <3>2, <3>3
  <2>7. \A i \in 1 .. Len(s) : s[i] \in Quiet
    BY <2>4, ElementOfSeq DEF Calm
  <2>8. StepsOK(m)
    <3>1. \A i \in 2 .. Len(w) : w[i] \in Quiet
      BY <2>6, <2>7
    <3>2. Adds(w) => Adds(s)
      BY <2>6 DEF Adds
    <3>3. EndsInRead(w) => EndsInRead(s)
      <4>1. CASE Len(s) = 0
        BY <2>6, <4>1 DEF EndsInRead
      <4>2. CASE Len(s) # 0
        <5>1. s # <<>>
          BY <4>2
        <5>2. Len(w) \in 2 .. Len(w) /\ w[Len(w)] = s[Len(s)]
          BY <2>6, <4>2
        <5> QED
          BY <5>1, <5>2 DEF EndsInRead
      <4> QED
        BY <4>1, <4>2
    <3> HIDE DEF w, m
    <3>4. m.todo = w
      BY <2>5 DEF w
    <3> QED
      BY <2>2, <2>4, <2>5, <2>6, <3>1, <3>2, <3>3, <3>4 DEF StepsOK
  <2>9. AimedOK(m)
    <3>1. m.todo = w
      BY <2>5
    <3>2. m.data = q /\ m.n = l.n /\ m.new = l.new /\ m.bit = l.bit
      BY <1>1 DEF LocalOK, FieldsOK, Fields
    <3> HIDE DEF m
    <3> QED
      BY <1>1, <2>2, <2>5, <2>6, <3>1, <3>2, MovesLikeScan DEF s
  <2> HIDE DEF m, w
  <2> QED
    BY <2>1, <2>5, <2>8, <2>9, StepOK DEF LocalOK
<1> QED
  BY <1>2, <1>3, <1>4

\* The entries move down within their block and the size goes down by one.
LEMMA MoveEntriesOK ==
    ASSUME ParallelInv, NEW t \in Thread, MoveEntries(t) PROVE ParallelInv'
<1> DEFINE l    == thread[t]
           size == l.copy.file_size - 1
           b    == [j \in Slot |-> IF j < l.place \/ j + 1 \notin Slot THEN block[l.data][j]
                                   ELSE block[l.data][j + 1]]
           k    == [fs EXCEPT !.block[l.data] = b]
           d    == Done(t)
           p    == IF size = 0 THEN 0 ELSE d.copy.indirect_pointer_block
           m    == [d EXCEPT !.data = 0, !.copy.file_size = size,
                             !.copy.indirect_pointer_block = p]
<1>1. LocalOK(l) /\ l.todo # <<>> /\ l.todo[1] = "move"
  BY HeadOfRow DEF MoveEntries, ParallelInv
<1>2. Store(k) /\ Goes(t, m)
  <2>1. Store([fs EXCEPT !.block[l.data] = [j \in Slot |->
                  IF j < l.place \/ j + 1 \notin Slot THEN @[j] ELSE @[j + 1]]])
    BY DEF MoveEntries
  <2>2. fs.block[l.data] = block[l.data]
    BY DEF fs
  <2> QED
    BY <2>1, <2>2 DEF MoveEntries
<1>3. DiskOK(k)
  <2>1. CASE l.data \notin DataBlock
    <3> HIDE DEF b, l
    <3> QED
      BY <2>1 DEF ParallelInv, DiskOK, fs
  <2>2. CASE l.data \in DataBlock
    <3>1. block[l.data] \in [Slot -> t_dir_entry]
      BY <2>2 DEF ParallelInv, DiskOK, fs
    <3> HIDE DEF l
    <3>2. b \in [Slot -> t_dir_entry]
      BY <3>1
    <3> HIDE DEF b
    <3> QED
      BY <2>2, <3>2 DEF ParallelInv, DiskOK, fs
  <2> QED
    BY <2>1, <2>2
<1>4. FieldsOK(d) /\ d.copy = l.copy
  BY <1>1, DoneOK DEF Done, LocalOK, FieldsOK, Fields
<1>5. l.copy \in t_node /\ size \in Nat
  <2>1. l.copy \in t_node /\ l.copy.file_size > 0
    BY <1>1 DEF LocalOK, FieldsOK, StepsOK
  <2>2. l.copy.file_size \in Nat
    BY <2>1 DEF t_node
  <2> QED
    BY <2>1, <2>2
<1>6. p \in Nat
  <2>1. d.copy.indirect_pointer_block \in Nat
    BY <1>4, <1>5 DEF t_node
  <2> QED
    BY <2>1
<1> HIDE DEF k, d, l, size, p
<1>7. [l.copy EXCEPT !.file_size = size, !.indirect_pointer_block = p] \in t_node
  BY <1>5, <1>6 DEF t_node
<1>8. /\ FieldsOK(m) /\ m.todo = d.todo /\ m.req = d.req /\ m.names = d.names
      /\ m.call = d.call /\ m.n = d.n /\ m.new = d.new
  BY <1>4, <1>7 DEF LocalOK, FieldsOK, Fields
<1> HIDE DEF m
<1>9. LocalOK(m)
  BY <1>1, <1>8, DoneWith DEF d, l, Finds
<1> QED
  BY <1>2, <1>3, <1>9, StepOK

\* The contents of a file that are written stay in its data block, and the
\* size is a number again.
LEMMA WriteDataOK ==
    ASSUME ParallelInv, NEW t \in Thread, WriteData(t) PROVE ParallelInv'
<1> DEFINE l == thread[t]
           q == DataOf(fs, l.copy)
           b == [j \in Slot |-> IF j < l.req.end THEN Text ELSE block[q][j]]
           k == [fs EXCEPT !.block[q] = b]
           d == Done(t)
           s == IF l.req.end > d.copy.file_size THEN l.req.end ELSE d.copy.file_size
           m == [d EXCEPT !.copy.file_size = s]
<1>1. LocalOK(l) /\ l.todo # <<>> /\ l.todo[1] = "write"
  BY HeadOfRow DEF WriteData, ParallelInv
<1>2. CASE q \notin DataBlock
  BY <1>2, StepOK DEF WriteData
<1>3. CASE q \in DataBlock
  <2>1. Store(k) /\ Goes(t, m)
    <3>1. Store([fs EXCEPT !.block[q] = [j \in Slot |-> IF j < l.req.end THEN Text ELSE @[j]]])
      BY <1>3 DEF WriteData
    <3>2. fs.block[q] = block[q]
      BY DEF fs
    <3> QED
      BY <1>3, <3>1, <3>2 DEF WriteData
  <2>2. DiskOK(k)
    <3>1. Text \in t_dir_entry
      BY DEF Text, t_dir_entry
    <3>2. block[q] \in [Slot -> t_dir_entry]
      BY <1>3 DEF ParallelInv, DiskOK, fs
    <3> HIDE DEF q, l
    <3>3. b \in [Slot -> t_dir_entry]
      BY <3>1, <3>2
    <3> HIDE DEF b
    <3> QED
      BY <1>3, <3>3 DEF ParallelInv, DiskOK, fs
  <2>3. FieldsOK(d) /\ s \in Nat
    <3>1. FieldsOK(d)
      BY <1>1, DoneOK
    <3>2. l.req.end \in Nat /\ d.copy.file_size \in Nat
      BY <1>1, <3>1 DEF LocalOK, FieldsOK, t_node
    <3> QED
      BY <3>1, <3>2
  <2> HIDE DEF d, l, k, s
  <2>4. [d.copy EXCEPT !.file_size = s] \in t_node
    BY <2>3, NodeWith DEF LocalOK, FieldsOK
  <2>5. /\ FieldsOK(m) /\ m.todo = d.todo /\ m.req = d.req /\ m.names = d.names
        /\ m.call = d.call /\ m.n = d.n /\ m.new = d.new
    BY <2>3, <2>4 DEF LocalOK, FieldsOK, Fields
  <2> HIDE DEF m
  <2>6. LocalOK(m)
    BY <1>1, <2>5, DoneWith DEF d, l, Finds
  <2> QED
    BY <2>1, <2>2, <2>6, StepOK
<1> QED
  BY <1>2, <1>3

\* A read changes nothing on the disk.
LEMMA FetchDataOK ==
    ASSUME ParallelInv, NEW t \in Thread, FetchData(t) PROVE ParallelInv'
<1>1. thread[t].todo # <<>> /\ thread[t].todo[1] = "fetch"
  BY HeadOfRow DEF FetchData, ParallelInv
<1>2. CASE DataOf(fs, thread[t].copy) \notin DataBlock
  BY <1>2, StepOK DEF FetchData
<1>3. CASE DataOf(fs, thread[t].copy) \in DataBlock
  BY <1>1, <1>3, DoneOK, StepOK DEF FetchData, Finds
<1> QED
  BY <1>2, <1>3

-----------------------------------------------------------------------------
(***************************************************************************)
(* Requests that come, and the whole.                                      *)
(***************************************************************************)

\* A path is a row of names.
LEMMA PathIsSeq == Path \subseteq Seq(Name)
<1>1. ASSUME NEW l \in 0 .. MAX_DEPTH + 1 PROVE [1 .. l -> Name] \subseteq Seq(Name)
  BY <1>1, SeqDef
<1> QED
  BY <1>1 DEF Path

\* The fields of a request.
LEMMA RequestFields ==
    ASSUME NEW r \in Request
    PROVE  /\ DOMAIN r = {"op", "path", "to", "end"}
           /\ r.path \in Seq(Name) /\ r.to \in Seq(Name) /\ r.end \in Nat
           /\ r.op \in {"stat", "readdir", "read", "open", "mkdir", "remove", "rmdir",
                        "write", "truncate", "rename"}
<1>1. /\ DOMAIN r = {"op", "path", "to", "end"}
      /\ r.path \in Path /\ r.to \in Path \cup {<<>>} /\ r.end \in FileSize \cup {0}
      /\ r.op \in {"stat", "readdir", "read", "open", "mkdir", "remove", "rmdir",
                   "write", "truncate", "rename"}
  BY DEF Request
<1>2. <<>> \in Seq(Name) /\ FileSize \subseteq Nat
  BY EmptySeq, TreeAssumption DEF DIR_ENTRIES
<1>3. r.path \in Seq(Name) /\ r.to \in Seq(Name)
  BY <1>1, <1>2, PathIsSeq, Zenon
<1>4. r.end \in Nat
  <2>1. \A n \in FileSize \cup {0} : n \in Nat
    BY <1>2
  <2> QED
    BY <1>1, <2>1, Zenon
<1> QED
  BY <1>1, <1>3, <1>4

\* A request that a client makes finds its thread idle and starts with a row
\* of one step.
LEMMA BeginOK ==
    ASSUME ParallelInv, NEW t \in Thread, NEW r \in Request, Begin(t, r)
    PROVE  ParallelInv'
<1> DEFINE l == [Idle EXCEPT !.req = r, !.uses = Uses(r), !.call = r.op, !.todo = <<"read">>]
           m == [l EXCEPT !.call = "from", !.names = Folder(r.path), !.todo = <<>>]
           a == [l EXCEPT !.next = NodeAt(fs, r.path)]
           b == IF m.names = <<>> THEN Resolved(m, 0) ELSE [m EXCEPT !.todo = <<"read">>]
           c == [l EXCEPT !.names = r.path]
           z == CASE r.op \in {"read", "write"} -> a [] r.op = "rename" -> b [] OTHER -> c
<1>1. thread' = [thread EXCEPT ![t] = z] /\ UNCHANGED vars
  BY DEF Begin
<1>2. /\ r.path = <<>> => r.op \in {"stat", "readdir"}
      /\ r.op = "rename" => r.to # <<>>
  BY DEF Begin, Asks
<1>3. /\ DOMAIN r = {"op", "path", "to", "end"}
      /\ r.path \in Seq(Name) /\ r.to \in Seq(Name) /\ r.end \in Nat
      /\ r.op \in {"stat", "readdir", "read", "open", "mkdir", "remove", "rmdir",
                   "write", "truncate", "rename"}
  BY RequestFields
<1>4. \A p \in Seq(Name) : p # <<>> => NameIn(p) \in Name
  <2>1. ASSUME NEW p \in Seq(Name), p # <<>> PROVE NameIn(p) \in Name
    <3>1. Len(p) \in 1 .. Len(p)
      BY <2>1, LenProperties, EmptySeq
    <3> QED
      BY <3>1, ElementOfSeq DEF NameIn
  <2> QED
    BY <2>1
<1>5. r.path # <<>> /\ r.op \notin {"read", "write"} => Named(r)
  BY <1>2, <1>3, <1>4 DEF Named
<1>6. FieldsOK(Idle)
  BY IdleOK DEF LocalOK
<1>7. Idle.names = <<>>
  BY DEF Idle
<1> HIDE DEF z
<1>8. ASSUME r.op \in {"read", "write"} PROVE LocalOK(z)
  <2>1. z = a
    BY <1>8 DEF z
  <2>2. FieldsOK(a) /\ a.todo = <<"read">> /\ a.call = r.op
    BY <1>3, <1>6, <1>7, <1>8 DEF FieldsOK, Fields, Ready, Adding
  <2> HIDE DEF a
  <2> QED
    BY <1>8, <2>1, <2>2, WrittenRows, ShutIsOK DEF Ready
<1>9. ASSUME r.op = "rename" PROVE LocalOK(z)
  <2>1. z = b
    BY <1>9 DEF z
  <2>2. Folder(r.path) \in Seq(Name)
    <3>1. Len(r.path) \in Nat /\ \A i \in 1 .. Len(r.path) - 1 : r.path[i] \in Name
      BY <1>3, LenProperties, ElementOfSeq
    <3> QED
      BY <3>1, SubSeqProperties DEF Folder
  <2>3. /\ FieldsOK(m) /\ m.todo = <<>> /\ m.call = "from"
    BY <1>2, <1>3, <1>5, <1>6, <1>9, <2>2 DEF FieldsOK, Fields, Ready, Adding
  <2>4. CASE m.names = <<>>
    <3>1. b = Resolved(m, 0)
      BY <2>4
    <3> HIDE DEF m, b
    <3> QED
      BY <2>1, <2>3, <3>1, WrittenRows, ResolvedOK
  <2>5. CASE m.names # <<>>
    <3> DEFINE w == [m EXCEPT !.todo = <<"read">>]
    <3>1. b = w
      BY <2>5
    <3> HIDE DEF m, b
    <3>2. FieldsOK(w) /\ w.todo = <<"read">> /\ w.names # <<>>
      BY <2>3, <2>5 DEF FieldsOK, Fields
    <3> QED
      BY <2>1, <3>1, <3>2, WrittenRows, ShutIsOK
  <2> QED
    BY <2>4, <2>5
<1>10. ASSUME r.op \notin {"read", "write", "rename"} PROVE LocalOK(z)
  <2>1. z = c
    BY <1>10 DEF z
  <2>2. r.op \in Adding => Named(r)
    BY <1>2, <1>5, <1>10 DEF Adding
  <2>3. /\ FieldsOK(c) /\ c.todo = <<"read">> /\ c.call = r.op /\ c.names = r.path
    BY <1>3, <1>6, <1>10, <2>2 DEF FieldsOK, Fields, Ready, Adding
  <2> HIDE DEF c
  <2>4. c.names # <<>> \/ c.call \in Ready
    BY <1>2, <2>3 DEF Ready
  <2> QED
    BY <2>1, <2>3, <2>4, WrittenRows, ShutIsOK
<1>11. LocalOK(z)
  BY <1>8, <1>9, <1>10
<1>12. DiskOK(fs')
  BY <1>1 DEF ParallelInv, DiskOK, fs, vars
<1> QED
  BY <1>1, <1>11, <1>12 DEF ParallelInv

\* A disk that earlier requests have left is typed, and no thread has begun.
LEMMA InitOK == ParallelInit => ParallelInv
<1> SUFFICES ASSUME ParallelInit PROVE ParallelInv
  OBVIOUS
<1>1. DiskOK(fs)
  BY ParallelAssumption DEF ParallelInit, DiskOK, fs
<1>2. DOMAIN thread = Thread /\ \A t \in Thread : thread[t] = Idle
  BY DEF ParallelInit
<1> QED
  BY <1>1, <1>2, IdleOK DEF ParallelInv

\* Every step of every thread keeps the types.
LEMMA NextOK == ParallelInv /\ [ParallelNext]_parallelVars => ParallelInv'
<1> SUFFICES ASSUME ParallelInv, [ParallelNext]_parallelVars PROVE ParallelInv'
  OBVIOUS
<1>1. CASE UNCHANGED parallelVars
  BY <1>1 DEF parallelVars, vars, ParallelInv, DiskOK, fs
<1>2. ASSUME NEW t \in Thread, NEW r \in Request, Begin(t, r) PROVE ParallelInv'
  BY <1>2, BeginOK
<1>3. ASSUME NEW t \in Thread, Works(t) PROVE ParallelInv'
  <2>1. CASE ReadNode(t) \/ ScanFolder(t) \/ WriteBack(t) \/ WriteBackFile(t)
    BY <2>1, ReadNodeOK, ScanFolderOK, WriteBackOK, WriteBackFileOK
  <2>2. CASE SaveNode(t) \/ WriteEntry(t) \/ ListEntries(t)
    BY <2>2, SaveNodeOK, WriteEntryOK, ListEntriesOK
  <2>3. CASE \/ FindFree(t, "find_node", NodeBlock)
             \/ FindFree(t, "find_pointers", DataBlock)
             \/ FindFree(t, "find_data", DataBlock)
    BY <2>3, FindFreeOK
  <2>4. CASE SetBit(t) \/ LinkData(t) \/ ClearBit(t)
    BY <2>4, SetBitOK, LinkDataOK, ClearBitOK
  <2>5. CASE \/ LookAt(t, "look_data", DataOf(fs, thread[t].file))
             \/ LookAt(t, "look_pointers", thread[t].file.indirect_pointer_block)
             \/ LookAt(t, "look_node", get_block_num_from_node_num(thread[t].n))
    BY <2>5, LookAtOK
  <2>6. CASE GetEntry(t) \/ ScanParent(t) \/ MoveEntries(t)
    BY <2>6, GetEntryOK, ScanParentOK, MoveEntriesOK
  <2>7. CASE WriteData(t) \/ FetchData(t)
    BY <2>7, WriteDataOK, FetchDataOK
  <2> QED
    BY <1>3, <2>1, <2>2, <2>3, <2>4, <2>5, <2>6, <2>7 DEF Works
<1> QED
  BY <1>1, <1>2, <1>3 DEF ParallelNext

\* The types of the disk and of what the threads have in their hands.
LEMMA ParallelInvariant == ParallelSpec => []ParallelInv
  BY InitOK, NextOK, PTL DEF ParallelSpec

\* However the requests of any number of threads interleave, on any disk that
\* earlier requests may have left, in both kinds of overlap and also where
\* they lose each other's updates: no thread writes a node, an entry or a bit
\* that is none, every copy of a node that it may write back is a node of the
\* table with a size that is not negative, and the server is in one of its
\* three states.
THEOREM ParallelTyped == ParallelSpec => []ParallelTypeOK
<1>1. ParallelInv => ParallelTypeOK
  BY DEF ParallelInv, DiskOK, LocalOK, FieldsOK, ParallelTypeOK, fs
<1> QED
  BY <1>1, ParallelInvariant, PTL

\* sac_remove, sac_rmdir, create_and_save_file_node, make_directory and
\* sac_rename write through numbers that an earlier step of theirs has found:
\* in a bitmap, an entry or a pointer that other threads change in between.
\* For any number of threads and any interleaving the writes of nodes, of
\* pointers and of the entries that move up stay in the node table and in the
\* data blocks, and the only bits that are set are theirs.
THEOREM WritesInTables == ParallelSpec => []WritesStayInTables
<1>1. ASSUME ParallelInv PROVE WritesStayInTables
  <2> SUFFICES ASSUME NEW t \in Thread
               PROVE  LET l == thread[t]
                      IN  /\ Doing(t, "back_file") => l.n \in NodeNum
                          /\ Doing(t, "save") => l.new \in NodeNum
                          /\ Doing(t, "link") => l.copy.indirect_pointer_block \in DataBlock
                          /\ Doing(t, "move") => l.data \in DataBlock
                          /\ Doing(t, "set") => l.bit \in NodeBlock \cup DataBlock
    BY DEF WritesStayInTables
  <2> DEFINE l == thread[t]
  <2>1. LocalOK(l)
    BY <1>1 DEF ParallelInv
  <2>2. ASSUME NEW step, Doing(t, step) PROVE l.todo[1] = step /\ 1 \in 1 .. Len(l.todo)
    <3>1. l.todo # <<>> /\ l.todo[1] = step
      BY <2>1, <2>2, HeadOfRow
    <3> QED
      BY <2>1, <3>1, LenProperties, EmptySeq DEF LocalOK, StepsOK
  <2>3. \A step : Doing(t, step) => l.todo[1] = step /\ 1 \in 1 .. Len(l.todo)
    BY <2>2
  <2>4. \A step : Doing(t, step) => Has(l.todo, step)
    BY <2>3 DEF Has
  <2> HIDE DEF l
  <2>5. Doing(t, "back_file") => l.n \in NodeNum
    BY <2>1, <2>4 DEF LocalOK, AimedOK
  <2>6. Doing(t, "save") => l.new \in NodeNum
    BY <2>1, <2>3, <2>4 DEF LocalOK, AimedOK
  <2>7. Doing(t, "link") => l.copy.indirect_pointer_block \in DataBlock
    BY <2>1, <2>3 DEF LocalOK, AimedOK, Linking
  <2>8. Doing(t, "move") => l.data \in DataBlock
    <3>1. Doing(t, "move") => l.todo # <<>>
      BY DEF Doing, l
    <3> QED
      BY <2>1, <2>3, <3>1 DEF LocalOK, AimedOK
  <2>9. Doing(t, "set") => l.bit \in NodeBlock \cup DataBlock
    BY <2>1, <2>3 DEF LocalOK, AimedOK, Reserved
  <2> QED
    BY <2>5, <2>6, <2>7, <2>8, <2>9 DEF l
<1> QED
  BY <1>1, ParallelInvariant, PTL
=============================================================================
