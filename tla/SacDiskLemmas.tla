--------------------------- MODULE SacDiskLemmas ---------------------------
(***************************************************************************)
(* What each operation of the SAC server does to a consistent disk, for    *)
(* every size of disk, node table and block: the inductive invariant and   *)
(* one lemma per operation.                                                *)
(***************************************************************************)
EXTENDS SacTree, LayoutLemmas, FunctionTheorems

-----------------------------------------------------------------------------
(***************************************************************************)
(* The regions of the disk.                                                *)
(***************************************************************************)
Blk(n) == get_block_num_from_node_num(n)

\* The header, the bitmap, the node table and the data blocks do not overlap.
LEMMA Regions ==
    /\ 0 \in NodeNum /\ NodeNum \subseteq Nat
    /\ 0 \in Slot /\ Slot \subseteq Nat
    /\ DataBlock \subseteq Nat /\ DataBlock \subseteq Block /\ 0 \notin DataBlock
    /\ NodeBlock \subseteq Nat /\ NodeBlock \subseteq Block
    /\ NodeBlock \cap DataBlock = {}
    /\ create_default_bitmap \subseteq Block
    /\ Blk(0) \in create_default_bitmap
<1> USE LayoutAssumption DEF NODE_TABLE_INITIAL_BLOCK, BITMAP_INITIAL_BLOCK,
        DATA_INITIAL_BLOCK
<1>1. 0 \in NodeNum /\ NodeNum \subseteq Nat /\ 0 \in Slot /\ Slot \subseteq Nat
  BY DEF NodeNum, Slot
<1>2. /\ DataBlock \subseteq Nat /\ DataBlock \subseteq Block /\ 0 \notin DataBlock
      /\ NodeBlock \subseteq Nat /\ NodeBlock \subseteq Block
      /\ NodeBlock \cap DataBlock = {}
  BY DEF DataBlock, Block, NodeBlock
<1>3. create_default_bitmap \subseteq Block
  BY DEF Block, create_default_bitmap
<1>4. Blk(0) \in create_default_bitmap
  BY DEF create_default_bitmap, Blk, get_block_num_from_node_num
<1> QED
  BY <1>1, <1>2, <1>3, <1>4

\* Nodes and the blocks of the node table correspond one to one.
LEMMA NodeBlocks ==
    /\ \A n \in NodeNum : /\ Blk(n) \in NodeBlock
                          /\ Blk(n) \notin DataBlock
                          /\ Blk(n) \in Nat
                          /\ Blk(n) - NODE_TABLE_INITIAL_BLOCK = n
    /\ \A b \in NodeBlock : /\ b - NODE_TABLE_INITIAL_BLOCK \in NodeNum
                            /\ Blk(b - NODE_TABLE_INITIAL_BLOCK) = b
    /\ \A n, m \in NodeNum : Blk(n) = Blk(m) => n = m
    /\ \A n \in NodeNum \ {0} : Blk(n) \notin create_default_bitmap
BY LayoutAssumption
   DEF NODE_TABLE_INITIAL_BLOCK, BITMAP_INITIAL_BLOCK, DATA_INITIAL_BLOCK, NodeNum,
       NodeBlock, DataBlock, Blk, get_block_num_from_node_num, create_default_bitmap

-----------------------------------------------------------------------------
(***************************************************************************)
(* The inductive invariant.  It speaks of a disk k in the middle of an     *)
(* operation, where the nodes of a set M are reserved but not, or no       *)
(* longer, named by an entry.  Between operations M is empty.              *)
(***************************************************************************)
Ptr(k, n) == k.node[n].indirect_pointer_block
Dat(k, n) == DataOf(k, k.node[n])

Disk == [bitmap : SUBSET Block, node : [NodeNum -> t_node],
         block : [DataBlock -> [Slot -> t_dir_entry]],
         server : {"up", "exit", "wild"}]

RootLive(k) == Live(k, 0) /\ k.node[0].state = 2

\* A live node has no bytes and no blocks, or bytes and two reserved blocks.
NodeOK(k, n) ==
    /\ k.node[n].state \in {1, 2}
    /\ k.node[n].file_size <= DIR_ENTRIES
    /\ Ptr(k, n) = 0 <=> k.node[n].file_size = 0
    /\ Ptr(k, n) # 0 => /\ Ptr(k, n) \in DataBlock /\ Ptr(k, n) \in k.bitmap
                        /\ Dat(k, n) \in DataBlock /\ Dat(k, n) \in k.bitmap
                        /\ Ptr(k, n) # Dat(k, n)

NodesOK(k) == \A n \in NodeNum : Live(k, n) => NodeOK(k, n)

Apart(k, n, m) ==
    Ptr(k, n) # 0 /\ Ptr(k, m) # 0 =>
        /\ Ptr(k, n) # Ptr(k, m)
        /\ Ptr(k, n) # Dat(k, m)
        /\ Dat(k, n) # Ptr(k, m)
        /\ Dat(k, n) # Dat(k, m)

BlocksApart(k) ==
    \A n, m \in NodeNum : n # m /\ Live(k, n) /\ Live(k, m) => Apart(k, n, m)

\* An entry names a live node that knows its directory.
EntryOK(k, M, d, e) ==
    /\ e.name \in Name
    /\ e.node_num \in NodeNum \ {0}
    /\ e.node_num \notin M
    /\ Live(k, e.node_num)
    /\ k.node[e.node_num].parent_block = Blk(d)

EntriesOK(k, M) ==
    \A d \in NodeNum : IsDir(k, d) =>
        \A i \in Places(k.node[d]) : EntryOK(k, M, d, Entry(k, d, i))

NoTwin(k) ==
    \A d \in NodeNum : IsDir(k, d) =>
        \A i, j \in Places(k.node[d]) :
            Entry(k, d, i).node_num = Entry(k, d, j).node_num => i = j

HasEntry(k, n) ==
    \E d \in NodeNum : IsDir(k, d) /\ \E i \in Places(k.node[d]) : Entry(k, d, i).node_num = n

AllNamed(k, M) == \A n \in NodeNum \ {0} : Live(k, n) /\ n \notin M => HasEntry(k, n)

Inv(k, M) ==
    /\ k \in Disk
    /\ RootLive(k)
    /\ NodesOK(k)
    /\ BlocksApart(k)
    /\ EntriesOK(k, M)
    /\ NoTwin(k)
    /\ AllNamed(k, M)

\* What an operation leaves behind: a consistent disk, or a server that has
\* exited, or one gone wild because a directory was full.
Outcome(l) ==
    /\ l \in Disk
    /\ l.server = "up" => Inv(l, {})
    /\ l.server = "wild" => NODE_TABLE_BLOCKS > DIR_ENTRIES

TreeInv ==
    /\ TypeOK
    /\ Up => Inv(fs, {})
    /\ server = "wild" => NODE_TABLE_BLOCKS > DIR_ENTRIES

-----------------------------------------------------------------------------
(***************************************************************************)
(* Frames: what a step that leaves a node and its blocks alone keeps.      *)
(***************************************************************************)
Same(k, l, n) ==
    /\ l.node[n] = k.node[n]
    /\ Ptr(k, n) # 0 => /\ l.block[Ptr(k, n)] = k.block[Ptr(k, n)]
                        /\ l.block[Dat(k, n)] = k.block[Dat(k, n)]

\* What the invariant reads of a node depends only on the node and its blocks.
LEMMA SameView ==
    ASSUME NEW k, NEW l, NEW n, Same(k, l, n)
    PROVE  /\ Ptr(l, n) = Ptr(k, n)
           /\ Ptr(k, n) # 0 => Dat(l, n) = Dat(k, n)
           /\ Places(l.node[n]) = Places(k.node[n])
           /\ \A i \in Places(k.node[n]) : Entry(l, n, i) = Entry(k, n, i)
BY DEF Same, Ptr, Dat, DataOf, Places, Entry

\* A node with entries has blocks, and its entries lie in one block.
LEMMA PlacesInBlock ==
    ASSUME NEW k \in Disk, NEW d \in NodeNum, NodeOK(k, d)
    PROVE  /\ \A i \in Places(k.node[d]) :
                 /\ i \in Slot
                 /\ Ptr(k, d) # 0
                 /\ Entry(k, d, i) = k.block[Dat(k, d)][i]
                 /\ Entry(k, d, i) \in t_dir_entry
           /\ k.node[d].file_size \in Nat
           /\ Places(k.node[d]) = 0 .. k.node[d].file_size - 1
<1>1. k.node[d] \in t_node /\ k.block \in [DataBlock -> [Slot -> t_dir_entry]]
  BY DEF Disk
<1>2. k.node[d].file_size \in Nat /\ k.node[d].state \in 0 .. 2
  BY <1>1 DEF t_node
<1>3. Places(k.node[d]) = 0 .. k.node[d].file_size - 1
  BY <1>1, <1>2 DEF Places, NodeOK, Ptr
<1>4. ASSUME NEW i \in Places(k.node[d])
      PROVE  i \in Slot /\ Ptr(k, d) # 0 /\ Entry(k, d, i) = k.block[Dat(k, d)][i]
  <2>1. Ptr(k, d) # 0
    BY <1>4 DEF Places, Ptr
  <2>2. i \in 0 .. k.node[d].file_size - 1 /\ k.node[d].file_size <= DIR_ENTRIES
    BY <1>3, <1>4 DEF NodeOK
  <2>3. i \in Slot
    BY <2>2, <1>2, LayoutAssumption DEF Slot
  <2> QED
    BY <2>1, <2>3 DEF Entry, Dat
<1>5. ASSUME NEW i \in Places(k.node[d])
      PROVE  Entry(k, d, i) \in t_dir_entry
  <2>1. Dat(k, d) \in DataBlock
    BY <1>4, <1>5 DEF NodeOK
  <2> QED
    BY <1>1, <1>4, <1>5, <2>1
<1> QED
  BY <1>2, <1>3, <1>4, <1>5

\* The entries of a directory name different nodes other than the root, so
\* there are fewer of them than nodes.
LEMMA FewerEntriesThanNodes ==
    ASSUME NEW k, NEW M, Inv(k, M), NEW d \in NodeNum, IsDir(k, d)
    PROVE  k.node[d].file_size < NODE_TABLE_BLOCKS
<1>1. k \in Disk /\ NodeOK(k, d) /\ EntriesOK(k, M) /\ NoTwin(k)
  BY DEF Inv, NodesOK, IsDir
<1> DEFINE s == k.node[d].file_size
           S == 0 .. s - 1
           T == 1 .. NODE_TABLE_BLOCKS - 1
           f == [i \in S |-> Entry(k, d, i).node_num]
<1>2. s \in Nat /\ Places(k.node[d]) = S /\ NODE_TABLE_BLOCKS \in Nat \ {0}
  BY <1>1, PlacesInBlock, LayoutAssumption
<1>3. \A i \in S : Entry(k, d, i).node_num \in NodeNum \ {0}
  BY <1>1, <1>2 DEF EntriesOK, EntryOK
<1>4. \A n \in NodeNum \ {0} : n \in T
  BY <1>2 DEF NodeNum
<1>5. f \in [S -> T]
  BY <1>3, <1>4
<1>6. \A i, j \in S : f[i] = f[j] => i = j
  BY <1>1, <1>2 DEF NoTwin
<1> HIDE DEF f
<1>7. f \in Injection(S, T)
  BY <1>5, <1>6, Fun_IsInj
<1>8. /\ IsFiniteSet(T) /\ Cardinality(T) = NODE_TABLE_BLOCKS - 1
      /\ Cardinality(S) = s
  <2>1. Cardinality(T) = IF 1 > NODE_TABLE_BLOCKS - 1 THEN 0 ELSE (NODE_TABLE_BLOCKS - 1) - 1 + 1
    BY <1>2, FS_Interval
  <2>2. Cardinality(S) = IF 0 > s - 1 THEN 0 ELSE (s - 1) - 0 + 1
    <3>1. PICK b \in Int : b = s - 1
      BY <1>2
    <3>2. Cardinality(0 .. b) = IF 0 > b THEN 0 ELSE b - 0 + 1
      BY FS_Interval
    <3> QED
      BY <3>1, <3>2
  <2>3. IsFiniteSet(T)
    BY <1>2, FS_Interval
  <2> HIDE DEF s, S, T
  <2> QED
    BY <2>1, <2>2, <2>3, <1>2
<1>9. Cardinality(S) <= Cardinality(T)
  BY <1>7, <1>8, FS_Injection
<1> QED
  BY <1>2, <1>8, <1>9

\* An entry of directory d gives node n the name x.
Holds(k, d, n, x) ==
    /\ IsDir(k, d)
    /\ \E i \in Places(k.node[d]) : Entry(k, d, i).node_num = n /\ Entry(k, d, i).name = x

KeepsName(k, l, n) == \A d \in NodeNum, x \in Name : Holds(k, d, n, x) => Holds(l, d, n, x)

\* What an operation keeps of a node: whether it is live, its kind, its
\* parent and its name.
Kin(k, l, m) ==
    /\ Live(l, m) <=> Live(k, m)
    /\ l.node[m].state = k.node[m].state
    /\ l.node[m].parent_block = k.node[m].parent_block
    /\ KeepsName(k, l, m)

KinAll(k, l) == \A m \in NodeNum : Kin(k, l, m)

\* The effects of an operation on the tree: one node goes, or hangs from d
\* with the name x.
Unlinks(k, l, c) == ~Live(l, c) /\ \A m \in NodeNum \ {c} : Kin(k, l, m)

Links(k, l, c, d, x) ==
    /\ Live(l, c) /\ l.node[c].parent_block = Blk(d)
    /\ Holds(l, d, c, x)
    /\ \A m \in NodeNum \ {c} : Kin(k, l, m)

\* The entries of a directory are the ones they were.
SameEntries(k, l, m) ==
    /\ Places(l.node[m]) = Places(k.node[m])
    /\ \A i \in Places(k.node[m]) : Entry(l, m, i) = Entry(k, m, i)

LEMMA SameEntriesKeepNames ==
    ASSUME NEW k, NEW l,
           \A m \in NodeNum : IsDir(k, m) => IsDir(l, m) /\ SameEntries(k, l, m)
    PROVE  \A n \in NodeNum : KeepsName(k, l, n)
BY DEF KeepsName, Holds, SameEntries

\* Two steps that keep what the tree has of a node keep it together.
LEMMA KinTwice ==
    ASSUME NEW k, NEW h, NEW l, NEW m, Kin(k, h, m), Kin(h, l, m)
    PROVE  Kin(k, l, m)
BY DEF Kin, KeepsName

\* How an operation can end.
LEMMA Completes ==
    ASSUME NEW l, Inv(l, {}), l.server = "up"
    PROVE  Outcome(l)
BY DEF Outcome, Inv

\* A step that ends in exit(-1) has the outcome the invariant allows.
LEMMA Exits ==
    ASSUME NEW k \in Disk, NEW l, l = Exit(k)
    PROVE  Outcome(l) /\ l.server # "up"
<1>1. l.server = "exit" /\ l \in Disk
  BY DEF Exit, Disk
<1> QED
  BY <1>1 DEF Outcome

\* So has a step that follows an unwritten pointer, when there are more
\* nodes than entries in a block.
LEMMA GoesWild ==
    ASSUME NEW k, NEW M, Inv(k, M), NEW d \in NodeNum, IsDir(k, d),
           k.node[d].file_size >= DIR_ENTRIES, NEW l, l = Wild(k)
    PROVE  Outcome(l) /\ l.server # "up"
<1>1. k \in Disk
  BY DEF Inv
<1>2. l.server = "wild" /\ l \in Disk
  BY <1>1 DEF Wild, Disk
<1>3. k.node[d].file_size \in Nat
  BY <1>1 DEF Disk, t_node
<1>4. NODE_TABLE_BLOCKS > DIR_ENTRIES
  BY <1>3, FewerEntriesThanNodes, LayoutAssumption
<1> QED
  BY <1>2, <1>4 DEF Outcome

-----------------------------------------------------------------------------
(***************************************************************************)
(* Growing: what add_directory_entry and sac_write do to a node's blocks.  *)
(***************************************************************************)

\* The blocks of node n in a are its own, and the others are as in k.
Fresh(k, n, a) ==
    /\ a.pointers \in DataBlock /\ a.data \in DataBlock /\ a.pointers # a.data
    /\ a.bitmap = k.bitmap \cup {a.pointers, a.data}
    /\ a.block \in [DataBlock -> [Slot -> t_dir_entry]]
    /\ a.block[a.pointers][0].node_num = a.data
    /\ \A b \in DataBlock \ {a.pointers} : a.block[b] = k.block[b]
    /\ Ptr(k, n) # 0 => a.block = k.block /\ a.data = Dat(k, n)
    /\ \A m \in NodeNum \ {n} : Live(k, m) /\ Ptr(k, m) # 0 =>
          {a.pointers, a.data} \cap {Ptr(k, m), Dat(k, m)} = {}

\* The two blocks a node gets are data blocks that no other live node owns.
LEMMA FirstBlocksFresh ==
    ASSUME NEW k \in Disk, NodesOK(k), BlocksApart(k),
           NEW n \in NodeNum, Live(k, n), ~NoRoom(k, k.node[n]),
           NEW a, a = FirstBlocks(k, k.node[n])
    PROVE  Fresh(k, n, a)
<1> USE DEF Fresh
<1>1. NodeOK(k, n)
  BY DEF NodesOK
<1>2. k.block \in [DataBlock -> [Slot -> t_dir_entry]] /\ 0 \in Slot
  BY Regions DEF Disk
<1>3. CASE Ptr(k, n) # 0
  <2>1. a = [bitmap |-> k.bitmap, block |-> k.block,
             pointers |-> Ptr(k, n), data |-> Dat(k, n)]
    BY <1>3 DEF FirstBlocks, Ptr, Dat
  <2>2. \A m \in NodeNum \ {n} : Live(k, m) => Apart(k, n, m)
    BY DEF BlocksApart
  <2>3. \A m \in NodeNum \ {n} : Live(k, m) /\ Ptr(k, m) # 0 =>
                 {a.pointers, a.data} \cap {Ptr(k, m), Dat(k, m)} = {}
    BY <1>3, <2>1, <2>2 DEF Apart
  <2>4. a.block[a.pointers][0].node_num = a.data
    BY <2>1 DEF Ptr, Dat, DataOf
  <2> QED
    BY <1>1, <1>2, <1>3, <2>1, <2>3, <2>4 DEF NodeOK
<1>4. CASE Ptr(k, n) = 0
  <2> DEFINE p == get_free_data_block(k.bitmap)
             q == get_free_data_block(k.bitmap \cup {p})
  <2>1. p \in DataBlock \ k.bitmap /\ q \in DataBlock \ (k.bitmap \cup {p})
    <3>1. FreeBlocks(k.bitmap, DataBlock) # {} /\ FreeBlocks(k.bitmap \cup {p}, DataBlock) # {}
      BY <1>4 DEF NoRoom, Ptr
    <3>2. p = get_free_block(k.bitmap, DataBlock) /\ q = get_free_block(k.bitmap \cup {p}, DataBlock)
      BY DEF get_free_data_block
    <3> HIDE DEF p, q
    <3>3. DataBlock \subseteq Nat
      BY Regions
    <3>4. get_free_block(k.bitmap, DataBlock) \in DataBlock \ k.bitmap
      BY <3>1, <3>3, FreeBlockIsFree
    <3>5. get_free_block(k.bitmap \cup {p}, DataBlock) \in DataBlock \ (k.bitmap \cup {p})
      BY <3>1, <3>3, FreeBlockIsFree
    <3> QED
      BY <3>2, <3>4, <3>5
  <2>2. a = [bitmap |-> k.bitmap \cup {p, q},
             block  |-> [k.block EXCEPT ![p][0].node_num = q],
             pointers |-> p, data |-> q]
    BY <1>4 DEF FirstBlocks, Ptr
  <2> HIDE DEF p, q
  <2>3. k.block[p][0] \in t_dir_entry /\ q \in Nat
    BY <1>2, <2>1, Regions
  <2>4. [k.block[p][0] EXCEPT !.node_num = q] \in t_dir_entry
    BY <2>3 DEF t_dir_entry
  <2>5. /\ a.block \in [DataBlock -> [Slot -> t_dir_entry]]
        /\ a.block[p][0] = [k.block[p][0] EXCEPT !.node_num = q]
        /\ \A b \in DataBlock \ {p} : a.block[b] = k.block[b]
    BY <1>2, <2>1, <2>2, <2>4
  <2>6. a.block[p][0].node_num = q
    BY <2>3, <2>5 DEF t_dir_entry
  <2>7. \A m \in NodeNum \ {n} : Live(k, m) /\ Ptr(k, m) # 0 =>
            Ptr(k, m) \in k.bitmap /\ Dat(k, m) \in k.bitmap
    BY DEF NodesOK, NodeOK
  <2> QED
    BY <1>4, <2>1, <2>2, <2>5, <2>6, <2>7
<1> QED
  BY <1>3, <1>4

\* A node that grows to s > 0 units with the bytes r in its data block.
Grown(k, n, s, r) ==
    LET a == FirstBlocks(k, k.node[n])
    IN  [k EXCEPT !.bitmap  = a.bitmap,
                  !.block   = [a.block EXCEPT ![a.data] = r],
                  !.node[n] = [k.node[n] EXCEPT
                      !.file_size = s, !.indirect_pointer_block = a.pointers]]

\* Node n has s entries in l, those of r, and nothing else is lost.
Grows(k, n, s, r, l) ==
    /\ l \in Disk /\ l.server = k.server
    /\ \A m \in NodeNum : Live(l, m) <=> Live(k, m)
    /\ \A m \in NodeNum \ {n} : l.node[m] = k.node[m]
    /\ \A m \in NodeNum \ {n} : Live(k, m) => Same(k, l, m)
    /\ l.node[n].state = k.node[n].state
    /\ l.node[n].parent_block = k.node[n].parent_block
    /\ l.node[n].file_size = s
    /\ Ptr(l, n) # 0
    /\ l.block[Dat(l, n)] = r
    /\ Dat(l, n) = FirstBlocks(k, k.node[n]).data
    /\ RootLive(l) /\ NodesOK(l) /\ BlocksApart(l)

\* The two blocks add_data_block_to_node reserves for a node that has none
\* keep the blocks of the live nodes apart.
LEMMA Grow ==
    ASSUME NEW k \in Disk, RootLive(k), NodesOK(k), BlocksApart(k),
           NEW n \in NodeNum, Live(k, n), ~NoRoom(k, k.node[n]),
           NEW s \in 1 .. DIR_ENTRIES, NEW r \in [Slot -> t_dir_entry],
           NEW l, l = Grown(k, n, s, r)
    PROVE  Grows(k, n, s, r, l)
<1> USE DEF Grows
<1>0. PICK a : a = FirstBlocks(k, k.node[n])
  OBVIOUS
<1> DEFINE p == a.pointers
           q == a.data
<1>1. /\ p \in DataBlock /\ q \in DataBlock /\ p # q
      /\ a.bitmap = k.bitmap \cup {p, q}
      /\ a.block \in [DataBlock -> [Slot -> t_dir_entry]]
      /\ a.block[p][0].node_num = q
      /\ \A b \in DataBlock \ {p} : a.block[b] = k.block[b]
      /\ \A m \in NodeNum \ {n} : Live(k, m) /\ Ptr(k, m) # 0 =>
            {p, q} \cap {Ptr(k, m), Dat(k, m)} = {}
  <2>1. Fresh(k, n, a)
    BY <1>0, FirstBlocksFresh
  <2> QED
    BY <2>1 DEF Fresh
<1>2. /\ l.bitmap = a.bitmap
      /\ l.block = [a.block EXCEPT ![q] = r]
      /\ l.node = [k.node EXCEPT ![n] = [k.node[n] EXCEPT
                      !.file_size = s, !.indirect_pointer_block = p]]
      /\ l.server = k.server
      /\ l = [bitmap |-> l.bitmap, node |-> l.node, block |-> l.block, server |-> l.server]
  BY <1>0 DEF Grown, Disk
<1> HIDE DEF p, q
<1>3. k.node \in [NodeNum -> t_node] /\ k.bitmap \subseteq Block /\ k.node[n] \in t_node
  BY DEF Disk
<1>4. p \in Nat \ {0} /\ q \in Nat /\ p \in Block /\ q \in Block /\ s \in Nat
  BY <1>1, Regions
<1>5. /\ l.node[n] \in t_node
      /\ l.node[n].state = k.node[n].state
      /\ l.node[n].parent_block = k.node[n].parent_block
      /\ l.node[n].file_size = s
      /\ l.node[n].indirect_pointer_block = p
  <2>1. l.node[n] = [k.node[n] EXCEPT !.file_size = s, !.indirect_pointer_block = p]
    BY <1>2, <1>3
  <2> QED
    BY <2>1, <1>3, <1>4 DEF t_node
<1>6. \A m \in NodeNum \ {n} : l.node[m] = k.node[m]
  BY <1>2, <1>3
<1>7. /\ l.block \in [DataBlock -> [Slot -> t_dir_entry]]
      /\ l.block[q] = r
      /\ l.block[p] = a.block[p]
      /\ \A b \in DataBlock \ {p, q} : l.block[b] = k.block[b]
  BY <1>1, <1>2
<1>8. l \in Disk
  <2>1. l.node \in [NodeNum -> t_node]
    BY <1>2, <1>3, <1>5
  <2>2. l.bitmap \in SUBSET Block
    BY <1>1, <1>2, <1>3, <1>4
  <2>3. l.server \in {"up", "exit", "wild"}
    BY <1>2 DEF Disk
  <2> QED
    BY <1>2, <1>7, <2>1, <2>2, <2>3 DEF Disk
<1>9. \A m \in NodeNum : Live(l, m) <=> Live(k, m)
  BY <1>1, <1>2, NodeBlocks DEF Live, Blk
<1>10. ASSUME NEW m \in NodeNum \ {n}, Live(k, m)
       PROVE  Same(k, l, m) /\ NodeOK(k, m)
  <2>1. NodeOK(k, m)
    BY <1>10 DEF NodesOK
  <2>2. Ptr(k, m) # 0 => Ptr(k, m) \in DataBlock \ {p, q} /\ Dat(k, m) \in DataBlock \ {p, q}
    BY <2>1, <1>1, <1>10 DEF NodeOK
  <2> QED
    BY <2>1, <2>2, <1>6, <1>7 DEF Same
<1>11. Ptr(l, n) = p /\ Dat(l, n) = q
  BY <1>1, <1>5, <1>7 DEF Ptr, Dat, DataOf
<1>12. NodesOK(l)
  <2> SUFFICES ASSUME NEW m \in NodeNum, Live(l, m)
               PROVE  NodeOK(l, m)
    BY DEF NodesOK
  <2>1. CASE m = n
    <3>1. k.node[n].state \in {1, 2}
      BY DEF NodesOK, NodeOK
    <3>2. p \in l.bitmap /\ q \in l.bitmap
      BY <1>1, <1>2
    <3>3. s <= DIR_ENTRIES /\ s # 0
      BY LayoutAssumption
    <3> QED
      BY <2>1, <3>1, <3>2, <3>3, <1>1, <1>4, <1>5, <1>11 DEF NodeOK
  <2>2. CASE m # n
    <3>1. Same(k, l, m) /\ NodeOK(k, m)
      BY <2>2, <1>9, <1>10
    <3>2. l.node[m] = k.node[m] /\ k.bitmap \subseteq l.bitmap
      BY <2>2, <1>1, <1>2, <1>6
    <3> QED
      BY <3>1, <3>2, SameView DEF NodeOK
  <2> QED
    BY <2>1, <2>2
<1>13. BlocksApart(l)
  <2>1. ASSUME NEW m \in NodeNum \ {n}, Live(k, m)
        PROVE  Apart(l, n, m) /\ Apart(l, m, n)
    <3>1. Same(k, l, m)
      BY <1>10, <2>1
    <3>2. Ptr(l, m) = Ptr(k, m) /\ (Ptr(k, m) # 0 => Dat(l, m) = Dat(k, m))
      BY <3>1, SameView
    <3>3. Ptr(k, m) # 0 => {p, q} \cap {Ptr(k, m), Dat(k, m)} = {}
      BY <1>1, <2>1
    <3> QED
      BY <3>2, <3>3, <1>11 DEF Apart
  <2>2. ASSUME NEW m \in NodeNum \ {n}, NEW o \in NodeNum \ {n},
               m # o, Live(k, m), Live(k, o)
        PROVE  Apart(l, m, o)
    <3>1. Apart(k, m, o)
      BY <2>2 DEF BlocksApart
    <3>2. /\ Ptr(l, m) = Ptr(k, m) /\ (Ptr(k, m) # 0 => Dat(l, m) = Dat(k, m))
          /\ Ptr(l, o) = Ptr(k, o) /\ (Ptr(k, o) # 0 => Dat(l, o) = Dat(k, o))
      BY <2>2, <1>10, SameView
    <3> QED
      BY <3>1, <3>2 DEF Apart
  <2> QED
    BY <2>1, <2>2, <1>9 DEF BlocksApart
<1>14. RootLive(l)
  <2>1. l.node[0].state = k.node[0].state
    BY <1>5, <1>6, Regions
  <2> QED
    BY <2>1, <1>9, Regions DEF RootLive
<1>15. q = FirstBlocks(k, k.node[n]).data
  BY <1>0 DEF q
<1> QED
  BY <1>2, <1>4, <1>5, <1>6, <1>7, <1>8, <1>9, <1>10, <1>11, <1>12, <1>13, <1>14, <1>15

\* A node that is reserved and knows its directory gets its entry there.
LEMMA AddKeepsInv ==
    ASSUME NEW k, NEW c \in NodeNum \ {0}, Inv(k, {c}), k.server = "up", Live(k, c),
           NEW d \in NodeNum, d # c, IsDir(k, d),
           k.node[c].parent_block = Blk(d), NEW name \in Name,
           NEW l, l = add_directory_entry(k, d, k.node[d], name, c)
    PROVE  Outcome(l) /\ (l.server = "up" => KinAll(k, l) /\ Holds(l, d, c, name))
<1>1. /\ k \in Disk /\ RootLive(k) /\ NodesOK(k) /\ BlocksApart(k)
      /\ EntriesOK(k, {c}) /\ NoTwin(k) /\ AllNamed(k, {c})
  BY DEF Inv
<1>2. k.node[d].file_size \in Nat /\ DIR_ENTRIES \in Nat
  BY <1>1, LayoutAssumption DEF Disk, t_node
<1>3. CASE k.node[d].file_size >= DIR_ENTRIES
  <2>1. l = Wild(k)
    BY <1>3 DEF add_directory_entry
  <2> QED
    BY <2>1, <1>3, GoesWild
<1>4. CASE k.node[d].file_size < DIR_ENTRIES /\ NoRoom(k, k.node[d])
  <2>1. l = Exit(k)
    BY <1>2, <1>4 DEF add_directory_entry
  <2> QED
    BY <2>1, <1>1, Exits
<1>5. CASE k.node[d].file_size < DIR_ENTRIES /\ ~NoRoom(k, k.node[d])
  <2> DEFINE s == k.node[d].file_size
             e == [node_num |-> c, name |-> name]
  <2>1. PICK a : a = FirstBlocks(k, k.node[d])
    OBVIOUS
  <2> DEFINE r == [a.block[a.data] EXCEPT ![s] = e]
  <2>2. l = Grown(k, d, s + 1, r)
    BY <1>2, <1>5, <2>1 DEF add_directory_entry, Grown
  <2>3. NodeOK(k, d) /\ Live(k, d)
    BY <1>1 DEF NodesOK, IsDir
  <2>4. /\ a.data \in DataBlock
        /\ a.block \in [DataBlock -> [Slot -> t_dir_entry]]
        /\ Ptr(k, d) # 0 => a.block = k.block /\ a.data = Dat(k, d)
    <3>1. Fresh(k, d, a)
      BY <1>1, <1>5, <2>1, <2>3, FirstBlocksFresh
    <3> QED
      BY <3>1 DEF Fresh
  <2>5. s \in Slot /\ s + 1 \in 1 .. DIR_ENTRIES /\ e \in t_dir_entry
    <3>1. s \in Slot /\ s + 1 \in 1 .. DIR_ENTRIES
      BY <1>2, <1>5 DEF Slot
    <3>2. c \in Nat
      BY Regions
    <3>3. e \in t_dir_entry
      BY <3>2 DEF t_dir_entry
    <3> QED
      BY <3>1, <3>3
  <2>6. r \in [Slot -> t_dir_entry] /\ r[s] = e /\ \A j \in Slot \ {s} : r[j] = a.block[a.data][j]
    BY <2>4, <2>5
  <2> HIDE DEF r
  <2>7. /\ l \in Disk /\ l.server = k.server
        /\ \A m \in NodeNum : Live(l, m) <=> Live(k, m)
        /\ \A m \in NodeNum \ {d} : l.node[m] = k.node[m]
        /\ \A m \in NodeNum \ {d} : Live(k, m) => Same(k, l, m)
        /\ l.node[d].state = k.node[d].state
        /\ l.node[d].parent_block = k.node[d].parent_block
        /\ l.node[d].file_size = s + 1
        /\ l.block[Dat(l, d)] = r
        /\ RootLive(l) /\ NodesOK(l) /\ BlocksApart(l)
    <3>1. PICK z \in 1 .. DIR_ENTRIES : z = s + 1
      BY <2>5
    <3>2. l = Grown(k, d, z, r)
      BY <2>2, <3>1
    <3> HIDE DEF e
    <3>3. Grows(k, d, z, r, l)
      BY <1>1, <1>5, <2>3, <2>6, <3>2, Grow
    <3> QED
      BY <3>1, <3>3 DEF Grows
  <2>8. \A m \in NodeNum : /\ IsDir(l, m) <=> IsDir(k, m)
                           /\ l.node[m].state = k.node[m].state
                           /\ l.node[m].parent_block = k.node[m].parent_block
    BY <2>7 DEF IsDir
  <2>9. /\ Places(l.node[d]) = 0 .. s
        /\ Places(k.node[d]) = 0 .. s - 1
        /\ \A i \in 0 .. s : Entry(l, d, i) = r[i]
        /\ \A i \in 0 .. s - 1 : r[i] = Entry(k, d, i)
        /\ Entry(l, d, s) = e
    <3>1. NodeOK(l, d)
      BY <2>3, <2>7 DEF NodesOK
    <3>2. Places(l.node[d]) = 0 .. s
      BY <3>1, <2>7, <1>2, PlacesInBlock
    <3>3. \A i \in 0 .. s : Entry(l, d, i) = r[i]
      BY <3>1, <3>2, <2>7, PlacesInBlock
    <3>4. Places(k.node[d]) = 0 .. s - 1
      BY <2>3, <1>1, PlacesInBlock
    <3>5. \A i \in 0 .. s - 1 : i \in Slot /\ Ptr(k, d) # 0 /\ Entry(k, d, i) = k.block[Dat(k, d)][i]
      BY <3>4, <2>3, <1>1, PlacesInBlock
    <3>6. \A i \in 0 .. s - 1 : i \in Slot \ {s}
      BY <3>5, <1>2
    <3>7. \A i \in 0 .. s - 1 : r[i] = Entry(k, d, i)
      BY <3>5, <3>6, <2>4, <2>6
    <3>8. Entry(l, d, s) = e
      BY <3>3, <2>6, <1>2
    <3> QED
      BY <3>2, <3>3, <3>4, <3>7, <3>8
  <2>10. \A i \in 0 .. s : i # s => i \in 0 .. s - 1
    BY <1>2
  <2>11. ASSUME NEW m \in NodeNum \ {d}, IsDir(l, m)
         PROVE  /\ Places(l.node[m]) = Places(k.node[m])
                /\ \A i \in Places(k.node[m]) : Entry(l, m, i) = Entry(k, m, i)
    <3>1. Same(k, l, m)
      BY <2>7, <2>11 DEF IsDir
    <3> QED
      BY <3>1, SameView
  <2>12. ASSUME NEW m \in NodeNum, NEW f, EntryOK(k, {c}, m, f)
         PROVE  EntryOK(l, {}, m, f) /\ f.node_num # c
    BY <2>7, <2>8, <2>12 DEF EntryOK
  <2>13. EntryOK(l, {}, d, e)
    <3>1. e.node_num = c /\ e.name = name
      OBVIOUS
    <3>2. Live(l, c) /\ l.node[c].parent_block = Blk(d)
      BY <2>7, <2>8
    <3> HIDE DEF e
    <3> QED
      BY <3>1, <3>2 DEF EntryOK
  <2>14. EntriesOK(l, {})
    <3> SUFFICES ASSUME NEW m \in NodeNum, IsDir(l, m), NEW i \in Places(l.node[m])
                 PROVE  EntryOK(l, {}, m, Entry(l, m, i))
      BY DEF EntriesOK
    <3>1. CASE m # d
      BY <3>1, <2>8, <2>11, <2>12, <1>1 DEF EntriesOK
    <3>2. CASE m = d /\ i = s
      BY <3>2, <2>9, <2>13
    <3>3. CASE m = d /\ i # s
      BY <3>3, <2>9, <2>10, <2>12, <1>1 DEF EntriesOK
    <3> QED
      BY <3>1, <3>2, <3>3
  <2>15. NoTwin(l)
    <3> SUFFICES ASSUME NEW m \in NodeNum, IsDir(l, m), NEW i \in Places(l.node[m]),
                        NEW j \in Places(l.node[m]),
                        Entry(l, m, i).node_num = Entry(l, m, j).node_num
                 PROVE  i = j
      BY DEF NoTwin
    <3>1. CASE m # d
      BY <3>1, <2>8, <2>11, <1>1 DEF NoTwin
    <3>2. CASE m = d
      <4>1. \A x \in 0 .. s - 1 : Entry(l, d, x) = Entry(k, d, x)
        BY <2>9, <1>2
      <4>2. \A x \in 0 .. s - 1 : Entry(l, d, x).node_num # c
        BY <4>1, <2>9, <2>12, <1>1 DEF EntriesOK
      <4>3. Entry(l, d, s).node_num = c
        BY <2>9
      <4>4. CASE i = s \/ j = s
        BY <3>2, <4>2, <4>3, <4>4, <2>9, <2>10
      <4>5. CASE i # s /\ j # s
        <5>1. i \in 0 .. s - 1 /\ j \in 0 .. s - 1
          BY <3>2, <4>5, <2>9, <2>10
        <5>2. Entry(k, d, i).node_num = Entry(k, d, j).node_num
          BY <3>2, <4>1, <5>1
        <5>3. i \in Places(k.node[d]) /\ j \in Places(k.node[d])
          BY <2>9, <5>1
        <5> QED
          BY <1>1, <5>2, <5>3, Zenon DEF NoTwin
      <4> QED
        BY <4>4, <4>5
    <3> QED
      BY <3>1, <3>2
  <2>16. ASSUME NEW m \in NodeNum, IsDir(k, m), NEW i \in Places(k.node[m])
         PROVE  i \in Places(l.node[m]) /\ Entry(l, m, i) = Entry(k, m, i)
    <3>1. IsDir(l, m)
      BY <2>8, <2>16
    <3>2. CASE m # d
      BY <3>1, <3>2, <2>11, <2>16
    <3>3. CASE m = d
      BY <3>3, <2>9, <2>16, <1>2
    <3> QED
      BY <3>2, <3>3
  <2>17. IsDir(l, d) /\ s \in Places(l.node[d]) /\ Entry(l, d, s).node_num = c
                    /\ Entry(l, d, s).name = name
    BY <2>8, <2>9, <1>2
  <2>18. AllNamed(l, {})
    <3> SUFFICES ASSUME NEW n \in NodeNum \ {0}, Live(l, n)
                 PROVE  HasEntry(l, n)
      BY DEF AllNamed
    <3>1. CASE n = c
      BY <3>1, <2>17 DEF HasEntry
    <3>2. CASE n # c
      <4>1. PICK m \in NodeNum : IsDir(k, m) /\ \E i \in Places(k.node[m]) : Entry(k, m, i).node_num = n
        BY <3>2, <2>7, <1>1 DEF AllNamed, HasEntry
      <4> QED
        BY <4>1, <2>8, <2>16 DEF HasEntry
    <3> QED
      BY <3>1, <3>2
  <2>19. \A n \in NodeNum : KeepsName(k, l, n)
    BY <2>8, <2>16 DEF KeepsName, Holds
  <2> QED
    <3>1. Inv(l, {})
      BY <2>7, <2>14, <2>15, <2>18 DEF Inv
    <3>2. KinAll(k, l)
      BY <2>7, <2>8, <2>19 DEF KinAll, Kin
    <3>3. Holds(l, d, c, name)
      BY <2>17 DEF Holds
    <3> QED
      BY <3>1, <3>2, <3>3, <2>7, Completes
<1> QED
  BY <1>2, <1>3, <1>4, <1>5

\* A change of a file's size and blocks leaves the tree as it was.
LEMMA KeepTree ==
    ASSUME NEW k, NEW l, NEW M, EntriesOK(k, M), NoTwin(k), AllNamed(k, M),
           \A m \in NodeNum : Live(l, m) <=> Live(k, m),
           \A m \in NodeNum : l.node[m].state = k.node[m].state,
           \A m \in NodeNum \ M : l.node[m].parent_block = k.node[m].parent_block,
           \A m \in NodeNum : IsDir(k, m) => SameEntries(k, l, m)
    PROVE  EntriesOK(l, M) /\ NoTwin(l) /\ AllNamed(l, M)
<1>1. \A m \in NodeNum : IsDir(l, m) <=> IsDir(k, m)
  BY DEF IsDir
<1>2. EntriesOK(l, M)
  <2> SUFFICES ASSUME NEW m \in NodeNum, IsDir(l, m), NEW i \in Places(l.node[m])
               PROVE  EntryOK(l, M, m, Entry(l, m, i))
    BY DEF EntriesOK
  <2>1. i \in Places(k.node[m]) /\ Entry(l, m, i) = Entry(k, m, i)
    BY <1>1 DEF SameEntries
  <2>2. EntryOK(k, M, m, Entry(k, m, i))
    BY <1>1, <2>1 DEF EntriesOK
  <2> QED
    BY <2>1, <2>2 DEF EntryOK
<1>3. NoTwin(l)
  BY <1>1 DEF NoTwin, SameEntries
<1>4. AllNamed(l, M)
  <2> SUFFICES ASSUME NEW n \in NodeNum \ {0}, Live(l, n), n \notin M
               PROVE  HasEntry(l, n)
    BY DEF AllNamed
  <2>1. PICK m \in NodeNum : IsDir(k, m) /\ \E i \in Places(k.node[m]) : Entry(k, m, i).node_num = n
    BY DEF AllNamed, HasEntry
  <2> QED
    BY <2>1, <1>1 DEF HasEntry, SameEntries
<1> QED
  BY <1>2, <1>3, <1>4

\* Every directory has the entries it had.
SameDirs(k, l) == \A m \in NodeNum : IsDir(k, m) => SameEntries(k, l, m)

\* A file that grows touches no directory, whatever is written into it.
LEMMA GrownKeepsInv ==
    ASSUME NEW k, Inv(k, {}),
           NEW c \in NodeNum, Live(k, c), k.node[c].state = 1, ~NoRoom(k, k.node[c]),
           NEW s \in 1 .. DIR_ENTRIES, NEW r \in [Slot -> t_dir_entry],
           NEW l, l = Grown(k, c, s, r)
    PROVE  Inv(l, {}) /\ l.server = k.server /\ KinAll(k, l) /\ SameDirs(k, l)
<1>1. /\ k \in Disk /\ RootLive(k) /\ NodesOK(k) /\ BlocksApart(k)
      /\ EntriesOK(k, {}) /\ NoTwin(k) /\ AllNamed(k, {})
  BY DEF Inv
<1>2. /\ l \in Disk /\ l.server = k.server
      /\ \A m \in NodeNum : Live(l, m) <=> Live(k, m)
      /\ \A m \in NodeNum \ {c} : l.node[m] = k.node[m]
      /\ \A m \in NodeNum \ {c} : Live(k, m) => Same(k, l, m)
      /\ l.node[c].state = k.node[c].state
      /\ l.node[c].parent_block = k.node[c].parent_block
      /\ RootLive(l) /\ NodesOK(l) /\ BlocksApart(l)
  BY <1>1, Grow DEF Grows
<1>3. \A m \in NodeNum : IsDir(k, m) => SameEntries(k, l, m)
  <2> SUFFICES ASSUME NEW m \in NodeNum, IsDir(k, m)
               PROVE  SameEntries(k, l, m)
    OBVIOUS
  <2>1. m # c /\ Live(k, m)
    BY DEF IsDir
  <2>2. Same(k, l, m)
    BY <2>1, <1>2
  <2> QED
    BY <2>2, SameView DEF SameEntries
<1>4. \A m \in NodeNum : /\ l.node[m].state = k.node[m].state
                         /\ l.node[m].parent_block = k.node[m].parent_block
  BY <1>2
<1>5. EntriesOK(l, {}) /\ NoTwin(l) /\ AllNamed(l, {})
  BY <1>1, <1>2, <1>3, <1>4, KeepTree
<1>6. Inv(l, {})
  BY <1>2, <1>5 DEF Inv
<1>7. \A m \in NodeNum : KeepsName(k, l, m)
  BY <1>2, <1>3, <1>4, SameEntriesKeepNames DEF IsDir
<1> QED
  BY <1>2, <1>3, <1>4, <1>6, <1>7 DEF KinAll, Kin, SameDirs

\* What sac_write leaves in the node it writes to.
LEMMA WriteGrows ==
    ASSUME NEW k, Inv(k, {}), NEW c \in NodeNum, Live(k, c), ~NoRoom(k, k.node[c]),
           NEW end \in 1 .. DIR_ENTRIES
    PROVE  \E s \in 1 .. DIR_ENTRIES, r \in [Slot -> t_dir_entry] :
              WriteFile(k, c, end) = Grown(k, c, s, r)
<1>1. k \in Disk /\ NodesOK(k) /\ BlocksApart(k)
  BY DEF Inv
<1>2. PICK a : a = FirstBlocks(k, k.node[c])
  OBVIOUS
<1> DEFINE s == IF end > k.node[c].file_size THEN end ELSE k.node[c].file_size
           r == [j \in Slot |-> IF j < end THEN Text ELSE a.block[a.data][j]]
<1>3. WriteFile(k, c, end) = Grown(k, c, s, r)
  BY <1>2 DEF WriteFile, Grown
<1>4. /\ a.data \in DataBlock
      /\ a.block \in [DataBlock -> [Slot -> t_dir_entry]]
  BY <1>1, <1>2, FirstBlocksFresh DEF Fresh
<1>5. r \in [Slot -> t_dir_entry]
  <2>1. Text \in t_dir_entry
    BY DEF Text, t_dir_entry
  <2> QED
    BY <2>1, <1>4
<1>6. s \in 1 .. DIR_ENTRIES
  <2>1. DIR_ENTRIES \in Nat /\ end \in 1 .. DIR_ENTRIES
    BY LayoutAssumption
  <2>2. k.node[c].file_size \in Nat /\ k.node[c].file_size <= DIR_ENTRIES
    BY <1>1 DEF Disk, t_node, NodesOK, NodeOK
  <2> QED
    BY <2>1, <2>2
<1> HIDE DEF s, r
<1> QED
  BY <1>3, <1>5, <1>6

\* A write to a file touches no directory.
LEMMA WriteKeepsInv ==
    ASSUME NEW k, Inv(k, {}), k.server = "up",
           NEW c \in NodeNum, Live(k, c), k.node[c].state = 1,
           NEW end \in 1 .. DIR_ENTRIES, NEW l, l = WriteFile(k, c, end)
    PROVE  Outcome(l) /\ (l.server = "up" => KinAll(k, l) /\ SameDirs(k, l))
<1>1. CASE NoRoom(k, k.node[c])
  <2>1. l = Exit(k) /\ k \in Disk
    BY <1>1 DEF WriteFile, Inv
  <2> QED
    BY <2>1, Exits
<1>2. CASE ~NoRoom(k, k.node[c])
  <2>1. PICK s \in 1 .. DIR_ENTRIES, r \in [Slot -> t_dir_entry] : l = Grown(k, c, s, r)
    BY <1>2, WriteGrows
  <2>2. Inv(l, {}) /\ l.server = k.server /\ KinAll(k, l) /\ SameDirs(k, l)
    BY <1>2, <2>1, GrownKeepsInv
  <2> QED
    BY <2>2, Completes
<1> QED
  BY <1>1, <1>2

-----------------------------------------------------------------------------
(***************************************************************************)
(* Steps that give bits of the bitmap back or touch only the node table.   *)
(***************************************************************************)

Record(l) == l = [bitmap |-> l.bitmap, node |-> l.node, block |-> l.block, server |-> l.server]

\* The node c of k becomes nd and the bits F are cleared.
Changed(k, c, nd, F, l) ==
    /\ l.bitmap = k.bitmap \ F
    /\ l.node = [k.node EXCEPT ![c] = nd]
    /\ l.block = k.block
    /\ l.server = k.server
    /\ Record(l)

\* Node c is nd in l, and the blocks that are left stay apart.
Shrinks(k, c, nd, l) ==
    /\ l \in Disk
    /\ \A m \in NodeNum : Live(l, m) <=> Live(k, m)
    /\ \A m \in NodeNum \ {c} : l.node[m] = k.node[m]
    /\ l.node[c] = nd
    /\ l.block = k.block
    /\ RootLive(l) /\ NodesOK(l) /\ BlocksApart(l)

\* A change of one node c that keeps its blocks, and gives back bits no
\* other node needs.
LEMMA Shrink ==
    ASSUME NEW k \in Disk, RootLive(k), NodesOK(k), BlocksApart(k),
           NEW c \in NodeNum, Live(k, c),
           NEW nd \in t_node, nd.state = k.node[c].state, nd.file_size <= DIR_ENTRIES,
           nd.indirect_pointer_block = 0 <=> nd.file_size = 0,
           NEW F, F \cap NodeBlock = {},
           \A m \in NodeNum \ {c} : Live(k, m) /\ Ptr(k, m) # 0 =>
                                       Ptr(k, m) \notin F /\ Dat(k, m) \notin F,
           nd.indirect_pointer_block # 0 =>
              nd.indirect_pointer_block = Ptr(k, c) /\ F = {},
           NEW l, Changed(k, c, nd, F, l)
    PROVE  Shrinks(k, c, nd, l)
<1> USE DEF Shrinks
<1>1. k.node \in [NodeNum -> t_node] /\ k.bitmap \subseteq Block
  BY DEF Disk
<1>2. /\ l.bitmap = k.bitmap \ F /\ l.node = [k.node EXCEPT ![c] = nd]
      /\ l.block = k.block /\ l.server = k.server
      /\ l = [bitmap |-> l.bitmap, node |-> l.node, block |-> l.block, server |-> l.server]
  BY DEF Changed, Record
<1>3. l.node[c] = nd /\ \A m \in NodeNum \ {c} : l.node[m] = k.node[m]
  BY <1>1, <1>2
<1>4. l \in Disk
  <2>1. l.node \in [NodeNum -> t_node] /\ l.bitmap \in SUBSET Block
    BY <1>1, <1>2
  <2>2. l.block \in [DataBlock -> [Slot -> t_dir_entry]] /\ l.server \in {"up", "exit", "wild"}
    BY <1>2 DEF Disk
  <2> QED
    BY <1>2, <2>1, <2>2 DEF Disk
<1>5. \A m \in NodeNum : Live(l, m) <=> Live(k, m)
  BY <1>2, NodeBlocks DEF Live, Blk
<1>6. \A m \in NodeNum \ {c} : Ptr(l, m) = Ptr(k, m) /\ Dat(l, m) = Dat(k, m)
  BY <1>2, <1>3 DEF Ptr, Dat, DataOf
<1>7. Ptr(l, c) = nd.indirect_pointer_block /\ (Ptr(l, c) # 0 => Dat(l, c) = Dat(k, c))
  BY <1>2, <1>3 DEF Ptr, Dat, DataOf
<1>8. NodesOK(l)
  <2> SUFFICES ASSUME NEW m \in NodeNum, Live(l, m)
               PROVE  NodeOK(l, m)
    BY DEF NodesOK
  <2>1. CASE m # c
    <3>1. NodeOK(k, m) /\ Live(k, m)
      BY <1>5 DEF NodesOK
    <3>2. Ptr(k, m) # 0 => Ptr(k, m) \in l.bitmap /\ Dat(k, m) \in l.bitmap
      BY <2>1, <3>1, <1>2 DEF NodeOK
    <3> QED
      BY <2>1, <3>1, <3>2, <1>3, <1>6 DEF NodeOK
  <2>2. CASE m = c
    <3>1. NodeOK(k, c)
      BY DEF NodesOK
    <3>2. Ptr(l, c) # 0 => Ptr(l, c) = Ptr(k, c) /\ l.bitmap = k.bitmap
      BY <1>2, <1>7
    <3> QED
      BY <2>2, <3>1, <3>2, <1>3, <1>7 DEF NodeOK
  <2> QED
    BY <2>1, <2>2
<1>9. \A m \in NodeNum : Ptr(l, m) # 0 => Ptr(l, m) = Ptr(k, m) /\ Dat(l, m) = Dat(k, m)
  BY <1>6, <1>7
<1>10. BlocksApart(l)
  <2> SUFFICES ASSUME NEW n \in NodeNum, NEW m \in NodeNum, n # m, Live(l, n), Live(l, m)
               PROVE  Apart(l, n, m)
    BY DEF BlocksApart
  <2>1. Apart(k, n, m)
    BY <1>5 DEF BlocksApart
  <2> QED
    BY <2>1, <1>9 DEF Apart
<1>11. RootLive(l)
  <2>1. l.node[0].state = k.node[0].state
    BY <1>3, Regions
  <2> QED
    BY <2>1, <1>5, Regions DEF RootLive
<1> QED
  BY <1>2, <1>3, <1>4, <1>5, <1>8, <1>10, <1>11

\* A change of a file's node touches no directory.
LEMMA TruncateKeepsInv ==
    ASSUME NEW k, Inv(k, {}), k.server = "up",
           NEW c \in NodeNum, Live(k, c), k.node[c].state = 1,
           NEW length \in FileSize \cup {0}, NEW l, l = TruncateFile(k, c, length)
    PROVE  Outcome(l) /\ (l.server = "up" => KinAll(k, l) /\ SameDirs(k, l))
<1>1. /\ k \in Disk /\ RootLive(k) /\ NodesOK(k) /\ BlocksApart(k)
      /\ EntriesOK(k, {}) /\ NoTwin(k) /\ AllNamed(k, {})
  BY DEF Inv
<1> DEFINE nd == k.node[c]
           size == k.node[c].file_size
<1>2. nd \in t_node /\ size \in Nat /\ NodeOK(k, c) /\ length \in Nat
  BY <1>1, TreeAssumption, LayoutAssumption DEF Disk, t_node, NodesOK
<1>3. ASSUME NEW x \in t_node, x.state = 1, x.parent_block = nd.parent_block,
             x.file_size <= DIR_ENTRIES,
             x.indirect_pointer_block = 0 <=> x.file_size = 0,
             NEW F, F \cap NodeBlock = {},
             \A m \in NodeNum \ {c} : Live(k, m) /\ Ptr(k, m) # 0 =>
                                         Ptr(k, m) \notin F /\ Dat(k, m) \notin F,
             x.indirect_pointer_block # 0 => x.indirect_pointer_block = Ptr(k, c) /\ F = {},
             NEW y, Changed(k, c, x, F, y)
      PROVE  Inv(y, {}) /\ KinAll(k, y) /\ SameDirs(k, y)
  <2>1. /\ y \in Disk
        /\ \A m \in NodeNum : Live(y, m) <=> Live(k, m)
        /\ \A m \in NodeNum \ {c} : y.node[m] = k.node[m]
        /\ y.node[c] = x
        /\ y.block = k.block
        /\ RootLive(y) /\ NodesOK(y) /\ BlocksApart(y)
    BY <1>1, <1>3, Shrink DEF Shrinks
  <2>2. \A m \in NodeNum : /\ y.node[m].state = k.node[m].state
                           /\ y.node[m].parent_block = k.node[m].parent_block
    BY <1>3, <2>1
  <2>3. ASSUME NEW m \in NodeNum, IsDir(k, m)
        PROVE  SameEntries(k, y, m)
    <3>1. y.node[m] = k.node[m] /\ y.block = k.block
      BY <2>1, <2>3 DEF IsDir
    <3> QED
      BY <3>1 DEF SameEntries, Entry, DataOf
  <2>4. EntriesOK(y, {}) /\ NoTwin(y) /\ AllNamed(y, {})
    BY <1>1, <2>1, <2>2, <2>3, KeepTree
  <2>5. \A m \in NodeNum : KeepsName(k, y, m)
    BY <2>1, <2>2, <2>3, SameEntriesKeepNames DEF IsDir
  <2> QED
    BY <2>1, <2>2, <2>3, <2>4, <2>5 DEF Inv, KinAll, Kin, SameDirs
<1>4. CASE length > size
  <2>1. length \in 1 .. DIR_ENTRIES /\ l = WriteFile(k, c, length)
    <3>1. length \in FileSize /\ l = WriteFile(k, c, length)
      BY <1>2, <1>4 DEF TruncateFile
    <3> QED
      BY <3>1, TreeAssumption, LayoutAssumption
  <2> QED
    BY <2>1, WriteKeepsInv
<1>5. CASE ~(length > size) /\ length = 0 /\ size > 0
  <2> DEFINE x == [nd EXCEPT !.file_size = 0, !.indirect_pointer_block = 0]
             F == BlocksOf(k, nd)
  <2>1. l = [k EXCEPT !.bitmap = @ \ F, !.node[c] = x]
    BY <1>5 DEF TruncateFile
  <2>2. /\ x \in t_node /\ x.state = 1 /\ x.parent_block = nd.parent_block
        /\ x.file_size = 0 /\ x.indirect_pointer_block = 0
    BY <1>2 DEF t_node
  <2>3. Ptr(k, c) # 0
    BY <1>2, <1>5 DEF NodeOK
  <2>4. F = {Ptr(k, c), Dat(k, c)}
    BY <2>3 DEF BlocksOf, Ptr, Dat
  <2>5. F \subseteq DataBlock
    BY <1>2, <2>3, <2>4 DEF NodeOK
  <2>6. ASSUME NEW m \in NodeNum \ {c}, Live(k, m), Ptr(k, m) # 0
        PROVE  Ptr(k, m) \notin F /\ Dat(k, m) \notin F
    <3>1. Apart(k, c, m)
      BY <1>1, <2>6 DEF BlocksApart
    <3> QED
      BY <3>1, <2>3, <2>4, <2>6 DEF Apart
  <2> HIDE DEF x, F
  <2>7. F \cap NodeBlock = {}
    BY <2>5, Regions
  <2>8. Changed(k, c, x, F, l) /\ 0 <= DIR_ENTRIES
    <3>1. 0 <= DIR_ENTRIES
      BY LayoutAssumption
    <3> QED
      BY <1>1, <2>1, <3>1 DEF Disk, Changed, Record
  <2>9. Inv(l, {}) /\ KinAll(k, l) /\ SameDirs(k, l)
    BY <2>1, <2>2, <2>6, <2>7, <2>8, <1>3
  <2> QED
    BY <2>8, <2>9, Completes DEF Changed
<1>6. CASE ~(length > size) /\ ~(length = 0 /\ size > 0)
  <2> DEFINE x == [nd EXCEPT !.file_size = length]
  <2>1. l = [k EXCEPT !.node[c] = x]
    BY <1>6 DEF TruncateFile
  <2>2. /\ x \in t_node /\ x.state = 1 /\ x.parent_block = nd.parent_block
        /\ x.file_size = length /\ x.indirect_pointer_block = Ptr(k, c)
    BY <1>2 DEF t_node, Ptr
  <2>3. length <= size /\ (length = 0 <=> size = 0)
    BY <1>2, <1>6
  <2> HIDE DEF x
  <2>4. Changed(k, c, x, {}, l)
    BY <1>1, <2>1 DEF Disk, Changed, Record
  <2>5. x.file_size <= DIR_ENTRIES /\ (x.indirect_pointer_block = 0 <=> x.file_size = 0)
    BY <1>2, <2>2, <2>3, LayoutAssumption DEF NodeOK
  <2>6. \A m \in NodeNum \ {c} : Ptr(k, m) \notin {} /\ Dat(k, m) \notin {}
    OBVIOUS
  <2>7. Inv(l, {}) /\ KinAll(k, l) /\ SameDirs(k, l)
    BY <2>2, <2>4, <2>5, <2>6, <1>3
  <2> QED
    BY <2>4, <2>7, Completes DEF Changed
<1> QED
  BY <1>2, <1>4, <1>5, <1>6

WithParent(k, c, to) == [k EXCEPT !.node[c].parent_block = Blk(to)]

\* A node that no entry names may get another parent.
LEMMA SetParentKeepsInv ==
    ASSUME NEW k, NEW c \in NodeNum \ {0}, Inv(k, {c}), Live(k, c), NEW to \in NodeNum,
           NEW l, l = WithParent(k, c, to)
    PROVE  Inv(l, {c}) /\ \A n \in NodeNum : KeepsName(k, l, n)
<1>1. /\ k \in Disk /\ RootLive(k) /\ NodesOK(k) /\ BlocksApart(k)
      /\ EntriesOK(k, {c}) /\ NoTwin(k) /\ AllNamed(k, {c})
  BY DEF Inv
<1> DEFINE x == [k.node[c] EXCEPT !.parent_block = Blk(to)]
<1>2. k.node \in [NodeNum -> t_node] /\ k.node[c] \in t_node
  BY <1>1 DEF Disk
<1>3. /\ x \in t_node /\ x.state = k.node[c].state /\ x.parent_block = Blk(to)
      /\ x.file_size = k.node[c].file_size
      /\ x.indirect_pointer_block = Ptr(k, c)
  <2>1. Blk(to) \in Nat
    BY NodeBlocks
  <2> QED
    BY <2>1, <1>2 DEF t_node, Ptr
<1>4. /\ l.bitmap = k.bitmap /\ l.block = k.block /\ l.server = k.server
      /\ l.node = [k.node EXCEPT ![c] = x]
  BY <1>1 DEF Disk, WithParent
<1>5. l.node[c] = x /\ \A m \in NodeNum \ {c} : l.node[m] = k.node[m]
  BY <1>2, <1>4
<1>6. Changed(k, c, x, {}, l)
  BY <1>1 DEF Disk, Changed, Record, WithParent
<1> HIDE DEF x
<1>8. x.file_size <= DIR_ENTRIES /\ (x.indirect_pointer_block = 0 <=> x.file_size = 0)
  BY <1>1, <1>3 DEF NodesOK, NodeOK
<1>9. /\ l \in Disk
      /\ \A m \in NodeNum : Live(l, m) <=> Live(k, m)
      /\ RootLive(l) /\ NodesOK(l) /\ BlocksApart(l)
  <2>1. PICK F : F = {}
    OBVIOUS
  <2>2. /\ F \cap NodeBlock = {} /\ Changed(k, c, x, F, l)
        /\ \A m \in NodeNum \ {c} : Live(k, m) /\ Ptr(k, m) # 0 =>
                                        Ptr(k, m) \notin F /\ Dat(k, m) \notin F
        /\ x.indirect_pointer_block # 0 => x.indirect_pointer_block = Ptr(k, c) /\ F = {}
    BY <1>3, <1>6, <2>1
  <2>3. Shrinks(k, c, x, l)
    BY <1>1, <1>3, <1>8, <2>2, Shrink
  <2> QED
    BY <2>3 DEF Shrinks
<1>10. \A m \in NodeNum : l.node[m].state = k.node[m].state
  BY <1>3, <1>5
<1>11. ASSUME NEW m \in NodeNum
       PROVE  SameEntries(k, l, m)
  <2>1. /\ l.node[m].state = k.node[m].state
        /\ l.node[m].file_size = k.node[m].file_size
        /\ l.node[m].indirect_pointer_block = k.node[m].indirect_pointer_block
    BY <1>3, <1>5 DEF Ptr
  <2> QED
    BY <2>1, <1>4 DEF SameEntries, Entry, DataOf, Places
<1>12. EntriesOK(l, {c}) /\ NoTwin(l) /\ AllNamed(l, {c})
  BY <1>1, <1>5, <1>9, <1>10, <1>11, KeepTree
<1>13. \A n \in NodeNum : KeepsName(k, l, n)
  BY <1>9, <1>10, <1>11, SameEntriesKeepNames DEF IsDir
<1> QED
  BY <1>9, <1>12, <1>13 DEF Inv

Reserved(k, c, nd) == [k EXCEPT !.bitmap = @ \cup {Blk(c)}, !.node[c] = nd]

\* Node c was free in k and is nd in l, where no entry names it yet.
Allocates(k, c, nd, l) ==
    /\ c # 0 /\ ~Live(k, c)
    /\ Inv(l, {c}) /\ l.server = k.server
    /\ Live(l, c) /\ l.node[c] = nd
    /\ \A m \in NodeNum \ {c} : l.node[m] = k.node[m]
    /\ \A m \in NodeNum \ {c} : Kin(k, l, m)

\* sac_open and sac_mkdir reserve a free node for a directory's new child.
LEMMA AllocKeepsInv ==
    ASSUME NEW k, Inv(k, {}), FreeBlocks(k.bitmap, NodeBlock) # {},
           NEW d \in NodeNum, NEW state \in {1, 2},
           NEW c \in NodeNum, Blk(c) = get_free_node_block(k.bitmap),
           NEW nd, nd = create_node(state, d), NEW l, l = Reserved(k, c, nd)
    PROVE  Allocates(k, c, nd, l)
<1> USE DEF Allocates
<1>1. /\ k \in Disk /\ RootLive(k) /\ NodesOK(k) /\ BlocksApart(k)
      /\ EntriesOK(k, {}) /\ NoTwin(k) /\ AllNamed(k, {})
  BY DEF Inv
<1>2. Blk(c) \notin k.bitmap
  <2>1. NodeBlock \subseteq Nat
    BY Regions
  <2>2. get_free_block(k.bitmap, NodeBlock) \in NodeBlock \ k.bitmap
    BY <2>1, FreeBlockIsFree
  <2> QED
    BY <2>2 DEF get_free_node_block
<1>3. Blk(c) \in NodeBlock
  BY NodeBlocks
<1>4. ~Live(k, c)
  BY <1>2 DEF Live, Blk
<1>5. c # 0
  BY <1>1, <1>4 DEF RootLive
<1>6. /\ nd \in t_node /\ nd.state = state /\ nd.file_size = 0 /\ nd.indirect_pointer_block = 0
  <2>1. Blk(d) \in Nat
    BY NodeBlocks
  <2> QED
    BY <2>1 DEF create_node, t_node, Blk
<1>7. /\ l.bitmap = k.bitmap \cup {Blk(c)} /\ l.node = [k.node EXCEPT ![c] = nd]
      /\ l.block = k.block /\ l.server = k.server /\ Record(l)
  BY <1>1, <1>3 DEF Disk, Record, Reserved
<1>8. k.node \in [NodeNum -> t_node] /\ k.bitmap \in SUBSET Block
  BY <1>1 DEF Disk
<1>9. l.node[c] = nd /\ \A m \in NodeNum \ {c} : l.node[m] = k.node[m]
  BY <1>3, <1>7, <1>8
<1>10. l \in Disk
  <2>1. l.bitmap \in SUBSET Block
    BY <1>3, <1>7, <1>8, Regions
  <2>2. l.node \in [NodeNum -> t_node]
    BY <1>3, <1>6, <1>7, <1>8
  <2>3. l.block \in [DataBlock -> [Slot -> t_dir_entry]] /\ l.server \in {"up", "exit", "wild"}
    BY <1>1, <1>7 DEF Disk
  <2> QED
    BY <1>7, <2>1, <2>2, <2>3 DEF Disk, Record
<1>11. Live(l, c)
  BY <1>3, <1>7 DEF Live, Blk
<1>12. \A m \in NodeNum \ {c} : Live(l, m) <=> Live(k, m)
  BY <1>3, <1>7, NodeBlocks DEF Live, Blk
<1>13. \A m \in NodeNum \ {c} : Ptr(l, m) = Ptr(k, m) /\ Dat(l, m) = Dat(k, m)
  BY <1>7, <1>9 DEF Ptr, Dat, DataOf
<1>14. Ptr(l, c) = 0
  BY <1>6, <1>9 DEF Ptr
<1>15. NodesOK(l)
  <2> SUFFICES ASSUME NEW m \in NodeNum, Live(l, m)
               PROVE  NodeOK(l, m)
    BY DEF NodesOK
  <2>1. CASE m = c
    <3>1. 0 <= DIR_ENTRIES
      BY LayoutAssumption
    <3> QED
      BY <2>1, <3>1, <1>6, <1>9, <1>14 DEF NodeOK
  <2>2. CASE m # c
    <3>1. NodeOK(k, m)
      BY <2>2, <1>1, <1>12 DEF NodesOK
    <3> QED
      BY <2>2, <3>1, <1>7, <1>9, <1>13 DEF NodeOK
  <2> QED
    BY <2>1, <2>2
<1>16. BlocksApart(l)
  <2> SUFFICES ASSUME NEW n \in NodeNum, NEW m \in NodeNum, n # m, Live(l, n), Live(l, m),
                      n # c, m # c
               PROVE  Apart(l, n, m)
    BY <1>14 DEF BlocksApart, Apart
  <2>1. Apart(k, n, m)
    BY <1>1, <1>12 DEF BlocksApart
  <2> QED
    BY <2>1, <1>13 DEF Apart
<1>17. RootLive(l)
  BY <1>1, <1>5, <1>9, <1>12, Regions DEF RootLive
<1>18. Places(l.node[c]) = {}
  BY <1>6, <1>9 DEF Places
<1>19. ASSUME NEW m \in NodeNum \ {c}
       PROVE  SameEntries(k, l, m)
  BY <1>7, <1>9 DEF SameEntries, Entry, DataOf
<1>20. EntriesOK(l, {c})
  <2> SUFFICES ASSUME NEW m \in NodeNum, IsDir(l, m), NEW i \in Places(l.node[m])
               PROVE  EntryOK(l, {c}, m, Entry(l, m, i))
    BY DEF EntriesOK
  <2>1. m # c
    BY <1>18
  <2>2. IsDir(k, m) /\ i \in Places(k.node[m]) /\ Entry(l, m, i) = Entry(k, m, i)
    BY <2>1, <1>9, <1>12, <1>19 DEF IsDir, SameEntries
  <2>3. EntryOK(k, {}, m, Entry(k, m, i))
    BY <2>2, <1>1 DEF EntriesOK
  <2>4. Entry(k, m, i).node_num # c
    BY <2>3, <1>4 DEF EntryOK
  <2> QED
    BY <2>2, <2>3, <2>4, <1>9, <1>12 DEF EntryOK
<1>21. NoTwin(l)
  BY <1>1, <1>9, <1>12, <1>18, <1>19 DEF NoTwin, SameEntries, IsDir
<1>22. AllNamed(l, {c})
  <2> SUFFICES ASSUME NEW n \in NodeNum \ {0}, Live(l, n), n # c
               PROVE  HasEntry(l, n)
    BY DEF AllNamed
  <2>1. PICK m \in NodeNum : IsDir(k, m) /\ \E i \in Places(k.node[m]) : Entry(k, m, i).node_num = n
    BY <1>1, <1>12 DEF AllNamed, HasEntry
  <2>2. m # c /\ IsDir(l, m)
    BY <2>1, <1>4, <1>9, <1>12 DEF IsDir
  <2> QED
    BY <2>1, <2>2, <1>19 DEF HasEntry, SameEntries
<1>23. \A m \in NodeNum \ {c} : Kin(k, l, m)
  <2>1. \A m \in NodeNum : IsDir(k, m) => IsDir(l, m) /\ SameEntries(k, l, m)
    BY <1>4, <1>9, <1>12, <1>19 DEF IsDir
  <2>2. \A m \in NodeNum : KeepsName(k, l, m)
    BY <2>1, SameEntriesKeepNames
  <2> QED
    BY <2>2, <1>9, <1>12 DEF Kin
<1> QED
  BY <1>3, <1>4, <1>5, <1>7, <1>9, <1>10, <1>11, <1>12, <1>15, <1>16, <1>17, <1>20, <1>21, <1>22,
     <1>23 DEF Inv

\* A node that no entry names, and that holds none, goes back with its bits.
LEMMA FreeKeepsInv ==
    ASSUME NEW k, NEW c \in NodeNum \ {0}, Inv(k, {c}),
           IsDir(k, c) => Places(k.node[c]) = {},
           NEW nd \in t_node, NEW F, F \cap NodeBlock = {},
           \A m \in NodeNum \ {c} : Live(k, m) /\ Ptr(k, m) # 0 =>
                                       Ptr(k, m) \notin F /\ Dat(k, m) \notin F,
           NEW l, Changed(k, c, nd, F \cup {Blk(c)}, l)
    PROVE  Inv(l, {}) /\ \A n \in NodeNum : KeepsName(k, l, n)
<1>1. /\ k \in Disk /\ RootLive(k) /\ NodesOK(k) /\ BlocksApart(k)
      /\ EntriesOK(k, {c}) /\ NoTwin(k) /\ AllNamed(k, {c})
  BY DEF Inv
<1>2. /\ l.bitmap = k.bitmap \ (F \cup {Blk(c)}) /\ l.node = [k.node EXCEPT ![c] = nd]
      /\ l.block = k.block /\ l.server = k.server /\ Record(l)
  BY DEF Changed
<1>3. k.node \in [NodeNum -> t_node] /\ k.bitmap \in SUBSET Block
  BY <1>1 DEF Disk
<1>4. \A m \in NodeNum \ {c} : l.node[m] = k.node[m]
  BY <1>2, <1>3
<1>5. l \in Disk
  <2>1. l.bitmap \in SUBSET Block /\ l.node \in [NodeNum -> t_node]
    BY <1>2, <1>3
  <2>2. l.block \in [DataBlock -> [Slot -> t_dir_entry]] /\ l.server \in {"up", "exit", "wild"}
    BY <1>1, <1>2 DEF Disk
  <2> QED
    BY <1>2, <2>1, <2>2 DEF Disk, Record
<1>6. ~Live(l, c)
  BY <1>2 DEF Live, Blk
<1>7. \A m \in NodeNum \ {c} : Live(l, m) <=> Live(k, m)
  BY <1>2, NodeBlocks DEF Live, Blk
<1>8. \A m \in NodeNum \ {c} : Ptr(l, m) = Ptr(k, m) /\ Dat(l, m) = Dat(k, m)
  BY <1>2, <1>4 DEF Ptr, Dat, DataOf
<1>9. NodesOK(l)
  <2> SUFFICES ASSUME NEW m \in NodeNum, Live(l, m)
               PROVE  NodeOK(l, m)
    BY DEF NodesOK
  <2>1. m # c /\ Live(k, m)
    BY <1>6, <1>7
  <2>2. NodeOK(k, m)
    BY <2>1, <1>1 DEF NodesOK
  <2>3. Ptr(k, m) # 0 => Ptr(k, m) # Blk(c) /\ Dat(k, m) # Blk(c)
    BY <2>2, NodeBlocks DEF NodeOK
  <2>4. Ptr(k, m) # 0 => Ptr(k, m) \in l.bitmap /\ Dat(k, m) \in l.bitmap
    BY <2>1, <2>2, <2>3, <1>2 DEF NodeOK
  <2> QED
    BY <2>1, <2>2, <2>4, <1>4, <1>8 DEF NodeOK
<1>10. BlocksApart(l)
  <2> SUFFICES ASSUME NEW n \in NodeNum, NEW m \in NodeNum, n # m, Live(l, n), Live(l, m)
               PROVE  Apart(l, n, m)
    BY DEF BlocksApart
  <2>1. n # c /\ m # c
    BY <1>6
  <2>2. Apart(k, n, m)
    BY <2>1, <1>1, <1>7 DEF BlocksApart
  <2> QED
    BY <2>1, <2>2, <1>8 DEF Apart
<1>11. RootLive(l)
  BY <1>1, <1>4, <1>7, Regions DEF RootLive
<1>12. ASSUME NEW m \in NodeNum \ {c}
       PROVE  SameEntries(k, l, m)
  BY <1>2, <1>4 DEF SameEntries, Entry, DataOf
<1>13. \A m \in NodeNum : IsDir(l, m) => m # c /\ IsDir(k, m)
  BY <1>4, <1>6, <1>7 DEF IsDir
<1>14. EntriesOK(l, {})
  <2> SUFFICES ASSUME NEW m \in NodeNum, IsDir(l, m), NEW i \in Places(l.node[m])
               PROVE  EntryOK(l, {}, m, Entry(l, m, i))
    BY DEF EntriesOK
  <2>1. m # c /\ IsDir(k, m) /\ i \in Places(k.node[m]) /\ Entry(l, m, i) = Entry(k, m, i)
    BY <1>12, <1>13 DEF SameEntries
  <2>2. EntryOK(k, {c}, m, Entry(k, m, i))
    BY <2>1, <1>1 DEF EntriesOK
  <2> QED
    BY <2>1, <2>2, <1>4, <1>7 DEF EntryOK
<1>15. NoTwin(l)
  BY <1>1, <1>12, <1>13 DEF NoTwin, SameEntries
<1>16. AllNamed(l, {})
  <2> SUFFICES ASSUME NEW n \in NodeNum \ {0}, Live(l, n)
               PROVE  HasEntry(l, n)
    BY DEF AllNamed
  <2>1. n # c /\ Live(k, n)
    BY <1>6, <1>7
  <2>2. PICK m \in NodeNum : IsDir(k, m) /\ \E i \in Places(k.node[m]) : Entry(k, m, i).node_num = n
    BY <2>1, <1>1 DEF AllNamed, HasEntry
  <2>3. m # c
    BY <2>2
  <2>4. IsDir(l, m)
    BY <2>2, <2>3, <1>4, <1>7 DEF IsDir
  <2> QED
    BY <2>2, <2>3, <2>4, <1>12 DEF HasEntry, SameEntries
<1>17. \A n \in NodeNum : KeepsName(k, l, n)
  <2> SUFFICES ASSUME NEW n \in NodeNum, NEW d \in NodeNum, NEW x \in Name, Holds(k, d, n, x)
               PROVE  Holds(l, d, n, x)
    BY DEF KeepsName
  <2>1. d # c
    BY DEF Holds
  <2>2. IsDir(l, d)
    BY <2>1, <1>4, <1>7 DEF Holds, IsDir
  <2> QED
    BY <2>1, <2>2, <1>12 DEF Holds, SameEntries
<1> QED
  BY <1>5, <1>9, <1>10, <1>11, <1>14, <1>15, <1>16, <1>17 DEF Inv

-----------------------------------------------------------------------------
(***************************************************************************)
(* Looking a name up, and removing its entry.                              *)
(***************************************************************************)

\* The first entry with a name that a directory holds.
LEMMA GetEntry ==
    ASSUME NEW k, NEW M, Inv(k, M), NEW d \in NodeNum, IsDir(k, d),
           NEW name, exists_entry(k, k.node[d], name),
           NEW i, i = Least(Matches(k, k.node[d], name)),
           NEW c, c = get_entry(k, k.node[d], name).node_num
    PROVE  /\ i \in Places(k.node[d])
           /\ c = Entry(k, d, i).node_num
           /\ EntryOK(k, M, d, Entry(k, d, i))
           /\ ParentOf(k.node[c]) = d
<1>1. NodeOK(k, d) /\ k \in Disk /\ EntriesOK(k, M)
  BY DEF Inv, NodesOK, IsDir
<1>2. Places(k.node[d]) = 0 .. k.node[d].file_size - 1 /\ k.node[d].file_size \in Nat
  BY <1>1, PlacesInBlock
<1>3. Matches(k, k.node[d], name) \subseteq Nat /\ Matches(k, k.node[d], name) # {}
  <2>1. Matches(k, k.node[d], name) \subseteq Places(k.node[d])
    BY DEF Matches
  <2>2. \A j \in Places(k.node[d]) : j \in Nat
    BY <1>2
  <2>3. Matches(k, k.node[d], name) # {}
    BY DEF exists_entry
  <2> QED
    BY <2>1, <2>2, <2>3
<1>4. i \in Matches(k, k.node[d], name)
  BY <1>3, LeastExists
<1>5. i \in Places(k.node[d])
  BY <1>4 DEF Matches
<1>6. c = Entry(k, d, i).node_num
  BY DEF get_entry, Entry
<1>7. EntryOK(k, M, d, Entry(k, d, i))
  BY <1>1, <1>5 DEF EntriesOK
<1>8. k.node[c].parent_block = Blk(d)
  BY <1>6, <1>7 DEF EntryOK
<1>9. ParentOf(k.node[c]) = d
  BY <1>8, NodeBlocks DEF ParentOf
<1> QED
  BY <1>5, <1>6, <1>7, <1>9

\* No entry of directory d names node c in l; all other names are kept.
Erases(k, d, c, l) ==
    /\ Inv(l, {c})
    /\ l.bitmap = k.bitmap /\ l.server = k.server
    /\ \A m \in NodeNum \ {d} : l.node[m] = k.node[m]
    /\ l.node[d].state = k.node[d].state
    /\ l.node[d].parent_block = k.node[d].parent_block
    /\ \A m \in NodeNum : Ptr(l, m) # 0 /\ Live(k, m) => Ptr(l, m) = Ptr(k, m) /\ Dat(l, m) = Dat(k, m)
    /\ \A n \in NodeNum \ {c} : KeepsName(k, l, n)

\* Without its entry, a node is reserved and unnamed; nothing else moves.
LEMMA DeleteKeepsInv ==
    ASSUME NEW k, Inv(k, {}), NEW d \in NodeNum, IsDir(k, d),
           NEW name, exists_entry(k, k.node[d], name),
           NEW c, c = get_entry(k, k.node[d], name).node_num,
           NEW l, l = delete_directory_entry(k, d, name)
    PROVE  Erases(k, d, c, l)
<1> USE DEF Erases
<1>1. /\ k \in Disk /\ RootLive(k) /\ NodesOK(k) /\ BlocksApart(k)
      /\ EntriesOK(k, {}) /\ NoTwin(k) /\ AllNamed(k, {})
  BY DEF Inv
<1>2. PICK i : i = Least(Matches(k, k.node[d], name))
  OBVIOUS
<1>3. /\ i \in Places(k.node[d])
      /\ c = Entry(k, d, i).node_num
      /\ EntryOK(k, {}, d, Entry(k, d, i))
  BY <1>2, GetEntry
<1>4. NodeOK(k, d) /\ Live(k, d) /\ k.node[d].state = 2
  BY <1>1 DEF NodesOK, IsDir
<1> DEFINE s == k.node[d].file_size
           p == Ptr(k, d)
           q == Dat(k, d)
           pl == IF s = 1 THEN 0 ELSE p
           nd == [k.node[d] EXCEPT !.file_size = s - 1, !.indirect_pointer_block = pl]
           r == [j \in Slot |-> IF j < i \/ j + 1 \notin Slot THEN k.block[q][j]
                                                              ELSE k.block[q][j + 1]]
<1>5. /\ s \in Nat /\ i \in 0 .. s - 1 /\ s >= 1 /\ s <= DIR_ENTRIES /\ DIR_ENTRIES \in Nat
      /\ Places(k.node[d]) = 0 .. s - 1
      /\ p # 0 /\ p \in DataBlock /\ q \in DataBlock /\ p # q
      /\ \A j \in 0 .. s - 1 : j \in Slot /\ Entry(k, d, j) = k.block[q][j]
  <2>1. /\ s \in Nat /\ Places(k.node[d]) = 0 .. s - 1
        /\ \A j \in 0 .. s - 1 : j \in Slot /\ p # 0 /\ Entry(k, d, j) = k.block[q][j]
    BY <1>1, <1>4, PlacesInBlock
  <2>2. i \in 0 .. s - 1 /\ p # 0
    BY <2>1, <1>3
  <2>3. s >= 1 /\ s <= DIR_ENTRIES /\ DIR_ENTRIES \in Nat
    BY <2>1, <2>2, <1>4, LayoutAssumption DEF NodeOK
  <2>4. p \in DataBlock /\ q \in DataBlock /\ p # q
    BY <2>2, <1>4 DEF NodeOK
  <2> QED
    BY <2>1, <2>2, <2>3, <2>4
<1>6. /\ l.bitmap = k.bitmap /\ l.server = k.server /\ Record(l)
      /\ l.node = [k.node EXCEPT ![d] = nd]
      /\ l.block = [k.block EXCEPT ![q] = r]
  <2>1. l = [k EXCEPT !.block[q] = r, !.node[d] = nd]
    BY <1>2 DEF delete_directory_entry, Ptr, Dat
  <2> QED
    BY <2>1, <1>1 DEF Disk, Record
<1>7. /\ k.node \in [NodeNum -> t_node] /\ k.node[d] \in t_node
      /\ k.block \in [DataBlock -> [Slot -> t_dir_entry]]
  BY <1>1 DEF Disk
<1>8. /\ nd \in t_node /\ nd.state = 2 /\ nd.parent_block = k.node[d].parent_block
      /\ nd.file_size = s - 1 /\ nd.indirect_pointer_block = pl
  <2>1. s - 1 \in Nat
    BY <1>5
  <2>2. pl \in Nat
    <3>0. \A b \in DataBlock : b \in Nat
      BY Regions
    <3>1. p \in Nat
      BY <1>5, <3>0
    <3> HIDE DEF p
    <3> QED
      BY <3>1
  <2> QED
    BY <2>1, <2>2, <1>4, <1>7 DEF t_node
<1>9. /\ r \in [Slot -> t_dir_entry]
      /\ \A j \in 0 .. s - 2 : j \in Slot /\ r[j] = IF j < i THEN Entry(k, d, j) ELSE Entry(k, d, j + 1)
  <2>1. r \in [Slot -> t_dir_entry]
    <3>1. k.block[q] \in [Slot -> t_dir_entry]
      BY <1>5, <1>7
    <3> QED
      BY <3>1
  <2>2. ASSUME NEW j \in 0 .. s - 2
        PROVE  j \in Slot /\ r[j] = IF j < i THEN Entry(k, d, j) ELSE Entry(k, d, j + 1)
    <3>0. s \in Nat
      BY <1>5
    <3>1. j \in 0 .. s - 1 /\ j + 1 \in 0 .. s - 1
      BY ONLY <3>0, j \in 0 .. s - 2
    <3>2. j \in Slot /\ j + 1 \in Slot
      BY <3>1, <1>5
    <3>3. r[j] = IF j < i THEN k.block[q][j] ELSE k.block[q][j + 1]
      BY <3>2
    <3> QED
      BY <3>1, <3>2, <3>3, <1>5
  <2> QED
    BY <2>1, <2>2
<1> HIDE DEF r, nd, p, q
<1>10. l.node[d] = nd /\ \A m \in NodeNum \ {d} : l.node[m] = k.node[m]
  BY <1>6, <1>7
<1>11. l.block[q] = r /\ \A b \in DataBlock \ {q} : l.block[b] = k.block[b]
  BY <1>5, <1>6, <1>7
<1>12. l \in Disk
  <2>1. l.bitmap \in SUBSET Block /\ l.server \in {"up", "exit", "wild"}
    BY <1>1, <1>6 DEF Disk
  <2>2. l.node \in [NodeNum -> t_node]
    BY <1>6, <1>7, <1>8
  <2>3. l.block \in [DataBlock -> [Slot -> t_dir_entry]]
    BY <1>5, <1>6, <1>7, <1>9
  <2> QED
    BY <1>6, <2>1, <2>2, <2>3 DEF Disk, Record
<1>13. \A m \in NodeNum : Live(l, m) <=> Live(k, m)
  BY <1>6 DEF Live
<1>14. ASSUME NEW m \in NodeNum \ {d}, Live(k, m)
       PROVE  Same(k, l, m) /\ NodeOK(k, m)
  <2>1. NodeOK(k, m) /\ Apart(k, d, m)
    BY <1>1, <1>4, <1>14 DEF NodesOK, BlocksApart
  <2>2. Ptr(k, m) # 0 => Ptr(k, m) \in DataBlock \ {q} /\ Dat(k, m) \in DataBlock \ {q}
    BY <2>1, <1>5 DEF NodeOK, Apart, p, q
  <2> QED
    BY <2>1, <2>2, <1>10, <1>11 DEF Same
<1>15. Ptr(l, d) = pl /\ (Ptr(l, d) # 0 => Ptr(l, d) = p /\ Dat(l, d) = q)
  <2>1. Ptr(l, d) = pl
    BY <1>8, <1>10 DEF Ptr
  <2>2. l.block[p] = k.block[p]
    BY <1>5, <1>11
  <2>3. k.block[p][0].node_num = q
    BY DEF p, q, Ptr, Dat, DataOf
  <2>4. Ptr(l, d) # 0 => Ptr(l, d) = p
    BY <2>1
  <2> QED
    BY <2>1, <2>2, <2>3, <2>4 DEF Ptr, Dat, DataOf
<1>16. \A m \in NodeNum : Ptr(l, m) # 0 /\ Live(k, m) => Ptr(l, m) = Ptr(k, m) /\ Dat(l, m) = Dat(k, m)
  <2> SUFFICES ASSUME NEW m \in NodeNum, Ptr(l, m) # 0, Live(k, m)
               PROVE  Ptr(l, m) = Ptr(k, m) /\ Dat(l, m) = Dat(k, m)
    OBVIOUS
  <2>1. CASE m = d
    BY <2>1, <1>15 DEF p, q
  <2>2. CASE m # d
    BY <2>2, <1>14, SameView
  <2> QED
    BY <2>1, <2>2
<1>17. NodesOK(l)
  <2> SUFFICES ASSUME NEW m \in NodeNum, Live(l, m)
               PROVE  NodeOK(l, m)
    BY DEF NodesOK
  <2>1. Live(k, m)
    BY <1>13
  <2>2. CASE m = d
    <3>1. l.node[d].file_size = s - 1 /\ l.node[d].state = 2
      BY <1>8, <1>10
    <3>2. Ptr(l, d) = 0 <=> s - 1 = 0
      BY <1>5, <1>15
    <3>3. p \in l.bitmap /\ q \in l.bitmap
      BY <1>4, <1>5, <1>6 DEF NodeOK, p, q
    <3>4. s - 1 <= DIR_ENTRIES
      BY <1>5
    <3> QED
      BY <2>2, <3>1, <3>2, <3>3, <3>4, <1>5, <1>15 DEF NodeOK
  <2>3. CASE m # d
    <3>1. Same(k, l, m) /\ NodeOK(k, m)
      BY <2>1, <2>3, <1>14
    <3>2. l.node[m] = k.node[m]
      BY <2>3, <1>10
    <3> QED
      BY <3>1, <3>2, <1>6, SameView DEF NodeOK
  <2> QED
    BY <2>2, <2>3
<1>18. BlocksApart(l)
  <2> SUFFICES ASSUME NEW n \in NodeNum, NEW m \in NodeNum, n # m, Live(l, n), Live(l, m)
               PROVE  Apart(l, n, m)
    BY DEF BlocksApart
  <2>1. Apart(k, n, m)
    BY <1>1, <1>13 DEF BlocksApart
  <2> QED
    BY <2>1, <1>13, <1>16 DEF Apart
<1>19. \A m \in NodeNum : /\ l.node[m].state = k.node[m].state
                          /\ l.node[m].parent_block = k.node[m].parent_block
  BY <1>4, <1>8, <1>10
<1>20. RootLive(l)
  BY <1>1, <1>13, <1>19, Regions DEF RootLive
<1>21. \A m \in NodeNum : IsDir(l, m) <=> IsDir(k, m)
  BY <1>13, <1>19 DEF IsDir
<1>22. ASSUME NEW m \in NodeNum \ {d}, IsDir(k, m)
       PROVE  SameEntries(k, l, m)
  <2>1. Same(k, l, m)
    BY <1>14, <1>22 DEF IsDir
  <2> QED
    BY <2>1, SameView DEF SameEntries
<1>23. /\ Places(l.node[d]) = 0 .. s - 2
       /\ \A j \in 0 .. s - 2 : Entry(l, d, j) = IF j < i THEN Entry(k, d, j) ELSE Entry(k, d, j + 1)
  <2>1. NodeOK(l, d)
    BY <1>4, <1>13, <1>17 DEF NodesOK
  <2>2. l.node[d].file_size = s - 1
    BY <1>8, <1>10
  <2>3. Places(l.node[d]) = 0 .. (s - 1) - 1
    BY <2>1, <2>2, <1>12, PlacesInBlock
  <2>4. (s - 1) - 1 = s - 2
    BY <1>5
  <2>5. ASSUME NEW j \in 0 .. s - 2
        PROVE  Entry(l, d, j) = r[j]
    <3>1. Entry(l, d, j) = l.block[Dat(l, d)][j] /\ Ptr(l, d) # 0
      BY <2>1, <2>3, <2>4, <2>5, <1>12, PlacesInBlock
    <3> QED
      BY <3>1, <1>11, <1>15
  <2> QED
    BY <2>3, <2>4, <2>5, <1>9
\* Each entry that stays comes from one other than the removed one.
<1> DEFINE from(j) == IF j < i THEN j ELSE j + 1
<1>24. ASSUME NEW j \in 0 .. s - 2
       PROVE  from(j) \in Places(k.node[d]) /\ from(j) # i /\ Entry(l, d, j) = Entry(k, d, from(j))
  <2>1. from(j) \in 0 .. s - 1 /\ from(j) # i
    BY <1>5
  <2> QED
    BY <2>1, <1>5, <1>23
<1>25. \A j \in Places(k.node[d]) : Entry(k, d, j).node_num = c => j = i
  BY <1>1, <1>3 DEF NoTwin
<1>26. EntriesOK(l, {c})
  <2> SUFFICES ASSUME NEW m \in NodeNum, IsDir(l, m), NEW j \in Places(l.node[m])
               PROVE  EntryOK(l, {c}, m, Entry(l, m, j))
    BY DEF EntriesOK
  <2>1. ASSUME NEW e, EntryOK(k, {}, m, e), e.node_num # c
        PROVE  EntryOK(l, {c}, m, e)
    BY <2>1, <1>13, <1>19 DEF EntryOK
  <2>2. CASE m # d
    <3>1. j \in Places(k.node[m]) /\ Entry(l, m, j) = Entry(k, m, j)
      BY <2>2, <1>21, <1>22 DEF SameEntries
    <3>2. EntryOK(k, {}, m, Entry(k, m, j))
      BY <3>1, <1>1, <1>21 DEF EntriesOK
    <3>3. Entry(k, m, j).node_num # c
      BY <3>2, <2>2, <1>3, NodeBlocks DEF EntryOK
    <3> QED
      BY <3>1, <3>2, <3>3, <2>1
  <2>3. CASE m = d
    <3>1. j \in 0 .. s - 2
      BY <2>3, <1>23
    <3>2. from(j) \in Places(k.node[d]) /\ from(j) # i /\ Entry(l, d, j) = Entry(k, d, from(j))
      BY <3>1, <1>24
    <3> HIDE DEF from
    <3>3. EntryOK(k, {}, d, Entry(k, d, from(j))) /\ Entry(k, d, from(j)).node_num # c
      BY <3>2, <1>1, <1>25 DEF EntriesOK
    <3> QED
      BY <3>2, <3>3, <2>1, <2>3
  <2> QED
    BY <2>2, <2>3
<1>27. NoTwin(l)
  <2> SUFFICES ASSUME NEW m \in NodeNum, IsDir(l, m), NEW j \in Places(l.node[m]),
                      NEW h \in Places(l.node[m]),
                      Entry(l, m, j).node_num = Entry(l, m, h).node_num
               PROVE  j = h
    BY DEF NoTwin
  <2>1. CASE m # d
    BY <2>1, <1>1, <1>21, <1>22 DEF NoTwin, SameEntries
  <2>2. CASE m = d
    <3>1. j \in 0 .. s - 2 /\ h \in 0 .. s - 2
      BY <2>2, <1>23
    <3>2. /\ from(j) \in Places(k.node[d]) /\ from(h) \in Places(k.node[d])
          /\ Entry(k, d, from(j)).node_num = Entry(k, d, from(h)).node_num
      BY <3>1, <2>2, <1>24
    <3>3. from(j) = from(h)
      <4> HIDE DEF from
      <4> QED
        BY <3>2, <1>1 DEF NoTwin
    <3> QED
      BY <3>1, <3>3, <1>5
  <2> QED
    BY <2>1, <2>2
<1>28. ASSUME NEW m \in NodeNum, IsDir(k, m), NEW j \in Places(k.node[m]), Entry(k, m, j).node_num # c
       PROVE  \E h \in Places(l.node[m]) : Entry(l, m, h) = Entry(k, m, j)
  <2>1. CASE m # d
    BY <2>1, <1>22, <1>28 DEF SameEntries
  <2>2. CASE m = d
    <3>1. j \in 0 .. s - 1 /\ j # i
      BY <2>2, <1>3, <1>5, <1>28
    <3>2. PICK h \in 0 .. s - 2 : from(h) = j
      <4>1. CASE j < i
        <5>1. j \in 0 .. s - 2
          BY <3>1, <4>1, <1>5
        <5> QED
          BY <4>1, <5>1
      <4>2. CASE ~(j < i)
        <5>1. j - 1 \in 0 .. s - 2 /\ ~(j - 1 < i) /\ (j - 1) + 1 = j
          BY <3>1, <4>2, <1>5
        <5> QED
          BY <5>1
      <4> QED
        BY <4>1, <4>2
    <3> QED
      BY <2>2, <3>2, <1>23, <1>24
  <2> QED
    BY <2>1, <2>2
<1>29. AllNamed(l, {c})
  <2> SUFFICES ASSUME NEW n \in NodeNum \ {0}, Live(l, n), n # c
               PROVE  HasEntry(l, n)
    BY DEF AllNamed
  <2>1. PICK m \in NodeNum : IsDir(k, m) /\ \E j \in Places(k.node[m]) : Entry(k, m, j).node_num = n
    BY <1>1, <1>13 DEF AllNamed, HasEntry
  <2> QED
    BY <2>1, <1>21, <1>28 DEF HasEntry
<1>30. \A n \in NodeNum \ {c} : KeepsName(k, l, n)
  <2> HIDE DEF from
  <2> QED
    BY <1>21, <1>28 DEF KeepsName, Holds
<1> QED
  BY <1>6, <1>10, <1>12, <1>16, <1>17, <1>18, <1>19, <1>20, <1>26, <1>27, <1>29, <1>30 DEF Inv

-----------------------------------------------------------------------------
(***************************************************************************)
(* Paths.                                                                  *)
(***************************************************************************)

\* Every node a walk visits is live, and the last one is a directory.
LEMMA Walk ==
    ASSUME NEW k, Inv(k, {}), NEW w \in search_path(k)
    PROVE  /\ Len(w) \in Nat \ {0}
           /\ \A i \in 1 .. Len(w) : w[i] \in NodeNum /\ Live(k, w[i])
           /\ w[1] = 0
           /\ \A i \in 2 .. Len(w) : k.node[w[i]].parent_block = Blk(w[i - 1])
           /\ Dir(w) \in NodeNum /\ IsDir(k, Dir(w))
<1>1. PICK n \in 1 .. MAX_DEPTH + 1 : w \in [1 .. n -> NodeNum]
  BY DEF search_path
<1>2. n \in Nat \ {0} /\ Len(w) = n
  BY <1>1, TreeAssumption
<1>3. /\ w[1] = 0
      /\ \A i \in 2 .. n : Visits(k, w[i - 1], w[i])
      /\ k.node[w[n]].state = 2
  BY <1>2 DEF search_path
<1>4. \A i \in 1 .. n : w[i] \in NodeNum
  BY <1>1
<1>5. ASSUME NEW i \in 2 .. n, Live(k, w[i - 1])
      PROVE  Live(k, w[i]) /\ k.node[w[i]].parent_block = Blk(w[i - 1])
  <2>1. i - 1 \in 1 .. n
    BY <1>2
  <2>2. PICK d \in NodeNum : d = w[i - 1]
    BY <2>1, <1>4
  <2>3. IsDir(k, d)
    BY <1>3, <1>5, <2>2 DEF Visits, IsDir
  <2>4. PICK name \in Name : /\ exists_entry(k, k.node[d], name)
                             /\ get_entry(k, k.node[d], name).node_num = w[i]
    BY <1>3, <2>2 DEF Visits
  <2>5. PICK j : j = Least(Matches(k, k.node[d], name))
    OBVIOUS
  <2>6. EntryOK(k, {}, d, Entry(k, d, j)) /\ w[i] = Entry(k, d, j).node_num
    BY <2>3, <2>4, <2>5, GetEntry
  <2> QED
    BY <2>2, <2>6 DEF EntryOK
<1>6. \A i \in 1 .. n : Live(k, w[i])
  <2> DEFINE S == {i \in 1 .. n : ~Live(k, w[i])}
  <2>1. ASSUME S # {}
        PROVE  FALSE
    <3>1. S \subseteq Nat
      BY <1>2
    <3>2. PICK i : i = Least(S)
      OBVIOUS
    <3>3. i \in S /\ \A j \in S : i <= j
      BY <2>1, <3>1, <3>2, LeastExists
    <3>4. i # 1
      BY <3>3, <1>3 DEF Inv, RootLive
    <3>5. i \in 2 .. n /\ i - 1 \in 1 .. n /\ ~(i <= i - 1)
      BY <3>3, <3>4, <1>2
    <3>6. Live(k, w[i - 1])
      BY <3>3, <3>5
    <3> QED
      BY <3>3, <3>5, <3>6, <1>5
  <2> QED
    BY <2>1
<1>7. \A i \in 2 .. n : i - 1 \in 1 .. n
  BY <1>2
<1>8. n \in 1 .. n
  BY <1>2
<1> QED
  BY <1>2, <1>3, <1>4, <1>5, <1>6, <1>7, <1>8 DEF Dir, IsDir

-----------------------------------------------------------------------------
(***************************************************************************)
(* The operations.                                                         *)
(***************************************************************************)
\* sac_open and sac_mkdir keep the invariant and link one new node.
LEMMA CreateKeepsInv ==
    ASSUME NEW k, Inv(k, {}), k.server = "up", NEW d \in NodeNum, IsDir(k, d),
           NEW name \in Name, NEW state \in {1, 2},
           NEW l, l = CreateNode(k, d, name, state)
    PROVE  /\ Outcome(l)
           /\ l.server = "up" => \E c \in NodeNum \ {0} :
                 /\ c = get_free_node_block(k.bitmap) - NODE_TABLE_INITIAL_BLOCK
                 /\ ~Live(k, c) /\ l.node[c].state = state /\ Links(k, l, c, d, name)
<1>1. CASE FreeBlocks(k.bitmap, NodeBlock) = {}
  <2>1. l = Exit(k) /\ k \in Disk
    BY <1>1 DEF CreateNode, Inv
  <2> QED
    BY <2>1, Exits
<1>2. CASE FreeBlocks(k.bitmap, NodeBlock) # {}
  <2>1. PICK b : b = get_free_node_block(k.bitmap)
    OBVIOUS
  <2>2. b \in NodeBlock
    <3>1. NodeBlock \subseteq Nat
      BY Regions
    <3>2. get_free_block(k.bitmap, NodeBlock) \in NodeBlock
      BY <1>2, <3>1, FreeBlockIsFree
    <3> QED
      BY <3>2, <2>1 DEF get_free_node_block
  <2>3. PICK c \in NodeNum : c = b - NODE_TABLE_INITIAL_BLOCK /\ Blk(c) = b
    BY <2>2, NodeBlocks
  <2>4. PICK nd : nd = create_node(state, d)
    OBVIOUS
  <2>5. PICK h : h = Reserved(k, c, nd)
    OBVIOUS
  <2>6. /\ c # 0 /\ ~Live(k, c)
        /\ Inv(h, {c}) /\ h.server = k.server
        /\ Live(h, c) /\ h.node[c] = nd
        /\ \A m \in NodeNum \ {c} : h.node[m] = k.node[m]
        /\ \A m \in NodeNum \ {c} : Kin(k, h, m)
    <3>1. FreeBlocks(k.bitmap, NodeBlock) # {} /\ Blk(c) = get_free_node_block(k.bitmap)
      BY <1>2, <2>1, <2>3
    <3> QED
      <4>1. Allocates(k, c, nd, h)
        BY <2>4, <2>5, <3>1, AllocKeepsInv
      <4> QED
        BY <4>1 DEF Allocates
  <2>7. d # c
    BY <2>6 DEF IsDir
  <2>8. IsDir(h, d) /\ h.node[d] = k.node[d]
    BY <2>6, <2>7 DEF IsDir, Kin
  <2>9. l = add_directory_entry(h, d, h.node[d], name, c)
    <3>1. h = [k EXCEPT !.bitmap = @ \cup {b}, !.node[c] = create_node(state, d)]
      BY <2>3, <2>4, <2>5 DEF Reserved
    <3> QED
      BY <1>2, <2>1, <2>3, <2>8, <3>1 DEF CreateNode
  <2>10. h.node[c].parent_block = Blk(d)
    BY <2>6, <2>4 DEF create_node, Blk
  <2>11. Outcome(l) /\ (l.server = "up" => KinAll(h, l) /\ Holds(l, d, c, name))
    BY <2>6, <2>7, <2>8, <2>9, <2>10, AddKeepsInv
  <2>12. ASSUME l.server = "up"
         PROVE  l.node[c].state = state /\ Links(k, l, c, d, name)
    <3>1. \A m \in NodeNum : Kin(h, l, m)
      BY <2>11, <2>12 DEF KinAll
    <3>2. Live(l, c) /\ l.node[c].parent_block = Blk(d) /\ l.node[c].state = state
      BY <3>1, <2>6, <2>10, <2>4 DEF Kin, create_node
    <3>3. \A m \in NodeNum \ {c} : Kin(k, l, m)
      BY <3>1, <2>6, KinTwice
    <3> QED
      BY <3>2, <3>3, <2>11, <2>12 DEF Links
  <2> QED
    BY <2>1, <2>3, <2>6, <2>11, <2>12
<1> QED
  BY <1>1, <1>2

\* sac_remove of a file keeps the invariant.
LEMMA RemoveFileKeepsInv ==
    ASSUME NEW k, Inv(k, {}), k.server = "up", NEW d \in NodeNum, IsDir(k, d),
           NEW name, exists_entry(k, k.node[d], name),
           NEW c, c = get_entry(k, k.node[d], name).node_num, k.node[c].state = 1,
           NEW l, l = RemoveFile(k, c, name)
    PROVE  Outcome(l) /\ c \in NodeNum \ {0} /\ Unlinks(k, l, c)
<1>1. k \in Disk /\ NodesOK(k) /\ BlocksApart(k)
  BY DEF Inv
<1>2. PICK i : i = Least(Matches(k, k.node[d], name))
  OBVIOUS
<1>3. EntryOK(k, {}, d, Entry(k, d, i)) /\ c = Entry(k, d, i).node_num /\ ParentOf(k.node[c]) = d
  BY <1>2, GetEntry
<1>4. c \in NodeNum \ {0} /\ Live(k, c) /\ c # d
  BY <1>3 DEF EntryOK, IsDir
<1>5. PICK h : h = delete_directory_entry(k, d, name)
  OBVIOUS
<1>6. /\ Inv(h, {c})
      /\ h.bitmap = k.bitmap /\ h.server = k.server
      /\ \A m \in NodeNum \ {d} : h.node[m] = k.node[m]
      /\ h.node[d].state = k.node[d].state
      /\ h.node[d].parent_block = k.node[d].parent_block
      /\ \A m \in NodeNum : Ptr(h, m) # 0 /\ Live(k, m) => Ptr(h, m) = Ptr(k, m) /\ Dat(h, m) = Dat(k, m)
      /\ \A n \in NodeNum \ {c} : KeepsName(k, h, n)
  <2>1. Erases(k, d, c, h)
    BY <1>5, DeleteKeepsInv
  <2> QED
    BY <2>1 DEF Erases
<1> DEFINE F == BlocksOf(k, k.node[c])
           nd == [k.node[c] EXCEPT !.state = 0]
<1>7. Changed(h, c, nd, F \cup {Blk(c)}, l)
  <2>1. PICK g : g = [k EXCEPT !.bitmap = @ \ F]
    OBVIOUS
  <2>2. g.node = k.node /\ g.block = k.block /\ g.bitmap = k.bitmap \ F /\ g.server = k.server
    BY <1>1, <2>1 DEF Disk
  <2>3. PICK y : y = delete_directory_entry(g, d, name)
    OBVIOUS
  <2>4. /\ y.node = h.node /\ y.block = h.block /\ y.server = h.server
        /\ y.bitmap = h.bitmap \ F /\ Record(y)
    <3>1. /\ exists_entry(g, g.node[d], name)
          /\ Matches(g, g.node[d], name) = Matches(k, k.node[d], name)
          /\ DataOf(g, g.node[d]) = DataOf(k, k.node[d])
      BY <2>2 DEF exists_entry, Matches, DataOf
    <3> DEFINE q == DataOf(k, k.node[d])
               r == [j \in Slot |-> IF j < i \/ j + 1 \notin Slot
                                      THEN k.block[q][j] ELSE k.block[q][j + 1]]
               x == [k.node[d] EXCEPT !.file_size = @ - 1,
                       !.indirect_pointer_block = IF k.node[d].file_size = 1 THEN 0 ELSE @]
    <3>2. h = [k EXCEPT !.block[q] = r, !.node[d] = x]
      BY <1>2, <1>5 DEF delete_directory_entry
    <3>3. y = [g EXCEPT !.block[q] = r, !.node[d] = x]
      BY <1>2, <2>2, <2>3, <3>1 DEF delete_directory_entry
    <3> HIDE DEF q, r, x
    <3>4. /\ h.node = [k.node EXCEPT ![d] = x] /\ h.block = [k.block EXCEPT ![q] = r]
      BY <1>1, <3>2 DEF Disk
    <3>5. g = [bitmap |-> k.bitmap \ F, node |-> k.node, block |-> k.block, server |-> k.server]
      BY <1>1, <2>1 DEF Disk
    <3>6. /\ y.node = [k.node EXCEPT ![d] = x] /\ y.block = [k.block EXCEPT ![q] = r]
          /\ y.server = k.server /\ y.bitmap = k.bitmap \ F /\ Record(y)
      BY <3>3, <3>5 DEF Record
    <3> QED
      BY <3>4, <3>6, <1>6
  <2>5. l = [y EXCEPT !.node[c] = nd, !.bitmap = @ \ {Blk(c)}]
    BY <1>3, <2>1, <2>3 DEF RemoveFile, Blk
  <2>6. /\ l.node = [h.node EXCEPT ![c] = nd] /\ l.block = h.block /\ l.server = h.server
        /\ l.bitmap = (h.bitmap \ F) \ {Blk(c)} /\ Record(l)
    BY <2>4, <2>5 DEF Record
  <2> HIDE DEF F, nd
  <2>7. (h.bitmap \ F) \ {Blk(c)} = h.bitmap \ (F \cup {Blk(c)})
    OBVIOUS
  <2> QED
    BY <2>6, <2>7 DEF Changed
<1>8. nd \in t_node
  BY <1>1, <1>4 DEF Disk, t_node
<1>9. F \cap NodeBlock = {}
  <2>1. NodeOK(k, c)
    BY <1>1, <1>4 DEF NodesOK
  <2>2. F \subseteq DataBlock
    BY <2>1 DEF BlocksOf, NodeOK, Ptr, Dat
  <2> QED
    BY <2>2, Regions
<1>10. ASSUME NEW m \in NodeNum \ {c}, Live(h, m), Ptr(h, m) # 0
       PROVE  Ptr(h, m) \notin F /\ Dat(h, m) \notin F
  <2>1. Live(k, m)
    BY <1>6, <1>10 DEF Live
  <2>2. Ptr(h, m) = Ptr(k, m) /\ Dat(h, m) = Dat(k, m)
    BY <2>1, <1>6, <1>10
  <2>3. Apart(k, c, m)
    BY <2>1, <1>1, <1>4 DEF BlocksApart
  <2>4. Ptr(k, c) = 0 => F = {}
    BY DEF BlocksOf, Ptr
  <2>5. Ptr(k, c) # 0 => F = {Ptr(k, c), Dat(k, c)}
    BY DEF BlocksOf, Ptr, Dat
  <2> HIDE DEF F
  <2> QED
    BY <2>2, <2>3, <2>4, <2>5, <1>10 DEF Apart
<1>11. ~IsDir(h, c)
  BY <1>4, <1>6 DEF IsDir
<1> HIDE DEF F, nd
<1>12. Inv(l, {}) /\ \A n \in NodeNum : KeepsName(h, l, n)
  BY <1>4, <1>6, <1>7, <1>8, <1>9, <1>10, <1>11, FreeKeepsInv
<1>13. l.server = "up"
  BY <1>6, <1>7 DEF Changed
<1>14. Unlinks(k, l, c)
  <2>1. /\ l.bitmap = h.bitmap \ (F \cup {Blk(c)}) /\ l.node = [h.node EXCEPT ![c] = nd]
        /\ h.node \in [NodeNum -> t_node]
    BY <1>6, <1>7 DEF Changed, Inv, Disk
  <2>2. ~Live(l, c)
    BY <2>1 DEF Live, Blk
  <2>3. \A m \in NodeNum \ {c} : l.node[m] = h.node[m]
    BY <2>1
  <2>4. \A m \in NodeNum \ {c} : Blk(m) \in NodeBlock /\ Blk(m) # Blk(c)
    BY <1>4, NodeBlocks
  <2>5. \A m \in NodeNum \ {c} : Live(l, m) <=> Live(k, m)
    BY <2>1, <2>4, <1>6, <1>9 DEF Live, Blk
  <2>6. \A m \in NodeNum \ {c} : KeepsName(k, l, m)
    BY <1>6, <1>12 DEF KeepsName
  <2> QED
    BY <2>2, <2>3, <2>5, <2>6, <1>6 DEF Unlinks, Kin
<1> QED
  BY <1>4, <1>12, <1>13, <1>14, Completes

\* sac_rmdir of an empty directory keeps the invariant.
LEMMA RemoveDirKeepsInv ==
    ASSUME NEW k, Inv(k, {}), k.server = "up", NEW d \in NodeNum, IsDir(k, d),
           NEW name, exists_entry(k, k.node[d], name),
           NEW c, c = get_entry(k, k.node[d], name).node_num,
           k.node[c].state = 2, k.node[c].file_size = 0,
           NEW l, l = RemoveDir(k, c, name)
    PROVE  Outcome(l) /\ c \in NodeNum \ {0} /\ Unlinks(k, l, c)
<1>1. k \in Disk /\ NodesOK(k)
  BY DEF Inv
<1>2. PICK i : i = Least(Matches(k, k.node[d], name))
  OBVIOUS
<1>3. /\ EntryOK(k, {}, d, Entry(k, d, i)) /\ c = Entry(k, d, i).node_num
      /\ ParentOf(k.node[c]) = d /\ i \in Places(k.node[d])
  BY <1>2, GetEntry
<1>4. c \in NodeNum \ {0} /\ Live(k, c)
  BY <1>3 DEF EntryOK
<1>5. Ptr(k, c) = 0
  BY <1>1, <1>4 DEF NodesOK, NodeOK
<1>6. c # d
  BY <1>3, <1>5 DEF Places, Ptr
<1>7. PICK h : h = delete_directory_entry(k, d, name)
  OBVIOUS
<1>8. /\ Inv(h, {c})
      /\ h.bitmap = k.bitmap /\ h.server = k.server
      /\ \A m \in NodeNum \ {d} : h.node[m] = k.node[m]
      /\ h.node[d].state = k.node[d].state
      /\ h.node[d].parent_block = k.node[d].parent_block
      /\ \A n \in NodeNum \ {c} : KeepsName(k, h, n)
  <2>1. Erases(k, d, c, h)
    BY <1>7, DeleteKeepsInv
  <2> QED
    BY <2>1 DEF Erases
<1>9. h.node[c] = k.node[c] /\ h.node[c].indirect_pointer_block = 0 /\ h \in Disk /\ NodesOK(h)
  BY <1>4, <1>5, <1>6, <1>8 DEF Ptr, Inv
<1> DEFINE nd == [h.node[c] EXCEPT !.state = 0]
<1>10. l = [h EXCEPT !.node[c] = nd, !.bitmap = @ \ {Blk(c), 0}]
  BY <1>3, <1>7, <1>9 DEF RemoveDir, Blk
<1>11. nd \in t_node
  <2>1. h.node[c] \in t_node
    BY <1>4, <1>9 DEF Disk
  <2> QED
    BY <2>1 DEF t_node
<1> HIDE DEF nd
<1>12. Changed(h, c, nd, {0} \cup {Blk(c)}, l)
  <2>1. {0} \cup {Blk(c)} = {Blk(c), 0}
    OBVIOUS
  <2> QED
    BY <2>1, <1>9, <1>10 DEF Changed, Record, Disk
<1>13. {0} \cap NodeBlock = {}
  BY LayoutAssumption DEF NodeBlock, NODE_TABLE_INITIAL_BLOCK, BITMAP_INITIAL_BLOCK
<1>14. \A m \in NodeNum \ {c} : Live(h, m) /\ Ptr(h, m) # 0 =>
          Ptr(h, m) \notin {0} /\ Dat(h, m) \notin {0}
  BY <1>9, Regions DEF NodesOK, NodeOK
<1>15. Places(h.node[c]) = {}
  BY <1>9 DEF Places
<1>16. Inv(l, {}) /\ \A n \in NodeNum : KeepsName(h, l, n)
  BY <1>4, <1>8, <1>11, <1>12, <1>13, <1>14, <1>15, FreeKeepsInv
<1>17. l.server = "up"
  BY <1>8, <1>12 DEF Changed
<1>18. Unlinks(k, l, c)
  <2>1. /\ l.bitmap = h.bitmap \ ({0} \cup {Blk(c)}) /\ l.node = [h.node EXCEPT ![c] = nd]
        /\ h.node \in [NodeNum -> t_node]
    BY <1>9, <1>12 DEF Changed, Disk
  <2>2. ~Live(l, c)
    BY <2>1 DEF Live, Blk
  <2>3. \A m \in NodeNum \ {c} : l.node[m] = h.node[m]
    BY <2>1
  <2>4. \A m \in NodeNum \ {c} : Blk(m) \in NodeBlock /\ Blk(m) # Blk(c)
    BY <1>4, NodeBlocks
  <2>5. \A m \in NodeNum \ {c} : Live(l, m) <=> Live(k, m)
    BY <2>1, <2>4, <1>8, <1>13 DEF Live, Blk
  <2>6. \A m \in NodeNum \ {c} : KeepsName(k, l, m)
    BY <1>8, <1>16 DEF KeepsName
  <2> QED
    BY <2>2, <2>3, <2>5, <2>6, <1>8 DEF Unlinks, Kin
<1> QED
  BY <1>4, <1>16, <1>17, <1>18, Completes

\* The second half of sac_rename: the entry first, then the node's parent.
LEMMA RelinkKeepsInv ==
    ASSUME NEW g, NEW c \in NodeNum \ {0}, Inv(g, {c}), g.server = "up", Live(g, c),
           NEW to \in NodeNum, IsDir(g, to), to # c, NEW newName \in Name,
           NEW x, x = add_directory_entry(g, to, g.node[to], newName, c),
           NEW l, l = IF x.server # "up" THEN x ELSE WithParent(x, c, to)
    PROVE  Outcome(l) /\ (l.server = "up" => /\ Links(g, l, c, to, newName)
                                              /\ l.node[c].state = g.node[c].state)
<1>1. PICK h : h = WithParent(g, c, to)
  OBVIOUS
<1>2. /\ Inv(h, {c})
      /\ h.bitmap = g.bitmap /\ h.block = g.block /\ h.server = g.server
      /\ h.node = [g.node EXCEPT ![c].parent_block = Blk(to)]
      /\ h.node[c].parent_block = Blk(to)
      /\ \A m \in NodeNum \ {c} : h.node[m] = g.node[m]
      /\ h.node[c].state = g.node[c].state
      /\ \A n \in NodeNum : KeepsName(g, h, n)
  <2>1. Inv(h, {c}) /\ \A n \in NodeNum : KeepsName(g, h, n)
    BY <1>1, SetParentKeepsInv
  <2>2. g \in Disk /\ g.node \in [NodeNum -> t_node] /\ g.node[c] \in t_node
    BY DEF Inv, Disk
  <2>3. /\ h.bitmap = g.bitmap /\ h.block = g.block /\ h.server = g.server
        /\ h.node = [g.node EXCEPT ![c].parent_block = Blk(to)]
    BY <1>1, <2>2 DEF WithParent, Disk
  <2>4. h.node[c] = [g.node[c] EXCEPT !.parent_block = Blk(to)]
    BY <2>2, <2>3
  <2>5. h.node[c].parent_block = Blk(to) /\ h.node[c].state = g.node[c].state
    BY <2>2, <2>4 DEF t_node
  <2>6. \A m \in NodeNum \ {c} : h.node[m] = g.node[m]
    BY <2>2, <2>3
  <2> QED
    BY <2>1, <2>3, <2>5, <2>6
<1>3. h.node[to] = g.node[to] /\ IsDir(h, to) /\ Live(h, c)
  BY <1>2 DEF IsDir, Live
<1>4. PICK y : y = add_directory_entry(h, to, h.node[to], newName, c)
  OBVIOUS
<1>5. Outcome(y) /\ (y.server = "up" => KinAll(h, y) /\ Holds(y, to, c, newName))
  BY <1>2, <1>3, <1>4, AddKeepsInv
<1>6. g \in Disk /\ h \in Disk
  BY <1>2 DEF Inv
<1> DEFINE nd == g.node[to]
<1>7. NoRoom(h, nd) = NoRoom(g, nd) /\ FirstBlocks(h, nd) = FirstBlocks(g, nd)
  BY <1>2 DEF NoRoom, FirstBlocks, DataOf
<1>8. CASE nd.file_size >= DIR_ENTRIES \/ NoRoom(g, nd)
  <2>1. x = IF nd.file_size >= DIR_ENTRIES THEN Wild(g) ELSE Exit(g)
    BY <1>8 DEF add_directory_entry
  <2>2. Outcome(x) /\ x.server # "up"
    <3>1. CASE nd.file_size >= DIR_ENTRIES
      BY <2>1, <3>1, GoesWild
    <3>2. CASE ~(nd.file_size >= DIR_ENTRIES)
      BY <2>1, <3>2, <1>6, Exits
    <3> QED
      BY <3>1, <3>2
  <2> QED
    BY <2>2
<1>9. CASE ~(nd.file_size >= DIR_ENTRIES \/ NoRoom(g, nd))
  <2>1. PICK a : a = FirstBlocks(g, nd)
    OBVIOUS
  <2> DEFINE bl == [a.block EXCEPT ![a.data][nd.file_size] = [node_num |-> c, name |-> newName]]
             nt == [nd EXCEPT !.file_size = @ + 1, !.indirect_pointer_block = a.pointers]
  <2>2. x = [g EXCEPT !.bitmap = a.bitmap, !.block = bl, !.node[to] = nt]
    BY <1>9, <2>1 DEF add_directory_entry
  <2>3. y = [h EXCEPT !.bitmap = a.bitmap, !.block = bl, !.node[to] = nt]
    BY <1>3, <1>4, <1>7, <1>9, <2>1 DEF add_directory_entry
  <2> HIDE DEF bl, nt
  <2>4. /\ x.bitmap = a.bitmap /\ x.block = bl /\ x.server = "up" /\ Record(x)
        /\ x.node = [g.node EXCEPT ![to] = nt]
    BY <1>6, <2>2 DEF Disk, Record
  <2>5. /\ y.bitmap = a.bitmap /\ y.block = bl /\ y.server = "up" /\ Record(y)
        /\ y.node = [h.node EXCEPT ![to] = nt]
    BY <1>2, <1>6, <2>3 DEF Disk, Record
  <2>6. /\ l.bitmap = a.bitmap /\ l.block = bl /\ l.server = "up" /\ Record(l)
        /\ l.node = [x.node EXCEPT ![c].parent_block = Blk(to)]
    <3>1. l = WithParent(x, c, to)
      BY <2>4
    <3> QED
      BY <2>4, <3>1 DEF Record, WithParent
  <2>7. l.node = y.node
    <3>1. g.node \in [NodeNum -> t_node]
      BY <1>6 DEF Disk
    <3>2. DOMAIN l.node = DOMAIN y.node
      BY <2>4, <2>5, <2>6, <1>2
    <3>3. l.node = [m \in NodeNum |-> l.node[m]] /\ y.node = [m \in NodeNum |-> y.node[m]]
      BY <3>1, <2>4, <2>5, <2>6, <1>2
    <3>4. ASSUME NEW m \in NodeNum
          PROVE  l.node[m] = y.node[m]
      <4>1. CASE m = c
        BY <4>1, <3>1, <2>4, <2>5, <2>6, <1>2
      <4>2. CASE m # c
        BY <4>2, <3>1, <2>4, <2>5, <2>6, <1>2
      <4> QED
        BY <4>1, <4>2
    <3> HIDE DEF nt, nd
    <3> QED
      BY <3>3, <3>4
  <2>8. l = y
    BY <2>5, <2>6, <2>7 DEF Record
  <2>9. \A m \in NodeNum \ {c} : Kin(g, h, m)
    BY <1>2 DEF Kin, Live
  <2>10. Links(g, l, c, to, newName) /\ l.node[c].state = g.node[c].state
    <3>1. (\A m \in NodeNum : Kin(h, l, m)) /\ Holds(l, to, c, newName)
      BY <2>5, <2>8, <1>5 DEF KinAll
    <3>2. \A m \in NodeNum \ {c} : Kin(g, l, m)
      BY <3>1, <2>9, KinTwice
    <3>3. Live(l, c) /\ l.node[c].parent_block = Blk(to) /\ l.node[c].state = g.node[c].state
      BY <3>1, <1>2, <1>3 DEF Kin
    <3> QED
      BY <3>1, <3>2, <3>3 DEF Links
  <2> QED
    BY <2>8, <2>10, <1>5
<1> QED
  BY <1>8, <1>9

\* VfsAllows keeps the moved node off the path it moves to, so the new
\* directory is not the node itself.
LEMMA MoveKeepsInv ==
    ASSUME NEW k, Inv(k, {}), k.server = "up", NEW d \in NodeNum, IsDir(k, d),
           NEW name, exists_entry(k, k.node[d], name),
           NEW c, c = get_entry(k, k.node[d], name).node_num,
           NEW to \in NodeNum, IsDir(k, to), to # c, NEW newName \in Name,
           NEW l, l = MoveEntry(k, d, name, to, newName)
    PROVE  /\ Outcome(l)
           /\ c \in NodeNum \ {0} /\ Live(k, c)
           /\ l.server = "up" => /\ Links(k, l, c, to, newName)
                                 /\ l.node[c].state = k.node[c].state
<1>1. PICK i : i = Least(Matches(k, k.node[d], name))
  OBVIOUS
<1>2. EntryOK(k, {}, d, Entry(k, d, i)) /\ c = Entry(k, d, i).node_num
  BY <1>1, GetEntry
<1>3. c \in NodeNum \ {0} /\ Live(k, c)
  BY <1>2 DEF EntryOK
<1>4. PICK g : g = delete_directory_entry(k, d, name)
  OBVIOUS
<1>5. /\ Inv(g, {c}) /\ g.bitmap = k.bitmap /\ g.server = "up"
      /\ \A m \in NodeNum \ {d} : g.node[m] = k.node[m]
      /\ g.node[d].state = k.node[d].state
      /\ g.node[d].parent_block = k.node[d].parent_block
      /\ \A n \in NodeNum \ {c} : KeepsName(k, g, n)
  <2>1. Erases(k, d, c, g)
    BY <1>4, DeleteKeepsInv
  <2> QED
    BY <2>1 DEF Erases
<1>6. Live(g, c) /\ IsDir(g, to)
  BY <1>3, <1>5 DEF Live, IsDir
<1>7. PICK x : x = add_directory_entry(g, to, g.node[to], newName, c)
  OBVIOUS
<1>8. l = IF x.server # "up" THEN x ELSE WithParent(x, c, to)
  BY <1>4, <1>7 DEF MoveEntry, WithParent, Blk
<1>9. Outcome(l) /\ (l.server = "up" => /\ Links(g, l, c, to, newName)
                                         /\ l.node[c].state = g.node[c].state)
  BY <1>3, <1>5, <1>6, <1>7, <1>8, RelinkKeepsInv
<1>10. (\A m \in NodeNum \ {c} : Kin(k, g, m)) /\ g.node[c].state = k.node[c].state
  BY <1>3, <1>5 DEF Kin, Live
<1>11. l.server = "up" => Links(k, l, c, to, newName)
  BY <1>9, <1>10, KinTwice DEF Links
<1> QED
  BY <1>3, <1>9, <1>10, <1>11
=============================================================================
