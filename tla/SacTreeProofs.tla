--------------------------- MODULE SacTreeProofs ---------------------------
(***************************************************************************)
(* Theorems about the directory tree of the SAC server: types, integrity,  *)
(* ownership of blocks, the root, names, and the refinement of Namespace.  *)
(* The lemmas about the single operations are in SacDiskLemmas.            *)
(***************************************************************************)
EXTENDS SacDiskLemmas

-----------------------------------------------------------------------------
(***************************************************************************)
(* The specification.                                                      *)
(***************************************************************************)
\* The variables make a disk the lemmas about operations apply to.
LEMMA FsIsDisk == TypeOK => fs \in Disk
BY DEF TypeOK, fs, Disk

\* What an operation stores is the next state.
LEMMA Stored ==
    ASSUME TypeOK, NEW k, Outcome(k), Store(k)
    PROVE  TreeInv' /\ fs' = k
<1>0. k \in Disk
  BY DEF Outcome
<1>1. /\ bitmap' = k.bitmap /\ node' = k.node /\ block' = k.block
      /\ server' = k.server /\ bitmap_blocks' = bitmap_blocks
  BY DEF Store
<1>2. k = [bitmap |-> k.bitmap, node |-> k.node, block |-> k.block, server |-> k.server]
  BY <1>0 DEF Disk
<1>3. [bitmap |-> bitmap', node |-> node', block |-> block', server |-> server'] = k
  BY <1>1, <1>2
<1>4. TypeOK'
  BY <1>0, <1>1 DEF TypeOK, Disk
<1>5. fs' = k
  BY <1>3 DEF fs
<1>6. Up' => Inv(fs, {})'
  BY <1>1, <1>5 DEF Up, Outcome
<1>7. server' = "wild" => NODE_TABLE_BLOCKS > DIR_ENTRIES
  BY <1>1 DEF Outcome
<1> QED
  BY <1>4, <1>5, <1>6, <1>7 DEF TreeInv

\* A disk with the bitmap and the root that format_disk writes, whatever
\* else is on it, satisfies the invariant.
LEMMA FormattedInv ==
    ASSUME NEW k \in Disk, k.bitmap = create_default_bitmap, k.node[0] = create_root_dir
    PROVE  Inv(k, {})
<1>1. \A n \in NodeNum : Live(k, n) => n = 0
  BY NodeBlocks DEF Live, Blk
<1>2. Live(k, 0) /\ k.node[0].state = 2 /\ k.node[0].file_size = 0 /\ Ptr(k, 0) = 0
  BY Regions DEF Live, Blk, create_root_dir, Ptr
<1>3. Places(k.node[0]) = {}
  BY <1>2 DEF Places, Ptr
<1>4. NodesOK(k)
  <2>1. 0 <= DIR_ENTRIES
    BY LayoutAssumption
  <2> QED
    BY <2>1, <1>1, <1>2 DEF NodesOK, NodeOK
<1>5. BlocksApart(k)
  BY <1>1 DEF BlocksApart
<1>6. EntriesOK(k, {}) /\ NoTwin(k)
  BY <1>1, <1>3 DEF EntriesOK, NoTwin, IsDir
<1>7. AllNamed(k, {})
  BY <1>1 DEF AllNamed
<1> QED
  BY <1>2, <1>4, <1>5, <1>6, <1>7 DEF Inv, RootLive

\* What format_disk leaves satisfies the invariant.
LEMMA InitTreeInv == Init => TreeInv
<1> SUFFICES ASSUME Init PROVE TreeInv
  OBVIOUS
<1>1. create_root_dir \in t_node
  BY DEF create_root_dir, t_node
<1>2. /\ node \in [NodeNum -> t_node] /\ node[0] = create_root_dir
      /\ block \in [DataBlock -> [Slot -> t_dir_entry]]
      /\ bitmap = create_default_bitmap /\ bitmap_blocks = create_default_bitmap
      /\ server = "up"
  <2>1. UrandomNode \subseteq t_node /\ UrandomEntry \subseteq t_dir_entry
    BY TreeAssumption
  <2>2. block \in [DataBlock -> [Slot -> UrandomEntry]]
    BY DEF Init
  <2>3. block \in [DataBlock -> [Slot -> t_dir_entry]]
    BY <2>1, <2>2
  <2>4. node \in [NodeNum -> UrandomNode \cup {create_root_dir}] /\ node[0] = create_root_dir
    BY DEF Init
  <2>5. node \in [NodeNum -> t_node]
    BY <1>1, <2>1, <2>4
  <2> QED
    BY <2>3, <2>4, <2>5 DEF Init
<1>3. TypeOK
  BY <1>2, Regions DEF TypeOK
<1>4. PICK k : k = fs
  OBVIOUS
<1>5. /\ k \in Disk /\ k.bitmap = create_default_bitmap /\ k.node[0] = create_root_dir
  BY <1>2, <1>3, <1>4, FsIsDisk DEF fs
<1>6. Inv(k, {})
  BY <1>5, FormattedInv
<1> QED
  BY <1>2, <1>3, <1>4, <1>6 DEF TreeInv

\* The effects an operation can have on the tree: it deletes a node that
\* holds nothing, creates one under a name the directory does not have, or
\* moves one, not below itself.
Deletes(k, l, c) ==
    /\ Live(k, c) /\ (k.node[c].state = 1 \/ k.node[c].file_size = 0)
    /\ Unlinks(k, l, c)

Creates(k, l, c, d, x) ==
    /\ ~Live(k, c) /\ IsDir(k, d) /\ ~exists_entry(k, k.node[d], x)
    /\ l.node[c].state \in {1, 2}
    /\ Links(k, l, c, d, x)

Moves(k, l, c, v, x) ==
    /\ Live(k, c) /\ l.node[c].state = k.node[c].state
    /\ \A i \in 1 .. Len(v) : v[i] # c
    /\ Links(k, l, c, Dir(v), x)

\* Every effect but a move to a name that is taken.
Tame(k, l) ==
    \/ KinAll(k, l)
    \/ \E c \in NodeNum \ {0} : Deletes(k, l, c)
    \/ \E c \in NodeNum \ {0}, d \in NodeNum, x \in Name : Creates(k, l, c, d, x)
    \/ \E c \in NodeNum \ {0}, v \in search_path(k), x \in Name :
          Moves(k, l, c, v, x) /\ ~exists_entry(k, k.node[Dir(v)], x)

Effect(k, l) ==
    \/ Tame(k, l)
    \/ \E c \in NodeNum \ {0}, v \in search_path(k), x \in Name : Moves(k, l, c, v, x)

\* Every operation, whether it completes, exits or goes wild.
LEMMA StepOutcome ==
    ASSUME TreeInv, Next
    PROVE  \E l : /\ Store(l) /\ Outcome(l)
                  /\ l.server = "up" => Effect(fs, l) /\ (Tame(fs, l) \/ RenameOnto)
<1>1. TypeOK /\ Up
  BY DEF TreeInv, Next
<1>2. PICK k : k = fs
  OBVIOUS
<1>3. Inv(k, {}) /\ k.server = "up" /\ k.node = node /\ k \in Disk
  BY <1>1, <1>2 DEF TreeInv, Up, fs, Inv
<1>4. PICK w \in search_path(k) :
          \/ sac_readdir(w)
          \/ \E name \in Name :
                \/ sac_open(w, name)
                \/ sac_mkdir(w, name)
                \/ sac_remove(w, name)
                \/ sac_rmdir(w, name)
                \/ \E end \in FileSize : sac_write(w, name, end)
                \/ \E length \in FileSize \cup {0} : sac_truncate(w, name, length)
                \/ \E v \in search_path(k), newName \in Name :
                      sac_rename(w, name, v, newName)
  BY <1>2 DEF Next
<1>5. PICK d \in NodeNum : d = Dir(w) /\ IsDir(k, d)
  BY <1>3, Walk
<1> DEFINE Goal == \E l : /\ Store(l) /\ Outcome(l)
                          /\ l.server = "up" => Effect(fs, l) /\ (Tame(fs, l) \/ RenameOnto)
<1>6. ASSUME NEW l, Outcome(l), l.server = "up" => Tame(k, l), Store(l)
      PROVE  Goal
  BY <1>2, <1>6 DEF Effect
<1> HIDE DEF Goal
<1>7. CASE sac_readdir(w)
  <2>1. PICK l : l = IF k.node[d].file_size >= DIR_ENTRIES THEN Wild(k) ELSE k
    OBVIOUS
  <2>2. Outcome(l) /\ (l.server = "up" => Tame(k, l))
    <3>1. CASE k.node[d].file_size >= DIR_ENTRIES
      BY <1>3, <1>5, <2>1, <3>1, GoesWild
    <3>2. CASE ~(k.node[d].file_size >= DIR_ENTRIES)
      BY <1>3, <2>1, <3>2, Completes DEF Tame, KinAll, Kin, KeepsName
    <3> QED
      BY <3>1, <3>2
  <2>3. Store(l)
    BY <1>2, <1>3, <1>5, <1>7, <2>1 DEF sac_readdir
  <2> QED
    BY <2>2, <2>3, <1>6 DEF Goal
<1>8. ASSUME NEW name \in Name, NEW state \in {1, 2}, ~Found(Dir(w), name),
             Store(CreateNode(fs, Dir(w), name, state))
      PROVE  Goal
  <2>1. PICK l : l = CreateNode(k, d, name, state)
    OBVIOUS
  <2>2. /\ Outcome(l)
        /\ l.server = "up" => \E c \in NodeNum \ {0} :
              ~Live(k, c) /\ l.node[c].state = state /\ Links(k, l, c, d, name)
    BY <1>3, <1>5, <1>8, <2>1, CreateKeepsInv
  <2>3. l.server = "up" => Tame(k, l)
    <3>1. ~exists_entry(k, k.node[d], name)
      BY <1>2, <1>3, <1>5, <1>8 DEF Found
    <3> QED
      BY <1>5, <2>2, <3>1 DEF Tame, Creates
  <2>4. Store(l)
    BY <1>2, <1>5, <1>8, <2>1
  <2> QED
    BY <2>2, <2>4, <2>3, <1>6
\* The child that a name found in the directory leads to.
<1>9. ASSUME NEW name \in Name, Found(Dir(w), name)
      PROVE  \E c \in NodeNum \ {0} : /\ c = Child(Dir(w), name)
                                      /\ c = get_entry(k, k.node[d], name).node_num
                                      /\ exists_entry(k, k.node[d], name)
                                      /\ Live(k, c)
  <2>1. exists_entry(k, k.node[d], name)
    BY <1>2, <1>3, <1>5, <1>9 DEF Found
  <2>2. PICK i, c : i = Least(Matches(k, k.node[d], name)) /\ c = get_entry(k, k.node[d], name).node_num
    OBVIOUS
  <2>3. EntryOK(k, {}, d, Entry(k, d, i)) /\ c = Entry(k, d, i).node_num
    BY <1>3, <1>5, <2>1, <2>2, GetEntry
  <2>4. c \in NodeNum \ {0} /\ Live(k, c)
    BY <2>3 DEF EntryOK
  <2>5. c = Child(Dir(w), name)
    BY <1>2, <1>3, <1>5, <2>2 DEF Child
  <2> QED
    BY <2>1, <2>2, <2>4, <2>5
<1>10. ASSUME NEW name \in Name, sac_remove(w, name) \/ sac_rmdir(w, name)
       PROVE  Goal
  <2>1. Found(Dir(w), name)
    BY <1>10 DEF sac_remove, sac_rmdir
  <2>2. PICK c \in NodeNum \ {0} : /\ c = Child(Dir(w), name)
                                   /\ c = get_entry(k, k.node[d], name).node_num
                                   /\ exists_entry(k, k.node[d], name)
                                   /\ Live(k, c)
    BY <1>9, <2>1
  <2>3. CASE sac_remove(w, name)
    <3>1. PICK l : l = RemoveFile(k, c, name)
      OBVIOUS
    <3>2. k.node[c].state = 1 /\ Store(l)
      BY <1>2, <1>3, <2>2, <2>3, <3>1 DEF sac_remove
    <3>3. Outcome(l) /\ Unlinks(k, l, c)
      BY <1>3, <1>5, <2>2, <3>1, <3>2, RemoveFileKeepsInv
    <3>4. Tame(k, l)
      BY <2>2, <3>2, <3>3 DEF Tame, Deletes
    <3> QED
      BY <1>6, <3>2, <3>3, <3>4
  <2>4. CASE sac_rmdir(w, name)
    <3>1. PICK l : l = RemoveDir(k, c, name)
      OBVIOUS
    <3>2. k.node[c].state = 2 /\ k.node[c].file_size = 0 /\ Store(l)
      BY <1>2, <1>3, <2>2, <2>4, <3>1 DEF sac_rmdir
    <3>3. Outcome(l) /\ Unlinks(k, l, c)
      BY <1>3, <1>5, <2>2, <3>1, <3>2, RemoveDirKeepsInv
    <3>4. Tame(k, l)
      BY <2>2, <3>2, <3>3 DEF Tame, Deletes
    <3> QED
      BY <1>6, <3>2, <3>3, <3>4
  <2> QED
    BY <1>10, <2>3, <2>4
<1>11. ASSUME NEW name \in Name, NEW length \in FileSize \cup {0},
              \/ length \in FileSize /\ sac_write(w, name, length)
              \/ sac_truncate(w, name, length)
       PROVE  Goal
  <2>1. Found(Dir(w), name)
    BY <1>11 DEF sac_write, sac_truncate
  <2>2. PICK c \in NodeNum \ {0} : c = Child(Dir(w), name) /\ Live(k, c)
    BY <1>9, <2>1
  <2>3. k.node[c].state = 1
    BY <1>3, <1>11, <2>2 DEF sac_write, sac_truncate
  <2>4. CASE length \in FileSize /\ sac_write(w, name, length)
    <3>1. PICK l : l = WriteFile(k, c, length)
      OBVIOUS
    <3>2. Outcome(l) /\ (l.server = "up" => KinAll(k, l))
      <4>1. length \in 1 .. DIR_ENTRIES
        BY <2>4, TreeAssumption, LayoutAssumption
      <4> QED
        BY <1>3, <2>2, <2>3, <3>1, <4>1, WriteKeepsInv
    <3>3. Store(l)
      BY <1>2, <2>2, <2>4, <3>1 DEF sac_write
    <3> QED
      BY <1>6, <3>2, <3>3 DEF Tame
  <2>5. CASE sac_truncate(w, name, length)
    <3>1. PICK l : l = TruncateFile(k, c, length)
      OBVIOUS
    <3>2. Outcome(l) /\ (l.server = "up" => KinAll(k, l))
      BY <1>3, <2>2, <2>3, <3>1, TruncateKeepsInv
    <3>3. Store(l)
      BY <1>2, <2>2, <2>5, <3>1 DEF sac_truncate
    <3> QED
      BY <1>6, <3>2, <3>3 DEF Tame
  <2> QED
    BY <1>11, <2>4, <2>5
<1>12. ASSUME NEW name \in Name, NEW v \in search_path(k), NEW newName \in Name,
              sac_rename(w, name, v, newName)
       PROVE  Goal
  <2>1. Found(Dir(w), name) /\ \A i \in 1 .. Len(v) : v[i] # Child(Dir(w), name)
    BY <1>12 DEF sac_rename, VfsAllows
  <2>2. PICK c \in NodeNum \ {0} : /\ c = Child(Dir(w), name)
                                   /\ c = get_entry(k, k.node[d], name).node_num
                                   /\ exists_entry(k, k.node[d], name)
                                   /\ Live(k, c)
    BY <1>9, <2>1
  <2>3. PICK to \in NodeNum : to = Dir(v) /\ IsDir(k, to)
    BY <1>3, Walk
  <2>4. to # c
    <3>1. Len(v) \in Nat \ {0}
      BY <1>3, Walk
    <3>2. Len(v) \in 1 .. Len(v)
      BY <3>1
    <3> QED
      BY <2>1, <2>2, <2>3, <3>2 DEF Dir
  <2>5. PICK l : l = MoveEntry(k, d, name, to, newName)
    OBVIOUS
  <2>6. Outcome(l) /\ (l.server = "up" => /\ Links(k, l, c, to, newName)
                                          /\ l.node[c].state = k.node[c].state)
    BY <1>3, <1>5, <2>2, <2>3, <2>4, <2>5, MoveKeepsInv
  <2>7. Store(l)
    BY <1>2, <1>5, <1>12, <2>3, <2>5 DEF sac_rename
  <2>8. l.server = "up" => Moves(k, l, c, v, newName)
    BY <2>1, <2>2, <2>3, <2>6 DEF Moves
  <2>9. CASE ~exists_entry(k, k.node[to], newName)
    <3>1. l.server = "up" => Tame(k, l)
      BY <2>3, <2>8, <2>9 DEF Tame
    <3> QED
      BY <1>6, <2>6, <2>7, <3>1
  <2>10. CASE exists_entry(k, k.node[to], newName)
    <3>1. Found(Dir(v), newName)
      BY <1>2, <1>3, <2>3, <2>10 DEF Found
    <3>2. RenameOnto
      BY <1>2, <1>12, <3>1 DEF RenameOnto
    <3>3. l.server = "up" => Effect(k, l)
      BY <2>8 DEF Effect
    <3> QED
      BY <1>2, <2>6, <2>7, <3>2, <3>3 DEF Goal
  <2> QED
    BY <2>9, <2>10
<1>13. ASSUME NEW name \in Name, sac_open(w, name) \/ sac_mkdir(w, name)
       PROVE  Goal
  BY <1>8, <1>13 DEF sac_open, sac_mkdir
<1> QED
  BY <1>4, <1>7, <1>10, <1>11, <1>12, <1>13 DEF Goal

\* Every request keeps the invariant.
LEMMA NextTreeInv == TreeInv /\ [Next]_vars => TreeInv'
<1> SUFFICES ASSUME TreeInv, [Next]_vars PROVE TreeInv'
  OBVIOUS
<1>1. CASE UNCHANGED vars
  BY <1>1 DEF vars, TreeInv, TypeOK, Up, fs
<1>2. CASE Next
  <2>1. PICK l : Store(l) /\ Outcome(l)
    BY <1>2, StepOutcome
  <2> QED
    BY <2>1, Stored DEF TreeInv
<1> QED
  BY <1>1, <1>2

\* The inductive invariant of the tree.
LEMMA TreeInvariant == Spec => []TreeInv
BY InitTreeInv, NextTreeInv, PTL DEF Spec

\* Every operation keeps the types: no size goes below zero, no block or node
\* number leaves its table, also on the paths that exit.
THEOREM TreeTyped == Spec => []TypeOK
<1>1. TreeInv => TypeOK
  BY DEF TreeInv
<1> QED
  BY <1>1, TreeInvariant, PTL

\* Whatever sequence of operations runs, each entry of a directory names a
\* live node whose parent_block leads back, and each live node but the root is
\* named by exactly one entry.
THEOREM TreeConsistent == Spec => []TreeIntegrity
<1>1. TreeInv => TreeIntegrity
  <2> SUFFICES ASSUME TreeInv, Up PROVE /\ EntriesNameChildren(fs)
                                        /\ \A n \in NodeNum \ {0} : Live(fs, n) => NamedOnce(fs, n)
    BY DEF TreeIntegrity
  <2>1. PICK k : k = fs
    OBVIOUS
  <2>2. EntriesOK(k, {}) /\ NoTwin(k) /\ AllNamed(k, {})
    BY <2>1 DEF TreeInv, Inv
  <2>3. EntriesNameChildren(k)
    BY <2>2 DEF EntriesNameChildren, EntriesOK, EntryOK, Blk
  <2>4. ASSUME NEW n \in NodeNum \ {0}, Live(k, n)
        PROVE  NamedOnce(k, n)
    <3>1. PICK d \in NodeNum : IsDir(k, d) /\ \E i \in Places(k.node[d]) : Entry(k, d, i).node_num = n
      BY <2>2, <2>4 DEF AllNamed, HasEntry
    <3>2. PICK i \in Places(k.node[d]) : Entry(k, d, i).node_num = n
      BY <3>1
    <3>3. \A j \in Places(k.node[d]) : Entry(k, d, j).node_num = n => j = i
      BY <3>1, <3>2, <2>2 DEF NoTwin
    <3> QED
      BY <3>1, <3>2, <3>3 DEF NamedOnce
  <2> QED
    BY <2>1, <2>3, <2>4
<1> QED
  BY <1>1, TreeInvariant, PTL

\* No two live nodes ever share a block, and every block of a live node is
\* marked in the bitmap, whatever was freed, leaked and handed out again.
THEOREM BlocksOwned == Spec => []BlockOwnership
<1>1. TreeInv => BlockOwnership
  <2> SUFFICES ASSUME TreeInv, Up,
                      NEW n \in NodeNum, Live(fs, n)
               PROVE  /\ node[n].indirect_pointer_block = 0 <=> node[n].file_size = 0
                      /\ node[n].indirect_pointer_block # 0 =>
                            /\ BlocksOf(fs, node[n]) \subseteq DataBlock \cap bitmap
                            /\ node[n].indirect_pointer_block # DataOf(fs, node[n])
                      /\ \A m \in NodeNum \ {n} : Live(fs, m) =>
                            BlocksOf(fs, node[n]) \cap BlocksOf(fs, node[m]) = {}
    BY DEF BlockOwnership
  <2>1. PICK k : k = fs
    OBVIOUS
  <2>2. NodesOK(k) /\ BlocksApart(k) /\ k.node = node /\ k.bitmap = bitmap
    BY <2>1 DEF TreeInv, Inv, fs
  <2>3. NodeOK(k, n)
    BY <2>1, <2>2 DEF NodesOK
  <2>4. /\ node[n].indirect_pointer_block = Ptr(k, n)
        /\ DataOf(fs, node[n]) = Dat(k, n)
    BY <2>1, <2>2 DEF Ptr, Dat
  <2>5. \A m \in NodeNum : /\ Ptr(k, m) = 0 => BlocksOf(fs, node[m]) = {}
                           /\ Ptr(k, m) # 0 => BlocksOf(fs, node[m]) = {Ptr(k, m), Dat(k, m)}
    BY <2>1, <2>2 DEF BlocksOf, Ptr, Dat
  <2>6. node[n].indirect_pointer_block = 0 <=> node[n].file_size = 0
    BY <2>2, <2>3, <2>4 DEF NodeOK
  <2>7. node[n].indirect_pointer_block # 0 =>
            /\ BlocksOf(fs, node[n]) \subseteq DataBlock \cap bitmap
            /\ node[n].indirect_pointer_block # DataOf(fs, node[n])
    BY <2>2, <2>3, <2>4, <2>5 DEF NodeOK
  <2>8. ASSUME NEW m \in NodeNum \ {n}, Live(fs, m)
        PROVE  BlocksOf(fs, node[n]) \cap BlocksOf(fs, node[m]) = {}
    <3>1. Apart(k, n, m)
      BY <2>1, <2>2, <2>8 DEF BlocksApart
    <3> QED
      BY <3>1, <2>5 DEF Apart
  <2> QED
    BY <2>6, <2>7, <2>8
<1> QED
  BY <1>1, TreeInvariant, PTL

\* With no more nodes than entries in a block, no directory ever fills its
\* block and no scan leaves it.  disk.h ships 32 nodes and 32 entries in a
\* block, the largest table the hypothesis allows.
THEOREM FewNodesNeverWild ==
    ASSUME NODE_TABLE_BLOCKS <= DIR_ENTRIES
    PROVE  Spec => []NoWildPointer
<1>1. TreeInv => NoWildPointer
  BY LayoutAssumption DEF TreeInv, NoWildPointer
<1> QED
  BY <1>1, TreeInvariant, PTL

-----------------------------------------------------------------------------
(***************************************************************************)
(* Every node hangs from the root.                                         *)
(***************************************************************************)
NoCycle(k) ==
    \A S \in (SUBSET {n \in NodeNum \ {0} : Live(k, n)}) \ {{}} :
        \E n \in S : ParentOf(k.node[n]) \notin S

\* A live node's parent is a live directory.
LEMMA ParentLive ==
    ASSUME NEW k, Inv(k, {}), NEW n \in NodeNum \ {0}, Live(k, n)
    PROVE  ParentOf(k.node[n]) \in NodeNum /\ IsDir(k, ParentOf(k.node[n]))
<1>1. PICK d \in NodeNum : IsDir(k, d) /\ \E i \in Places(k.node[d]) : Entry(k, d, i).node_num = n
  BY DEF Inv, AllNamed, HasEntry
<1>2. PICK i \in Places(k.node[d]) : Entry(k, d, i).node_num = n
  BY <1>1
<1>3. EntryOK(k, {}, d, Entry(k, d, i))
  BY <1>1 DEF Inv, EntriesOK
<1>4. k.node[n].parent_block = Blk(d)
  BY <1>2, <1>3 DEF EntryOK
<1> QED
  BY <1>1, <1>4, NodeBlocks DEF ParentOf

\* A path that leads into a set without the root enters it somewhere.
LEMMA WalkEnters ==
    ASSUME NEW k, Inv(k, {}), NEW v \in search_path(k), NEW S, 0 \notin S, Dir(v) \in S
    PROVE  \E i \in 1 .. Len(v) : v[i] \in S /\ ParentOf(k.node[v[i]]) \notin S
<1>1. /\ Len(v) \in Nat \ {0} /\ v[1] = 0
      /\ \A i \in 1 .. Len(v) : v[i] \in NodeNum
      /\ \A i \in 2 .. Len(v) : k.node[v[i]].parent_block = Blk(v[i - 1])
  BY Walk
<1> DEFINE T == {i \in 1 .. Len(v) : v[i] \in S}
<1>2. Len(v) \in T /\ T \subseteq Nat
  BY <1>1 DEF Dir
<1>3. PICK i : i = Least(T)
  OBVIOUS
<1>4. i \in T /\ \A j \in T : i <= j
  BY <1>2, <1>3, LeastExists
<1>5. i # 1
  BY <1>1, <1>4
<1>6. i \in 2 .. Len(v) /\ i - 1 \in 1 .. Len(v) /\ ~(i <= i - 1)
  BY <1>1, <1>4, <1>5
<1>7. v[i - 1] \notin S
  BY <1>4, <1>6
<1>8. ParentOf(k.node[v[i]]) = v[i - 1]
  BY <1>1, <1>6, NodeBlocks DEF ParentOf
<1> QED
  BY <1>4, <1>7, <1>8

\* No operation closes a cycle.  Only sac_rename could, and the path of its
\* new directory does not run through the node that moves.
LEMMA EffectKeepsNoCycle ==
    ASSUME NEW k, NEW l, Inv(k, {}), NoCycle(k), Effect(k, l)
    PROVE  NoCycle(l)
<1> SUFFICES ASSUME NEW S \in (SUBSET {n \in NodeNum \ {0} : Live(l, n)}) \ {{}}
             PROVE  \E n \in S : ParentOf(l.node[n]) \notin S
  BY DEF NoCycle
<1>1. ASSUME NEW T, T \subseteq {n \in NodeNum \ {0} : Live(k, n)}, T # {}
      PROVE  \E n \in T : ParentOf(k.node[n]) \notin T
  BY <1>1 DEF NoCycle
<1>2. ASSUME \A n \in S : Kin(k, l, n)
      PROVE  \E n \in S : ParentOf(l.node[n]) \notin S
  <2>1. S \subseteq {n \in NodeNum \ {0} : Live(k, n)}
    BY <1>2 DEF Kin
  <2>2. PICK n \in S : ParentOf(k.node[n]) \notin S
    BY <2>1, <1>1
  <2> QED
    BY <2>2, <1>2 DEF Kin, ParentOf
<1>3. CASE KinAll(k, l)
  BY <1>2, <1>3 DEF KinAll
<1>4. CASE \E c \in NodeNum \ {0} : Deletes(k, l, c)
  BY <1>2, <1>4 DEF Deletes, Unlinks
\* A node that hangs from d: only sets that hold both are of interest.
<1>5. ASSUME NEW c \in NodeNum \ {0}, NEW d \in NodeNum, NEW x, Links(k, l, c, d, x),
             ~(c \in S /\ d \in S)
      PROVE  \E n \in S : ParentOf(l.node[n]) \notin S
  <2>1. ParentOf(l.node[c]) = d
    BY <1>5, NodeBlocks DEF Links, ParentOf
  <2>2. CASE c \in S
    BY <1>5, <2>1, <2>2
  <2>3. CASE c \notin S
    BY <1>2, <1>5, <2>3 DEF Links
  <2> QED
    BY <2>2, <2>3
<1>6. ASSUME NEW c \in NodeNum \ {0}, NEW d \in NodeNum, NEW x,
             ~Live(k, c), IsDir(k, d), Links(k, l, c, d, x)
      PROVE  \E n \in S : ParentOf(l.node[n]) \notin S
  <2>1. CASE c \in S /\ d \in S /\ c # d
    <3> DEFINE T == S \ {c}
    <3>1. T \subseteq {n \in NodeNum \ {0} : Live(k, n)} /\ T # {}
      BY <1>6, <2>1 DEF Links, Kin
    <3>2. PICK n \in T : ParentOf(k.node[n]) \notin T
      BY <3>1, <1>1
    <3>3. Live(k, ParentOf(k.node[n]))
      BY <3>1, <3>2, ParentLive DEF IsDir
    <3>4. ParentOf(k.node[n]) \notin S
      BY <1>6, <3>2, <3>3
    <3>5. l.node[n].parent_block = k.node[n].parent_block
      BY <1>6, <3>1, <3>2 DEF Links, Kin
    <3> QED
      BY <3>2, <3>4, <3>5 DEF ParentOf
  <2>2. CASE ~(c \in S /\ d \in S)
    BY <1>5, <1>6, <2>2
  <2>3. c # d
    BY <1>6 DEF IsDir
  <2> QED
    BY <2>1, <2>2, <2>3
<1>7. ASSUME NEW c \in NodeNum \ {0}, NEW v \in search_path(k), NEW x,
             \A i \in 1 .. Len(v) : v[i] # c, Links(k, l, c, Dir(v), x)
      PROVE  \E n \in S : ParentOf(l.node[n]) \notin S
  <2>1. CASE c \in S /\ Dir(v) \in S
    <3>1. PICK i \in 1 .. Len(v) : v[i] \in S /\ ParentOf(k.node[v[i]]) \notin S
      BY <2>1, WalkEnters
    <3>2. v[i] \in NodeNum \ {c}
      BY <1>7, <3>1
    <3>3. l.node[v[i]].parent_block = k.node[v[i]].parent_block
      BY <1>7, <3>2 DEF Links, Kin
    <3> QED
      BY <3>1, <3>3 DEF ParentOf
  <2>2. CASE ~(c \in S /\ Dir(v) \in S)
    <3>1. Dir(v) \in NodeNum
      BY Walk
    <3> QED
      BY <1>5, <1>7, <2>2, <3>1
  <2> QED
    BY <2>1, <2>2
<1> QED
  BY <1>3, <1>4, <1>6, <1>7 DEF Effect, Tame, Creates, Moves

NoCycleInv == Up => NoCycle(fs)

\* No request closes a cycle.
LEMMA NoCycleInvariant == Spec => []NoCycleInv
<1>1. Init => NoCycleInv
  <2> SUFFICES ASSUME Init PROVE NoCycle(fs)
    BY DEF NoCycleInv
  <2>1. PICK k : k = fs
    OBVIOUS
  <2>2. k.bitmap = create_default_bitmap
    BY <2>1 DEF Init, fs
  <2>3. \A n \in NodeNum \ {0} : ~Live(k, n)
    BY <2>2, NodeBlocks DEF Live, Blk
  <2> QED
    BY <2>1, <2>3 DEF NoCycle
<1>2. TreeInv /\ NoCycleInv /\ [Next]_vars => NoCycleInv'
  <2> SUFFICES ASSUME TreeInv, NoCycleInv, [Next]_vars PROVE NoCycleInv'
    OBVIOUS
  <2>1. CASE UNCHANGED vars
    BY <2>1 DEF vars, Up, fs, NoCycleInv
  <2>2. CASE Next
    <3>1. PICK l : Store(l) /\ Outcome(l) /\ (l.server = "up" => Effect(fs, l))
      BY <2>2, StepOutcome
    <3>2. fs' = l /\ server' = l.server
      BY <3>1, Stored DEF TreeInv, Store
    <3>3. PICK k : k = fs
      OBVIOUS
    <3>4. Inv(k, {}) /\ NoCycle(k)
      BY <2>2, <3>3 DEF TreeInv, Next, NoCycleInv
    <3>5. l.server = "up" => NoCycle(l)
      BY <3>1, <3>3, <3>4, EffectKeepsNoCycle
    <3>6. NoCycle(fs)' <=> NoCycle(fs')
      OBVIOUS
    <3> QED
      BY <3>2, <3>5, <3>6 DEF Up, NoCycleInv
  <2> QED
    BY <2>1, <2>2
<1> QED
  BY <1>1, <1>2, TreeInvariant, PTL DEF Spec

\* No sequence of creations, removals and renames detaches a subtree from the
\* root or closes a cycle of directories.
THEOREM TreeRooted == Spec => []Rooted
<1>1. NoCycleInv => Rooted
  BY DEF NoCycleInv, Rooted, NoCycle, fs
<1> QED
  BY <1>1, NoCycleInvariant, PTL

-----------------------------------------------------------------------------
(***************************************************************************)
(* The name of a node.                                                     *)
(***************************************************************************)
NameIn(k, n) ==
    LET d == ParentOf(k.node[n])
        i == CHOOSE i \in Places(k.node[d]) : Entry(k, d, i).node_num = n
    IN  Entry(k, d, i).name

\* The entry that gives a node a name lies in the node's parent, and is the
\* only one.
LEMMA HeldName ==
    ASSUME NEW k, Inv(k, {}), NEW n \in NodeNum \ {0}, NEW d \in NodeNum, NEW x,
           Holds(k, d, n, x)
    PROVE  d = ParentOf(k.node[n]) /\ NameIn(k, n) = x
<1>1. EntriesOK(k, {}) /\ NoTwin(k) /\ IsDir(k, d)
  BY DEF Inv, Holds
<1>2. PICK i \in Places(k.node[d]) : Entry(k, d, i).node_num = n /\ Entry(k, d, i).name = x
  BY DEF Holds
<1>3. EntryOK(k, {}, d, Entry(k, d, i))
  BY <1>1 DEF EntriesOK
<1>4. d = ParentOf(k.node[n])
  BY <1>2, <1>3, NodeBlocks DEF EntryOK, ParentOf
<1>5. PICK j : j = CHOOSE h \in Places(k.node[d]) : Entry(k, d, h).node_num = n
  OBVIOUS
<1>6. j \in Places(k.node[d]) /\ Entry(k, d, j).node_num = n
  BY <1>2, <1>5
<1>7. j = i
  BY <1>1, <1>2, <1>6 DEF NoTwin
<1> QED
  BY <1>2, <1>4, <1>5, <1>7 DEF NameIn

\* Every live node but the root has a name in its parent.
LEMMA HasName ==
    ASSUME NEW k, Inv(k, {}), NEW n \in NodeNum \ {0}, Live(k, n)
    PROVE  /\ ParentOf(k.node[n]) \in NodeNum
           /\ NameIn(k, n) \in Name
           /\ Holds(k, ParentOf(k.node[n]), n, NameIn(k, n))
<1>1. EntriesOK(k, {}) /\ AllNamed(k, {})
  BY DEF Inv
<1>2. PICK d \in NodeNum : IsDir(k, d) /\ \E i \in Places(k.node[d]) : Entry(k, d, i).node_num = n
  BY <1>1 DEF AllNamed, HasEntry
<1>3. PICK i \in Places(k.node[d]) : Entry(k, d, i).node_num = n
  BY <1>2
<1>4. PICK x : x = Entry(k, d, i).name
  OBVIOUS
<1>5. x \in Name /\ Holds(k, d, n, x)
  BY <1>1, <1>2, <1>3, <1>4 DEF EntriesOK, EntryOK, Holds
<1>6. d = ParentOf(k.node[n]) /\ NameIn(k, n) = x
  BY <1>5, HeldName
<1> QED
  BY <1>5, <1>6

\* A step that keeps what the tree has of a live node keeps its name.
LEMMA KinKeepsName ==
    ASSUME NEW k, NEW l, Inv(k, {}), Inv(l, {}), NEW n \in NodeNum \ {0},
           Live(k, n), Kin(k, l, n)
    PROVE  NameIn(l, n) = NameIn(k, n) /\ ParentOf(l.node[n]) = ParentOf(k.node[n])
<1>1. PICK d \in NodeNum, x \in Name : d = ParentOf(k.node[n]) /\ x = NameIn(k, n) /\ Holds(k, d, n, x)
  BY HasName
<1>2. Holds(l, d, n, x)
  BY <1>1 DEF Kin, KeepsName
<1> QED
  BY <1>1, <1>2, HeldName

\* A name that a step found or kept for a node was the node's before.
LEMMA KinHeldBefore ==
    ASSUME NEW k, NEW l, Inv(k, {}), Inv(l, {}), NEW n \in NodeNum \ {0},
           Live(k, n), Kin(k, l, n), NEW d \in NodeNum, NEW x, Holds(l, d, n, x)
    PROVE  Holds(k, d, n, x)
<1>1. d = ParentOf(l.node[n]) /\ x = NameIn(l, n)
  BY HeldName
<1>2. d = ParentOf(k.node[n]) /\ x = NameIn(k, n)
  BY <1>1, KinKeepsName
<1> QED
  BY <1>2, HasName

-----------------------------------------------------------------------------
(***************************************************************************)
(* Unique names.                                                           *)
(***************************************************************************)

\* No operation but a move to a taken name gives two entries of a directory
\* the same name.
LEMMA TameKeepsUnique ==
    ASSUME NEW k, NEW l, Inv(k, {}), Inv(l, {}), UniqueNames(k), Tame(k, l)
    PROVE  UniqueNames(l)
<1>1. EntriesOK(l, {}) /\ NoTwin(l)
  BY DEF Inv
<1> SUFFICES ASSUME NEW d \in NodeNum, IsDir(l, d),
                    NEW i \in Places(l.node[d]), NEW j \in Places(l.node[d]),
                    Entry(l, d, i).name = Entry(l, d, j).name
             PROVE  i = j
  BY DEF UniqueNames
<1>2. PICK n, m, x : /\ n = Entry(l, d, i).node_num /\ m = Entry(l, d, j).node_num
                     /\ x = Entry(l, d, i).name
  OBVIOUS
<1>3. /\ n \in NodeNum \ {0} /\ Live(l, n) /\ Holds(l, d, n, x)
      /\ m \in NodeNum \ {0} /\ Live(l, m) /\ Holds(l, d, m, x)
      /\ x \in Name
  BY <1>1, <1>2 DEF EntriesOK, EntryOK, Holds
<1> SUFFICES n = m
  BY <1>1, <1>2 DEF NoTwin
\* Both names are old.
<1>4. ASSUME Kin(k, l, n), Kin(k, l, m)
      PROVE  n = m
  <2>1. Live(k, n) /\ Live(k, m)
    BY <1>3, <1>4 DEF Kin
  <2>2. Holds(k, d, n, x) /\ Holds(k, d, m, x)
    BY <1>3, <1>4, <2>1, KinHeldBefore
  <2> QED
    BY <2>2 DEF Holds, UniqueNames
\* One node is linked under a name its new directory does not have.
<1>5. ASSUME NEW c \in NodeNum \ {0}, NEW to \in NodeNum, NEW y \in Name,
             Links(k, l, c, to, y), ~exists_entry(k, k.node[to], y)
      PROVE  n = m
  <2>1. ASSUME NEW a \in NodeNum \ {0, c}, Live(l, a), Holds(l, d, a, x), Holds(l, d, c, x)
        PROVE  FALSE
    <3>1. d = to /\ x = y
      BY <1>5, <2>1, HeldName DEF Links
    <3>2. Kin(k, l, a)
      BY <1>5, <2>1 DEF Links
    <3>3. Holds(k, d, a, x)
      BY <2>1, <3>2, KinHeldBefore DEF Kin
    <3> QED
      BY <1>5, <3>1, <3>3 DEF Holds, exists_entry, Matches, Entry
  <2>2. CASE n = c \/ m = c
    BY <1>3, <2>1, <2>2
  <2>3. CASE n # c /\ m # c
    BY <1>3, <1>4, <1>5, <2>3 DEF Links
  <2> QED
    BY <2>2, <2>3
<1>6. CASE KinAll(k, l)
  BY <1>3, <1>4, <1>6 DEF KinAll
<1>7. CASE \E c \in NodeNum \ {0} : Deletes(k, l, c)
  BY <1>3, <1>4, <1>7 DEF Deletes, Unlinks
<1>8. CASE \E c \in NodeNum \ {0}, to \in NodeNum, y \in Name : Creates(k, l, c, to, y)
  BY <1>5, <1>8 DEF Creates
<1>9. CASE \E c \in NodeNum \ {0}, v \in search_path(k), y \in Name :
              Moves(k, l, c, v, y) /\ ~exists_entry(k, k.node[Dir(v)], y)
  <2>1. PICK c \in NodeNum \ {0}, v \in search_path(k), y \in Name :
                Moves(k, l, c, v, y) /\ ~exists_entry(k, k.node[Dir(v)], y)
    BY <1>9
  <2>2. Dir(v) \in NodeNum
    BY Walk
  <2> QED
    BY <1>5, <2>1, <2>2 DEF Moves
<1> QED
  BY <1>6, <1>7, <1>8, <1>9 DEF Tame

\* sac_open, sac_mkdir, sac_remove, sac_rmdir, sac_write, sac_truncate and a
\* rename to a free name keep names unique, whatever came before.
THEOREM OnlyRenameMakesTwins == Spec => OnlyRenameDuplicates
<1>1. ASSUME TreeInv, [Next]_vars
      PROVE  [UniqueNames(fs) /\ server' = "up" => UniqueNames(fs)' \/ RenameOnto]_vars
  <2> SUFFICES ASSUME Next, UniqueNames(fs), server' = "up"
               PROVE  UniqueNames(fs)' \/ RenameOnto
    BY <1>1
  <2>1. PICK l : /\ Store(l) /\ Outcome(l)
                 /\ l.server = "up" => Tame(fs, l) \/ RenameOnto
    BY <1>1, StepOutcome
  <2>2. fs' = l /\ server' = l.server
    BY <1>1, <2>1, Stored DEF TreeInv, Store
  <2>3. PICK k : k = fs
    OBVIOUS
  <2>4. Inv(k, {}) /\ UniqueNames(k)
    BY <1>1, <2>3 DEF TreeInv, Next
  <2>5. Inv(l, {})
    BY <2>1, <2>2 DEF Outcome
  <2>6. Tame(k, l) => UniqueNames(l)
    BY <2>4, <2>5, TameKeepsUnique
  <2>7. UniqueNames(fs)' <=> UniqueNames(fs')
    OBVIOUS
  <2> QED
    BY <2>1, <2>2, <2>3, <2>6, <2>7
<1> QED
  BY <1>1, TreeInvariant, PTL DEF Spec, OnlyRenameDuplicates

-----------------------------------------------------------------------------
(***************************************************************************)
(* The refinement.                                                         *)
(***************************************************************************)

\* The tree that clients see of a disk k.
Seen(k, n) ==
    [kind |-> IF k.node[n].state = 2 THEN "dir" ELSE "file",
     dir  |-> IF n = 0 THEN 0 ELSE ParentOf(k.node[n]),
     name |-> IF n = 0 THEN NoObject ELSE NameIn(k, n)]

Abs(k) ==
    [n \in NodeNum |-> IF k.server # "up" \/ ~Live(k, n) THEN NoObject ELSE Seen(k, n)]

LEMMA AbstractIsAbs == Abstract = Abs(fs) /\ Abstract' = Abs(fs')
BY DEF Abstract, Abs, Seen, Up, NameOf, NameIn, fs

\* An object is never the mark of a missing one.
LEMMA SeenExists == \A k, n : Seen(k, n) # NoObject
<1> SUFFICES ASSUME NEW k, NEW n PROVE Seen(k, n).kind # NoObject.kind
  OBVIOUS
<1> QED
  BY DEF Seen, NoObject

\* An object moves by getting another directory and name.
Moved(a, d, x) == [a EXCEPT !.dir = d, !.name = x]

LEMMA ObjectMoved ==
    ASSUME NEW kind, NEW p, NEW y, NEW d, NEW x,
           NEW a, a = [kind |-> kind, dir |-> p, name |-> y],
           NEW b, b = [kind |-> kind, dir |-> d, name |-> x]
    PROVE  b = Moved(a, d, x)
<1>1. PICK o : o = [a EXCEPT !.dir = d, !.name = x]
  OBVIOUS
<1>2. [a EXCEPT !.dir = d, !.name = x] \in [kind : {kind}, dir : {d}, name : {x}]
  OBVIOUS
<1>3. o \in [kind : {kind}, dir : {d}, name : {x}]
  BY <1>1, <1>2
<1>4. o = [kind |-> kind, dir |-> d, name |-> x]
  BY <1>3
<1>5. b = o
  BY <1>4
<1> QED
  BY <1>1, <1>5 DEF Moved

\* What clients see of one node of a disk that is up.
LEMMA AbsAt ==
    ASSUME NEW k, k.server = "up", NEW n \in NodeNum
    PROVE  /\ Live(k, n) => Abs(k)[n] = Seen(k, n)
           /\ ~Live(k, n) => Abs(k)[n] = NoObject
           /\ Abs(k)[n] # NoObject <=> Live(k, n)
BY SeenExists DEF Abs

\* Nodes that a step keeps look the same afterwards.
LEMMA KinLooksSame ==
    ASSUME NEW k, NEW l, Inv(k, {}), Inv(l, {}), k.server = "up", l.server = "up",
           NEW n \in NodeNum, Kin(k, l, n)
    PROVE  Abs(l)[n] = Abs(k)[n]
<1>1. CASE ~Live(k, n)
  BY <1>1, AbsAt DEF Kin
<1>2. CASE Live(k, n)
  <2>1. Abs(k)[n] = Seen(k, n) /\ Abs(l)[n] = Seen(l, n)
    BY <1>2, AbsAt DEF Kin
  <2>2. n # 0 => NameIn(l, n) = NameIn(k, n) /\ ParentOf(l.node[n]) = ParentOf(k.node[n])
    BY <1>2, KinKeepsName
  <2>3. Seen(l, n) = Seen(k, n)
    BY <2>2 DEF Seen, Kin
  <2> QED
    BY <2>1, <2>3
<1> QED
  BY <1>1, <1>2

LEMMA AbsExcept ==
    ASSUME NEW k, NEW l, Inv(k, {}), Inv(l, {}), k.server = "up", l.server = "up",
           NEW c, \A n \in NodeNum \ {c} : Kin(k, l, n)
    PROVE  Abs(l) = [Abs(k) EXCEPT ![c] = Abs(l)[c]]
<1>1. \A n \in NodeNum \ {c} : Abs(l)[n] = Abs(k)[n]
  BY KinLooksSame
<1>2. PICK a, b : a = Abs(k) /\ b = Abs(l)
  OBVIOUS
<1>3. a = [n \in NodeNum |-> a[n]] /\ b = [n \in NodeNum |-> b[n]]
  BY <1>2 DEF Abs
<1> QED
  BY <1>1, <1>2, <1>3

\* What clients see hangs from the root as the nodes do.
LEMMA AbsRooted ==
    ASSUME NEW k, NoCycle(k), k.server = "up"
    PROVE  N!Rooted(Abs(k))
<1> SUFFICES ASSUME NEW S \in (SUBSET {o \in NodeNum \ {0} : Abs(k)[o] # NoObject}) \ {{}}
             PROVE  \E o \in S : Abs(k)[o].dir \notin S
  BY DEF N!Rooted
<1>1. S \subseteq {n \in NodeNum \ {0} : Live(k, n)} /\ S # {}
  BY AbsAt
<1>2. PICK n \in S : ParentOf(k.node[n]) \notin S
  BY <1>1 DEF NoCycle
<1>3. n \in NodeNum \ {0} /\ Live(k, n)
  BY <1>1
<1>4. Abs(k)[n] = Seen(k, n)
  BY <1>3, AbsAt
<1>5. Abs(k)[n].dir = ParentOf(k.node[n])
  BY <1>3, <1>4 DEF Seen
<1> QED
  BY <1>2, <1>5

\* A node in a directory has an entry there.
LEMMA ChildHeld ==
    ASSUME NEW k, Inv(k, {}), k.server = "up",
           NEW d \in NodeNum, NEW o \in NodeNum \ {0}, Abs(k)[o] # NoObject, Abs(k)[o].dir = d
    PROVE  Live(k, o) /\ Holds(k, d, o, Abs(k)[o].name)
<1>1. Live(k, o) /\ Abs(k)[o] = Seen(k, o)
  BY AbsAt
<1>2. Abs(k)[o].dir = ParentOf(k.node[o]) /\ Abs(k)[o].name = NameIn(k, o)
  BY <1>1 DEF Seen
<1> QED
  BY <1>1, <1>2, HasName

LEMMA InitRefines == Init => N!Init
<1> SUFFICES ASSUME Init PROVE N!Init
  OBVIOUS
<1>1. PICK k : k = fs
  OBVIOUS
<1>2. k.server = "up" /\ k.bitmap = create_default_bitmap /\ k.node[0] = create_root_dir
  BY <1>1 DEF Init, fs
<1>3. Live(k, 0) /\ \A n \in NodeNum \ {0} : ~Live(k, n)
  BY <1>2, Regions, NodeBlocks DEF Live, Blk
<1>4. Seen(k, 0) = [kind |-> "dir", dir |-> 0, name |-> NoObject]
  BY <1>2 DEF Seen, create_root_dir
<1>5. Abs(k) = [n \in NodeNum |-> IF n = 0 THEN [kind |-> "dir", dir |-> 0, name |-> NoObject]
                                           ELSE NoObject]
  BY <1>2, <1>3, <1>4 DEF Abs
<1>6. Abstract = Abs(k) /\ Up = TRUE
  BY <1>1, AbstractIsAbs DEF Init, Up
<1> QED
  BY <1>5, <1>6 DEF N!Init

\* Every request creates, deletes or moves one object, changes none, or is
\* the last.
LEMMA StepRefines ==
    ASSUME TreeInv, TreeInv', NoCycleInv', Next
    PROVE  [N!Next]_<<Abstract, Up>>
<1>1. PICK l : Store(l) /\ Outcome(l) /\ (l.server = "up" => Effect(fs, l))
  BY StepOutcome
<1>2. fs' = l /\ server' = l.server
  BY <1>1, Stored DEF TreeInv, Store
<1>3. PICK k : k = fs
  OBVIOUS
<1>4. Inv(k, {}) /\ k.server = "up" /\ Up
  BY <1>3 DEF TreeInv, Next, Up, fs
<1>5. PICK a, b : a = Abs(k) /\ b = Abs(l)
  OBVIOUS
<1>6. Abstract = a /\ Abstract' = b
  BY <1>2, <1>3, <1>5, AbstractIsAbs
<1>7. CASE l.server # "up"
  <2>1. b = [n \in NodeNum |-> NoObject]
    BY <1>5, <1>7 DEF Abs
  <2>2. Up' = FALSE
    BY <1>2, <1>7 DEF Up
  <2>3. N!Stop
    BY <1>6, <2>1, <2>2 DEF N!Stop
  <2> QED
    BY <1>4, <2>3 DEF N!Next
<1>8. CASE l.server = "up"
  <2>1. Inv(l, {}) /\ Up' = Up
    BY <1>1, <1>2, <1>4, <1>8 DEF Outcome, Up
  <2>2. NoCycle(l)
    <3>1. NoCycle(fs)' <=> NoCycle(fs')
      OBVIOUS
    <3> QED
      BY <1>2, <1>4, <2>1, <3>1 DEF NoCycleInv
  <2>3. CASE KinAll(k, l)
    <3>1. \A n \in NodeNum : a[n] = b[n]
      BY <1>4, <1>5, <1>8, <2>1, <2>3, KinLooksSame DEF KinAll
    <3>2. a = [n \in NodeNum |-> a[n]] /\ b = [n \in NodeNum |-> b[n]]
      BY <1>5 DEF Abs
    <3>3. a = b
      BY <3>1, <3>2
    <3> QED
      BY <1>6, <2>1, <3>3
  \* What is left changes one node.
  <2>4. ASSUME NEW c \in NodeNum \ {0}, \A n \in NodeNum \ {c} : Kin(k, l, n),
               \/ N!Delete(c)
               \/ \E d \in NodeNum, name \in Name :
                     \/ \E kind \in {"file", "dir"} : N!Create(c, d, name, kind)
                     \/ N!Move(c, d, name)
        PROVE  N!Next
    <3>1. b = [a EXCEPT ![c] = b[c]]
      BY <1>4, <1>5, <1>8, <2>1, <2>4, AbsExcept
    <3>2. N!Only(c)
      BY <1>6, <2>1, <3>1 DEF N!Only
    <3> QED
      BY <1>4, <2>4, <3>2 DEF N!Next
  <2>5. ASSUME NEW c \in NodeNum \ {0}, Deletes(k, l, c)
        PROVE  N!Next
    <3>1. Live(k, c) /\ ~Live(l, c) /\ \A n \in NodeNum \ {c} : Kin(k, l, n)
      BY <2>5 DEF Deletes, Unlinks
    <3>2. a[c] # NoObject /\ b[c] = NoObject
      BY <1>4, <1>5, <1>8, <3>1, AbsAt
    <3>3. ASSUME NEW o \in NodeNum \ {0}, a[o] # NoObject, a[o].dir = c
          PROVE  FALSE
      <4>1. Holds(k, c, o, a[o].name)
        BY <1>4, <1>5, <3>3, ChildHeld
      <4>2. Places(k.node[c]) # {} /\ k.node[c].state = 2 /\ Live(k, c)
        BY <4>1 DEF Holds, IsDir
      <4>3. Places(k.node[c]) = 0 .. k.node[c].file_size - 1
        BY <1>4, <4>2, PlacesInBlock DEF Inv, NodesOK
      <4> QED
        BY <2>5, <4>2, <4>3 DEF Deletes
    <3>4. N!Delete(c)
      BY <1>6, <3>2, <3>3 DEF N!Delete, N!Exists, N!Children, N!InDir
    <3> QED
      BY <2>4, <3>1, <3>4
  <2>6. ASSUME NEW c \in NodeNum \ {0}, NEW d \in NodeNum, NEW x \in Name, Creates(k, l, c, d, x)
        PROVE  N!Next
    <3>1. /\ ~Live(k, c) /\ IsDir(k, d) /\ ~exists_entry(k, k.node[d], x)
          /\ l.node[c].state \in {1, 2} /\ Live(l, c) /\ Holds(l, d, c, x)
          /\ \A n \in NodeNum \ {c} : Kin(k, l, n)
      BY <2>6 DEF Creates, Links
    <3>2. PICK kind \in {"file", "dir"} : b[c] = [kind |-> kind, dir |-> d, name |-> x]
      <4>1. b[c] = Seen(l, c)
        BY <1>5, <1>8, <3>1, AbsAt
      <4>2. ParentOf(l.node[c]) = d /\ NameIn(l, c) = x
        BY <2>1, <3>1, HeldName
      <4> QED
        BY <4>1, <4>2 DEF Seen
    <3>3. a[c] = NoObject
      BY <1>4, <1>5, <3>1, AbsAt
    <3>4. a[d] # NoObject /\ a[d].kind = "dir"
      <4>1. a[d] = Seen(k, d) /\ a[d] # NoObject
        BY <1>4, <1>5, <3>1, AbsAt DEF IsDir
      <4> QED
        BY <4>1, <3>1 DEF Seen, IsDir
    <3>5. ASSUME NEW o \in NodeNum \ {0}, a[o] # NoObject, a[o].dir = d
          PROVE  a[o].name # x
      <4>1. Holds(k, d, o, a[o].name)
        BY <1>4, <1>5, <3>5, ChildHeld
      <4> QED
        BY <3>1, <4>1 DEF Holds, exists_entry, Matches, Entry
    <3>6. N!Create(c, d, x, kind)
      BY <1>6, <3>2, <3>3, <3>4, <3>5 DEF N!Create, N!Exists, N!Children, N!InDir
    <3> QED
      BY <2>4, <3>1, <3>6
  <2>7. ASSUME NEW c \in NodeNum \ {0}, NEW v \in search_path(k), NEW x \in Name, Moves(k, l, c, v, x)
        PROVE  N!Next
    <3>1. PICK d \in NodeNum : d = Dir(v) /\ IsDir(k, d)
      BY <1>4, Walk
    <3>2. /\ Live(k, c) /\ l.node[c].state = k.node[c].state
          /\ Live(l, c) /\ Holds(l, d, c, x)
          /\ \A n \in NodeNum \ {c} : Kin(k, l, n)
      BY <2>7, <3>1 DEF Moves, Links
    <3>3. a[c] = Seen(k, c) /\ a[c] # NoObject /\ b[c] = Seen(l, c)
      BY <1>4, <1>5, <1>8, <3>2, AbsAt
    <3>4. ParentOf(l.node[c]) = d /\ NameIn(l, c) = x
      BY <2>1, <3>2, HeldName
    <3>5. b[c] = [a[c] EXCEPT !.dir = d, !.name = x]
      <4>1. PICK kind, p, y : a[c] = [kind |-> kind, dir |-> p, name |-> y]
                              /\ b[c] = [kind |-> kind, dir |-> d, name |-> x]
        BY <3>2, <3>3, <3>4 DEF Seen
      <4>2. PICK a0, b0 : a0 = a[c] /\ b0 = b[c]
        OBVIOUS
      <4>3. a0 = [kind |-> kind, dir |-> p, name |-> y] /\ b0 = [kind |-> kind, dir |-> d, name |-> x]
        BY <4>1, <4>2
      <4>4. b0 = Moved(a0, d, x)
        BY <4>3, ObjectMoved
      <4> QED
        BY <4>2, <4>4 DEF Moved
    <3>6. a[d] # NoObject /\ a[d].kind = "dir"
      <4>1. a[d] = Seen(k, d) /\ a[d] # NoObject
        BY <1>4, <1>5, <3>1, AbsAt DEF IsDir
      <4> QED
        BY <4>1, <3>1 DEF Seen, IsDir
    <3>7. N!Rooted(b)
      BY <1>5, <1>8, <2>2, AbsRooted
    <3>8. N!Move(c, d, x)
      BY <1>6, <3>3, <3>5, <3>6, <3>7 DEF N!Move, N!Exists
    <3> QED
      BY <2>4, <3>2, <3>8
  <2> QED
    BY <1>1, <1>3, <1>8, <2>3, <2>5, <2>6, <2>7 DEF Effect, Tame
<1> QED
  BY <1>7, <1>8

\* Seen by its clients, the tree of nodes, entries and blocks is a name space
\* in which a request creates, deletes or moves one object under the name it
\* asked for and leaves every other object where it was.
THEOREM NamespaceImplemented == Spec => ImplementsNamespace
<1>1. TreeInv /\ TreeInv' /\ NoCycleInv' /\ [Next]_vars => [N!Next]_<<Abstract, Up>>
  <2>1. ASSUME UNCHANGED vars
        PROVE  UNCHANGED <<Abstract, Up>>
    <3>1. fs' = fs /\ Up' = Up
      BY <2>1 DEF vars, fs, Up
    <3> QED
      BY <3>1, AbstractIsAbs
  <2> QED
    BY <2>1, StepRefines
<1> QED
  BY <1>1, InitRefines, TreeInvariant, NoCycleInvariant, PTL
     DEF Spec, ImplementsNamespace, N!Spec
=============================================================================
