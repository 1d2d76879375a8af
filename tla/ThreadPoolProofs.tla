-------------------------- MODULE ThreadPoolProofs --------------------------
(***************************************************************************)
(* Proofs about the thread pool, for any number of threads and clients.    *)
(***************************************************************************)
EXTENDS ThreadPool, FunctionTheorems, FiniteSetTheorems, SequenceTheorems, TLAPS

\* An id is in the list.
InList(t, l) == \E i \in 1 .. Len(l) : l[i] = t

\* list_remove takes out one element: the rest stays, in its order.
LEMMA ListRemoveType ==
    ASSUME list \in Seq(Tid), NEW i \in Nat, i < Len(list)
    PROVE  /\ ListRemove(i) \in Seq(Tid)
           /\ Len(ListRemove(i)) = Len(list) - 1
           /\ \A j \in 1 .. Len(list) : j # i + 1 => InList(list[j], ListRemove(i))
<1> DEFINE a == SubSeq(list, 1, i)
           b == SubSeq(list, i + 2, Len(list))
<1>1. Len(list) \in Nat /\ \A j \in 1 .. Len(list) : list[j] \in Tid
  BY LenProperties, ElementOfSeq
<1>2. a \in Seq(Tid) /\ Len(a) = i /\ \A j \in 1 .. i : a[j] = list[j]
  <2>1. \A j \in 1 .. i : list[j] \in Tid
    BY <1>1
  <2> QED
    BY <2>1, SubSeqProperties
<1>3. /\ b \in Seq(Tid)
      /\ Len(b) = Len(list) - i - 1
      /\ \A j \in 1 .. Len(list) - i - 1 : b[j] = list[i + 1 + j]
  <2>1. \A j \in i + 2 .. Len(list) : list[j] \in Tid
    BY <1>1
  <2>2. /\ b \in Seq(Tid)
        /\ Len(b) = IF i + 2 <= Len(list) THEN Len(list) - (i + 2) + 1 ELSE 0
        /\ \A j \in 1 .. Len(list) - (i + 2) + 1 : b[j] = list[(i + 2) + j - 1]
    BY <1>1, <2>1, SubSeqProperties
  <2> QED
    BY <1>1, <2>2
<1>4. /\ a \o b \in Seq(Tid)
      /\ Len(a \o b) = Len(a) + Len(b)
      /\ \A j \in 1 .. Len(a) + Len(b) :
            (a \o b)[j] = IF j <= Len(a) THEN a[j] ELSE b[j - Len(a)]
  BY <1>2, <1>3, ConcatProperties
<1>5. ListRemove(i) = a \o b
  BY DEF ListRemove
<1> HIDE DEF a, b
<1>6. ASSUME NEW j \in 1 .. Len(list), j # i + 1
      PROVE  InList(list[j], a \o b)
  <2>1. CASE j <= i
    <3>1. j \in 1 .. Len(a \o b) /\ (a \o b)[j] = list[j]
      BY <1>1, <1>2, <1>3, <1>4, <2>1
    <3> QED
      BY <3>1 DEF InList
  <2>2. CASE j > i
    <3>1. j - 1 \in 1 .. Len(a \o b) /\ (a \o b)[j - 1] = b[j - 1 - i]
      <4>1. Len(a) = i /\ j - 1 \in 1 .. Len(a) + Len(b) /\ ~(j - 1 <= Len(a))
        BY <1>1, <1>2, <1>3, <1>6, <2>2
      <4>2. (a \o b)[j - 1] = b[(j - 1) - Len(a)] /\ Len(a \o b) = Len(a) + Len(b)
        BY <1>4, <4>1
      <4>3. (j - 1) - Len(a) = j - 1 - i
        BY <4>1
      <4> QED
        BY ONLY <4>1, <4>2, <4>3
    <3>2. b[j - 1 - i] = list[j]
      BY <1>1, <1>3, <1>6, <2>2
    <3> QED
      BY <3>1, <3>2 DEF InList
  <2> QED
    BY <1>1, <2>1, <2>2
<1>7. Len(a \o b) = Len(list) - 1
  BY <1>1, <1>2, <1>3, <1>4
<1> QED
  BY <1>4, <1>5, <1>6, <1>7

\* Every variable keeps its type through every step of every thread.
THEOREM PoolTyped == Spec => []TypeOK
<1>1. Init => TypeOK
  BY PoolAssumption DEF Init, TypeOK
<1>2. TypeOK /\ [Next]_vars => TypeOK'
  <2> SUFFICES ASSUME TypeOK, [Next]_vars PROVE TypeOK'
    OBVIOUS
  <2> USE PoolAssumption DEF TypeOK
  <2>1. ASSUME NEW c \in Conn, Connect(c) PROVE TypeOK'
    BY <2>1 DEF Connect
  <2>2. CASE CheckSize
    BY <2>2 DEF CheckSize
  <2>3. ASSUME NEW c \in Conn, NEW t \in Tid, AcceptConnection(c, t) PROVE TypeOK'
    BY <2>3 DEF AcceptConnection
  <2>4. CASE ListAdd
    BY <2>4 DEF ListAdd
  <2>5. ASSUME NEW t \in Tid, AttendConnection(t) PROVE TypeOK'
    BY <2>5 DEF AttendConnection
  <2>6. ASSUME NEW t \in Tid, LockList(t) PROVE TypeOK'
    BY <2>6 DEF LockList
  <2>7. ASSUME NEW t \in Tid, ScanList(t) PROVE TypeOK'
    <3>1. num[t] \in Nat /\ Len(list) \in Nat
      BY LenProperties
    <3>2. list' \in Seq(Tid)
      BY <2>7, <3>1, ListRemoveType DEF ScanList, ListGet
    <3> QED
      BY <2>7, <3>1, <3>2 DEF ScanList
  <2>8. ASSUME NEW t \in Tid, UnlockList(t) PROVE TypeOK'
    BY <2>8 DEF UnlockList
  <2>9. ASSUME NEW t \in Tid, Detach(t) PROVE TypeOK'
    BY <2>9 DEF Detach
  <2>10. CASE UNCHANGED vars
    BY <2>10 DEF vars
  <2> QED
    BY <2>1, <2>2, <2>3, <2>4, <2>5, <2>6, <2>7, <2>8, <2>9, <2>10
       DEF Next, MainStep, ThreadStep
<1> QED
  BY <1>1, <1>2, PTL DEF Spec

\* A thread that attends a connection has its place in the list, or main is
\* about to give it one, and the list stays within its bound.
THEOREM PoolRegistered == Spec => []Registered
<1>1. Init => Registered
  BY PoolAssumption DEF Init, Registered, Attending
<1>2. TypeOK /\ Registered /\ [Next]_vars => Registered'
  <2> SUFFICES ASSUME TypeOK, Registered, [Next]_vars PROVE Registered'
    OBVIOUS
  <2> USE PoolAssumption
  <2>0. Len(list) \in Nat /\ \A i \in 1 .. Len(list) : list[i] \in Tid
    BY LenProperties, ElementOfSeq DEF TypeOK
  <2>1. ASSUME NEW c \in Conn, Connect(c) PROVE Registered'
    BY <2>1 DEF Connect, Registered, Attending
  <2>2. CASE CheckSize
    BY <2>0, <2>2 DEF CheckSize, Registered, Attending, TypeOK
  <2>3. ASSUME NEW c \in Conn, NEW t \in Tid, AcceptConnection(c, t) PROVE Registered'
    <3>1. Attending' = Attending \cup {t}
      BY <2>3 DEF AcceptConnection, Attending, TypeOK
    <3> QED
      BY <2>0, <2>3, <3>1 DEF AcceptConnection, Registered
  <2>4. CASE ListAdd
    <3>1. /\ Len(list') = Len(list) + 1
          /\ \A i \in 1 .. Len(list) : list'[i] = list[i]
          /\ list'[Len(list) + 1] = cur
      BY <2>4, AppendProperties DEF ListAdd, TypeOK
    <3>2. ASSUME NEW t \in Attending' PROVE \E i \in 1 .. Len(list') : list'[i] = t
      <4>1. t \in Attending
        BY <2>4, <3>2 DEF ListAdd, Attending
      <4>2. CASE \E i \in 1 .. Len(list) : list[i] = t
        BY <2>0, <3>1, <4>2
      <4>3. CASE cur = t
        BY <2>0, <3>1, <4>3
      <4> QED
        BY <4>1, <4>2, <4>3 DEF Registered
    <3> QED
      BY <2>0, <2>4, <3>1, <3>2 DEF ListAdd, Registered
  <2>5. ASSUME NEW t \in Tid, AttendConnection(t) PROVE Registered'
    <3>1. Attending' = Attending
      BY <2>5 DEF AttendConnection, Attending, TypeOK
    <3> QED
      BY <2>5, <3>1 DEF AttendConnection, Registered
  <2>6. ASSUME NEW t \in Tid, LockList(t) PROVE Registered'
    <3>1. Attending' \subseteq Attending
      BY <2>6 DEF LockList, Attending, TypeOK
    <3> QED
      BY <2>6, <3>1 DEF LockList, Registered
  <2>7. ASSUME NEW t \in Tid, ScanList(t) PROVE Registered'
    <3>1. Attending' = Attending /\ t \notin Attending
      BY <2>7 DEF ScanList, Attending
    <3>2. CASE ListGet(num[t]) = t
      <4>1. num[t] \in Nat /\ num[t] < Len(list) /\ list[num[t] + 1] = t
        BY <2>0, <2>7, <3>2 DEF ListGet, TypeOK
      <4>2. /\ Len(list') = Len(list) - 1
            /\ \A j \in 1 .. Len(list) : j # num[t] + 1 => InList(list[j], list')
        BY <2>7, <3>2, <4>1, ListRemoveType DEF ScanList, TypeOK
      <4>3. ASSUME NEW u \in Attending, NEW i \in 1 .. Len(list), list[i] = u
            PROVE  InList(u, list')
        BY <3>1, <4>1, <4>2, <4>3
      <4> QED
        BY <2>0, <2>7, <3>1, <4>2, <4>3 DEF ScanList, Registered, InList
    <3>3. CASE ListGet(num[t]) # t
      BY <2>7, <3>1, <3>3 DEF ScanList, Registered
    <3> QED
      BY <3>2, <3>3
  <2>8. ASSUME NEW t \in Tid, UnlockList(t) PROVE Registered'
    <3>1. Attending' \subseteq Attending
      BY <2>8 DEF UnlockList, Attending, TypeOK
    <3> QED
      BY <2>8, <3>1 DEF UnlockList, Registered
  <2>9. ASSUME NEW t \in Tid, Detach(t) PROVE Registered'
    <3>1. Attending' \subseteq Attending
      BY <2>9 DEF Detach, Attending, TypeOK
    <3> QED
      BY <2>9, <3>1 DEF Detach, Registered
  <2>10. CASE UNCHANGED vars
    BY <2>10 DEF vars, Registered, Attending
  <2> QED
    BY <2>1, <2>2, <2>3, <2>4, <2>5, <2>6, <2>7, <2>8, <2>9, <2>10
       DEF Next, MainStep, ThreadStep
<1> QED
  BY <1>1, <1>2, PoolTyped, PTL DEF Spec

\* MAX_THREADS bounds the connections attended at once: each attending
\* thread has a place of its own among MAX_THREADS.
THEOREM PoolBounded == Spec => []AtMostMaxThreads
<1>1. TypeOK /\ Registered => AtMostMaxThreads
  <2> SUFFICES ASSUME TypeOK, Registered PROVE AtMostMaxThreads
    OBVIOUS
  <2> USE PoolAssumption
  <2>0. Len(list) \in Nat
    BY LenProperties DEF TypeOK
  <2> DEFINE Place(t) == CHOOSE i \in 1 .. Len(list) : list[i] = t
             f == [t \in Attending |-> IF InList(t, list) THEN Place(t)
                                                         ELSE Len(list) + 1]
  <2>1. ASSUME NEW t \in Attending, InList(t, list)
        PROVE  Place(t) \in 1 .. Len(list) /\ list[Place(t)] = t
    BY <2>1 DEF InList
  <2>2. ASSUME NEW t \in Attending, ~InList(t, list)
        PROVE  t = cur /\ Len(list) + 1 <= MAX_THREADS
    BY <2>0, <2>2 DEF Registered, InList
  <2> HIDE DEF Place
  <2>3. f \in [Attending -> 1 .. MAX_THREADS]
    BY <2>0, <2>1, <2>2 DEF Registered
  <2>4. ASSUME NEW t \in Attending, NEW u \in Attending, f[t] = f[u]
        PROVE  t = u
    <3>1. CASE InList(t, list) /\ InList(u, list)
      BY <2>1, <2>4, <3>1
    <3>2. CASE ~InList(t, list) /\ ~InList(u, list)
      BY <2>2, <3>2
    <3>3. CASE InList(t, list) /\ ~InList(u, list)
      BY <2>0, <2>1, <2>4, <3>3
    <3>4. CASE ~InList(t, list) /\ InList(u, list)
      BY <2>0, <2>1, <2>4, <3>4
    <3> QED
      BY <3>1, <3>2, <3>3, <3>4
  <2> HIDE DEF f
  <2>5. f \in Injection(Attending, 1 .. MAX_THREADS)
    BY <2>3, <2>4, Fun_IsInj
  <2>6. IsFiniteSet(1 .. MAX_THREADS) /\ Cardinality(1 .. MAX_THREADS) = MAX_THREADS
    BY FS_Interval
  <2> QED
    BY <2>5, <2>6, FS_Injection DEF AtMostMaxThreads
<1> QED
  BY <1>1, PoolTyped, PoolRegistered, PTL
=============================================================================
