---------------------------- MODULE LayoutLemmas ----------------------------
(***************************************************************************)
(* What the proofs about the disk have in common: least elements, which    *)
(* the allocator picks and which induction rests on; loops as recursive    *)
(* functions; blocks and places within blocks as quotients and remainders. *)
(***************************************************************************)
EXTENDS SacLayout, NaturalsInduction, WellFoundedInduction, FiniteSetTheorems, TLAPS

-----------------------------------------------------------------------------
(***************************************************************************)
(* The allocator and the scan of a directory pick the least element of a   *)
(* set of numbers.                                                         *)
(***************************************************************************)

\* A non-empty set of naturals has a least element.
LEMMA LeastExists ==
    ASSUME NEW S, S \subseteq Nat, S # {}
    PROVE  Least(S) \in S /\ \A j \in S : Least(S) <= j
<1> DEFINE T == {0 .. x : x \in S}
           R == StrictSubsetOrdering(Nat)
<1>1. T \subseteq FiniteSubsetsOf(Nat) /\ T # {}
  <2>1. \A x \in S : IsFiniteSet(0 .. x)
    BY FS_Interval
  <2>2. \A x \in S : 0 .. x \in SUBSET Nat
    OBVIOUS
  <2> QED
    BY <2>1, <2>2 DEF FiniteSubsetsOf
<1>2. IsWellFoundedOn(R, FiniteSubsetsOf(Nat))
  BY FS_StrictSubsetOrderingWellFounded
<1>3. PICK t \in T : \A u \in T : ~(<<u, t>> \in R)
  BY <1>1, <1>2, WFMin
<1>4. PICK x \in S : t = 0 .. x
  OBVIOUS
<1>5. ASSUME NEW y \in S, y < x
      PROVE  FALSE
  <2>1. 0 .. y \in T
    OBVIOUS
  <2>2. 0 .. y \in SUBSET Nat /\ 0 .. x \in SUBSET Nat
    OBVIOUS
  <2>3. 0 .. y \subseteq 0 .. x /\ 0 .. y # 0 .. x
    <3>1. x \in 0 .. x /\ ~(x \in 0 .. y)
      BY <1>5
    <3>2. 0 .. y \subseteq 0 .. x
      BY <1>5
    <3> QED
      BY <3>1, <3>2
  <2>4. <<0 .. y, 0 .. x>> \in R
    BY <2>2, <2>3 DEF StrictSubsetOrdering
  <2> QED
    BY <1>3, <1>4, <2>1, <2>4
<1>6. \A y \in S : x <= y
  BY <1>5
<1> QED
  BY <1>6 DEF Least

\* A reservation returns a free block of its region.
LEMMA FreeBlockIsFree ==
    ASSUME NEW B, NEW R, R \subseteq Nat, FreeBlocks(B, R) # {}
    PROVE  get_free_block(B, R) \in R \ B
<1>1. Least(R \ B) \in R \ B
  BY LeastExists DEF FreeBlocks
<1> QED
  BY <1>1 DEF get_free_block, FreeBlocks

-----------------------------------------------------------------------------
(***************************************************************************)
(* Loops.  A loop is a function on 0 .. n: its value after i turns.        *)
(***************************************************************************)

Repeats(S, step, p, n) ==
    \E f \in [0 .. n -> S] : f[0] = p /\ \A i \in 1 .. n : f[i] = step[f[i - 1]]

\* A step on a set S can be repeated n times.
LEMMA LoopExists ==
    ASSUME NEW S, NEW step \in [S -> S], NEW p \in S, NEW n \in Nat
    PROVE  Repeats(S, step, p, n)
<1> DEFINE Can(m) == \E f \in [0 .. m -> S] : f[0] = p /\ \A i \in 1 .. m : f[i] = step[f[i - 1]]
           T == {m \in Nat : ~Can(m)}
<1>1. Can(0)
  <2> DEFINE f == [i \in 0 .. 0 |-> p]
  <2>1. f \in [0 .. 0 -> S] /\ f[0] = p
    OBVIOUS
  <2>2. 1 .. 0 = {}
    OBVIOUS
  <2> HIDE DEF f
  <2> QED
    BY <2>1, <2>2
<1>2. ASSUME NEW m \in Nat, Can(m)
      PROVE  Can(m + 1)
  <2>1. PICK f \in [0 .. m -> S] : f[0] = p /\ \A i \in 1 .. m : f[i] = step[f[i - 1]]
    BY <1>2
  <2> DEFINE g == [i \in 0 .. m + 1 |-> IF i = m + 1 THEN step[f[m]] ELSE f[i]]
  <2>2. g \in [0 .. m + 1 -> S]
    BY <2>1
  <2>3. g[0] = p
    BY <2>1
  <2>4. \A i \in 1 .. m + 1 : g[i] = step[g[i - 1]]
    BY <2>1
  <2> QED
    BY <2>2, <2>3, <2>4
<1>3. T = {}
  <2> SUFFICES ASSUME T # {} PROVE FALSE
    OBVIOUS
  <2>0. T \subseteq Nat
    OBVIOUS
  <2>1. PICK m \in T : \A j \in T : m <= j
    <3> HIDE DEF T
    <3> QED
      BY <2>0, LeastExists
  <2>2. m \in Nat /\ ~Can(m)
    OBVIOUS
  <2>3. m # 0
    BY <1>1, <2>2
  <2>4. Can(m - 1)
    <3> HIDE DEF Can
    <3> QED
      BY <2>1, <2>2, <2>3
  <2> HIDE DEF Can
  <2> QED
    BY <1>2, <2>2, <2>3, <2>4
<1> HIDE DEF Can
<1>4. Can(n)
  BY <1>3
<1> QED
  BY <1>4 DEF Can, Repeats

\* g repeats the step as long as it has not left S.
Follows(g, S, step, n) ==
    g[0] \in S /\ \A i \in 1 .. n : g[i - 1] \in S => g[i] = step[g[i - 1]]

\* Each turn makes what is left smaller, or is the last.
Lessens(left, S, step) ==
    left \in [S -> Nat] /\ \A q \in S : step[q] = q \/ left[step[q]] < left[q]

AtRest(q, S, step) == q \in S /\ step[q] = q

\* A loop whose turns stay in S and each make it smaller has come to its
\* end after as many turns as it was large.
LEMMA LoopEnds ==
    ASSUME NEW S, NEW step \in [S -> S], NEW n \in Nat, NEW g, Follows(g, S, step, n),
           NEW left, Lessens(left, S, step), left[g[0]] <= n
    PROVE  AtRest(g[n], S, step)
<1> USE DEF Follows, Lessens, AtRest
<1> DEFINE Good(i) == /\ g[i] \in S
                      /\ step[g[i]] = g[i] \/ left[g[i]] <= n - i
           T == {i \in 0 .. n : ~Good(i)}
<1>1. Good(0)
  OBVIOUS
<1>2. ASSUME NEW i \in 1 .. n, Good(i - 1)
      PROVE  Good(i)
  <2>1. g[i] = step[g[i - 1]] /\ g[i] \in S
    BY <1>2
  <2>2. CASE step[g[i - 1]] = g[i - 1]
    BY <2>1, <2>2
  <2>3. CASE step[g[i - 1]] # g[i - 1]
    <3>1. left[g[i]] < left[g[i - 1]] /\ left[g[i - 1]] <= n - (i - 1)
      BY <1>2, <2>1, <2>3
    <3>2. left[g[i]] \in Nat /\ left[g[i - 1]] \in Nat
      BY <1>2, <2>1
    <3>3. left[g[i]] <= n - i
      BY <3>1, <3>2
    <3> QED
      BY <2>1, <3>3
  <2> QED
    BY <2>2, <2>3
<1>3. T = {}
  <2> HIDE DEF Good
  <2> SUFFICES ASSUME T # {} PROVE FALSE
    OBVIOUS
  <2>0. T \subseteq Nat
    OBVIOUS
  <2>1. PICK m \in T : \A j \in T : m <= j
    <3> HIDE DEF T
    <3> QED
      BY <2>0, LeastExists
  <2>2. m # 0 /\ m - 1 \in 0 .. n /\ ~(m - 1 \in T)
    BY <1>1, <2>1
  <2> QED
    BY <1>2, <2>2
<1>4. Good(n)
  <2> HIDE DEF Good
  <2> QED
    BY <1>3
<1>5. CASE left[g[n]] <= 0
  BY <1>4, <1>5
<1> QED
  BY <1>4, <1>5

\* g[i] is what the rest of a walk from i to n yields: what is met at i, in
\* front of the rest of the walk from next[i].
Gathers(g, n, Q, next, meet, e) ==
    /\ g \in [Nat -> Q]
    /\ \A i \in Nat : g[i] = IF i >= n THEN e ELSE meet[i, g[next[i]]]

\* A walk that always goes on ends, so its yield is defined.
LEMMA WalkExists ==
    ASSUME NEW Q, NEW e \in Q, NEW n \in Nat, NEW next \in [Nat -> Nat],
           \A i \in Nat : i < next[i], NEW meet \in [Nat \X Q -> Q]
    PROVE  \E g : Gathers(g, n, Q, next, meet, e)
<1> DEFINE Can(m) == \E g \in [Nat -> Q] : \A i \in Nat :
                        i >= m => g[i] = IF i >= n THEN e ELSE meet[i, g[next[i]]]
           T == {k \in 0 .. n : ~Can(n - k)}
<1>1. Can(n)
  <2> DEFINE g == [i \in Nat |-> e]
  <2>1. g \in [Nat -> Q] /\ \A i \in Nat : g[i] = e
    OBVIOUS
  <2> HIDE DEF g
  <2> QED
    BY <2>1
<1>2. ASSUME NEW m \in 0 .. n - 1, Can(m + 1)
      PROVE  Can(m)
  <2>1. PICK g \in [Nat -> Q] : \A i \in Nat :
            i >= m + 1 => g[i] = IF i >= n THEN e ELSE meet[i, g[next[i]]]
    BY <1>2
  <2> DEFINE h == [i \in Nat |-> IF i = m THEN meet[m, g[next[m]]] ELSE g[i]]
  <2>2. h \in [Nat -> Q]
    <3>1. meet[m, g[next[m]]] \in Q
      <4>1. m \in Nat /\ g[next[m]] \in Q
        OBVIOUS
      <4>2. <<m, g[next[m]]>> \in Nat \X Q
        BY <4>1
      <4> QED
        BY <4>2
    <3> QED
      BY <3>1
  <2>3. ASSUME NEW i \in Nat, i >= m
        PROVE  h[i] = IF i >= n THEN e ELSE meet[i, h[next[i]]]
    <3>0. next[i] \in Nat /\ next[i] # m
      <4>1. next[i] \in Nat /\ i < next[i]
        OBVIOUS
      <4> HIDE DEF Can, T, h
      <4> QED
        BY <2>3, <4>1
    <3>1. h[next[i]] = g[next[i]]
      BY <3>0
    <3>2. CASE i = m
      <4>1. h[i] = meet[i, g[next[i]]]
        BY <3>2
      <4>2. ~(i >= n)
        BY <3>2
      <4> HIDE DEF h
      <4> QED
        BY <3>1, <4>1, <4>2
    <3>3. CASE i # m
      <4>1. i >= m + 1 /\ h[i] = g[i]
        BY <2>3, <3>3
      <4> QED
        BY <2>1, <3>1, <4>1
    <3> QED
      BY <3>2, <3>3
  <2> HIDE DEF h
  <2> QED
    BY <2>2, <2>3
<1>3. T = {}
  <2> HIDE DEF Can
  <2> SUFFICES ASSUME T # {} PROVE FALSE
    OBVIOUS
  <2>1. T \subseteq Nat
    OBVIOUS
  <2>2. PICK k \in T : \A j \in T : k <= j
    <3> HIDE DEF T
    <3> QED
      BY <2>1, LeastExists
  <2>3. k # 0
    BY <1>1, <2>2
  <2>4. k - 1 \in 0 .. n /\ ~(k - 1 \in T)
    BY <2>2, <2>3
  <2>5. Can(n - (k - 1))
    BY <2>4
  <2>6. n - (k - 1) = (n - k) + 1 /\ n - k \in 0 .. n - 1
    BY <2>2, <2>3
  <2>7. Can((n - k) + 1)
    BY <2>5, <2>6
  <2>8. Can(n - k)
    BY <1>2, <2>6, <2>7
  <2> QED
    BY <2>2, <2>8
<1>4. Can(0)
  <2> HIDE DEF Can
  <2>1. n \in 0 .. n /\ n - n = 0
    OBVIOUS
  <2>2. Can(n - n)
    BY <1>3, <2>1
  <2> QED
    BY <2>1, <2>2
<1>5. PICK g \in [Nat -> Q] : \A i \in Nat :
          i >= 0 => g[i] = IF i >= n THEN e ELSE meet[i, g[next[i]]]
  BY <1>4
<1>6. \A i \in Nat : i >= 0
  OBVIOUS
<1>7. \A i \in Nat : g[i] = IF i >= n THEN e ELSE meet[i, g[next[i]]]
  <2> HIDE DEF Can, T
  <2> QED
    BY <1>5, <1>6
<1> QED
  BY <1>7 DEF Gathers

-----------------------------------------------------------------------------
(***************************************************************************)
(* Quotients and remainders.                                               *)
(***************************************************************************)

\* A quotient and its remainder.
LEMMA DivMod ==
    ASSUME NEW a \in Nat, NEW w \in Nat \ {0}
    PROVE  /\ a \div w \in Nat /\ a % w \in 0 .. w - 1 /\ a % w <= a
           /\ a = w * (a \div w) + (a % w)
OBVIOUS

\* A remainder below the divisor leaves the quotient.
LEMMA DivUnique ==
    ASSUME NEW w \in Nat \ {0}, NEW q \in Nat, NEW r \in 0 .. w - 1
    PROVE  (w * q + r) \div w = q /\ (w * q + r) % w = r
OBVIOUS
=============================================================================
