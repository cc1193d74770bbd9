----------------------------- MODULE SnowProofs -----------------------------
(***************************************************************************)
(* Theorems about snow_os, for every set of nodes, threads, semaphores,      *)
(* mutexes and timers.                                                       *)
(*                                                                           *)
(* Part I is about the list helpers of snow.c (SnowListOps): they implement  *)
(* one sequence of items per list head.  Part II is about the kernel (Snow): *)
(* mutual exclusion, in every execution; and, in every execution in which no *)
(* thread is woken while it is current, intact rings, sorted timers, every   *)
(* thread in its place, no lost wakeup, and round-robin scheduling.          *)
(***************************************************************************)
EXTENDS SnowRefinement, SnowListOps,
        FiniteSetTheorems, SequenceTheorems, WellFoundedInduction, TLAPS

-----------------------------------------------------------------------------
(***************************************************************************)
(* PART I: the lists.                                                       *)
(***************************************************************************)

-----------------------------------------------------------------------------
(***************************************************************************)
(* What the list helpers of snow.c preserve, for every set of nodes S.      *)
(***************************************************************************)

\* In a consistent link state a node is detached in both directions at once.
LEMMA DetachedBothWays ==
  ASSUME NEW S, NEW lk \in LinkStates(S), Consistent(lk, S), NEW n \in S
  PROVE  lk.next[n] = n <=> lk.prev[n] = n
BY DEF LinkStates, Consistent

\* list_init and LIST_DEF give a consistent state in which no node is linked.
LEMMA UnlinkedConsistent ==
  ASSUME NEW S
  PROVE  /\ Unlinked(S) \in LinkStates(S)
         /\ Consistent(Unlinked(S), S)
         /\ \A n \in S : Detached(Unlinked(S), n)
BY DEF Unlinked, LinkStates, Consistent, Detached

\* The fields after list_insert between p and its successor.
LEMMA InsertFields ==
  ASSUME NEW S, NEW lk \in LinkStates(S),
         NEW new \in S, NEW p \in S, NEW n \in S, new # p, new # n
  PROVE  LET r == list_insert(lk, new, p, n)
         IN  /\ r \in LinkStates(S)
             /\ \A m \in S : r.next[m] = IF m = p THEN new
                                         ELSE IF m = new THEN n ELSE lk.next[m]
             /\ \A m \in S : r.prev[m] = IF m = new THEN p
                                         ELSE IF m = n THEN new ELSE lk.prev[m]
BY DEF list_insert, LinkStates

\* list_insert of a detached node between two neighbours keeps the rings
\* intact, leaves every other detached node alone, and keeps lists apart.
LEMMA InsertConsistent ==
  ASSUME NEW S, NEW lk \in LinkStates(S), Consistent(lk, S),
         NEW new \in S, NEW p \in S, Detached(lk, new), new # p
  PROVE  LET r == list_insert(lk, new, p, lk.next[p])
         IN  /\ r \in LinkStates(S)
             /\ Consistent(r, S)
             /\ ~Detached(r, new)
             /\ \A m \in S \ {new, p} : Detached(lk, m) <=> Detached(r, m)
             /\ \A c : Respects(lk, S, c) /\ c[new] = c[p] => Respects(r, S, c)
  <1> DEFINE n == lk.next[p]
             r == list_insert(lk, new, p, n)
  <1>1. n \in S /\ new # n /\ lk.prev[n] = p
    BY DEF LinkStates, Consistent, Detached
  <1> HIDE DEF n
  <1>2. /\ r \in LinkStates(S)
        /\ \A m \in S : r.next[m] = IF m = p THEN new
                                    ELSE IF m = new THEN n ELSE lk.next[m]
        /\ \A m \in S : r.prev[m] = IF m = new THEN p
                                    ELSE IF m = n THEN new ELSE lk.prev[m]
    BY <1>1, InsertFields
  <1> HIDE DEF r
  <1>3. Consistent(r, S)
    BY <1>1, <1>2 DEF Consistent, LinkStates, Detached, n
  <1>4. ~Detached(r, new)
    BY <1>1, <1>2 DEF Detached
  <1>5. \A m \in S \ {new, p} : Detached(lk, m) <=> Detached(r, m)
    BY <1>1, <1>2 DEF Detached
  <1>6. ASSUME NEW c, Respects(lk, S, c), c[new] = c[p]
        PROVE  Respects(r, S, c)
    BY <1>1, <1>2, <1>6 DEF Respects, LinkStates, Consistent, n
  <1> QED
    BY <1>2, <1>3, <1>4, <1>5, <1>6 DEF r, n

\* list_fifo_put of a detached node onto the list with head h.
LEMMA FifoPutConsistent ==
  ASSUME NEW S, NEW lk \in LinkStates(S), Consistent(lk, S),
         NEW new \in S, NEW h \in S, Detached(lk, new), new # h
  PROVE  LET r == list_fifo_put(lk, new, h)
         IN  /\ r \in LinkStates(S)
             /\ Consistent(r, S)
             /\ ~Detached(r, new)
             /\ \A m \in S \ {new, h} : Detached(lk, m) <=> Detached(r, m)
             /\ \A c : Respects(lk, S, c) /\ c[new] = c[h] => Respects(r, S, c)
  <1> DEFINE p == lk.prev[h]
  <1>1. p \in S /\ lk.next[p] = h /\ new # p
    BY DEF LinkStates, Consistent, Detached
  <1>2. list_fifo_put(lk, new, h) = list_insert(lk, new, p, lk.next[p])
    BY <1>1 DEF list_fifo_put
  <1>3. p # h => ~Detached(lk, p)
    BY <1>1 DEF Detached
  <1>4. \A c : Respects(lk, S, c) => c[p] = c[h]
    BY DEF Respects
  <1>5. p # h => ~Detached(list_fifo_put(lk, new, h), p)
    BY <1>1, InsertFields DEF Detached, list_fifo_put
  <1> HIDE DEF p
  <1> QED
    BY <1>1, <1>2, <1>3, <1>4, <1>5, InsertConsistent

\* list_remove of any node, on a list or not: the rings stay intact, the
\* node ends up detached, no detached node gets linked, lists stay apart.
LEMMA RemoveConsistent ==
  ASSUME NEW S, NEW lk \in LinkStates(S), Consistent(lk, S), NEW n \in S
  PROVE  LET r == list_remove(lk, n)
         IN  /\ r \in LinkStates(S)
             /\ Consistent(r, S)
             /\ Detached(r, n)
             /\ \A m \in S : Detached(lk, m) => Detached(r, m)
             /\ \A c : Respects(lk, S, c) => Respects(r, S, c)
  <1> DEFINE p == lk.prev[n]
             x == lk.next[n]
             r == list_remove(lk, n)
  <1>1. p \in S /\ x \in S /\ lk.next[p] = n /\ lk.prev[x] = n
    BY DEF LinkStates, Consistent
  <1>2. /\ r \in LinkStates(S)
        /\ \A m \in S : r.next[m] = IF m = n THEN n
                                    ELSE IF m = p THEN x ELSE lk.next[m]
        /\ \A m \in S : r.prev[m] = IF m = n THEN n
                                    ELSE IF m = x THEN p ELSE lk.prev[m]
    BY <1>1 DEF list_remove, list_init, LinkStates
  <1> HIDE DEF r
  <1>3. Consistent(r, S)
    <2> SUFFICES ASSUME NEW m \in S
                 PROVE  r.next[r.prev[m]] = m /\ r.prev[r.next[m]] = m
      BY DEF Consistent
    <2>1. /\ lk.prev[m] \in S /\ lk.next[lk.prev[m]] = m
          /\ lk.next[m] \in S /\ lk.prev[lk.next[m]] = m
      BY DEF Consistent, LinkStates
    <2>2. r.next[r.prev[m]] = m
      BY <1>1, <1>2, <2>1
    <2>3. r.prev[r.next[m]] = m
      BY <1>1, <1>2, <2>1
    <2> QED
      BY <2>2, <2>3
  <1>4. Detached(r, n)
    BY <1>2 DEF Detached
  <1>5. \A m \in S : Detached(lk, m) => Detached(r, m)
    BY <1>1, <1>2 DEF Detached, Consistent
  <1>6. ASSUME NEW c, Respects(lk, S, c)
        PROVE  Respects(r, S, c)
    <2>1. c[p] = c[n] /\ c[x] = c[n]
      BY <1>6 DEF Respects
    <2>2. \A m \in S : c[r.next[m]] = c[m]
      BY <1>1, <1>2, <1>6, <2>1 DEF Respects
    <2>3. \A m \in S : c[r.prev[m]] = c[m]
      BY <1>1, <1>2, <1>6, <2>1 DEF Respects
    <2> QED
      BY <2>2, <2>3 DEF Respects
  <1> QED
    BY <1>2, <1>3, <1>4, <1>5, <1>6 DEF r

-----------------------------------------------------------------------------
(***************************************************************************)
(* Walks along next.                                                        *)
(***************************************************************************)

LEMMA Least ==
  ASSUME NEW T \in SUBSET Nat, T # {}
  PROVE  \E n \in T : \A m \in T : n <= m
  <1>1. IsWellFoundedOn(OpToRel(<, Nat), Nat)
    BY NatLessThanWellFounded
  <1>2. PICK n \in T : \A m \in T : ~(<<m, n>> \in OpToRel(<, Nat))
    BY <1>1, WFMin
  <1>3. \A m \in T : ~(m < n)
    BY <1>2 DEF OpToRel
  <1> QED
    BY <1>3

LEMMA WalkExists ==
  ASSUME NEW S, NEW lk \in LinkStates(S), NEW h \in S, NEW k \in Nat
  PROVE  \E g \in [0 .. k -> S] : g[0] = h /\ \A i \in 1 .. k : g[i] = lk.next[g[i - 1]]
  <1> DEFINE P(n) == \E g \in [0 .. n -> S] : g[0] = h /\ \A i \in 1 .. n : g[i] = lk.next[g[i - 1]]
             T == {n \in Nat : ~P(n)}
  <1> SUFFICES ASSUME T # {} PROVE FALSE
    OBVIOUS
  <1>1. PICK n \in T : \A m \in T : n <= m
    BY Least
  <1>2. P(0)
    <2> DEFINE e0 == [i \in 0 .. 0 |-> h]
    <2>1. e0 \in [0 .. 0 -> S] /\ e0[0] = h /\ \A i \in 1 .. 0 : e0[i] = lk.next[e0[i - 1]]
      OBVIOUS
    <2> HIDE DEF e0
    <2> QED BY <2>1
  <1> HIDE DEF P
  <1>3. n # 0 /\ n \in Nat /\ n - 1 \in Nat /\ n - 1 \notin T
    BY <1>1, <1>2
  <1>4. PICK g \in [0 .. n - 1 -> S] : g[0] = h /\ \A i \in 1 .. n - 1 : g[i] = lk.next[g[i - 1]]
    BY <1>3 DEF P
  <1> DEFINE e == [i \in 0 .. n |-> IF i = n THEN lk.next[g[n - 1]] ELSE g[i]]
  <1>5. e \in [0 .. n -> S] /\ e[0] = h /\ \A i \in 1 .. n : e[i] = lk.next[e[i - 1]]
    BY <1>3, <1>4 DEF LinkStates
  <1> HIDE DEF e
  <1>6. P(n)
    BY <1>5 DEF P
  <1> QED
    BY <1>1, <1>6

LEMMA NodeAtStep ==
  ASSUME NEW S, IsFiniteSet(S), NEW lk \in LinkStates(S), NEW h \in S, Cardinality(S) \in Nat
  PROVE  LET at == NodeAt(lk, S, h)
         IN  /\ at \in [0 .. Cardinality(S) -> S]
             /\ at[0] = h
             /\ \A i \in 1 .. Cardinality(S) : at[i] = lk.next[at[i - 1]]
  <1> DEFINE N == Cardinality(S)
             D(g) == [i \in 0 .. N |-> IF i = 0 THEN h ELSE lk.next[g[i - 1]]]
             at == NodeAt(lk, S, h)
  <1>1. PICK g \in [0 .. N -> S] : g[0] = h /\ \A i \in 1 .. N : g[i] = lk.next[g[i - 1]]
    BY WalkExists
  <1>2. g = D(g)
    <2>1. \A i \in 0 .. N : g[i] = D(g)[i]
      BY <1>1
    <2> QED BY <1>1, <2>1
  <1>3. at = CHOOSE x : x = D(x)
    BY DEF NodeAt
  <1>4. at = D(at)
    BY <1>2, <1>3
  <1> HIDE DEF at, N
  <1>5. at[0] = h /\ \A i \in 1 .. N : at[i] = lk.next[at[i - 1]]
    BY <1>4 DEF N
  <1>6. at \in [0 .. N -> S]
    <2> N \in Nat BY DEF N
    <2> DEFINE B == {i \in 0 .. N : at[i] \notin S}
    <2>1. at = [i \in 0 .. N |-> at[i]]
      BY <1>4
    <2>2. SUFFICES ASSUME B # {} PROVE FALSE
      BY <2>1
    <2>3. PICK n \in B : \A m \in B : n <= m
      <3>1. B \in SUBSET Nat OBVIOUS
      <3> HIDE DEF B
      <3> QED BY <3>1, <2>2, Least
    <2>4. n # 0 /\ n - 1 \in 0 .. N /\ n - 1 \notin B
      BY <2>3, <1>5
    <2>5. at[n] \in S
      BY <2>3, <2>4, <1>5 DEF LinkStates
    <2> QED BY <2>3, <2>5
  <1> QED BY <1>5, <1>6 DEF at, N

\* The nodes reached from h: those in every set that contains h and, with a
\* node, its successor.
Ring(lk, S, h) ==
  {n \in S : \A X \in SUBSET S :
               h \in X /\ (\A m \in X : lk.next[m] \in X) => n \in X}

\* A walk from h along intact rings comes back to h, by the pigeonhole
\* principle and because prev undoes next.
LEMMA WalkReturns ==
  ASSUME NEW S, IsFiniteSet(S), NEW lk \in LinkStates(S), Consistent(lk, S),
         NEW h \in S
  PROVE  \E k \in 1 .. Cardinality(S) : NodeAt(lk, S, h)[k] = h
  <1> DEFINE N == Cardinality(S)
             at == NodeAt(lk, S, h)
             D == {i \in 0 .. N : \E j \in 0 .. N : i < j /\ at[i] = at[j]}
  <1>1. N \in Nat /\ IsFiniteSet(0 .. N) /\ Cardinality(0 .. N) = N + 1
    BY FS_CardinalityType, FS_Interval
  <1>2. /\ at \in [0 .. N -> S] /\ at[0] = h
        /\ \A i \in 1 .. N : at[i] = lk.next[at[i - 1]]
    BY <1>1, NodeAtStep
  <1> HIDE DEF at, N
  <1>3. \E i, j \in 0 .. N : i # j /\ at[i] = at[j]
    <2>1. Cardinality(S) < Cardinality(0 .. N)
      BY <1>1 DEF N
    <2> QED
      BY <1>1, <1>2, <2>1, FS_PigeonHole
  <1>4. D # {} /\ D \in SUBSET Nat
    BY <1>1, <1>3
  <1>5. PICK i \in D : \A d \in D : i <= d
    <2> HIDE DEF D
    <2> QED
      BY <1>4, Least
  <1>6. PICK j \in 0 .. N : i < j /\ at[i] = at[j]
    BY <1>5
  <1>7. CASE i = 0
    BY <1>1, <1>2, <1>6, <1>7 DEF at, N
  <1>8. CASE i # 0
    <2>1. i \in 1 .. N /\ j \in 1 .. N /\ i - 1 \in 0 .. N /\ j - 1 \in 0 .. N
      BY <1>1, <1>5, <1>6, <1>8
    <2>2. at[i] = lk.next[at[i - 1]] /\ at[j] = lk.next[at[j - 1]]
      BY <1>2, <2>1
    <2>3. at[i - 1] = lk.prev[at[i]] /\ at[j - 1] = lk.prev[at[j]]
      BY <1>2, <2>1, <2>2 DEF Consistent
    <2>4. i - 1 \in D
      BY <1>1, <1>6, <2>1, <2>3
    <2> QED
      BY <1>1, <1>5, <2>1, <2>4
  <1> QED
    BY <1>7, <1>8

\* What list_foreach visits from h is what can be reached from h, except h.
LEMMA OnListIsRing ==
  ASSUME NEW S, IsFiniteSet(S), NEW lk \in LinkStates(S), Consistent(lk, S),
         NEW h \in S
  PROVE  /\ OnList(lk, S, h) = Ring(lk, S, h) \ {h}
         /\ lk.prev[h] \in Ring(lk, S, h)
  <1> DEFINE N == Cardinality(S)
             at == NodeAt(lk, S, h)
             back == {i \in 1 .. N : at[i] = h}
             k == CHOOSE i \in back : \A j \in back : i <= j
  <1>1. N \in Nat
    BY FS_CardinalityType
  <1>2. /\ at \in [0 .. N -> S] /\ at[0] = h
        /\ \A i \in 1 .. N : at[i] = lk.next[at[i - 1]]
    BY <1>1, NodeAtStep
  <1>3. back # {} /\ back \in SUBSET Nat
    BY <1>1, WalkReturns
  <1>4. k \in back /\ \A j \in back : k <= j
    <2> HIDE DEF back
    <2>1. \E i \in back : \A j \in back : i <= j
      BY <1>3, Least
    <2> QED
      BY <2>1
  <1>5. WalkLength(lk, S, h) = k - 1
    BY <1>3 DEF WalkLength
  <1> HIDE DEF k, at, N
  <1>6. /\ k \in 1 .. N /\ at[k] = h
        /\ \A i \in 1 .. k - 1 : i \in 1 .. N /\ at[i] # h
    BY <1>1, <1>4
  <1>7. OnList(lk, S, h) = {at[i] : i \in 1 .. k - 1}
    BY <1>5 DEF OnList, Walk, at
  <1>8. \A i \in 0 .. k : at[i] \in Ring(lk, S, h)
    <2> SUFFICES ASSUME NEW X \in SUBSET S, h \in X,
                        \A m \in X : lk.next[m] \in X
                 PROVE  \A i \in 0 .. k : at[i] \in X
      BY <1>1, <1>2, <1>6 DEF Ring
    <2> DEFINE B == {i \in 0 .. k : at[i] \notin X}
    <2> SUFFICES ASSUME B # {} PROVE FALSE
      OBVIOUS
    <2>1. PICK i \in B : \A j \in B : i <= j
      <3>1. B \in SUBSET Nat
        BY <1>1, <1>6
      <3> HIDE DEF B
      <3> QED
        BY <3>1, Least
    <2>2. i # 0 /\ i \in 1 .. N /\ i - 1 \in 0 .. k
      BY <1>1, <1>2, <1>6, <2>1
    <2>3. at[i - 1] \in X
      BY <1>1, <1>6, <2>1, <2>2
    <2>4. at[i] \in X
      BY <1>2, <2>2, <2>3
    <2> QED
      BY <2>1, <2>4
  <1>9. Ring(lk, S, h) \subseteq {at[i] : i \in 0 .. k - 1}
    <2> DEFINE X == {at[i] : i \in 0 .. k - 1}
    <2>1. X \in SUBSET S /\ h \in X
      BY <1>1, <1>2, <1>6
    <2>2. ASSUME NEW i \in 0 .. k - 1
          PROVE  lk.next[at[i]] \in X
      <3>1. i + 1 \in 1 .. N /\ at[i + 1] = lk.next[at[i]]
        <4>1. i + 1 \in 1 .. N /\ (i + 1) - 1 = i
          BY <1>1, <1>6
        <4> QED
          BY <1>2, <4>1
      <3>2. CASE i = k - 1
        BY <1>1, <1>6, <2>1, <3>1, <3>2
      <3>3. CASE i # k - 1
        BY <1>1, <1>6, <3>1, <3>3
      <3> QED
        BY <3>2, <3>3
    <2>3. \A m \in X : lk.next[m] \in X
      BY <2>2
    <2> QED
      BY <2>1, <2>3 DEF Ring
  <1>10. OnList(lk, S, h) = Ring(lk, S, h) \ {h}
    <2>1. OnList(lk, S, h) \subseteq Ring(lk, S, h) \ {h}
      BY <1>1, <1>6, <1>7, <1>8
    <2>2. ASSUME NEW n \in Ring(lk, S, h) \ {h}
          PROVE  n \in OnList(lk, S, h)
      <3>1. PICK i \in 0 .. k - 1 : n = at[i]
        BY <1>9
      <3>2. i \in 1 .. k - 1
        BY <1>1, <1>2, <1>6, <3>1
      <3> QED
        BY <1>7, <3>1, <3>2
    <2> QED
      BY <2>1, <2>2
  <1>11. lk.prev[h] \in Ring(lk, S, h)
    <2>1. at[k] = lk.next[at[k - 1]] /\ k - 1 \in 0 .. k /\ at[k - 1] \in S
      BY <1>1, <1>2, <1>6
    <2>2. lk.prev[h] = at[k - 1]
      BY <1>6, <2>1 DEF Consistent
    <2> QED
      BY <1>8, <2>1, <2>2
  <1> QED
    BY <1>10, <1>11

LEMMA HeadInRing ==
  ASSUME NEW S, NEW lk, NEW h \in S
  PROVE  h \in Ring(lk, S, h)
BY DEF Ring

\* A node that is on no list can be reached from no other node.
LEMMA RingLinked ==
  ASSUME NEW S, NEW lk \in LinkStates(S), Consistent(lk, S), NEW h \in S,
         NEW m \in Ring(lk, S, h), m # h
  PROVE  ~Detached(lk, m)
  <1> SUFFICES ASSUME Detached(lk, m) PROVE FALSE
    OBVIOUS
  <1> DEFINE X == S \ {m}
  <1>1. m \in S /\ lk.prev[m] = m
    BY DetachedBothWays DEF Ring, Detached
  <1>2. \A x \in X : lk.next[x] \in X
    BY <1>1 DEF LinkStates, Consistent
  <1>3. X \in SUBSET S /\ h \in X /\ m \notin X
    OBVIOUS
  <1> QED
    BY <1>2, <1>3 DEF Ring

\* Nothing but h can be reached from the head of an empty list.
LEMMA RingEmpty ==
  ASSUME NEW S, NEW lk, NEW h \in S, list_empty(lk, h)
  PROVE  Ring(lk, S, h) = {h}
  <1>1. {h} \in SUBSET S /\ \A m \in {h} : lk.next[m] \in {h}
    BY DEF list_empty
  <1> QED
    BY <1>1 DEF Ring

\* list_insert adds the new node to what can be reached, and drops nothing.
LEMMA RingInsert ==
  ASSUME NEW S, NEW lk \in LinkStates(S), Consistent(lk, S),
         NEW new \in S, NEW p \in S, Detached(lk, new), new # p,
         NEW h \in S, h # new
  PROVE  LET r == list_insert(lk, new, p, lk.next[p])
         IN  /\ \A m \in Ring(lk, S, h) : m \in Ring(r, S, h)
             /\ p \in Ring(lk, S, h) => new \in Ring(r, S, h)
  <1> DEFINE n == lk.next[p]
             r == list_insert(lk, new, p, n)
  <1>1. n \in S /\ new # n /\ lk.prev[n] = p /\ lk.prev[new] = new
    BY DetachedBothWays DEF LinkStates, Consistent, Detached
  <1> HIDE DEF n
  <1>2. \A m \in S : r.next[m] = IF m = p THEN new
                                 ELSE IF m = new THEN n ELSE lk.next[m]
    BY <1>1, InsertFields
  <1> HIDE DEF r
  <1>3. ASSUME NEW X \in SUBSET S, h \in X, \A m \in X : r.next[m] \in X
        PROVE  /\ \A m \in Ring(lk, S, h) : m \in X
               /\ p \in X => new \in X
    <2> DEFINE Y == X \ {new}
    <2>1. ASSUME NEW y \in Y
          PROVE  lk.next[y] \in Y
      <3>1. lk.next[y] # new
        BY <1>1 DEF Consistent
      <3>2. CASE y = p
        BY <1>1, <1>2, <1>3, <3>1, <3>2 DEF n
      <3>3. CASE y # p
        BY <1>2, <1>3, <3>1, <3>3
      <3> QED
        BY <3>2, <3>3
    <2>2. Y \in SUBSET S /\ h \in Y
      BY <1>3
    <2>3. \A m \in Ring(lk, S, h) : m \in Y
      BY <2>1, <2>2 DEF Ring
    <2> QED
      BY <1>2, <1>3, <2>3
  <1>4. \A m \in Ring(lk, S, h) : m \in Ring(r, S, h)
    BY <1>3 DEF Ring
  <1>5. p \in Ring(lk, S, h) => new \in Ring(r, S, h)
    BY <1>3 DEF Ring
  <1> QED
    BY <1>4, <1>5 DEF r, n

\* list_fifo_put makes the new node reachable from the list head.
LEMMA RingPut ==
  ASSUME NEW S, IsFiniteSet(S), NEW lk \in LinkStates(S), Consistent(lk, S),
         NEW new \in S, Detached(lk, new), NEW fifo \in S, new # fifo,
         NEW h \in S, h # new
  PROVE  LET r == list_fifo_put(lk, new, fifo)
         IN  /\ \A m \in Ring(lk, S, h) : m \in Ring(r, S, h)
             /\ new \in Ring(r, S, fifo)
  <1> DEFINE p == lk.prev[fifo]
  <1>1. p \in S /\ lk.next[p] = fifo /\ p # new
    BY DEF LinkStates, Consistent, Detached
  <1>2. list_fifo_put(lk, new, fifo) = list_insert(lk, new, p, lk.next[p])
    BY <1>1 DEF list_fifo_put
  <1>3. p \in Ring(lk, S, fifo)
    BY OnListIsRing
  <1> HIDE DEF p
  <1> QED
    BY <1>1, <1>2, <1>3, RingInsert

\* list_remove takes one node out of what can be reached.
LEMMA RingRemove ==
  ASSUME NEW S, NEW lk \in LinkStates(S), Consistent(lk, S),
         NEW n \in S, NEW h \in S, h # n
  PROVE  \A m \in Ring(lk, S, h) \ {n} : m \in Ring(list_remove(lk, n), S, h)
  <1> DEFINE p == lk.prev[n]
             x == lk.next[n]
             r == list_remove(lk, n)
  <1>1. p \in S /\ x \in S /\ lk.next[p] = n
    BY DEF LinkStates, Consistent
  <1>2. \A m \in S : r.next[m] = IF m = n THEN n
                                 ELSE IF m = p THEN x ELSE lk.next[m]
    BY <1>1 DEF list_remove, list_init, LinkStates
  <1> HIDE DEF r
  <1> SUFFICES ASSUME NEW m \in Ring(lk, S, h), m # n,
                      NEW X \in SUBSET S, h \in X, \A y \in X : r.next[y] \in X
               PROVE  m \in X
    BY DEF Ring, r
  <1>3. CASE x \in X
    <2> DEFINE Y == X \cup {n}
    <2>1. Y \in SUBSET S /\ h \in Y /\ \A y \in Y : lk.next[y] \in Y
      BY <1>1, <1>2, <1>3
    <2> QED
      BY <2>1 DEF Ring
  <1>4. CASE x \notin X
    <2> DEFINE Y == X \ {n}
    <2>1. \A y \in Y : y # p /\ lk.next[y] # n
      BY <1>1, <1>2, <1>4 DEF Consistent
    <2>2. Y \in SUBSET S /\ h \in Y /\ \A y \in Y : lk.next[y] \in Y
      BY <1>2, <2>1
    <2> QED
      BY <2>2 DEF Ring
  <1> QED
    BY <1>3, <1>4

-----------------------------------------------------------------------------
(***************************************************************************)
(* Lists as sequences.                                                      *)
(***************************************************************************)

\* Item i of the list w with head h, which is in front of the first item and
\* behind the last one.
Nth(w, h, i) == IF i \in 1 .. Len(w) THEN w[i] ELSE h

\* The nodes behind h are those of w, in this order.
Chain(lk, S, h, w) ==
  /\ w \in Seq(S)
  /\ \A i \in 1 .. Len(w) : w[i] # h
  /\ \A i, j \in 1 .. Len(w) : w[i] = w[j] => i = j
  /\ \A i \in 0 .. Len(w) : lk.next[Nth(w, h, i)] = Nth(w, h, i + 1)

\* What the numbering has to do with the sequence: the numbers from 0 to the
\* length stand for different nodes.
Numbered(S, h, w) ==
  /\ Len(w) \in Nat
  /\ \A i \in Int : Nth(w, h, i) \in S
  /\ \A i, j \in 0 .. Len(w) : Nth(w, h, i) = Nth(w, h, j) => i = j
  /\ \A i \in 1 .. Len(w) : Nth(w, h, i) = w[i]
  /\ Nth(w, h, 0) = h /\ Nth(w, h, Len(w) + 1) = h

LEMMA NthNodes ==
  ASSUME NEW S, NEW lk, NEW h \in S, NEW w, Chain(lk, S, h, w)
  PROVE  Numbered(S, h, w)
  <1>1. Len(w) \in Nat /\ \A i \in 1 .. Len(w) : w[i] \in S
    BY LenProperties, ElementOfSeq DEF Chain
  <1>2. \A i \in Int : Nth(w, h, i) \in S
    BY <1>1 DEF Nth
  <1>3. \A i, j \in 0 .. Len(w) : Nth(w, h, i) = Nth(w, h, j) => i = j
    <2> TAKE i, j \in 0 .. Len(w)
    <2>1. i \in 1 .. Len(w) \/ i = 0
      BY <1>1
    <2>2. j \in 1 .. Len(w) \/ j = 0
      BY <1>1
    <2>3. 0 \notin 1 .. Len(w)
      BY <1>1
    <2> QED
      BY <2>1, <2>2, <2>3 DEF Nth, Chain
  <1>4. 0 \notin 1 .. Len(w) /\ Len(w) + 1 \notin 1 .. Len(w)
    BY <1>1
  <1> QED
    BY <1>1, <1>2, <1>3, <1>4 DEF Nth, Numbered

\* A list is not longer than there are nodes besides its head.
LEMMA ChainLength ==
  ASSUME NEW S, IsFiniteSet(S), NEW lk, NEW h \in S, NEW w, Chain(lk, S, h, w)
  PROVE  Cardinality(S) \in Nat /\ Len(w) + 1 <= Cardinality(S)
  <1> DEFINE n == Len(w)
             f == [i \in 0 .. n |-> Nth(w, h, i)]
  <1>0. Numbered(S, h, w)
    BY NthNodes
  <1>1. n \in Nat /\ f \in [0 .. n -> S] /\ Cardinality(S) \in Nat
    BY <1>0, FS_CardinalityType DEF Numbered
  <1>2. IsFiniteSet(0 .. n) /\ Cardinality(0 .. n) = n + 1
    BY <1>1, FS_Interval
  <1>3. \A i, j \in 0 .. n : f[i] = f[j] => i = j
    BY <1>0 DEF Numbered
  <1> HIDE DEF f, n
  <1>4. ~(Cardinality(S) < Cardinality(0 .. n))
    BY <1>1, <1>2, <1>3, FS_PigeonHole
  <1> QED
    BY <1>1, <1>2, <1>4 DEF n

\* What list_foreach visits is the sequence of nodes behind the head.
LEMMA WalkIsChain ==
  ASSUME NEW S, IsFiniteSet(S), NEW lk \in LinkStates(S), NEW h \in S,
         NEW w, Chain(lk, S, h, w)
  PROVE  Walk(lk, S, h) = w /\ WalkLength(lk, S, h) = Len(w)
  <1> DEFINE N == Cardinality(S)
             n == Len(w)
             at == NodeAt(lk, S, h)
             back == {i \in 1 .. N : at[i] = h}
             B == {i \in 0 .. n + 1 : at[i] # Nth(w, h, i)}
  <1>0. Numbered(S, h, w)
    BY NthNodes
  <1>1. N \in Nat /\ n \in Nat /\ n + 1 <= N
    BY <1>0, ChainLength DEF Numbered
  <1>2. /\ at \in [0 .. N -> S] /\ at[0] = h
        /\ \A i \in 1 .. N : at[i] = lk.next[at[i - 1]]
    BY <1>1, NodeAtStep
  <1>3. \A i \in 0 .. n : lk.next[Nth(w, h, i)] = Nth(w, h, i + 1)
    BY DEF Chain
  <1>4. Nth(w, h, 0) = h /\ Nth(w, h, n + 1) = h
        /\ \A i \in 1 .. n : Nth(w, h, i) = w[i] /\ w[i] # h
    <2>1. Nth(w, h, 0) = h /\ Nth(w, h, n + 1) = h /\ \A i \in 1 .. n : Nth(w, h, i) = w[i]
      BY <1>0 DEF Numbered
    <2>2. \A i \in 1 .. n : w[i] # h
      BY DEF Chain
    <2> QED
      BY <2>1, <2>2
  <1>13. WalkLength(lk, S, h) = IF back = {} THEN N
                                ELSE (CHOOSE i \in back : \A j \in back : i <= j) - 1
    BY DEF WalkLength
  <1> HIDE DEF at, N, n
  <1>5. \A i \in 0 .. n + 1 : at[i] = Nth(w, h, i)
    <2> SUFFICES ASSUME B # {} PROVE FALSE
      OBVIOUS
    <2>1. PICK i \in B : \A j \in B : i <= j
      <3>1. B \in SUBSET Nat
        BY <1>1
      <3> HIDE DEF B
      <3> QED
        BY <3>1, Least
    <2>2. i # 0 /\ i \in 1 .. N /\ i - 1 \in 0 .. n /\ i - 1 \notin B
      BY <1>1, <1>2, <1>4, <2>1
    <2>3. at[i - 1] = Nth(w, h, i - 1)
      BY <1>1, <2>2
    <2>4. (i - 1) + 1 = i
      BY <1>1, <2>1
    <2> QED
      BY <1>2, <1>3, <2>1, <2>2, <2>3, <2>4
  <1>6. n + 1 \in back /\ \A i \in back : n + 1 <= i
    <2>1. n + 1 \in back
      BY <1>1, <1>4, <1>5
    <2>2. ASSUME NEW i \in back, ~(n + 1 <= i)
          PROVE  FALSE
      BY <1>1, <1>4, <1>5, <2>2
    <2> QED
      BY <2>1, <2>2
  <1>7. back # {} /\ \A i \in back : i \in Nat
    BY <1>1, <1>6
  <1>8. (CHOOSE i \in back : \A j \in back : i <= j) = n + 1
    <2> HIDE DEF back
    <2>1. \A i \in back : (\A j \in back : i <= j) => i = n + 1
      BY <1>1, <1>6, <1>7
    <2> QED
      BY <1>6, <2>1
  <1>9. WalkLength(lk, S, h) = n
    <2>1. WalkLength(lk, S, h) = (CHOOSE i \in back : \A j \in back : i <= j) - 1
      BY <1>7, <1>13, Zenon
    <2>2. WalkLength(lk, S, h) = (n + 1) - 1
      BY <1>8, <2>1, Zenon
    <2> QED
      BY <1>1, <2>2
  <1>10. Walk(lk, S, h) = [i \in 1 .. n |-> at[i]]
    BY <1>9 DEF Walk, at
  <1>11. w = [i \in 1 .. n |-> w[i]]
    BY LenProperties DEF Chain, n
  <1>12. \A i \in 1 .. n : at[i] = w[i]
    BY <1>1, <1>4, <1>5
  <1> QED
    BY <1>9, <1>10, <1>11, <1>12 DEF n

\* On intact rings every walk is such a sequence.
LEMMA WalkChain ==
  ASSUME NEW S, IsFiniteSet(S), NEW lk \in LinkStates(S), Consistent(lk, S),
         NEW h \in S
  PROVE  Chain(lk, S, h, Walk(lk, S, h))
  <1> DEFINE N == Cardinality(S)
             at == NodeAt(lk, S, h)
             back == {i \in 1 .. N : at[i] = h}
             k == CHOOSE i \in back : \A j \in back : i <= j
             w == Walk(lk, S, h)
             n == k - 1
  <1>1. N \in Nat
    BY FS_CardinalityType
  <1>2. /\ at \in [0 .. N -> S] /\ at[0] = h
        /\ \A i \in 1 .. N : at[i] = lk.next[at[i - 1]]
    BY <1>1, NodeAtStep
  <1>3. back # {} /\ back \in SUBSET Nat
    BY <1>1, WalkReturns
  <1>4. k \in back /\ \A j \in back : k <= j
    <2> HIDE DEF back
    <2>1. \E i \in back : \A j \in back : i <= j
      BY <1>3, Least
    <2> QED
      BY <2>1
  <1>5. WalkLength(lk, S, h) = n
    BY <1>3 DEF WalkLength
  <1> HIDE DEF k, at, N
  <1>6. /\ k \in 1 .. N /\ at[k] = h /\ n \in Nat
        /\ \A i \in 1 .. n : i \in 1 .. N /\ at[i] # h /\ at[i] \in S
    BY <1>1, <1>2, <1>4
  <1>7. w = [i \in 1 .. n |-> at[i]]
    BY <1>5 DEF Walk, at
  <1> HIDE DEF w, n
  <1>8. w \in Seq(S) /\ Len(w) = n
    <2>1. w \in [1 .. n -> S]
      BY <1>6, <1>7
    <2>2. w \in Seq(S)
      BY <1>6, <2>1, SeqDef
    <2>3. 1 .. Len(w) = 1 .. n /\ Len(w) \in Nat
      BY <2>1, <2>2, LenProperties
    <2> QED
      BY <1>6, <2>2, <2>3
  <1>9. \A i \in 0 .. k : Nth(w, h, i) = at[i]
    <2> TAKE i \in 0 .. k
    <2>1. CASE i \in 1 .. n
      BY <1>7, <1>8, <2>1 DEF Nth
    <2>2. CASE i \notin 1 .. n
      <3>1. i = 0 \/ i = k
        BY <1>1, <1>6, <2>2 DEF n
      <3> QED
        BY <1>2, <1>6, <1>8, <2>2, <3>1 DEF Nth
    <2> QED
      BY <2>1, <2>2
  <1>10. \A i \in 1 .. n : w[i] # h
    BY <1>6, <1>7
  <1>11. \A i \in 0 .. n : lk.next[Nth(w, h, i)] = Nth(w, h, i + 1)
    <2> TAKE i \in 0 .. n
    <2>1. i \in 0 .. k /\ i + 1 \in 0 .. k /\ i + 1 \in 1 .. N /\ (i + 1) - 1 = i
      BY <1>1, <1>6 DEF n
    <2> QED
      BY <1>2, <1>9, <2>1
  <1>12. \A i, j \in 1 .. n : w[i] = w[j] => i = j
    <2> DEFINE D == {i \in 1 .. n : \E j \in 1 .. n : i < j /\ at[i] = at[j]}
    <2>1. D = {}
      <3> SUFFICES ASSUME D # {} PROVE FALSE
        OBVIOUS
      <3>1. PICK i \in D : \A d \in D : i <= d
        <4>1. D \in SUBSET Nat
          BY <1>6
        <4> HIDE DEF D
        <4> QED
          BY <4>1, Least
      <3>2. PICK j \in 1 .. n : i < j /\ at[i] = at[j]
        BY <3>1
      <3>3. /\ i \in 1 .. N /\ j \in 1 .. N /\ i - 1 \in 0 .. N /\ j - 1 \in 0 .. N
            /\ j - 1 \in 1 .. n
        BY <1>1, <1>6, <3>1, <3>2
      <3>4. at[i] = lk.next[at[i - 1]] /\ at[j] = lk.next[at[j - 1]]
        BY <1>2, <3>3
      <3>5. at[i - 1] = lk.prev[at[i]] /\ at[j - 1] = lk.prev[at[j]]
        BY <1>2, <3>3, <3>4 DEF Consistent
      <3>6. at[i - 1] = at[j - 1]
        BY <3>2, <3>5
      <3>7. CASE i = 1
        BY <1>2, <1>6, <3>3, <3>6, <3>7
      <3>8. CASE i # 1
        <4>1. i - 1 \in D
          BY <1>6, <3>1, <3>2, <3>3, <3>6, <3>8
        <4> QED
          BY <1>6, <3>1, <4>1
      <3> QED
        BY <3>7, <3>8
    <2>2. ASSUME NEW i \in 1 .. n, NEW j \in 1 .. n, w[i] = w[j], i # j
          PROVE  FALSE
      <3>1. at[i] = at[j]
        BY <1>7, <2>2
      <3>2. i < j \/ j < i
        BY <1>6, <2>2
      <3> QED
        BY <2>1, <3>1, <3>2
    <2> QED
      BY <2>2
  <1> QED
    BY <1>8, <1>10, <1>11, <1>12 DEF Chain, w

Elems(w) == {w[i] : i \in 1 .. Len(w)}

\* v is w with x behind item k, or without item k.
Inserted(S, w, k, x, v) ==
  /\ v \in Seq(S) /\ Len(v) = Len(w) + 1
  /\ \A i \in 1 .. Len(v) : v[i] = IF i <= k THEN w[i]
                                   ELSE IF i = k + 1 THEN x ELSE w[i - 1]

Removed(S, w, k, v) ==
  /\ v \in Seq(S) /\ Len(v) = Len(w) - 1
  /\ \A i \in 1 .. Len(v) : v[i] = IF i < k THEN w[i] ELSE w[i + 1]

LEMMA InsertedSeq ==
  ASSUME NEW S, NEW w \in Seq(S), NEW k \in 0 .. Len(w), NEW x \in S
  PROVE  Inserted(S, w, k, x, SubSeq(w, 1, k) \o <<x>> \o SubSeq(w, k + 1, Len(w)))
  <1> DEFINE n == Len(w)
             a == SubSeq(w, 1, k)
             b == SubSeq(w, k + 1, n)
             o == <<x>>
  <1>1. n \in Nat /\ k \in Nat /\ k <= n /\ \A i \in 1 .. n : w[i] \in S
    BY LenProperties, ElementOfSeq
  <1>2. a \in Seq(S) /\ Len(a) = k /\ \A i \in 1 .. k : a[i] = w[i]
    <2>1. \A i \in 1 .. k : w[i] \in S
      BY <1>1
    <2>2. /\ a \in Seq(S) /\ Len(a) = IF 1 <= k THEN (k - 1) + 1 ELSE 0
          /\ \A i \in 1 .. (k - 1) + 1 : a[i] = w[1 + i - 1]
      BY <1>1, <2>1, SubSeqProperties
    <2> QED
      BY <1>1, <2>2
  <1>3. b \in Seq(S) /\ Len(b) = n - k /\ \A i \in 1 .. n - k : b[i] = w[k + i]
    <2>1. \A i \in k + 1 .. n : w[i] \in S
      BY <1>1
    <2>2. k + 1 \in Int /\ n \in Int
      BY <1>1
    <2>3. /\ b \in Seq(S) /\ Len(b) = IF k + 1 <= n THEN n - (k + 1) + 1 ELSE 0
          /\ \A i \in 1 .. n - (k + 1) + 1 : b[i] = w[(k + 1) + i - 1]
      <3> HIDE DEF n
      <3> QED
        BY <2>1, <2>2, SubSeqProperties
    <2> HIDE DEF b, n
    <2> QED
      BY <1>1, <2>3
  <1>4. o \in Seq(S) /\ Len(o) = 1 /\ o[1] = x
    OBVIOUS
  <1> HIDE DEF a, b, o, n
  <1>5. /\ a \o o \in Seq(S) /\ Len(a \o o) = k + 1
        /\ \A i \in 1 .. k + 1 : (a \o o)[i] = IF i <= k THEN w[i] ELSE x
    <2>1. /\ a \o o \in Seq(S) /\ Len(a \o o) = k + 1
          /\ \A i \in 1 .. k + 1 : (a \o o)[i] = IF i <= k THEN a[i] ELSE o[i - k]
      BY <1>2, <1>4, ConcatProperties
    <2>2. \A i \in 1 .. k + 1 : ~(i <= k) => i - k = 1
      BY <1>1
    <2>3. \A i \in 1 .. k + 1 : i <= k => i \in 1 .. k
      BY <1>1
    <2> QED
      BY <1>2, <1>4, <2>1, <2>2, <2>3
  <1> DEFINE c == a \o o
             v == c \o b
  <1> HIDE DEF c
  <1>6. /\ v \in Seq(S) /\ Len(v) = (k + 1) + (n - k)
        /\ \A i \in 1 .. (k + 1) + (n - k) : v[i] = IF i <= k + 1 THEN c[i] ELSE b[i - (k + 1)]
    <2>1. c \in Seq(S) /\ b \in Seq(S) /\ Len(c) = k + 1 /\ Len(b) = n - k
      BY <1>3, <1>5 DEF c
    <2>2. /\ v \in Seq(S) /\ Len(v) = Len(c) + Len(b)
          /\ \A i \in 1 .. Len(c) + Len(b) : v[i] = IF i <= Len(c) THEN c[i] ELSE b[i - Len(c)]
      BY <2>1, ConcatProperties
    <2> HIDE DEF v
    <2> QED
      BY <2>1, <2>2
  <1> HIDE DEF v
  <1>7. (k + 1) + (n - k) = n + 1
    BY <1>1
  <1>8. ASSUME NEW i \in 1 .. n + 1
        PROVE  v[i] = IF i <= k THEN w[i] ELSE IF i = k + 1 THEN x ELSE w[i - 1]
    <2>1. v[i] = IF i <= k + 1 THEN c[i] ELSE b[i - (k + 1)]
      BY <1>6, <1>7
    <2>2. CASE i <= k
      BY <1>1, <1>5, <2>1, <2>2 DEF c
    <2>3. CASE i = k + 1
      BY <1>1, <1>5, <2>1, <2>3 DEF c
    <2>4. CASE ~(i <= k) /\ i # k + 1
      <3>1. i - (k + 1) \in 1 .. n - k /\ k + (i - (k + 1)) = i - 1 /\ ~(i <= k + 1)
        BY <1>1, <2>4
      <3> QED
        BY <1>3, <2>1, <2>4, <3>1
    <2> QED
      BY <2>2, <2>3, <2>4
  <1>9. Inserted(S, w, k, x, v)
    BY <1>6, <1>7, <1>8 DEF Inserted, n
  <1> QED
    BY <1>9 DEF v, c, a, b, o, n

LEMMA RemovedSeq ==
  ASSUME NEW S, NEW w \in Seq(S), NEW k \in 1 .. Len(w)
  PROVE  Removed(S, w, k, SubSeq(w, 1, k - 1) \o SubSeq(w, k + 1, Len(w)))
  <1> DEFINE n == Len(w)
             a == SubSeq(w, 1, k - 1)
             b == SubSeq(w, k + 1, n)
  <1>1. n \in Nat /\ k \in Nat /\ 1 <= k /\ k <= n /\ \A i \in 1 .. n : w[i] \in S
    BY LenProperties, ElementOfSeq
  <1>2. a \in Seq(S) /\ Len(a) = k - 1 /\ \A i \in 1 .. k - 1 : a[i] = w[i]
    <2>1. (\A i \in 1 .. k - 1 : w[i] \in S) /\ k - 1 \in Int
      BY <1>1
    <2>2. /\ a \in Seq(S) /\ Len(a) = IF 1 <= k - 1 THEN (k - 1 - 1) + 1 ELSE 0
          /\ \A i \in 1 .. (k - 1 - 1) + 1 : a[i] = w[1 + i - 1]
      BY <1>1, <2>1, SubSeqProperties
    <2> QED
      BY <1>1, <2>2
  <1>3. b \in Seq(S) /\ Len(b) = n - k /\ \A i \in 1 .. n - k : b[i] = w[k + i]
    <2>1. \A i \in k + 1 .. n : w[i] \in S
      BY <1>1
    <2>2. k + 1 \in Int /\ n \in Int
      BY <1>1
    <2>3. /\ b \in Seq(S) /\ Len(b) = IF k + 1 <= n THEN n - (k + 1) + 1 ELSE 0
          /\ \A i \in 1 .. n - (k + 1) + 1 : b[i] = w[(k + 1) + i - 1]
      <3> HIDE DEF n
      <3> QED
        BY <2>1, <2>2, SubSeqProperties
    <2> HIDE DEF b, n
    <2> QED
      BY <1>1, <2>3
  <1> HIDE DEF a, b, n
  <1> DEFINE v == a \o b
  <1>4. /\ v \in Seq(S) /\ Len(v) = (k - 1) + (n - k)
        /\ \A i \in 1 .. (k - 1) + (n - k) : v[i] = IF i <= k - 1 THEN a[i] ELSE b[i - (k - 1)]
    <2>1. a \in Seq(S) /\ b \in Seq(S) /\ Len(a) = k - 1 /\ Len(b) = n - k
      BY <1>2, <1>3
    <2>2. /\ v \in Seq(S) /\ Len(v) = Len(a) + Len(b)
          /\ \A i \in 1 .. Len(a) + Len(b) : v[i] = IF i <= Len(a) THEN a[i] ELSE b[i - Len(a)]
      BY <2>1, ConcatProperties
    <2> HIDE DEF v
    <2> QED
      BY <2>1, <2>2
  <1> HIDE DEF v
  <1>5. (k - 1) + (n - k) = n - 1
    BY <1>1
  <1>6. ASSUME NEW i \in 1 .. n - 1
        PROVE  v[i] = IF i < k THEN w[i] ELSE w[i + 1]
    <2>1. v[i] = IF i <= k - 1 THEN a[i] ELSE b[i - (k - 1)]
      BY <1>4, <1>5
    <2>2. CASE i < k
      <3>1. i <= k - 1 /\ i \in 1 .. k - 1
        BY <1>1, <2>2
      <3> QED
        BY <1>2, <2>1, <2>2, <3>1
    <2>3. CASE ~(i < k)
      <3>1. ~(i <= k - 1) /\ i - (k - 1) \in 1 .. n - k /\ k + (i - (k - 1)) = i + 1
        BY <1>1, <2>3
      <3> QED
        BY <1>3, <2>1, <2>3, <3>1
    <2> QED
      BY <2>2, <2>3
  <1>7. Removed(S, w, k, v)
    BY <1>4, <1>5, <1>6 DEF Removed, n
  <1> QED
    BY <1>7 DEF v, a, b, n

\* list_fifo_put and list_fifo_get work at the ends.
LEMMA EndsOfSeq ==
  ASSUME NEW S, NEW w \in Seq(S)
  PROVE  /\ \A x \in S : Inserted(S, w, Len(w), x, Append(w, x))
         /\ w # <<>> => Removed(S, w, 1, Tail(w))
  <1>1. Len(w) \in Nat
    BY LenProperties
  <1>2. ASSUME NEW x \in S
        PROVE  Inserted(S, w, Len(w), x, Append(w, x))
    <2>1. /\ Append(w, x) \in Seq(S) /\ Len(Append(w, x)) = Len(w) + 1
          /\ \A i \in 1 .. Len(w) : Append(w, x)[i] = w[i]
          /\ Append(w, x)[Len(w) + 1] = x
      BY AppendProperties
    <2>2. \A i \in 1 .. Len(w) + 1 : (i <= Len(w) /\ i \in 1 .. Len(w)) \/ (i = Len(w) + 1 /\ ~(i <= Len(w)))
      BY <1>1
    <2> QED
      BY <1>1, <2>1, <2>2 DEF Inserted
  <1>3. ASSUME w # <<>>
        PROVE  Removed(S, w, 1, Tail(w))
    <2>1. /\ Tail(w) \in Seq(S) /\ Len(Tail(w)) = Len(w) - 1
          /\ \A i \in 1 .. Len(Tail(w)) : Tail(w)[i] = w[i + 1]
      BY <1>3, HeadTailProperties
    <2>2. \A i \in 1 .. Len(w) - 1 : ~(i < 1)
      BY <1>1
    <2> QED
      BY <2>1, <2>2 DEF Removed
  <1> QED
    BY <1>2, <1>3

LEMMA InsertedElems ==
  ASSUME NEW S, NEW w \in Seq(S), NEW k \in 0 .. Len(w), NEW x, NEW v,
         Inserted(S, w, k, x, v)
  PROVE  Elems(v) = Elems(w) \cup {x}
  <1>1. Len(w) \in Nat /\ k \in Nat /\ k <= Len(w)
    BY LenProperties
  <1>2. ASSUME NEW y \in Elems(v)
        PROVE  y \in Elems(w) \cup {x}
    <2>1. PICK i \in 1 .. Len(w) + 1 : y = v[i]
      BY <1>2 DEF Elems, Inserted
    <2>2. y = IF i <= k THEN w[i] ELSE IF i = k + 1 THEN x ELSE w[i - 1]
      BY <2>1 DEF Inserted
    <2>3. i <= k => i \in 1 .. Len(w)
      BY <1>1
    <2>4. ~(i <= k) /\ i # k + 1 => i - 1 \in 1 .. Len(w)
      BY <1>1
    <2> QED
      BY <2>2, <2>3, <2>4 DEF Elems
  <1>3. x \in Elems(v)
    <2>1. k + 1 \in 1 .. Len(w) + 1 /\ ~(k + 1 <= k)
      BY <1>1
    <2>2. v[k + 1] = x /\ k + 1 \in 1 .. Len(v)
      BY <2>1 DEF Inserted
    <2> QED
      BY <2>2 DEF Elems
  <1>4. ASSUME NEW j \in 1 .. Len(w)
        PROVE  w[j] \in Elems(v)
    <2>1. CASE j <= k
      <3>1. j \in 1 .. Len(w) + 1
        BY <1>1
      <3>2. j \in 1 .. Len(v) /\ v[j] = w[j]
        BY <2>1, <3>1 DEF Inserted
      <3> QED
        BY <3>2 DEF Elems
    <2>2. CASE ~(j <= k)
      <3>1. j + 1 \in 1 .. Len(w) + 1 /\ ~(j + 1 <= k) /\ j + 1 # k + 1 /\ (j + 1) - 1 = j
        BY <1>1, <2>2
      <3>2. j + 1 \in 1 .. Len(v) /\ v[j + 1] = w[j]
        BY <3>1 DEF Inserted
      <3> QED
        BY <3>2 DEF Elems
    <2> QED
      BY <2>1, <2>2
  <1>5. \A y \in Elems(w) : y \in Elems(v)
    BY <1>4 DEF Elems
  <1> QED
    BY <1>2, <1>3, <1>5

LEMMA RemovedElems ==
  ASSUME NEW S, NEW w \in Seq(S), NEW k \in 1 .. Len(w), NEW v,
         Removed(S, w, k, v), \A i, j \in 1 .. Len(w) : w[i] = w[j] => i = j
  PROVE  Elems(v) = Elems(w) \ {w[k]}
  <1>1. Len(w) \in Nat /\ k \in Nat /\ 1 <= k /\ k <= Len(w)
    BY LenProperties
  <1>2. ASSUME NEW y \in Elems(v)
        PROVE  y \in Elems(w) \ {w[k]}
    <2>1. PICK i \in 1 .. Len(w) - 1 : y = v[i]
      BY <1>2 DEF Elems, Removed
    <2>2. y = IF i < k THEN w[i] ELSE w[i + 1]
      BY <2>1 DEF Removed
    <2>3. CASE i < k
      <3>1. i \in 1 .. Len(w) /\ i # k
        BY <1>1, <2>3
      <3> QED
        BY <2>2, <2>3, <3>1 DEF Elems
    <2>4. CASE ~(i < k)
      <3>1. i + 1 \in 1 .. Len(w) /\ i + 1 # k
        BY <1>1, <2>4
      <3> QED
        BY <2>2, <2>4, <3>1 DEF Elems
    <2> QED
      BY <2>3, <2>4
  <1>3. ASSUME NEW y \in Elems(w), y # w[k]
        PROVE  y \in Elems(v)
    <2>1. PICK j \in 1 .. Len(w) : y = w[j]
      BY <1>3 DEF Elems
    <2>2. j # k
      BY <1>3, <2>1
    <2>3. CASE j < k
      <3>1. j \in 1 .. Len(w) - 1
        BY <1>1, <2>3
      <3>2. j \in 1 .. Len(v) /\ v[j] = w[j]
        BY <2>3, <3>1 DEF Removed
      <3> QED
        BY <2>1, <3>2 DEF Elems
    <2>4. CASE ~(j < k)
      <3>1. j - 1 \in 1 .. Len(w) - 1 /\ ~(j - 1 < k) /\ (j - 1) + 1 = j
        BY <1>1, <2>2, <2>4
      <3>2. j - 1 \in 1 .. Len(v) /\ v[j - 1] = w[j]
        BY <3>1 DEF Removed
      <3> QED
        BY <2>1, <3>2 DEF Elems
    <2> QED
      BY <2>3, <2>4
  <1> QED
    BY <1>2, <1>3

\* Only the next fields of the head and the items matter.
LEMMA ChainKept ==
  ASSUME NEW S, NEW lk, NEW r, NEW h, NEW w, Chain(lk, S, h, w),
         r.next[h] = lk.next[h],
         \A i \in 1 .. Len(w) : r.next[w[i]] = lk.next[w[i]]
  PROVE  Chain(r, S, h, w)
  <1>1. \A i \in 0 .. Len(w) : r.next[Nth(w, h, i)] = lk.next[Nth(w, h, i)]
    BY DEF Nth
  <1> QED
    BY <1>1 DEF Chain

\* The items of a list are linked, and prev leads back from them.
LEMMA ChainLinked ==
  ASSUME NEW S, NEW lk, NEW h \in S, NEW w, Chain(lk, S, h, w)
  PROVE  \A i \in 1 .. Len(w) : ~Detached(lk, w[i])
  <1> TAKE i \in 1 .. Len(w)
  <1>0. Numbered(S, h, w)
    BY NthNodes
  <1>1. Len(w) \in Nat /\ Nth(w, h, i) = w[i]
    BY <1>0 DEF Numbered
  <1>2. lk.next[w[i]] = Nth(w, h, i + 1)
    <2>1. i \in 0 .. Len(w)
      BY <1>1
    <2> QED
      BY <1>1, <2>1 DEF Chain
  <1>3. CASE i + 1 \in 1 .. Len(w)
    <2>1. i + 1 # i
      BY <1>1
    <2>2. w[i + 1] # w[i]
      BY <1>3, <2>1 DEF Chain
    <2> QED
      BY <1>2, <1>3, <2>2 DEF Nth, Detached
  <1>4. CASE i + 1 \notin 1 .. Len(w)
    BY <1>2, <1>4 DEF Nth, Chain, Detached
  <1> QED
    BY <1>3, <1>4

LEMMA ChainBack ==
  ASSUME NEW S, NEW lk \in LinkStates(S), Consistent(lk, S), NEW h \in S,
         NEW w, Chain(lk, S, h, w)
  PROVE  /\ \A i \in 0 .. Len(w) : lk.prev[Nth(w, h, i + 1)] = Nth(w, h, i)
         /\ lk.prev[h] = Nth(w, h, Len(w))
  <1>0. Numbered(S, h, w)
    BY NthNodes
  <1>1. /\ Len(w) \in Nat /\ Nth(w, h, Len(w) + 1) = h
        /\ \A i \in Int : Nth(w, h, i) \in S
    BY <1>0 DEF Numbered
  <1>2. ASSUME NEW i \in 0 .. Len(w)
        PROVE  lk.prev[Nth(w, h, i + 1)] = Nth(w, h, i)
    <2>1. Nth(w, h, i) \in S /\ lk.next[Nth(w, h, i)] = Nth(w, h, i + 1)
      BY <1>1 DEF Chain
    <2> QED
      BY <2>1 DEF Consistent
  <1>3. Len(w) \in 0 .. Len(w)
    BY <1>1
  <1> QED
    BY <1>1, <1>2, <1>3

\* The items of a list belong where its head belongs.
LEMMA ChainHome ==
  ASSUME NEW S, NEW lk, NEW h \in S, NEW w, Chain(lk, S, h, w),
         NEW c, Respects(lk, S, c)
  PROVE  \A i \in 1 .. Len(w) : c[w[i]] = c[h]
  <1> DEFINE B == {i \in 0 .. Len(w) : c[Nth(w, h, i)] # c[h]}
  <1>0. Numbered(S, h, w)
    BY NthNodes
  <1>1. /\ Len(w) \in Nat /\ Nth(w, h, 0) = h /\ \A i \in Int : Nth(w, h, i) \in S
        /\ \A i \in 1 .. Len(w) : Nth(w, h, i) = w[i]
    BY <1>0 DEF Numbered
  <1>2. B = {}
    <2> SUFFICES ASSUME B # {} PROVE FALSE
      OBVIOUS
    <2>1. PICK i \in B : \A j \in B : i <= j
      <3>1. B \in SUBSET Nat
        BY <1>1
      <3> HIDE DEF B
      <3> QED
        BY <3>1, Least
    <2>2. i # 0 /\ i - 1 \in 0 .. Len(w) /\ i - 1 \notin B /\ (i - 1) + 1 = i
      BY <1>1, <2>1
    <2>3. c[Nth(w, h, i - 1)] = c[h]
      BY <2>2
    <2>4. lk.next[Nth(w, h, i - 1)] = Nth(w, h, i) /\ Nth(w, h, i - 1) \in S
      BY <1>1, <2>2 DEF Chain
    <2>5. c[Nth(w, h, i)] = c[Nth(w, h, i - 1)]
      BY <2>4 DEF Respects
    <2> QED
      BY <2>1, <2>3, <2>5
  <1> TAKE i \in 1 .. Len(w)
  <1>3. i \in 0 .. Len(w) /\ Nth(w, h, i) = w[i]
    BY <1>1
  <1> QED
    BY <1>2, <1>3

\* list_insert behind item k of a list, or its head, makes the node item k + 1.
LEMMA ChainInsert ==
  ASSUME NEW S, NEW lk \in LinkStates(S), Consistent(lk, S), NEW h \in S,
         NEW w, Chain(lk, S, h, w),
         NEW x \in S, Detached(lk, x), x # h, NEW k \in 0 .. Len(w),
         NEW v, Inserted(S, w, k, x, v)
  PROVE  /\ Chain(list_insert(lk, x, Nth(w, h, k), lk.next[Nth(w, h, k)]), S, h, v)
         /\ \A i \in 1 .. Len(w) : w[i] # x
         /\ Nth(w, h, k) # x
  <1> DEFINE n == Len(w)
             p == Nth(w, h, k)
             r == list_insert(lk, x, p, lk.next[p])
  <1> USE DEF Inserted
  <1>0. Numbered(S, h, w)
    BY NthNodes
  <1>1. /\ n \in Nat /\ \A i \in Int : Nth(w, h, i) \in S
        /\ \A i \in 1 .. n : Nth(w, h, i) = w[i]
        /\ Nth(w, h, 0) = h /\ Nth(w, h, n + 1) = h
    BY <1>0 DEF Numbered
  <1>2. \A i, j \in 0 .. n : Nth(w, h, i) = Nth(w, h, j) => i = j
    BY <1>0 DEF Numbered
  <1>3. \A i \in 1 .. n : w[i] # x
    BY ChainLinked
  <1>4. \A i \in 0 .. n : Nth(w, h, i) # x
    BY <1>3 DEF Nth
  <1>5. p \in S /\ p # x /\ lk.next[p] \in S /\ lk.next[p] # x
    <2>1. p \in S /\ p # x
      BY <1>1, <1>4
    <2>2. lk.prev[x] = x
      BY DetachedBothWays DEF Detached
    <2> QED
      BY <2>1, <2>2 DEF LinkStates, Consistent
  <1>6. \A m \in S : r.next[m] = IF m = p THEN x
                                 ELSE IF m = x THEN lk.next[p] ELSE lk.next[m]
    BY <1>5, InsertFields
  <1>7. \A i \in 0 .. n : lk.next[Nth(w, h, i)] = Nth(w, h, i + 1)
    BY DEF Chain
  <1> HIDE DEF r, p, n
  <1>8. \A i \in 0 .. n + 2 : Nth(v, h, i) = IF i <= k THEN Nth(w, h, i)
                                             ELSE IF i = k + 1 THEN x ELSE Nth(w, h, i - 1)
    <2> TAKE i \in 0 .. n + 2
    <2>1. k \in Nat /\ k <= n /\ i \in Nat
      BY <1>1 DEF n
    <2>2. CASE i = 0
      <3>1. 0 \notin 1 .. Len(v) /\ 0 <= k
        BY <1>1, <2>1 DEF n
      <3> QED
        BY <1>1, <2>2, <3>1 DEF Nth
    <2>3. CASE i = n + 2
      <3>1. n + 2 \notin 1 .. Len(v) /\ ~(n + 2 <= k) /\ n + 2 # k + 1 /\ (n + 2) - 1 = n + 1
        BY <1>1, <2>1 DEF n
      <3> QED
        BY <1>1, <2>3, <3>1 DEF Nth
    <2>4. CASE i \in 1 .. n + 1
      <3>1. i \in 1 .. Len(v) /\ Nth(v, h, i) = v[i]
        BY <2>4 DEF Nth, n
      <3>2. CASE i <= k
        <4>1. i \in 1 .. n
          BY <1>1, <2>1, <2>4, <3>2
        <4> QED
          BY <1>1, <3>1, <3>2, <4>1
      <3>3. CASE i = k + 1
        BY <2>1, <3>1, <3>3
      <3>4. CASE ~(i <= k) /\ i # k + 1
        <4>1. i - 1 \in 1 .. n
          BY <1>1, <2>1, <2>4, <3>4
        <4> QED
          BY <1>1, <3>1, <3>4, <4>1
      <3> QED
        BY <3>2, <3>3, <3>4
    <2> QED
      BY <1>1, <2>1, <2>2, <2>3, <2>4
  <1>9. k \in Nat /\ k <= n
    BY <1>1 DEF n
  <1>10. \A i \in 0 .. n + 1 : r.next[Nth(v, h, i)] = Nth(v, h, i + 1)
    <2> TAKE i \in 0 .. n + 1
    <2>1. i \in 0 .. n + 2 /\ i + 1 \in 0 .. n + 2 /\ i \in Nat
      BY <1>1
    <2>2. CASE i < k
      <3>1. i \in 0 .. n /\ i # k /\ i <= k /\ i + 1 <= k /\ k \in 0 .. n
        BY <1>1, <1>9, <2>1, <2>2
      <3>2. Nth(v, h, i) = Nth(w, h, i) /\ Nth(v, h, i + 1) = Nth(w, h, i + 1)
        BY <1>8, <2>1, <3>1
      <3>3. Nth(w, h, i) # p /\ Nth(w, h, i) # x /\ Nth(w, h, i) \in S
        BY <1>1, <1>2, <1>4, <2>1, <3>1 DEF p
      <3> QED
        BY <1>6, <1>7, <3>1, <3>2, <3>3
    <2>3. CASE i = k
      <3>1. i <= k /\ ~(i + 1 <= k) /\ i + 1 = k + 1
        BY <1>9, <2>3
      <3>2. Nth(v, h, i) = p /\ Nth(v, h, i + 1) = x
        BY <1>8, <2>1, <2>3, <3>1 DEF p
      <3> QED
        BY <1>5, <1>6, <3>2
    <2>4. CASE i = k + 1
      <3>1. ~(i <= k) /\ ~(i + 1 <= k) /\ i + 1 # k + 1 /\ (i + 1) - 1 = k + 1
        BY <1>9, <2>4
      <3>2. Nth(v, h, i) = x /\ Nth(v, h, i + 1) = Nth(w, h, k + 1)
        BY <1>8, <2>1, <2>4, <3>1
      <3>3. lk.next[p] = Nth(w, h, k + 1)
        BY <1>1, <1>7, <1>9 DEF p
      <3> QED
        BY <1>5, <1>6, <3>2, <3>3
    <2>5. CASE i > k + 1
      <3>1. /\ ~(i <= k) /\ i # k + 1 /\ ~(i + 1 <= k) /\ i + 1 # k + 1
            /\ (i + 1) - 1 = i /\ (i - 1) + 1 = i /\ i - 1 \in 0 .. n /\ i - 1 # k /\ k \in 0 .. n
        BY <1>1, <1>9, <2>1, <2>5
      <3>2. Nth(v, h, i) = Nth(w, h, i - 1) /\ Nth(v, h, i + 1) = Nth(w, h, i)
        BY <1>8, <2>1, <3>1
      <3>3. Nth(w, h, i - 1) # p /\ Nth(w, h, i - 1) # x /\ Nth(w, h, i - 1) \in S
        BY <1>1, <1>2, <1>4, <3>1 DEF p
      <3>4. lk.next[Nth(w, h, i - 1)] = Nth(w, h, i)
        BY <1>7, <3>1
      <3> QED
        BY <1>6, <3>2, <3>3, <3>4
    <2> QED
      BY <1>9, <2>1, <2>2, <2>3, <2>4, <2>5
  <1>11. \A i \in 1 .. n : w[i] # h /\ \A j \in 1 .. n : w[i] = w[j] => i = j
    BY DEF Chain, n
  <1>12. \A i \in 1 .. n + 1 : \/ i <= k /\ i \in 1 .. n /\ v[i] = w[i]
                               \/ i = k + 1 /\ v[i] = x
                               \/ i > k + 1 /\ i - 1 \in 1 .. n /\ v[i] = w[i - 1]
    <2> TAKE i \in 1 .. n + 1
    <2>1. v[i] = IF i <= k THEN w[i] ELSE IF i = k + 1 THEN x ELSE w[i - 1]
      BY DEF n
    <2>2. i <= k => i \in 1 .. n
      BY <1>1, <1>9
    <2>3. i > k + 1 => i - 1 \in 1 .. n
      BY <1>1, <1>9
    <2>4. i <= k \/ i = k + 1 \/ (i > k + 1 /\ ~(i <= k) /\ i # k + 1)
      BY <1>1, <1>9
    <2>5. i = k + 1 => ~(i <= k)
      BY <1>9
    <2> QED
      BY <2>1, <2>2, <2>3, <2>4, <2>5
  <1>13. \A i \in 1 .. n + 1 : v[i] # h
    BY <1>11, <1>12
  <1>14. ASSUME NEW i \in 1 .. n + 1, NEW j \in 1 .. n + 1, v[i] = v[j]
         PROVE  i = j
    <2>1. CASE i <= k /\ i \in 1 .. n /\ v[i] = w[i]
      <3>1. CASE j <= k /\ j \in 1 .. n /\ v[j] = w[j]
        BY <1>11, <1>14, <2>1, <3>1
      <3>2. CASE j = k + 1 /\ v[j] = x
        BY <1>3, <1>14, <2>1, <3>2 DEF n
      <3>3. CASE j > k + 1 /\ j - 1 \in 1 .. n /\ v[j] = w[j - 1]
        <4>1. i = j - 1
          BY <1>11, <1>14, <2>1, <3>3
        <4> QED
          BY <1>1, <1>9, <2>1, <3>3, <4>1
      <3> QED
        BY <1>12, <3>1, <3>2, <3>3
    <2>2. CASE i = k + 1 /\ v[i] = x
      <3>1. v[j] = x
        BY <1>14, <2>2
      <3> QED
        BY <1>3, <1>12, <2>2, <3>1 DEF n
    <2>3. CASE i > k + 1 /\ i - 1 \in 1 .. n /\ v[i] = w[i - 1]
      <3>1. CASE j <= k /\ j \in 1 .. n /\ v[j] = w[j]
        <4>1. j = i - 1
          BY <1>11, <1>14, <2>3, <3>1
        <4> QED
          BY <1>1, <1>9, <2>3, <3>1, <4>1
      <3>2. CASE j = k + 1 /\ v[j] = x
        BY <1>3, <1>14, <2>3, <3>2 DEF n
      <3>3. CASE j > k + 1 /\ j - 1 \in 1 .. n /\ v[j] = w[j - 1]
        <4>1. i - 1 = j - 1
          BY <1>11, <1>14, <2>3, <3>3
        <4> QED
          BY <1>1, <4>1
      <3> QED
        BY <1>12, <3>1, <3>2, <3>3
    <2> QED
      BY <1>12, <2>1, <2>2, <2>3
  <1>15. Chain(r, S, h, v)
    <2>1. Len(v) = n + 1
      BY DEF n
    <2> QED
      BY <1>10, <1>13, <1>14, <2>1 DEF Chain
  <1> QED
    BY <1>3, <1>5, <1>15 DEF r, p, n

\* list_remove of item k closes the gap.
LEMMA ChainRemove ==
  ASSUME NEW S, NEW lk \in LinkStates(S), Consistent(lk, S), NEW h \in S,
         NEW w, Chain(lk, S, h, w), NEW k \in 1 .. Len(w),
         NEW v, Removed(S, w, k, v)
  PROVE  Chain(list_remove(lk, w[k]), S, h, v)
  <1> DEFINE n == Len(w)
             x == w[k]
             p == Nth(w, h, k - 1)
             r == list_remove(lk, x)
  <1> USE DEF Removed
  <1>0. Numbered(S, h, w)
    BY NthNodes
  <1>1. /\ n \in Nat /\ \A i \in Int : Nth(w, h, i) \in S
        /\ \A i \in 1 .. n : Nth(w, h, i) = w[i]
        /\ Nth(w, h, 0) = h /\ Nth(w, h, n + 1) = h
    BY <1>0 DEF Numbered
  <1>2. \A i, j \in 0 .. n : Nth(w, h, i) = Nth(w, h, j) => i = j
    BY <1>0 DEF Numbered
  <1>3. k \in Nat /\ 1 <= k /\ k <= n /\ k - 1 \in 0 .. n /\ (k - 1) + 1 = k /\ k \in 0 .. n
    BY <1>1
  <1>4. x = Nth(w, h, k) /\ x \in S /\ lk.prev[x] = p /\ p \in S
    BY <1>1, <1>3, ChainBack
  <1>5. \A i \in 0 .. n : lk.next[Nth(w, h, i)] = Nth(w, h, i + 1)
    BY DEF Chain
  <1>6. lk.next[x] = Nth(w, h, k + 1)
    BY <1>3, <1>4, <1>5
  <1>7. \A m \in S : r.next[m] = IF m = x THEN x
                                 ELSE IF m = p THEN lk.next[x] ELSE lk.next[m]
    BY <1>4 DEF list_remove, list_init, LinkStates
  <1> HIDE DEF r, p, n, x
  <1>8. \A i \in 0 .. n : Nth(v, h, i) = IF i < k THEN Nth(w, h, i) ELSE Nth(w, h, i + 1)
    <2> TAKE i \in 0 .. n
    <2>1. i \in Nat /\ i <= n
      BY <1>1
    <2>2. CASE i = 0
      <3>1. 0 \notin 1 .. Len(v) /\ 0 < k
        BY <1>1, <1>3 DEF n
      <3> QED
        BY <1>1, <2>2, <3>1 DEF Nth
    <2>3. CASE i = n
      <3>1. n \notin 1 .. Len(v) /\ ~(n < k)
        BY <1>1, <1>3 DEF n
      <3> QED
        BY <1>1, <2>3, <3>1 DEF Nth
    <2>4. CASE i # 0 /\ i # n
      <3>1. i \in 1 .. Len(v) /\ i \in 1 .. n /\ i + 1 \in 1 .. n
        BY <1>1, <2>1, <2>4 DEF n
      <3>2. Nth(v, h, i) = v[i]
        BY <3>1 DEF Nth
      <3> QED
        BY <1>1, <3>1, <3>2
    <2> QED
      BY <2>2, <2>3, <2>4
  <1>9. \A i \in 0 .. n - 1 : r.next[Nth(v, h, i)] = Nth(v, h, i + 1)
    <2> TAKE i \in 0 .. n - 1
    <2>1. i \in 0 .. n /\ i + 1 \in 0 .. n /\ i \in Nat
      BY <1>1
    <2>2. CASE i < k - 1
      <3>1. i < k /\ i + 1 < k /\ i # k /\ i # k - 1
        BY <1>3, <2>1, <2>2
      <3>2. Nth(v, h, i) = Nth(w, h, i) /\ Nth(v, h, i + 1) = Nth(w, h, i + 1)
        BY <1>8, <2>1, <3>1
      <3>3. Nth(w, h, i) # p /\ Nth(w, h, i) # x /\ Nth(w, h, i) \in S
        BY <1>1, <1>2, <1>3, <1>4, <2>1, <3>1 DEF p
      <3> QED
        BY <1>5, <1>7, <2>1, <3>2, <3>3
    <2>3. CASE i = k - 1
      <3>1. i < k /\ ~(i + 1 < k) /\ i + 1 = k
        BY <1>3, <2>3
      <3>2. Nth(v, h, i) = p /\ Nth(v, h, i + 1) = Nth(w, h, k + 1)
        BY <1>8, <2>1, <2>3, <3>1 DEF p
      <3>3. p # x
        <4>1. k - 1 # k
          BY <1>3
        <4> QED
          BY <1>2, <1>3, <1>4, <4>1 DEF p
      <3> QED
        BY <1>4, <1>6, <1>7, <3>2, <3>3
    <2>4. CASE i >= k
      <3>1. ~(i < k) /\ ~(i + 1 < k) /\ i + 1 # k /\ i + 1 # k - 1
        BY <1>3, <2>1, <2>4
      <3>2. Nth(v, h, i) = Nth(w, h, i + 1) /\ Nth(v, h, i + 1) = Nth(w, h, (i + 1) + 1)
        BY <1>8, <2>1, <3>1
      <3>3. Nth(w, h, i + 1) # p /\ Nth(w, h, i + 1) # x /\ Nth(w, h, i + 1) \in S
        BY <1>1, <1>2, <1>3, <1>4, <2>1, <3>1 DEF p
      <3> QED
        BY <1>5, <1>7, <2>1, <3>2, <3>3
    <2> QED
      BY <1>3, <2>1, <2>2, <2>3, <2>4
  <1>10. \A i \in 1 .. n : w[i] # h /\ \A j \in 1 .. n : w[i] = w[j] => i = j
    BY DEF Chain, n
  <1>11. \A i \in 1 .. n - 1 : \/ i < k /\ i \in 1 .. n /\ v[i] = w[i]
                               \/ i >= k /\ i + 1 \in 1 .. n /\ v[i] = w[i + 1]
    <2> TAKE i \in 1 .. n - 1
    <2>1. v[i] = IF i < k THEN w[i] ELSE w[i + 1]
      BY DEF n
    <2>2. i \in 1 .. n /\ i + 1 \in 1 .. n /\ (i < k \/ (i >= k /\ ~(i < k)))
      BY <1>1, <1>3
    <2> QED
      BY <2>1, <2>2
  <1>12. \A i \in 1 .. n - 1 : v[i] # h
    BY <1>10, <1>11
  <1>13. ASSUME NEW i \in 1 .. n - 1, NEW j \in 1 .. n - 1, v[i] = v[j]
         PROVE  i = j
    <2>1. CASE i < k /\ i \in 1 .. n /\ v[i] = w[i]
      <3>1. CASE j < k /\ j \in 1 .. n /\ v[j] = w[j]
        BY <1>10, <1>13, <2>1, <3>1
      <3>2. CASE j >= k /\ j + 1 \in 1 .. n /\ v[j] = w[j + 1]
        <4>1. i = j + 1
          BY <1>10, <1>13, <2>1, <3>2
        <4> QED
          BY <1>1, <1>3, <2>1, <3>2, <4>1
      <3> QED
        BY <1>11, <3>1, <3>2
    <2>2. CASE i >= k /\ i + 1 \in 1 .. n /\ v[i] = w[i + 1]
      <3>1. CASE j < k /\ j \in 1 .. n /\ v[j] = w[j]
        <4>1. i + 1 = j
          BY <1>10, <1>13, <2>2, <3>1
        <4> QED
          BY <1>1, <1>3, <2>2, <3>1, <4>1
      <3>2. CASE j >= k /\ j + 1 \in 1 .. n /\ v[j] = w[j + 1]
        <4>1. i + 1 = j + 1
          BY <1>10, <1>13, <2>2, <3>2
        <4> QED
          BY <1>1, <4>1
      <3> QED
        BY <1>11, <3>1, <3>2
    <2> QED
      BY <1>11, <2>1, <2>2
  <1>14. Len(v) = n - 1
    BY DEF n
  <1> QED
    BY <1>9, <1>12, <1>13, <1>14 DEF Chain, r, x

\* list_fifo_put inserts behind the last item.
LEMMA PutIsInsert ==
  ASSUME NEW S, NEW lk \in LinkStates(S), Consistent(lk, S), NEW h \in S,
         NEW w, Chain(lk, S, h, w), NEW x
  PROVE  list_fifo_put(lk, x, h) =
           list_insert(lk, x, Nth(w, h, Len(w)), lk.next[Nth(w, h, Len(w))])
  <1>1. lk.prev[h] = Nth(w, h, Len(w)) /\ lk.next[lk.prev[h]] = h
    BY ChainBack DEF Consistent
  <1> QED
    BY <1>1 DEF list_fifo_put

\* list_empty and list_fifo_first tell about the sequence.
LEMMA FirstOfChain ==
  ASSUME NEW S, NEW lk, NEW h \in S, NEW w, Chain(lk, S, h, w)
  PROVE  /\ list_empty(lk, h) <=> w = <<>>
         /\ w # <<>> => 1 \in 1 .. Len(w) /\ list_fifo_first(lk, h) = w[1]
  <1>0. Numbered(S, h, w)
    BY NthNodes
  <1>1. Len(w) \in Nat /\ Nth(w, h, 0) = h
    BY <1>0 DEF Numbered
  <1>2. lk.next[h] = Nth(w, h, 1)
    <2>1. 0 \in 0 .. Len(w) /\ 0 + 1 = 1
      BY <1>1
    <2>2. lk.next[Nth(w, h, 0)] = Nth(w, h, 0 + 1)
      BY <2>1 DEF Chain
    <2> QED
      BY <1>1, <2>1, <2>2
  <1>3. CASE w = <<>>
    <2>1. Len(w) = 0 /\ 1 \notin 1 .. 0
      BY <1>3
    <2>2. 1 \notin 1 .. Len(w)
      BY <2>1
    <2> QED
      BY <1>2, <1>3, <2>2 DEF Nth, list_empty
  <1>4. CASE w # <<>>
    <2>1. 1 \in 1 .. Len(w)
      BY <1>4, EmptySeq DEF Chain
    <2> QED
      BY <1>2, <1>4, <2>1 DEF Nth, list_empty, list_fifo_first, Chain
  <1> QED
    BY <1>3, <1>4

\* What list_fifo_put, list_fifo_get and list_empty mean for list_foreach.
LEMMA WalkPut ==
  ASSUME NEW S, IsFiniteSet(S), NEW lk \in LinkStates(S), Consistent(lk, S),
         NEW h \in S, NEW x \in S, Detached(lk, x), x # h
  PROVE  Walk(list_fifo_put(lk, x, h), S, h) = Append(Walk(lk, S, h), x)
  <1> DEFINE w == Walk(lk, S, h)
             r == list_fifo_put(lk, x, h)
  <1>1. Chain(lk, S, h, w)
    BY WalkChain
  <1> HIDE DEF w
  <1>2. w \in Seq(S) /\ Len(w) \in 0 .. Len(w)
    BY <1>1, LenProperties DEF Chain
  <1>3. Inserted(S, w, Len(w), x, Append(w, x))
    BY <1>2, EndsOfSeq
  <1>4. Chain(r, S, h, Append(w, x))
    BY <1>1, <1>2, <1>3, ChainInsert, PutIsInsert
  <1>5. r \in LinkStates(S)
    BY FifoPutConsistent
  <1> HIDE DEF r
  <1> QED
    BY <1>4, <1>5, WalkIsChain DEF r, w

LEMMA WalkGet ==
  ASSUME NEW S, IsFiniteSet(S), NEW lk \in LinkStates(S), Consistent(lk, S),
         NEW h \in S
  PROVE  /\ list_empty(lk, h) <=> Walk(lk, S, h) = <<>>
         /\ ~list_empty(lk, h) =>
              /\ list_fifo_first(lk, h) = Head(Walk(lk, S, h))
              /\ Walk(list_fifo_get(lk, h), S, h) = Tail(Walk(lk, S, h))
  <1> DEFINE w == Walk(lk, S, h)
             x == list_fifo_first(lk, h)
             r == list_remove(lk, x)
  <1>1. Chain(lk, S, h, w)
    BY WalkChain
  <1> HIDE DEF w
  <1>2. list_empty(lk, h) <=> w = <<>>
    BY <1>1, FirstOfChain
  <1>3. ASSUME ~list_empty(lk, h)
        PROVE  x = Head(w) /\ Walk(r, S, h) = Tail(w)
    <2>1. w # <<>> /\ 1 \in 1 .. Len(w) /\ x = w[1] /\ w \in Seq(S)
      BY <1>1, <1>3, FirstOfChain DEF Chain
    <2>2. x \in S
      BY <2>1, ElementOfSeq
    <2>3. Removed(S, w, 1, Tail(w))
      BY <2>1, EndsOfSeq
    <2>4. Chain(r, S, h, Tail(w))
      BY <1>1, <2>1, <2>3, ChainRemove
    <2>5. r \in LinkStates(S)
      BY <2>2, RemoveConsistent
    <2>6. x = Head(w)
      BY <2>1
    <2> HIDE DEF r
    <2> QED
      BY <2>4, <2>5, <2>6, WalkIsChain
  <1> QED
    BY <1>2, <1>3 DEF w, list_fifo_get

\* An operation on another list does not show.
LEMMA WalkPutAway ==
  ASSUME NEW S, IsFiniteSet(S), NEW lk \in LinkStates(S), Consistent(lk, S),
         NEW h \in S, NEW g \in S, NEW x \in S, Detached(lk, x), x # g, x # h,
         NEW c, Respects(lk, S, c), c[g] # c[h]
  PROVE  Walk(list_fifo_put(lk, x, g), S, h) = Walk(lk, S, h)
  <1> DEFINE w == Walk(lk, S, h)
             r == list_fifo_put(lk, x, g)
             p == lk.prev[g]
  <1>1. Chain(lk, S, h, w)
    BY WalkChain
  <1> HIDE DEF w
  <1>2. \A i \in 1 .. Len(w) : w[i] \in S /\ c[w[i]] = c[h] /\ w[i] # x
    <2>1. \A i \in 1 .. Len(w) : c[w[i]] = c[h]
      BY <1>1, ChainHome
    <2>2. \A i \in 1 .. Len(w) : ~Detached(lk, w[i])
      BY <1>1, ChainLinked
    <2>3. w \in Seq(S)
      BY <1>1 DEF Chain
    <2> QED
      BY <2>1, <2>2, <2>3, ElementOfSeq
  <1>3. p \in S /\ c[p] # c[h] /\ lk.next[p] = g /\ p # x
    BY DEF LinkStates, Respects, Consistent, Detached
  <1>4. r \in LinkStates(S) /\ \A m \in S \ {x, p} : r.next[m] = lk.next[m]
    <2>1. r = list_insert(lk, x, p, g)
      BY DEF list_fifo_put
    <2> HIDE DEF r, p
    <2>2. /\ list_insert(lk, x, p, g) \in LinkStates(S)
          /\ \A m \in S : list_insert(lk, x, p, g).next[m] =
                           IF m = p THEN x ELSE IF m = x THEN g ELSE lk.next[m]
      BY <1>3, InsertFields
    <2> QED
      BY <2>1, <2>2
  <1> HIDE DEF r, p
  <1>5. \A i \in 1 .. Len(w) : r.next[w[i]] = lk.next[w[i]]
    BY <1>2, <1>3, <1>4
  <1>6. r.next[h] = lk.next[h]
    BY <1>3, <1>4
  <1>7. Chain(r, S, h, w)
    BY <1>1, <1>5, <1>6, ChainKept
  <1> QED
    BY <1>4, <1>7, WalkIsChain DEF r, w

LEMMA WalkRemoveAway ==
  ASSUME NEW S, IsFiniteSet(S), NEW lk \in LinkStates(S), Consistent(lk, S),
         NEW h \in S, NEW n \in S,
         NEW c, Respects(lk, S, c), c[n] # c[h]
  PROVE  Walk(list_remove(lk, n), S, h) = Walk(lk, S, h)
  <1> DEFINE w == Walk(lk, S, h)
             r == list_remove(lk, n)
             p == lk.prev[n]
  <1>1. Chain(lk, S, h, w)
    BY WalkChain
  <1> HIDE DEF w
  <1>2. \A i \in 1 .. Len(w) : w[i] \in S /\ c[w[i]] = c[h]
    <2>1. \A i \in 1 .. Len(w) : c[w[i]] = c[h]
      BY <1>1, ChainHome
    <2>2. w \in Seq(S)
      BY <1>1 DEF Chain
    <2> QED
      BY <2>1, <2>2, ElementOfSeq
  <1>3. p \in S /\ c[p] # c[h]
    BY DEF LinkStates, Respects
  <1>4. r \in LinkStates(S)
    BY RemoveConsistent
  <1>5. \A m \in S \ {n, p} : r.next[m] = lk.next[m]
    BY <1>3 DEF list_remove, list_init, LinkStates
  <1> HIDE DEF r, p
  <1>6. \A i \in 1 .. Len(w) : r.next[w[i]] = lk.next[w[i]]
    BY <1>2, <1>3, <1>5
  <1>7. r.next[h] = lk.next[h]
    BY <1>3, <1>5
  <1>8. Chain(r, S, h, w)
    BY <1>1, <1>6, <1>7, ChainKept
  <1> QED
    BY <1>4, <1>8, WalkIsChain DEF r, w

-----------------------------------------------------------------------------
(***************************************************************************)
(* The helpers called in any order, on any number of lists.                 *)
(***************************************************************************)

\* lk holds the lists q: one after each head, with no item in common, and an
\* item that is linked is in one of them.
Holds(lk, q) ==
  /\ lk \in LinkStates(Node) /\ Consistent(lk, Node)
  /\ q \in [ListHead -> Seq(Item)]
  /\ \A h \in ListHead : Chain(lk, Node, h, q[h])
  /\ \A g, h \in ListHead : g # h => Elems(q[g]) \cap Elems(q[h]) = {}
  /\ \A n \in Item : ~Detached(lk, n) => \E h \in ListHead : n \in Elems(q[h])

ListsHeld == \E q : Holds(links, q)

\* Then q is what list_foreach visits.
LEMMA HeldIsWalk ==
  ASSUME NEW lk, NEW q, Holds(lk, q)
  PROVE  /\ [h \in ListHead |-> Walk(lk, Node, h)] = q
         /\ \A h \in ListHead : Walk(lk, Node, h) = q[h] /\ WalkLength(lk, Node, h) = Len(q[h])
  <1>1. \A h \in ListHead : Walk(lk, Node, h) = q[h] /\ WalkLength(lk, Node, h) = Len(q[h])
    BY WalkIsChain, ListNodes DEF Holds, Node
  <1>2. q = [h \in ListHead |-> q[h]]
    BY DEF Holds
  <1> QED
    BY <1>1, <1>2

LEMMA HeldSeq ==
  ASSUME NEW lk, NEW q, Holds(lk, q), NEW h \in ListHead
  PROVE  /\ h \in Node /\ h \notin Item /\ q[h] \in Seq(Item) /\ q[h] \in Seq(Node)
         /\ Len(q[h]) \in Nat /\ Elems(q[h]) \subseteq Item
         /\ \A i \in 1 .. Len(q[h]) : q[h][i] \in Item
         /\ \A m \in Elems(q[h]) : ~Detached(lk, m)
  <1>1. h \in Node /\ h \notin Item /\ q[h] \in Seq(Item)
    BY ListNodes DEF Holds, Node
  <1>2. Chain(lk, Node, h, q[h])
    BY DEF Holds
  <1>3. q[h] \in Seq(Node)
    BY <1>2 DEF Chain
  <1>4. Len(q[h]) \in Nat /\ \A i \in 1 .. Len(q[h]) : q[h][i] \in Item
    BY <1>1, LenProperties, ElementOfSeq
  <1>5. \A i \in 1 .. Len(q[h]) : ~Detached(lk, q[h][i])
    BY <1>1, <1>2, ChainLinked
  <1> QED
    BY <1>1, <1>3, <1>4, <1>5 DEF Elems

\* Which items are next to the head of a list, or items of it.
LEMMA HeldNth ==
  ASSUME NEW lk, NEW q, Holds(lk, q), NEW h \in ListHead, NEW k \in Int,
         NEW g \in ListHead, g # h
  PROVE  g # Nth(q[h], h, k) /\ Nth(q[h], h, k) \notin Elems(q[g])
  <1>1. /\ h \notin Item /\ g \notin Item /\ Elems(q[g]) \subseteq Item
        /\ Elems(q[h]) \subseteq Item
    BY HeldSeq
  <1>2. Elems(q[g]) \cap Elems(q[h]) = {}
    BY DEF Holds
  <1>3. Nth(q[h], h, k) = h \/ Nth(q[h], h, k) \in Elems(q[h])
    BY DEF Nth, Elems
  <1> QED
    BY <1>1, <1>2, <1>3

\* One list changes, to v.
LEMMA HeldChange ==
  ASSUME NEW lk, NEW q, Holds(lk, q), NEW h \in ListHead, NEW r, NEW v,
         r \in LinkStates(Node), Consistent(r, Node), v \in Seq(Item),
         Chain(r, Node, h, v),
         \A g \in ListHead \ {h} : /\ r.next[g] = lk.next[g]
                                   /\ \A m \in Elems(q[g]) : r.next[m] = lk.next[m]
                                   /\ Elems(v) \cap Elems(q[g]) = {},
         \A n \in Item : ~Detached(r, n) =>
            n \in Elems(v) \/ \E g \in ListHead \ {h} : n \in Elems(q[g])
  PROVE  Holds(r, [q EXCEPT ![h] = v])
  <1> DEFINE u == [q EXCEPT ![h] = v]
  <1>1. u \in [ListHead -> Seq(Item)] /\ u[h] = v /\ \A g \in ListHead \ {h} : u[g] = q[g]
    BY DEF Holds
  <1> HIDE DEF u
  <1>2. ASSUME NEW g \in ListHead
        PROVE  Chain(r, Node, g, u[g])
    <2>1. CASE g = h
      BY <1>1, <2>1
    <2>2. CASE g # h
      <3>1. Chain(lk, Node, g, q[g])
        BY DEF Holds
      <3>2. r.next[g] = lk.next[g] /\ \A i \in 1 .. Len(q[g]) : r.next[q[g][i]] = lk.next[q[g][i]]
        BY <2>2 DEF Elems
      <3>3. Chain(r, Node, g, q[g])
        BY <3>1, <3>2, ChainKept
      <3> QED
        BY <1>1, <2>2, <3>3
    <2> QED
      BY <2>1, <2>2
  <1>3. ASSUME NEW f \in ListHead, NEW g \in ListHead, f # g
        PROVE  Elems(u[f]) \cap Elems(u[g]) = {}
    <2>1. CASE f = h
      BY <1>1, <1>3, <2>1
    <2>2. CASE g = h
      BY <1>1, <1>3, <2>2
    <2>3. CASE f # h /\ g # h
      BY <1>1, <1>3, <2>3 DEF Holds
    <2> QED
      BY <2>1, <2>2, <2>3
  <1>4. ASSUME NEW n \in Item, ~Detached(r, n)
        PROVE  \E g \in ListHead : n \in Elems(u[g])
    BY <1>1, <1>4
  <1> QED
    BY <1>1, <1>2, <1>3, <1>4 DEF Holds, u

\* list_insert of a detached item behind item k of a list, or its head.
LEMMA HeldInsert ==
  ASSUME NEW lk, NEW q, Holds(lk, q), NEW h \in ListHead, NEW x \in Item,
         Detached(lk, x), NEW k \in 0 .. Len(q[h]), NEW v,
         v \in Seq(Item), Inserted(Node, q[h], k, x, v)
  PROVE  Holds(list_insert(lk, x, Nth(q[h], h, k), lk.next[Nth(q[h], h, k)]),
               [q EXCEPT ![h] = v])
  <1> DEFINE w == q[h]
             p == Nth(w, h, k)
             r == list_insert(lk, x, p, lk.next[p])
  <1>1. /\ lk \in LinkStates(Node) /\ Consistent(lk, Node) /\ Chain(lk, Node, h, w)
        /\ h \in Node /\ x \in Node /\ x # h /\ k \in Int
    <2>1. lk \in LinkStates(Node) /\ Consistent(lk, Node) /\ Chain(lk, Node, h, w)
      BY DEF Holds
    <2>2. h \in Node /\ x \in Node /\ x # h
      BY ListNodes DEF Node
    <2>3. k \in Int
      OBVIOUS
    <2> QED
      BY <2>1, <2>2, <2>3
  <1>2. Chain(r, Node, h, v) /\ p # x
    BY <1>1, ChainInsert
  <1>3. p \in Node
    <2>1. Numbered(Node, h, w)
      BY <1>1, NthNodes
    <2> QED
      BY <1>1, <2>1 DEF Numbered
  <1>4. w \in Seq(Node)
    BY <1>1 DEF Chain
  <1>5. Elems(v) = Elems(w) \cup {x}
    BY <1>4, InsertedElems
  <1>6. p = h \/ p \in Elems(w)
    BY DEF Nth, Elems
  <1> HIDE DEF p
  <1>7. /\ r \in LinkStates(Node) /\ Consistent(r, Node)
        /\ \A m \in Node \ {x, p} : Detached(lk, m) <=> Detached(r, m)
    BY <1>1, <1>2, <1>3, InsertConsistent
  <1>8. \A m \in Node \ {x, p} : r.next[m] = lk.next[m]
    <2>1. lk.next[p] \in Node
      BY <1>1, <1>3 DEF LinkStates
    <2>2. lk.next[p] # x
      <3>1. lk.prev[x] = x
        BY <1>1, DetachedBothWays DEF Detached
      <3> QED
        BY <1>1, <1>2, <1>3, <3>1 DEF Consistent
    <2> QED
      BY <1>1, <1>2, <1>3, <2>1, <2>2, InsertFields
  <1> HIDE DEF r, w
  <1>9. ASSUME NEW g \in ListHead \ {h}
        PROVE  /\ r.next[g] = lk.next[g]
               /\ \A m \in Elems(q[g]) : r.next[m] = lk.next[m]
               /\ Elems(v) \cap Elems(q[g]) = {}
    <2>1. g # p /\ p \notin Elems(q[g])
      BY <1>1, HeldNth DEF p, w
    <2>2. /\ g \in Node /\ g \notin Item /\ Elems(q[g]) \subseteq Item
          /\ \A m \in Elems(q[g]) : ~Detached(lk, m)
      BY HeldSeq
    <2>3. g # x /\ x \notin Elems(q[g]) /\ Elems(q[g]) \subseteq Node
      BY <2>2 DEF Node
    <2>4. Elems(w) \cap Elems(q[g]) = {}
      BY DEF Holds, w
    <2> QED
      BY <1>5, <1>8, <2>1, <2>2, <2>3, <2>4
  <1>10. ASSUME NEW n \in Item, ~Detached(r, n)
         PROVE  n \in Elems(v) \/ \E g \in ListHead \ {h} : n \in Elems(q[g])
    <2>1. CASE n = x
      BY <1>5, <2>1
    <2>2. CASE n = p
      <3>1. h \notin Item
        BY HeldSeq
      <3> QED
        BY <1>5, <1>6, <2>2, <3>1
    <2>3. CASE n # x /\ n # p
      <3>1. ~Detached(lk, n)
        BY <1>7, <1>10, <2>3 DEF Node
      <3>2. PICK g \in ListHead : n \in Elems(q[g])
        BY <3>1 DEF Holds
      <3> QED
        BY <1>5, <3>2 DEF w
    <2> QED
      BY <2>1, <2>2, <2>3
  <1>11. Holds(r, [q EXCEPT ![h] = v])
    BY <1>2, <1>7, <1>9, <1>10, HeldChange
  <1> QED
    BY <1>11 DEF r, p, w

\* list_remove of item k of a list.
LEMMA HeldRemove ==
  ASSUME NEW lk, NEW q, Holds(lk, q), NEW h \in ListHead, NEW k \in 1 .. Len(q[h]),
         NEW v, v \in Seq(Item), Removed(Node, q[h], k, v)
  PROVE  Holds(list_remove(lk, q[h][k]), [q EXCEPT ![h] = v])
  <1> DEFINE w == q[h]
             x == w[k]
             p == Nth(w, h, k - 1)
             r == list_remove(lk, x)
  <1>1. /\ lk \in LinkStates(Node) /\ Consistent(lk, Node) /\ Chain(lk, Node, h, w)
        /\ h \in Node /\ h \notin Item /\ x \in Item /\ x \in Node /\ w \in Seq(Node)
    BY HeldSeq, ListNodes DEF Holds, Node
  <1>2. Chain(r, Node, h, v)
    BY <1>1, ChainRemove
  <1>3. /\ k - 1 \in Int /\ k - 1 \in 0 .. Len(w) /\ (k - 1) + 1 = k /\ p \in Node
        /\ Nth(w, h, k) = x
    <2>1. Numbered(Node, h, w)
      BY <1>1, NthNodes
    <2> QED
      BY <1>1, <2>1 DEF Numbered
  <1>4. lk.prev[x] = p
    <2>1. \A i \in 0 .. Len(w) : lk.prev[Nth(w, h, i + 1)] = Nth(w, h, i)
      BY <1>1, ChainBack
    <2> QED
      BY <1>3, <2>1
  <1>5. Elems(v) = Elems(w) \ {x}
    <2>1. \A i, j \in 1 .. Len(w) : w[i] = w[j] => i = j
      BY <1>1 DEF Chain
    <2> QED
      BY <1>1, <2>1, RemovedElems
  <1>6. x \in Elems(w)
    BY DEF Elems
  <1> HIDE DEF p, x, w
  <1>7. /\ r \in LinkStates(Node) /\ Consistent(r, Node) /\ Detached(r, x)
        /\ \A m \in Node : Detached(lk, m) => Detached(r, m)
    BY <1>1, RemoveConsistent
  <1>8. \A m \in Node \ {x, p} : r.next[m] = lk.next[m]
    BY <1>1, <1>3, <1>4 DEF list_remove, list_init, LinkStates
  <1> HIDE DEF r
  <1>9. ASSUME NEW g \in ListHead \ {h}
        PROVE  /\ r.next[g] = lk.next[g]
               /\ \A m \in Elems(q[g]) : r.next[m] = lk.next[m]
               /\ Elems(v) \cap Elems(q[g]) = {}
    <2>1. g # p /\ p \notin Elems(q[g])
      BY <1>3, HeldNth DEF p, w
    <2>2. g \in Node /\ g \notin Item /\ Elems(q[g]) \subseteq Item
      BY HeldSeq
    <2>3. Elems(w) \cap Elems(q[g]) = {}
      BY DEF Holds, w
    <2>4. g # x /\ x \notin Elems(q[g]) /\ Elems(q[g]) \subseteq Node
      BY <1>1, <1>6, <2>2, <2>3 DEF Node
    <2> QED
      BY <1>5, <1>8, <2>1, <2>2, <2>3, <2>4
  <1>10. ASSUME NEW n \in Item, ~Detached(r, n)
         PROVE  n \in Elems(v) \/ \E g \in ListHead \ {h} : n \in Elems(q[g])
    <2>1. n # x /\ ~Detached(lk, n)
      BY <1>7, <1>10 DEF Node
    <2>2. PICK g \in ListHead : n \in Elems(q[g])
      BY <2>1 DEF Holds
    <2> QED
      BY <1>5, <2>1, <2>2 DEF w
  <1>11. Holds(r, [q EXCEPT ![h] = v])
    BY <1>2, <1>7, <1>9, <1>10, HeldChange
  <1> QED
    BY <1>11 DEF r, x, w

\* An item is detached exactly if it is on no list.
LEMMA HeldFree ==
  ASSUME NEW lk, NEW q, Holds(lk, q), NEW n \in Item
  PROVE  Detached(lk, n) <=> \A h \in ListHead : n \notin Elems(q[h])
  <1>1. ASSUME Detached(lk, n), NEW h \in ListHead
        PROVE  n \notin Elems(q[h])
    BY <1>1, HeldSeq
  <1>2. ~Detached(lk, n) => \E h \in ListHead : n \in Elems(q[h])
    BY DEF Holds
  <1> QED
    BY <1>1, <1>2

LEMMA PutHeld ==
  ASSUME NEW lk, NEW q, Holds(lk, q), NEW h \in ListHead, NEW n \in Item,
         Detached(lk, n)
  PROVE  Holds(list_fifo_put(lk, n, h), [q EXCEPT ![h] = Append(q[h], n)])
  <1>1. /\ lk \in LinkStates(Node) /\ Consistent(lk, Node) /\ Chain(lk, Node, h, q[h])
    BY DEF Holds
  <1>2. /\ h \in Node /\ q[h] \in Seq(Item) /\ q[h] \in Seq(Node) /\ n \in Node
        /\ Len(q[h]) \in 0 .. Len(q[h])
    <2>1. h \in Node /\ q[h] \in Seq(Item) /\ q[h] \in Seq(Node) /\ Len(q[h]) \in Nat
      BY HeldSeq
    <2> QED
      BY <2>1 DEF Node
  <1>3. Inserted(Node, q[h], Len(q[h]), n, Append(q[h], n))
    BY <1>2, EndsOfSeq
  <1>4. Append(q[h], n) \in Seq(Item)
    BY <1>2
  <1>5. list_fifo_put(lk, n, h) =
          list_insert(lk, n, Nth(q[h], h, Len(q[h])), lk.next[Nth(q[h], h, Len(q[h]))])
    BY <1>1, <1>2, PutIsInsert
  <1> DEFINE v == Append(q[h], n)
             k == Len(q[h])
  <1> HIDE DEF v, k
  <1>6. Holds(list_insert(lk, n, Nth(q[h], h, k), lk.next[Nth(q[h], h, k)]),
              [q EXCEPT ![h] = v])
    <2>1. k \in 0 .. Len(q[h]) /\ v \in Seq(Item) /\ Inserted(Node, q[h], k, n, v)
      BY <1>2, <1>3, <1>4 DEF k, v
    <2> QED
      BY <2>1, HeldInsert
  <1> QED
    BY <1>5, <1>6 DEF v, k

LEMMA GetHeld ==
  ASSUME NEW lk, NEW q, Holds(lk, q), NEW h \in ListHead, ~list_empty(lk, h)
  PROVE  /\ q[h] # <<>>
         /\ Holds(list_fifo_get(lk, h), [q EXCEPT ![h] = Tail(q[h])])
  <1>1. Chain(lk, Node, h, q[h])
    BY DEF Holds
  <1>2. h \in Node /\ q[h] \in Seq(Item) /\ q[h] \in Seq(Node)
    BY HeldSeq
  <1>3. q[h] # <<>> /\ 1 \in 1 .. Len(q[h]) /\ list_fifo_first(lk, h) = q[h][1]
    BY <1>1, <1>2, FirstOfChain
  <1>4. Removed(Node, q[h], 1, Tail(q[h])) /\ Tail(q[h]) \in Seq(Item)
    BY <1>2, <1>3, EndsOfSeq
  <1> DEFINE v == Tail(q[h])
  <1> HIDE DEF v
  <1>5. Holds(list_remove(lk, q[h][1]), [q EXCEPT ![h] = v])
    <2>1. Removed(Node, q[h], 1, v) /\ v \in Seq(Item)
      BY <1>4 DEF v
    <2> QED
      BY <1>3, <2>1, HeldRemove
  <1> QED
    BY <1>3, <1>5 DEF v, list_fifo_get

\* Removing a detached node changes nothing.
LEMMA RemoveDetached ==
  ASSUME NEW S, NEW lk \in LinkStates(S), Consistent(lk, S), NEW n \in S,
         Detached(lk, n)
  PROVE  list_remove(lk, n) = lk
  <1>1. lk.next[n] = n /\ lk.prev[n] = n
    BY DetachedBothWays DEF Detached
  <1>2. [lk.next EXCEPT ![n] = n] = lk.next /\ [lk.prev EXCEPT ![n] = n] = lk.prev
    BY <1>1 DEF LinkStates
  <1>3. list_remove(lk, n) =
          list_init([next |-> [lk.next EXCEPT ![n] = n], prev |-> [lk.prev EXCEPT ![n] = n]], n)
    BY <1>1, Zenon DEF list_remove
  <1>4. list_remove(lk, n) = [next |-> lk.next, prev |-> lk.prev]
    BY <1>2, <1>3 DEF list_init
  <1> QED
    BY <1>4 DEF LinkStates

Without(w, i) == SubSeq(w, 1, i - 1) \o SubSeq(w, i + 1, Len(w))

LEMMA RemoveHeld ==
  ASSUME NEW lk, NEW q, Holds(lk, q), NEW n \in Item, ~Detached(lk, n)
  PROVE  \E h \in ListHead : \E i \in 1 .. Len(q[h]) :
            /\ q[h][i] = n
            /\ Holds(list_remove(lk, n), [q EXCEPT ![h] = Without(q[h], i)])
  <1>1. PICK h \in ListHead : n \in Elems(q[h])
    BY DEF Holds
  <1>2. PICK i \in 1 .. Len(q[h]) : q[h][i] = n
    BY <1>1 DEF Elems
  <1>3. q[h] \in Seq(Item) /\ q[h] \in Seq(Node)
    BY HeldSeq
  <1>4. Removed(Node, q[h], i, Without(q[h], i)) /\ Removed(Item, q[h], i, Without(q[h], i))
    BY <1>3, RemovedSeq DEF Without
  <1>5. Without(q[h], i) \in Seq(Item)
    BY <1>4 DEF Removed
  <1>6. Holds(list_remove(lk, q[h][i]), [q EXCEPT ![h] = Without(q[h], i)])
    BY <1>4, <1>5, HeldRemove
  <1> QED
    BY <1>2, <1>6

With(w, i, n) == SubSeq(w, 1, i) \o <<n>> \o SubSeq(w, i + 1, Len(w))

LEMMA InsertHeld ==
  ASSUME NEW lk, NEW q, Holds(lk, q), NEW n \in Item, Detached(lk, n),
         NEW p \in Node, p \in ListHead \/ ~Detached(lk, p)
  PROVE  \E h \in ListHead : \E i \in 0 .. Len(q[h]) :
            /\ p = Nth(q[h], h, i)
            /\ Holds(list_insert(lk, n, p, lk.next[p]), [q EXCEPT ![h] = With(q[h], i, n)])
  <1>1. PICK h \in ListHead : \E i \in 0 .. Len(q[h]) : p = Nth(q[h], h, i)
    <2>1. CASE p \in ListHead
      <3>1. Numbered(Node, p, q[p])
        BY <2>1, HeldSeq, NthNodes DEF Holds
      <3>2. 0 \in 0 .. Len(q[p]) /\ Nth(q[p], p, 0) = p
        BY <3>1 DEF Numbered
      <3> QED
        BY <2>1, <3>2
    <2>2. CASE p \notin ListHead
      <3>1. p \in Item /\ ~Detached(lk, p)
        BY <2>2 DEF Node
      <3>2. PICK g \in ListHead : p \in Elems(q[g])
        BY <3>1 DEF Holds
      <3>3. PICK i \in 1 .. Len(q[g]) : q[g][i] = p
        BY <3>2 DEF Elems
      <3>4. Len(q[g]) \in Nat
        BY HeldSeq
      <3>5. i \in 0 .. Len(q[g])
        BY <3>4
      <3>6. Nth(q[g], g, i) = p
        BY <3>3 DEF Nth
      <3> QED
        BY <3>5, <3>6
    <2> QED
      BY <2>1, <2>2
  <1>2. PICK i \in 0 .. Len(q[h]) : p = Nth(q[h], h, i)
    BY <1>1
  <1>3. q[h] \in Seq(Item) /\ q[h] \in Seq(Node) /\ n \in Node
    BY HeldSeq DEF Node
  <1>4. Inserted(Node, q[h], i, n, With(q[h], i, n)) /\ Inserted(Item, q[h], i, n, With(q[h], i, n))
    BY <1>3, InsertedSeq DEF With
  <1>5. With(q[h], i, n) \in Seq(Item)
    BY <1>4 DEF Inserted
  <1>6. Holds(list_insert(lk, n, Nth(q[h], h, i), lk.next[Nth(q[h], h, i)]),
              [q EXCEPT ![h] = With(q[h], i, n)])
    BY <1>4, <1>5, HeldInsert
  <1> QED
    BY <1>2, <1>6

LEMMA InitHeld == ListInit => Holds(links, [h \in ListHead |-> <<>>])
  <1> SUFFICES ASSUME ListInit PROVE Holds(links, [h \in ListHead |-> <<>>])
    OBVIOUS
  <1> DEFINE e == [h \in ListHead |-> <<>>]
  <1>1. links \in LinkStates(Node) /\ Consistent(links, Node)
        /\ \A n \in Node : links.next[n] = n
    BY UnlinkedConsistent DEF ListInit, Unlinked
  <1>2. e \in [ListHead -> Seq(Item)] /\ \A h \in ListHead : e[h] = <<>>
    OBVIOUS
  <1> HIDE DEF e
  <1>3. \A h \in ListHead : Len(e[h]) = 0
    BY <1>2
  <1>4. ASSUME NEW h \in ListHead PROVE Chain(links, Node, h, e[h])
    <2>1. e[h] \in Seq(Node) /\ Len(e[h]) = 0
      BY <1>2, <1>3
    <2>2. links.next[h] = h
      BY <1>1 DEF Node
    <2>3. \A i : i \notin 1 .. 0
      OBVIOUS
    <2> QED
      BY <2>1, <2>2, <2>3 DEF Chain, Nth
  <1>5. \A h \in ListHead : Elems(e[h]) = {}
    BY <1>3 DEF Elems
  <1>6. \A n \in Item : Detached(links, n)
    BY <1>1 DEF Detached, Node
  <1>7. Holds(links, e)
    BY <1>1, <1>2, <1>4, <1>5, <1>6 DEF Holds
  <1> QED
    BY <1>7 DEF e

-----------------------------------------------------------------------------
(***************************************************************************)
(* Every helper does to the sequences what it promises.                     *)
(***************************************************************************)

Lists == [h \in ListHead |-> Walk(links, Node, h)]

\* The sequences before and after a step, once the link states are known to
\* hold them.
LEMMA ListsAre ==
  ASSUME NEW q, Holds(links, q), NEW u, Holds(links', u)
  PROVE  Lists = q /\ Lists' = u
  <1>1. Lists = q
    BY HeldIsWalk DEF Lists
  <1>2. \A r : Holds(r, u) => [h \in ListHead |-> Walk(r, Node, h)] = u
    BY HeldIsWalk
  <1> QED
    BY <1>1, <1>2 DEF Lists

LEMMA FreeItem ==
  ASSUME NEW q, Holds(links, q), NEW n \in Item, Detached(links, n)
  PROVE  Fifo!Free(n)
  <1>1. Lists = q
    BY HeldIsWalk DEF Lists
  <1>2. \A h \in ListHead : n \notin Elems(q[h])
    BY HeldFree
  <1>3. \A h \in ListHead : q[h] \in Seq(Item)
    BY HeldSeq
  <1>4. \A h \in ListHead : n \notin {q[h][i] : i \in DOMAIN q[h]}
    BY <1>2, <1>3 DEF Elems
  <1> QED
    BY <1>1, <1>4 DEF Fifo!Free, Fifo!Range, Lists

LEMMA GetStep ==
  ASSUME NEW q, Holds(links, q), NEW h \in ListHead, get(h)
  PROVE  ListsHeld' /\ Fifo!Get(h)
  <1> DEFINE u == [q EXCEPT ![h] = Tail(q[h])]
  <1>1. q[h] # <<>> /\ Holds(links', u)
    BY GetHeld DEF get
  <1> HIDE DEF u
  <1>2. Lists = q /\ Lists' = u
    BY <1>1, ListsAre
  <1> QED
    BY <1>1, <1>2 DEF u, Lists, Fifo!Get, ListsHeld

LEMMA PutStep ==
  ASSUME NEW q, Holds(links, q), NEW n \in Item, NEW h \in ListHead, put(n, h)
  PROVE  ListsHeld' /\ Fifo!Put(n, h)
  <1> DEFINE u == [q EXCEPT ![h] = Append(q[h], n)]
  <1>1. Fifo!Free(n) /\ Holds(links', u)
    BY PutHeld, FreeItem DEF put
  <1> HIDE DEF u
  <1>2. Lists = q /\ Lists' = u
    BY <1>1, ListsAre
  <1> QED
    BY <1>1, <1>2 DEF u, Lists, Fifo!Put, ListsHeld

LEMMA RemoveStep ==
  ASSUME NEW q, Holds(links, q), NEW n \in Item, remove(n)
  PROVE  ListsHeld' /\ Fifo!Unlink(n)
  <1>1. CASE Detached(links, n)
    <2>1. links' = links
      <3>1. links \in LinkStates(Node) /\ Consistent(links, Node) /\ n \in Node
        BY DEF Holds, Node
      <3> QED
        BY <1>1, <3>1, RemoveDetached DEF remove
    <2>2. Holds(links', q)
      BY <2>1
    <2>3. Lists = q /\ Lists' = q
      BY <2>2, ListsAre
    <2> QED
      BY <1>1, <2>2, <2>3, FreeItem DEF Lists, Fifo!Unlink, ListsHeld
  <1>2. CASE ~Detached(links, n)
    <2>1. PICK h \in ListHead : \E i \in 1 .. Len(q[h]) :
             /\ q[h][i] = n
             /\ Holds(links', [q EXCEPT ![h] = Without(q[h], i)])
      BY <1>2, RemoveHeld DEF remove
    <2>2. PICK i \in 1 .. Len(q[h]) :
             /\ q[h][i] = n
             /\ Holds(links', [q EXCEPT ![h] = Without(q[h], i)])
      BY <2>1
    <2> DEFINE u == [q EXCEPT ![h] = Without(q[h], i)]
    <2>3. Holds(links', u)
      BY <2>2
    <2> HIDE DEF u
    <2>4. Lists = q /\ Lists' = u
      BY <2>3, ListsAre
    <2>5. q[h][i] = n
      BY <2>2
    <2>6. Lists' = [Lists EXCEPT ![h] = Fifo!RemoveAt(Lists[h], i)]
      BY <2>4 DEF u, Without, Fifo!RemoveAt
    <2>7. Lists[h][i] = n /\ i \in 1 .. Len(Lists[h])
      BY <2>4, <2>5
    <2> QED
      BY <2>3, <2>6, <2>7, Zenon DEF Lists, Fifo!Unlink, ListsHeld
  <1> QED
    BY <1>1, <1>2

LEMMA InsertStep ==
  ASSUME NEW q, Holds(links, q), NEW n \in Item, NEW p \in Node, insert(n, p)
  PROVE  /\ ListsHeld'
         /\ \E h \in ListHead : \E i \in 0 .. WalkLength(links, Node, h) :
              p = (<<h>> \o Walk(links, Node, h))[i + 1] /\ Fifo!Insert(n, h, i)
  <1>1. PICK h \in ListHead : \E i \in 0 .. Len(q[h]) :
            /\ p = Nth(q[h], h, i)
            /\ Holds(links', [q EXCEPT ![h] = With(q[h], i, n)])
    BY InsertHeld DEF insert
  <1>2. PICK i \in 0 .. Len(q[h]) :
            /\ p = Nth(q[h], h, i)
            /\ Holds(links', [q EXCEPT ![h] = With(q[h], i, n)])
    BY <1>1
  <1> DEFINE u == [q EXCEPT ![h] = With(q[h], i, n)]
  <1>3. Holds(links', u) /\ Fifo!Free(n)
    BY <1>2, FreeItem DEF insert
  <1> HIDE DEF u
  <1>4. Lists = q /\ Lists' = u
    BY <1>3, ListsAre
  <1>5. q[h] \in Seq(Node) /\ Len(q[h]) \in Nat /\ h \in Node
    BY HeldSeq
  <1>6. i \in Nat /\ i <= Len(q[h]) /\ (i + 1) - 1 = i
    BY <1>5
  <1>7. Lists' = [Lists EXCEPT ![h] = Fifo!InsertAt(Lists[h], i + 1, n)]
    BY <1>4, <1>6 DEF u, With, Fifo!InsertAt
  <1>8. p = (<<h>> \o q[h])[i + 1]
    <2> DEFINE o == <<h>>
               w == q[h]
    <2>1. o \in Seq(Node) /\ Len(o) = 1 /\ o[1] = h
      BY <1>5
    <2> HIDE DEF o, w
    <2>2. \A j \in 1 .. Len(o) + Len(w) : (o \o w)[j] = IF j <= Len(o) THEN o[j] ELSE w[j - Len(o)]
      BY <1>5, <2>1, ConcatProperties DEF w
    <2>3. i + 1 \in 1 .. Len(o) + Len(w) /\ (i + 1 <= Len(o) <=> i = 0) /\ (i + 1) - Len(o) = i
      BY <1>5, <1>6, <2>1 DEF w
    <2>4. (o \o w)[i + 1] = IF i = 0 THEN h ELSE w[i]
      <3>1. (o \o w)[i + 1] = IF i + 1 <= Len(o) THEN o[i + 1] ELSE w[(i + 1) - Len(o)]
        BY <2>2, <2>3, Zenon
      <3>2. i = 0 => o[i + 1] = h
        BY <2>1
      <3> QED
        BY <2>3, <3>1, <3>2, Zenon
    <2>5. p = IF i = 0 THEN h ELSE w[i]
      <3>1. i = 0 => i \notin 1 .. Len(w)
        OBVIOUS
      <3>2. i # 0 => i \in 1 .. Len(w)
        BY <1>6 DEF w
      <3>3. p = Nth(w, h, i)
        BY <1>2 DEF w
      <3> QED
        BY <3>1, <3>2, <3>3 DEF Nth
    <2> QED
      BY <2>4, <2>5 DEF o, w
  <1>9. Walk(links, Node, h) = q[h] /\ WalkLength(links, Node, h) = Len(q[h])
    BY HeldIsWalk
  <1>10. Fifo!Insert(n, h, i)
    BY <1>3, <1>7, Zenon DEF Lists, Fifo!Insert
  <1> QED
    BY <1>3, <1>8, <1>9, <1>10 DEF ListsHeld

\* The four operations together: what a step does to the lists.
LEMMA ListStep ==
  ASSUME ListsHeld, [ListNext]_links
  PROVE  ListsHeld' /\ [Fifo!FifoNext]_Lists
  <1>0. PICK q : Holds(links, q)
    BY DEF ListsHeld
  <1>1. CASE \E h \in ListHead : get(h)
    BY <1>0, <1>1, GetStep DEF Fifo!FifoNext
  <1>2. CASE \E n \in Item : remove(n)
    BY <1>0, <1>2, RemoveStep DEF Fifo!FifoNext
  <1>3. CASE \E n \in Item, h \in ListHead : put(n, h)
    BY <1>0, <1>3, PutStep DEF Fifo!FifoNext
  <1>4. CASE \E n \in Item, p \in Node : n # p /\ insert(n, p)
    <2>1. PICK n \in Item : \E p \in Node : n # p /\ insert(n, p)
      BY <1>4
    <2>2. PICK p \in Node : insert(n, p)
      BY <2>1
    <2>3. /\ ListsHeld'
          /\ \E h \in ListHead : \E i \in 0 .. WalkLength(links, Node, h) :
                p = (<<h>> \o Walk(links, Node, h))[i + 1] /\ Fifo!Insert(n, h, i)
      BY <1>0, <2>2, InsertStep
    <2>4. PICK h \in ListHead : \E i \in 0 .. WalkLength(links, Node, h) : Fifo!Insert(n, h, i)
      BY <2>3
    <2>5. WalkLength(links, Node, h) = Len(q[h]) /\ Lists = q
      BY <1>0, HeldIsWalk DEF Lists
    <2>6. \E i \in 0 .. Len(Lists[h]) : Fifo!Insert(n, h, i)
      BY <2>4, <2>5
    <2> QED
      BY <2>3, <2>6, Zenon DEF Fifo!FifoNext, Lists
  <1>5. CASE UNCHANGED links
    <2>1. Holds(links', q)
      BY <1>0, <1>5
    <2>2. Lists = q /\ Lists' = q
      BY <1>0, <2>1, ListsAre
    <2> QED
      BY <2>1, <2>2 DEF ListsHeld
  <1> QED
    BY <1>1, <1>2, <1>3, <1>4, <1>5 DEF ListNext

\* The links always hold one sequence of items per head, none on two of them,
\* and nothing else is linked: the inductive invariant of the list helpers.
THEOREM ListsAlwaysHeld == ListSpec => []ListsHeld
  <1>1. ListInit => ListsHeld
    BY InitHeld DEF ListsHeld
  <1>2. ListsHeld /\ [ListNext]_links => ListsHeld'
    BY ListStep
  <1> QED
    BY <1>1, <1>2, PTL DEF ListSpec

\* Whatever sequence of helpers is called, a node is linked exactly if
\* list_foreach finds it from some head, which is what the kernel asks with
\* list_empty of a thread's or a timer's own node.
THEOREM LinkedReachable == ListSpec => []LinkedIsReachable
  <1>1. ListsHeld => LinkedIsReachable
    <2> SUFFICES ASSUME ListsHeld, NEW n \in Item
                 PROVE  ~Detached(links, n) <=> \E h \in ListHead : n \in OnList(links, Node, h)
      BY DEF LinkedIsReachable
    <2>1. PICK q : Holds(links, q)
      BY DEF ListsHeld
    <2>2. Detached(links, n) <=> \A h \in ListHead : n \notin Elems(q[h])
      BY <2>1, HeldFree
    <2>3. \A h \in ListHead : OnList(links, Node, h) = Elems(q[h])
      BY <2>1, HeldIsWalk DEF OnList, Elems
    <2> QED
      BY <2>2, <2>3
  <1> QED
    BY <1>1, ListsAlwaysHeld, PTL

\* The list helpers of snow.c implement one sequence of items per head.
THEOREM ListsImplemented == ListSpec => IsFifoLists
  <1>1. ListInit => Fifo!FifoInit
    <2> SUFFICES ASSUME ListInit PROVE Fifo!FifoInit
      OBVIOUS
    <2>1. Lists = [h \in ListHead |-> <<>>]
      BY InitHeld, HeldIsWalk DEF Lists
    <2> QED
      BY <2>1 DEF Fifo!FifoInit, Lists
  <1>2. ListsHeld /\ [ListNext]_links => [Fifo!FifoNext]_Lists
    BY ListStep
  <1> QED
    BY <1>1, <1>2, ListsAlwaysHeld, PTL DEF ListSpec, IsFifoLists, Fifo!FifoSpec, Lists

\* Each helper does to the sequences the operation it is named for: list_fifo_put
\* appends, list_fifo_get takes the first item, list_remove takes out the node
\* it is given and list_insert puts one directly behind its neighbour.
THEOREM HelpersAgree == ListSpec => OpsAgree
  <1> DEFINE Agree ==
        /\ \A h \in ListHead : get(h) => Fifo!Get(h)
        /\ \A n \in Item : remove(n) => Fifo!Unlink(n)
        /\ \A n \in Item, h \in ListHead : put(n, h) => Fifo!Put(n, h)
        /\ \A n \in Item, p \in Node : n # p /\ insert(n, p) =>
             \E h \in ListHead : \E i \in 0 .. WalkLength(links, Node, h) :
                p = (<<h>> \o Walk(links, Node, h))[i + 1] /\ Fifo!Insert(n, h, i)
  <1>1. ListsHeld => Agree
    <2> SUFFICES ASSUME ListsHeld PROVE Agree
      OBVIOUS
    <2>0. PICK q : Holds(links, q)
      BY DEF ListsHeld
    <2>1. \A h \in ListHead : get(h) => Fifo!Get(h)
      BY <2>0, GetStep
    <2>2. \A n \in Item : remove(n) => Fifo!Unlink(n)
      BY <2>0, RemoveStep
    <2>3. \A n \in Item, h \in ListHead : put(n, h) => Fifo!Put(n, h)
      BY <2>0, PutStep
    <2>4. \A n \in Item, p \in Node : n # p /\ insert(n, p) =>
             \E h \in ListHead : \E i \in 0 .. WalkLength(links, Node, h) :
                p = (<<h>> \o Walk(links, Node, h))[i + 1] /\ Fifo!Insert(n, h, i)
      BY <2>0, InsertStep
    <2> QED
      BY <2>1, <2>2, <2>3, <2>4
  <1>2. ListsHeld => [Agree]_links
    BY <1>1
  <1> QED
    BY <1>2, ListsAlwaysHeld, PTL DEF OpsAgree

-----------------------------------------------------------------------------
(***************************************************************************)
(* PART II: the kernel.                                                     *)
(***************************************************************************)

-----------------------------------------------------------------------------
(***************************************************************************)
(* Mutexes.  The proof does not look at the lists at all: it covers the      *)
(* executions in which sched_list is damaged, too.                           *)
(***************************************************************************)

\* The part of the state mutual exclusion rests on.
SyncTypes ==
  /\ mutex \in [Mutex -> [thread : Thread \cup {NULL}, count : Nat]]
  /\ held \in [Thread -> [Mutex -> Nat]]
  /\ obj \in [Ctx -> Thread \cup WaitObj \cup UTimer \cup {NULL}]
  /\ pc \in [Ctx -> PcValues]
  /\ \A t \in Thread : pc[t] \in {"again", "wait_sched"} => obj[t] \in WaitObj

MutexInv == SyncTypes /\ MutexOwnership

LEMMA MutexInit == Init => MutexInv
BY ObjectsDistinct
   DEF Init, MutexInv, SyncTypes, MutexOwnership, PcValues, Ctx, WaitObj

\* Steps that neither lock nor unlock change nothing the invariant is about
\* except where their context is and what it works on.
LEMMA MutexOtherStep ==
  ASSUME MutexInv, UNCHANGED <<mutex, held>>, SyncTypes'
  PROVE  MutexInv'
BY DEF MutexInv, MutexOwnership, SyncTypes

LEMMA MutexGetStep ==
  ASSUME MutexInv, NEW t \in Thread, wait_get_success(t)
  PROVE  MutexInv'
  <1> DEFINE o == obj[t]
  <1> USE ObjectsDistinct
  <1>1. t \in Ctx /\ o \in WaitObj
    BY DEF MutexInv, SyncTypes, wait_get_success, At, Ctx
  <1>2. /\ obj' \in [Ctx -> Thread \cup WaitObj \cup UTimer \cup {NULL}]
        /\ pc' \in [Ctx -> PcValues]
        /\ \A u \in Thread : pc'[u] \in {"again", "wait_sched"} => obj'[u] \in WaitObj
    BY <1>1 DEF MutexInv, SyncTypes, wait_get_success, Return, Ctx, PcValues
  <1>3. CASE o \in Sem
    <2>1. UNCHANGED <<mutex, held>>
      BY <1>3 DEF wait_get_success, sem_get
    <2> QED
      BY <1>2, <2>1, MutexOtherStep DEF MutexInv, SyncTypes
  <1>4. CASE o \in Mutex
    <2>1. /\ mutex[o].thread \in {NULL, t}
          /\ mutex' = [mutex EXCEPT ![o] = [thread |-> t, count |-> @.count + 1]]
          /\ held' = [held EXCEPT ![t][o] = @ + 1]
      BY <1>4 DEF wait_get_success, CanGet, mutex_get
    <2>2. SyncTypes'
      BY <1>2, <1>4, <2>1 DEF MutexInv, SyncTypes
    <2>3. MutexOwnership'
      <3> SUFFICES ASSUME NEW m \in Mutex, NEW u \in Thread
                   PROVE  /\ mutex'[m].thread = NULL <=> mutex'[m].count = 0
                          /\ held'[u][m] = IF mutex'[m].thread = u
                                           THEN mutex'[m].count ELSE 0
        BY ObjectsDistinct DEF MutexOwnership
      <3>1. CASE m # o
        BY <2>1, <3>1 DEF MutexInv, MutexOwnership, SyncTypes
      <3>2. CASE m = o
        BY <2>1, <3>2, ObjectsDistinct DEF MutexInv, MutexOwnership, SyncTypes, Ctx
      <3> QED
        BY <3>1, <3>2
    <2> QED
      BY <2>2, <2>3 DEF MutexInv
  <1> QED
    BY <1>1, <1>3, <1>4 DEF WaitObj

LEMMA MutexPutStep ==
  ASSUME MutexInv, NEW t \in Thread, NEW o \in Mutex, snow_mutex_unlock(t, o)
  PROVE  MutexInv'
  <1>1. /\ pc' \in [Ctx -> PcValues]
        /\ obj' = obj
        /\ \A u \in Thread : pc'[u] \in {"again", "wait_sched"} => obj'[u] \in WaitObj
    BY DEF MutexInv, SyncTypes, snow_mutex_unlock, wait_put, Goto, Ctx, PcValues
  <1>2. /\ held[t][o] > 0
        /\ held' = [held EXCEPT ![t][o] = @ - 1]
        /\ mutex' = [mutex EXCEPT ![o] = mutex_put(o)]
    BY DEF snow_mutex_unlock
  <1>3. mutex[o].thread = t /\ mutex[o].count = held[t][o]
    BY <1>2 DEF MutexInv, MutexOwnership, SyncTypes
  <1>4. SyncTypes'
    BY <1>1, <1>2, <1>3 DEF MutexInv, SyncTypes, mutex_put
  <1>5. MutexOwnership'
    <2> SUFFICES ASSUME NEW m \in Mutex, NEW u \in Thread
                 PROVE  /\ mutex'[m].thread = NULL <=> mutex'[m].count = 0
                        /\ held'[u][m] = IF mutex'[m].thread = u
                                         THEN mutex'[m].count ELSE 0
      BY ObjectsDistinct DEF MutexOwnership
    <2>1. CASE m # o
      BY <1>2, <2>1 DEF MutexInv, MutexOwnership, SyncTypes
    <2>2. CASE m = o
      BY <1>2, <1>3, <2>2, ObjectsDistinct
         DEF MutexInv, MutexOwnership, SyncTypes, mutex_put, Ctx
    <2> QED
      BY <2>1, <2>2
  <1> QED
    BY <1>4, <1>5 DEF MutexInv

\* Every step of the kernel preserves the invariant.
LEMMA MutexStep ==
  ASSUME MutexInv, [Next]_vars
  PROVE  MutexInv'
  <1> USE DEF MutexInv, SyncTypes
  <1>1. CASE UNCHANGED vars
    BY <1>1 DEF vars, callVars, syncVars, MutexOwnership
  <1>2. CASE snow_tick_handler
    BY <1>2, MutexOtherStep DEF snow_tick_handler, callVars, syncVars
  <1>3. CASE SchedStep
    BY <1>3, MutexOtherStep
       DEF SchedStep, sched_fire_wakeup, sched_fire_user, sched_switch,
           callVars, syncVars
  <1>4. ASSUME NEW c \in Ctx, NEW new \in Thread, snow_thread_create(c, new)
        PROVE  MutexInv'
    <2>1. pc' \in [Ctx -> PcValues]
      BY <1>4 DEF snow_thread_create, PcValues, syscall_forkidle
    <2>2. obj' \in [Ctx -> Thread \cup WaitObj \cup UTimer \cup {NULL}]
      BY <1>4 DEF snow_thread_create
    <2>3. \A u \in Thread : pc'[u] \in {"again", "wait_sched"} => obj'[u] \in WaitObj
      BY <1>4 DEF snow_thread_create, Ctx, syscall_forkidle
    <2> QED
      BY <1>4, <2>1, <2>2, <2>3, MutexOtherStep DEF snow_thread_create, syncVars
  <1>5. ASSUME NEW c \in Ctx, thread_create_put(c)
        PROVE  MutexInv'
    <2>1. pc' \in [Ctx -> PcValues]
      BY <1>5 DEF thread_create_put, Goto, PcValues
    <2>2. obj' \in [Ctx -> Thread \cup WaitObj \cup UTimer \cup {NULL}]
      BY <1>5 DEF thread_create_put
    <2>3. \A u \in Thread : pc'[u] \in {"again", "wait_sched"} => obj'[u] \in WaitObj
      BY <1>5 DEF thread_create_put, Goto, At, Ctx
    <2> QED
      BY <1>5, <2>1, <2>2, <2>3, MutexOtherStep DEF thread_create_put, syncVars
  <1>6. ASSUME NEW c \in Ctx, spin(c)
        PROVE  MutexInv'
    BY <1>1, <1>6 DEF spin
  <1>7. ASSUME NEW t \in Thread, Call(t)
        PROVE  MutexInv'
    <2>1. t \in Ctx
      BY DEF Ctx
    <2>2. CASE \E new \in Thread : snow_thread_create(t, new)
      BY <1>4, <2>1, <2>2
    <2>3. CASE thread_end(t)
      BY <2>1, <2>3, MutexOtherStep
         DEF thread_end, Goto, PcValues, Ctx, callVars, syncVars
    <2>4. CASE \E us \in SleepUs : snow_usleep(t, us)
      BY <2>1, <2>4, MutexOtherStep
         DEF snow_usleep, Goto, PcValues, Ctx, callVars, syncVars
    <2>5. CASE \E us \in TimerUs : snow_udelay(t, us)
      BY <2>1, <2>5, MutexOtherStep
         DEF snow_udelay, Goto, PcValues, Ctx, callVars, syncVars
    <2>6. ASSUME NEW x \in UTimer, NEW us \in TimerUs, timer_add_us(t, x, us)
          PROVE  MutexInv'
      <3>1. SyncTypes'
        BY <2>1, <2>6 DEF timer_add_us, Goto, At, PcValues, Ctx, syncVars
      <3> QED
        BY <2>6, <3>1, MutexOtherStep DEF timer_add_us, syncVars
    <2>7. ASSUME NEW x \in UTimer, snow_timer_del(t, x)
          PROVE  MutexInv'
      BY <2>7, MutexOtherStep DEF snow_timer_del, callVars, syncVars
    <2>8. ASSUME NEW o \in WaitObj, NEW us \in WaitUs, wait_get_timeout(t, o, us)
          PROVE  MutexInv'
      <3>1. SyncTypes'
        BY <2>1, <2>8 DEF wait_get_timeout, Goto, At, PcValues, Ctx, syncVars
      <3> QED
        BY <2>8, <3>1, MutexOtherStep DEF wait_get_timeout, syncVars
    <2>9. ASSUME NEW s \in Sem, snow_sem_up(t, s)
          PROVE  MutexInv'
      <3>1. SyncTypes'
        BY <2>1, <2>9 DEF snow_sem_up, wait_put, Goto, At, PcValues, Ctx
      <3> QED
        BY <2>9, <3>1, MutexOtherStep DEF snow_sem_up
    <2>10. ASSUME NEW m \in Mutex, snow_mutex_unlock(t, m)
           PROVE  MutexInv'
      BY <2>10, MutexPutStep
    <2> QED
      BY <1>7, <2>2, <2>3, <2>4, <2>5, <2>6, <2>7, <2>8, <2>9, <2>10 DEF Call
  <1>8. ASSUME NEW t \in Thread, KernelStep(t)
        PROVE  MutexInv'
    <2>1. t \in Ctx
      BY DEF Ctx
    <2>2. CASE snow_sched(t)
      <3>1. SyncTypes'
        BY <2>1, <2>2 DEF snow_sched, Goto, At, PcValues, Ctx, syncVars
      <3> QED
        BY <2>2, <3>1, MutexOtherStep DEF snow_sched, syncVars
    <2>3. CASE udelay_return(t)
      <3>1. SyncTypes'
        BY <2>1, <2>3 DEF udelay_return, Return, At, PcValues, Ctx, syncVars
      <3> QED
        BY <2>3, <3>1, MutexOtherStep DEF udelay_return, syncVars
    <2>4. CASE timer_add_insert(t)
      <3>1. SyncTypes'
        BY <2>1, <2>4 DEF timer_add_insert, Return, At, PcValues, Ctx, syncVars
      <3> QED
        BY <2>4, <3>1, MutexOtherStep DEF timer_add_insert, syncVars
    <2>5. CASE wait_get_success(t)
      BY <2>5, MutexGetStep
    <2>6. CASE wait_get_fail(t)
      <3>1. SyncTypes'
        BY <2>1, <2>6 DEF wait_get_fail, Return, At, PcValues, Ctx, syncVars
      <3> QED
        BY <2>6, <3>1, MutexOtherStep DEF wait_get_fail, syncVars
    <2>7. CASE wait_get_block(t)
      <3>1. SyncTypes'
        BY <2>1, <2>7 DEF wait_get_block, Goto, At, PcValues, Ctx, syncVars
      <3> QED
        BY <2>7, <3>1, MutexOtherStep DEF wait_get_block, syncVars
    <2> QED
      BY <1>8, <2>2, <2>3, <2>4, <2>5, <2>6, <2>7 DEF KernelStep
  <1>9. CASE Idle
    <2>1. idle \in Ctx /\ main \in Thread
      BY ObjectsDistinct DEF Ctx
    <2> QED
      BY <1>4, <1>5, <1>6, <1>9, <2>1 DEF Idle
  <1> HIDE DEF MutexInv, SyncTypes
  <1>10. \A t \in Thread : t \in Ctx
    BY DEF Ctx
  <1> QED
    BY <1>1, <1>2, <1>3, <1>5, <1>6, <1>7, <1>8, <1>9, <1>10 DEF Next

\* Mutual exclusion: in every execution, whoever creates, sleeps, times out
\* or is preempted, mutex_get and mutex_put keep each mutex's owner and count
\* equal to what its users have locked and unlocked, so no two threads hold
\* one mutex.
THEOREM MutexSafe == Spec => []MutexOwnership
  <1>1. MutexInv => MutexOwnership
    BY DEF MutexInv
  <1> QED
    BY <1>1, MutexInit, MutexStep, PTL DEF Spec

-----------------------------------------------------------------------------
(***************************************************************************)
(* Lists.                                                                   *)
(***************************************************************************)

\* A detached node may change the list it belongs on.
LEMMA Rehome ==
  ASSUME NEW S, NEW lk \in LinkStates(S), Consistent(lk, S),
         NEW n \in S, Detached(lk, n),
         NEW c, NEW d, Respects(lk, S, c), \A m \in S \ {n} : d[m] = c[m]
  PROVE  Respects(lk, S, d)
  <1>1. lk.prev[n] = n /\ lk.next[n] = n
    BY DetachedBothWays DEF Detached
  <1>2. \A m \in S \ {n} : lk.next[m] \in S \ {n} /\ lk.prev[m] \in S \ {n}
    BY <1>1 DEF LinkStates, Consistent
  <1> QED
    BY <1>1, <1>2 DEF Respects

\* The neighbours of a head that is not alone are not detached.
LEMMA FirstLinked ==
  ASSUME NEW S, NEW lk \in LinkStates(S), Consistent(lk, S),
         NEW h \in S, ~list_empty(lk, h)
  PROVE  lk.next[h] \in S \ {h} /\ ~Detached(lk, lk.next[h])
BY DEF LinkStates, Consistent, list_empty, Detached

\* A call that does not concern a waiting thread moves nobody's home.
LEMMA SameHome ==
  ASSUME flags' = flags, \A t \in Thread : flags[t] = "WAIT" => obj'[t] = obj[t]
  PROVE  Home' = Home
BY DEF Home

\* Only waiting threads belong on the list of a semaphore or a mutex.
LEMMA FirstWaiter ==
  ASSUME ListInv, NEW o \in WaitObj, ~list_empty(list, o)
  PROVE  LET t == list_fifo_first(list, o)
         IN  t \in Thread /\ flags[t] = "WAIT" /\ obj[t] = o
  <1> DEFINE t == list_fifo_first(list, o)
  <1>1. o \in ListNode /\ o \notin Thread
    BY ObjectsDistinct DEF ListNode
  <1>2. t \in ListNode \ {o}
    BY <1>1, FirstLinked DEF ListInv, TypeOK, ListsConsistent, list_fifo_first
  <1>3. Home[t] = Home[o]
    BY <1>1 DEF ListInv, ListsApart, Respects, list_fifo_first
  <1>4. Home[o] = o
    BY <1>1 DEF Home
  <1>5. t \in Thread
    BY <1>2, <1>3, <1>4 DEF Home
  <1>6. flags[t] # "RUN"
    BY <1>2, <1>3, <1>4, <1>5, ObjectsDistinct DEF Home, WaitObj
  <1>7. flags[t] = "WAIT"
    BY <1>2, <1>3, <1>4, <1>5, <1>6 DEF Home
  <1> QED
    BY <1>2, <1>3, <1>4, <1>5, <1>7 DEF Home

\* Only ready threads belong on sched_list.
LEMMA FirstReady ==
  ASSUME ListInv, NEW l \in LinkStates(ListNode), Consistent(l, ListNode),
         Respects(l, ListNode, Home), ~list_empty(l, sched_list)
  PROVE  LET t == list_fifo_first(l, sched_list)
         IN  t \in Thread /\ flags[t] = "RUN"
  <1> DEFINE t == list_fifo_first(l, sched_list)
  <1>1. sched_list \in ListNode /\ sched_list \notin Thread /\ sched_list \notin WaitObj
    BY ObjectsDistinct DEF ListNode
  <1>2. t \in ListNode \ {sched_list}
    BY <1>1, FirstLinked DEF list_fifo_first
  <1>3. Home[t] = Home[sched_list]
    BY <1>1 DEF Respects, list_fifo_first
  <1>4. Home[sched_list] = sched_list
    BY <1>1 DEF Home
  <1>5. t \in Thread
    BY <1>2, <1>3, <1>4 DEF Home
  <1>6. flags[t] # "WAIT"
    BY <1>1, <1>2, <1>3, <1>4, <1>5 DEF Home, ListInv, CallObject
  <1> QED
    BY <1>2, <1>3, <1>4, <1>5, <1>6 DEF Home

-----------------------------------------------------------------------------
(***************************************************************************)
(* The kernel functions the actions share.                                  *)
(***************************************************************************)

\* snow_timer_add of a timer that is not pending.
LEMMA TimerInsertRings ==
  ASSUME NEW tm \in LinkStates(TimerNode), Consistent(tm, TimerNode),
         NEW x \in Timer, Detached(tm, x), NEW us, TimerInsert(tm, x, us)
  PROVE  /\ timer' \in LinkStates(TimerNode)
         /\ Consistent(timer', TimerNode)
         /\ \A m \in Timer \ {x} : Detached(tm, m) => Detached(timer', m)
  <1>1. PICK s \in TimerNode \ {x} :
           /\ s = timer_list \/ ~Detached(tm, s)
           /\ timer' = list_insert(tm, x, s, tm.next[s])
    BY DEF TimerInsert, IsSlot
  <1>2. x \in TimerNode /\ timer_list \notin Timer
    BY ObjectsDistinct DEF TimerNode
  <1>3. /\ timer' \in LinkStates(TimerNode)
        /\ Consistent(timer', TimerNode)
        /\ \A m \in TimerNode \ {x, s} : Detached(tm, m) <=> Detached(timer', m)
    BY <1>1, <1>2, InsertConsistent
  <1> QED
    BY <1>1, <1>2, <1>3 DEF TimerNode

\* snow_wakeup of a thread that sleeps or waits, whether or not it is still
\* linked: it ends up ready, behind sched_list, with its timer off.
LEMMA WakeupRings ==
  ASSUME ListInv, NEW t \in Thread, flags[t] \in {"SLEEPING", "WAIT"},
         NEW l \in LinkStates(ListNode), Consistent(l, ListNode),
         Respects(l, ListNode, Home),
         NEW tm \in LinkStates(TimerNode), Consistent(tm, TimerNode),
         snow_wakeup(l, tm, t), obj' = obj
  PROVE  /\ flags' = [flags EXCEPT ![t] = "RUN"]
         /\ list' \in LinkStates(ListNode)
         /\ Consistent(list', ListNode)
         /\ Respects(list', ListNode, Home')
         /\ \A u \in Thread \ {t} : Detached(l, u) => Detached(list', u)
         /\ timer' \in LinkStates(TimerNode)
         /\ Consistent(timer', TimerNode)
         /\ Detached(timer', t)
         /\ \A x \in Timer : Detached(tm, x) => Detached(timer', x)
  <1> DEFINE r == list_remove(l, t)
  <1>1. /\ t \in ListNode /\ t \in TimerNode /\ t # idle /\ t # sched_list
        /\ sched_list \in ListNode /\ sched_list \notin Thread
    BY ObjectsDistinct DEF ListNode, TimerNode, Timer
  <1>2. /\ flags' = [flags EXCEPT ![t] = "RUN"]
        /\ list' = list_fifo_put(r, t, sched_list)
        /\ timer' = list_remove(tm, t)
    BY DEF snow_wakeup, thread_is_run
  <1>3. /\ r \in LinkStates(ListNode) /\ Consistent(r, ListNode)
        /\ Detached(r, t) /\ Respects(r, ListNode, Home)
        /\ \A u \in ListNode : Detached(l, u) => Detached(r, u)
    BY <1>1, RemoveConsistent
  <1> HIDE DEF r
  <1>4. \A m \in ListNode \ {t} : Home'[m] = Home[m]
    BY <1>2 DEF Home, ListInv, TypeOK
  <1>5. Respects(r, ListNode, Home')
    <2> HIDE DEF Home
    <2> QED
      BY <1>1, <1>3, <1>4, Rehome
  <1>6. Home'[t] = Home'[sched_list]
    BY <1>1, <1>2 DEF Home, ListInv, TypeOK
  <1>7. /\ list' \in LinkStates(ListNode) /\ Consistent(list', ListNode)
        /\ \A m \in ListNode \ {t, sched_list} : Detached(r, m) <=> Detached(list', m)
        /\ Respects(list', ListNode, Home')
    <2> HIDE DEF Home
    <2> QED
      BY <1>1, <1>2, <1>3, <1>5, <1>6, FifoPutConsistent
  <1>8. \A u \in Thread \ {t} : Detached(l, u) => Detached(list', u)
    BY <1>1, <1>3, <1>7 DEF ListNode
  <1>9. /\ timer' \in LinkStates(TimerNode) /\ Consistent(timer', TimerNode)
        /\ Detached(timer', t)
        /\ \A x \in TimerNode : Detached(tm, x) => Detached(timer', x)
    BY <1>1, <1>2, RemoveConsistent
  <1> QED
    BY <1>2, <1>7, <1>8, <1>9 DEF TimerNode

\* A step that leaves lists, timers, flags and current alone.
LEMMA QuietStep ==
  ASSUME ListInv, UNCHANGED <<list, timer, flags, current>>,
         \A t \in Thread : flags[t] = "WAIT" => obj'[t] = obj[t],
         MutexInv', TypeOK', CurrentReady', CallObject', ~SelfWake'
  PROVE  ListInv'
  <1>1. ListsConsistent' /\ ListsApart'
    BY SameHome DEF ListInv, ListsConsistent, ListsApart
  <1>2. CurrentOffList' /\ TimerOff'
    BY DEF ListInv, CurrentOffList, TimerOff, thread_is_run
  <1> QED
    BY <1>1, <1>2 DEF ListInv, MutexInv, NoSelfWake

\* The invariant of the previous section is part of this one.
LEMMA RingsImplyMutex ==
  ASSUME ListInv
  PROVE  MutexInv
BY DEF ListInv, TypeOK, CallObject, MutexInv, SyncTypes, Ctx

\* A thread that runs outside the kernel is ready and on no list.
LEMMA RunningThread ==
  ASSUME ListInv, NEW t \in Thread,
         At(t, PcValues \ {"usleep_sched", "wait_sched"})
  PROVE  /\ t \in Ctx /\ t \in ListNode /\ t \in Timer /\ t # idle
         /\ flags[t] = "RUN"
         /\ Detached(list, t) /\ Detached(timer, t)
  <1>1. t \in Ctx /\ t \in ListNode /\ t \in Timer /\ t # idle
    BY ObjectsDistinct DEF Ctx, ListNode, Timer
  <1>2. flags[t] = "RUN"
    BY DEF ListInv, CurrentReady, At
  <1> QED
    BY <1>1, <1>2 DEF ListInv, CurrentOffList, TimerOff, thread_is_run, At

-----------------------------------------------------------------------------
(***************************************************************************)
(* One lemma per action: exceptions and the scheduler.                      *)
(***************************************************************************)

LEMMA RingsTick ==
  ASSUME ListInv, snow_tick_handler, MutexInv', ~SelfWake'
  PROVE  ListInv'
  <1> USE DEF snow_tick_handler, listVars, callVars, syncVars, entry_handler
  <1>1. TypeOK'
    BY TimesAreNaturals DEF ListInv, TypeOK
  <1>2. CurrentReady' /\ CallObject'
    BY DEF ListInv, CurrentReady, CallObject
  <1> QED
    BY <1>1, <1>2, QuietStep

LEMMA RingsSched ==
  ASSUME ListInv, NEW t \in Thread, snow_sched(t), MutexInv', ~SelfWake'
  PROVE  ListInv'
  <1> USE DEF snow_sched, listVars, syncVars, entry_handler, syscall_sched
  <1>1. t \in Ctx /\ t # idle
    BY ObjectsDistinct DEF Ctx
  <1>2. TypeOK'
    BY <1>1 DEF ListInv, TypeOK, Goto, PcValues
  <1>3. CurrentReady'
    BY DEF ListInv, CurrentReady
  <1>4. CallObject'
    BY <1>1 DEF ListInv, TypeOK, CallObject, Goto, At
  <1> QED
    BY <1>2, <1>3, <1>4, QuietStep

\* The thread whose timer is due is not current, so it is on no list it must
\* not be on.
LEMMA RingsFireWakeup ==
  ASSUME ListInv, sched_fire_wakeup, MutexInv', ~SelfWake'
  PROVE  ListInv'
  <1> DEFINE t == timer.next[timer_list]
             tm == list_remove(timer, t)
  <1>1. /\ handler = "sched" /\ ~list_empty(timer, timer_list)
        /\ timer_us[t] <= sys_time_us
        /\ t \in Thread /\ snow_wakeup(list, tm, t)
        /\ UNCHANGED <<timer_us, cpuVars, callVars, syncVars>>
    BY DEF sched_fire_wakeup, TimerDue
  <1>2. timer_list \in TimerNode /\ t \in TimerNode /\ t \in ListNode
    BY <1>1 DEF TimerNode, Timer, ListNode
  <1>3. ~Detached(timer, t)
    BY <1>1, <1>2, FirstLinked DEF ListInv, TypeOK, ListsConsistent
  <1>4. flags[t] \in {"SLEEPING", "WAIT"}
    BY <1>1, <1>3 DEF ListInv, TypeOK, TimerOff
  <1>5. t # current
    BY <1>1, <1>3 DEF ListInv, NoSelfWake, SelfWake
  <1>6. /\ tm \in LinkStates(TimerNode) /\ Consistent(tm, TimerNode)
        /\ \A x \in TimerNode : Detached(timer, x) => Detached(tm, x)
    BY <1>2, RemoveConsistent DEF ListInv, TypeOK, ListsConsistent
  <1>7. /\ flags' = [flags EXCEPT ![t] = "RUN"]
        /\ list' \in LinkStates(ListNode) /\ Consistent(list', ListNode)
        /\ Respects(list', ListNode, Home')
        /\ \A u \in Thread \ {t} : Detached(list, u) => Detached(list', u)
        /\ timer' \in LinkStates(TimerNode) /\ Consistent(timer', TimerNode)
        /\ Detached(timer', t)
        /\ \A x \in Timer : Detached(tm, x) => Detached(timer', x)
    <2> HIDE DEF t, tm
    <2>1. obj' = obj
      BY <1>1 DEF callVars
    <2> QED
      BY <1>1, <1>4, <1>6, <2>1, WakeupRings
         DEF ListInv, TypeOK, ListsConsistent, ListsApart
  <1> HIDE DEF t, tm
  <1> USE DEF cpuVars, callVars, syncVars
  <1>8. TypeOK'
    BY <1>1, <1>7 DEF ListInv, TypeOK
  <1>9. CurrentOffList'
    BY <1>1, <1>5, <1>7 DEF ListInv, TypeOK, CurrentOffList, thread_is_run, Ctx
  <1>10. CurrentReady'
    BY <1>1, <1>5, <1>7 DEF ListInv, TypeOK, CurrentReady
  <1>11. TimerOff'
    BY <1>1, <1>6, <1>7 DEF ListInv, TypeOK, TimerOff, Timer, TimerNode
  <1>12. CallObject'
    <2>1. \A x \in UTimer : Detached(timer, x) => Detached(timer', x)
      BY <1>6, <1>7 DEF Timer, TimerNode
    <2>2. \A u \in Thread : /\ flags[u] = "NEW" => flags'[u] = "NEW"
                            /\ flags'[u] = "WAIT" => flags[u] = "WAIT"
      BY <1>4, <1>7 DEF ListInv, TypeOK
    <2> QED
      BY <1>1, <2>1, <2>2 DEF ListInv, CallObject
  <1> QED
    BY <1>7, <1>8, <1>9, <1>10, <1>11, <1>12
       DEF ListInv, MutexInv, ListsConsistent, ListsApart, NoSelfWake

\* The callback of an application timer.
LEMMA RingsFireUser ==
  ASSUME ListInv, sched_fire_user, MutexInv', ~SelfWake'
  PROVE  ListInv'
  <1> DEFINE x == timer.next[timer_list]
             tm == list_remove(timer, x)
  <1>1. /\ x \in UTimer
        /\ \/ timer' = tm /\ UNCHANGED timer_us
           \/ \E us \in TimerUs : snow_timer_add(tm, x, sys_time_us + us)
        /\ UNCHANGED <<list, flags, cpuVars, callVars, syncVars>>
        /\ handler = "sched" /\ ~list_empty(timer, timer_list)
    BY DEF sched_fire_user, TimerDue
  <1>2. timer_list \in TimerNode /\ x \in TimerNode /\ x \in Timer /\ x \notin Thread
    BY <1>1, ObjectsDistinct DEF TimerNode, Timer
  <1>3. ~Detached(timer, x)
    BY <1>2, <1>1, FirstLinked DEF ListInv, TypeOK, ListsConsistent
  <1>4. /\ tm \in LinkStates(TimerNode) /\ Consistent(tm, TimerNode)
        /\ Detached(tm, x)
        /\ \A m \in TimerNode : Detached(timer, m) => Detached(tm, m)
    BY <1>2, RemoveConsistent DEF ListInv, TypeOK, ListsConsistent
  <1> HIDE DEF x, tm
  <1>5. /\ timer' \in LinkStates(TimerNode) /\ Consistent(timer', TimerNode)
        /\ \A m \in Timer \ {x} : Detached(tm, m) => Detached(timer', m)
        /\ timer_us' \in [Timer -> Nat]
    <2>1. CASE timer' = tm /\ UNCHANGED timer_us
      BY <1>4, <2>1 DEF ListInv, TypeOK
    <2>2. CASE \E us \in TimerUs : snow_timer_add(tm, x, sys_time_us + us)
      <3> PICK us \in TimerUs : snow_timer_add(tm, x, sys_time_us + us)
        BY <2>2
      <3>1. us \in Nat /\ sys_time_us + us \in Nat
        BY TimesAreNaturals DEF ListInv, TypeOK
      <3>2. timer_us' \in [Timer -> Nat]
        BY <1>2, <2>2, <3>1 DEF ListInv, TypeOK, snow_timer_add
      <3> QED
        BY <1>2, <1>4, <2>2, <3>2, TimerInsertRings DEF snow_timer_add
    <2> QED
      BY <1>1, <2>1, <2>2
  <1> USE DEF cpuVars, callVars, syncVars
  <1>6. TypeOK'
    BY <1>1, <1>5 DEF ListInv, TypeOK
  <1>7. Home' = Home
    BY <1>1, SameHome
  <1>8. TimerOff'
    BY <1>1, <1>2, <1>4, <1>5 DEF ListInv, TimerOff, Timer, TimerNode
  <1>9. CallObject'
    <2>1. \A m \in UTimer : Detached(timer, m) => Detached(timer', m)
      BY <1>3, <1>4, <1>5 DEF Timer, TimerNode
    <2> QED
      BY <1>1, <2>1 DEF ListInv, CallObject
  <1>10. CurrentOffList' /\ CurrentReady'
    BY <1>1 DEF ListInv, CurrentOffList, CurrentReady, thread_is_run
  <1> QED
    BY <1>1, <1>5, <1>6, <1>7, <1>8, <1>9, <1>10
       DEF ListInv, MutexInv, ListsConsistent, ListsApart, NoSelfWake

\* The CPU goes to a thread that belongs on sched_list, which thereby leaves
\* it, or stays with a ready thread, or goes to idle.
LEMMA SwitchRings ==
  ASSUME ListInv, sched_switch
  PROVE  /\ list' \in LinkStates(ListNode) /\ Consistent(list', ListNode)
         /\ Respects(list', ListNode, Home)
         /\ timeout' \in [Ctx -> Nat]
         /\ current' \in Ctx
         /\ current' # idle => flags[current'] = "RUN" /\ Detached(list', current')
  <1> DEFINE l == IF thread_is_run(current)
                  THEN list_fifo_put(list, current, sched_list) ELSE list
             none == list_empty(l, sched_list)
             next == IF none THEN idle ELSE list_fifo_first(l, sched_list)
  <1>1. current \in Thread => current \in ListNode
    BY DEF ListNode
  <1>2. sched_list \in ListNode /\ sched_list \notin Thread
    BY ObjectsDistinct DEF ListNode
  <1>3. thread_is_run(current) => current \in Thread /\ Detached(list, current)
    BY DEF ListInv, TypeOK, CurrentOffList, thread_is_run, Ctx
  <1>4. l \in LinkStates(ListNode) /\ Consistent(l, ListNode)
        /\ Respects(l, ListNode, Home)
    <2>1. CASE thread_is_run(current)
      <3>1. Home[current] = Home[sched_list]
        BY <1>1, <1>2, <1>3, <2>1 DEF Home, thread_is_run
      <3> HIDE DEF Home
      <3> QED
        BY <1>1, <1>2, <1>3, <2>1, <3>1, FifoPutConsistent
           DEF ListInv, TypeOK, ListsConsistent, ListsApart
    <2>2. CASE ~thread_is_run(current)
      BY <2>2 DEF ListInv, TypeOK, ListsConsistent, ListsApart
    <2> QED
      BY <2>1, <2>2
  <1>5. ~none => next \in Thread /\ flags[next] = "RUN"
    <2> HIDE DEF l
    <2> QED
      BY <1>4, FirstReady
  <1>6. CASE ~SliceOver
    <2>1. UNCHANGED <<list, current, timeout>> /\ thread_is_run(current)
      BY <1>6 DEF sched_switch, SliceOver
    <2> QED
      BY <1>3, <2>1 DEF ListInv, TypeOK, ListsConsistent, ListsApart, thread_is_run
  <1>7. CASE SliceOver
    <2>1. /\ list' = IF none THEN l ELSE list_fifo_get(l, sched_list)
          /\ current' = next
          /\ timeout' = [timeout EXCEPT ![next] =
                sys_time_us + (IF next = idle THEN 0 ELSE SchedUs)]
      BY <1>7 DEF sched_switch
    <2> HIDE DEF l
    <2>2. CASE none
      <3>1. next = idle /\ idle \in Ctx
        BY <2>2 DEF Ctx
      <3> QED
        BY <1>4, <2>1, <2>2, <3>1 DEF ListInv, TypeOK
    <2>3. CASE ~none
      <3>1. list' = list_remove(l, next)
        BY <2>1, <2>3 DEF list_fifo_get
      <3> HIDE DEF none, next
      <3>2. next \in ListNode /\ next \in Ctx /\ next # idle
        BY <1>5, <2>3, ObjectsDistinct DEF ListNode, Ctx
      <3>3. timeout' \in [Ctx -> Nat]
        BY <2>1, <3>2, TimesAreNaturals DEF ListInv, TypeOK
      <3> QED
        BY <1>4, <1>5, <2>1, <2>3, <3>1, <3>2, <3>3, RemoveConsistent
    <2> QED
      BY <2>2, <2>3
  <1> QED
    BY <1>6, <1>7

LEMMA RingsSwitch ==
  ASSUME ListInv, sched_switch, MutexInv', ~SelfWake'
  PROVE  ListInv'
  <1>1. UNCHANGED <<timer, timer_us, flags, sys_time_us, callVars, syncVars>>
        /\ handler' = "none"
    BY DEF sched_switch
  <1>2. Home' = Home
    BY <1>1, SameHome DEF callVars
  <1>3. TypeOK'
    BY <1>1, SwitchRings DEF ListInv, TypeOK, callVars, syncVars
  <1>4. CurrentOffList' /\ CurrentReady'
    BY <1>1, SwitchRings, ObjectsDistinct DEF CurrentOffList, CurrentReady, thread_is_run
  <1>5. TimerOff' /\ CallObject'
    BY <1>1 DEF ListInv, TimerOff, CallObject, callVars
  <1>6. ListsConsistent' /\ ListsApart'
    BY <1>1, <1>2, SwitchRings DEF ListInv, ListsConsistent, ListsApart
  <1> QED
    BY <1>3, <1>4, <1>5, <1>6 DEF ListInv, MutexInv, NoSelfWake

-----------------------------------------------------------------------------
(***************************************************************************)
(* Threads, sleeping and timers.                                            *)
(***************************************************************************)

LEMMA RingsCreate ==
  ASSUME ListInv, NEW c \in Ctx, NEW new \in Thread, snow_thread_create(c, new),
         MutexInv', ~SelfWake'
  PROVE  ListInv'
  <1>1. /\ flags[new] = "NEW" /\ \A d \in Ctx : obj[d] # new
        /\ timer' = list_init(timer, new)
        /\ obj' = [obj EXCEPT ![c] = new]
        /\ pc' = [[pc EXCEPT ![new] = "user"] EXCEPT ![c] = "create_put"]
        /\ handler' = "sched"
        /\ UNCHANGED <<list, timer_us, flags, timeout, current, sys_time_us,
                       deadline, need_wakeup, syncVars>>
    BY DEF snow_thread_create, entry_handler, syscall_forkidle
  <1>2. new \in TimerNode /\ new \in Ctx /\ new # idle
    BY ObjectsDistinct DEF TimerNode, Timer, Ctx
  <1>3. timer' = timer
    <2>1. timer.next[new] = new /\ timer.prev[new] = new
      BY <1>1, <1>2, DetachedBothWays
         DEF ListInv, TypeOK, ListsConsistent, TimerOff, Detached
    <2> QED
      BY <1>1, <1>2, <2>1 DEF ListInv, TypeOK, LinkStates, list_init
  <1>4. c \in Thread => flags[c] = "RUN"
    BY DEF snow_thread_create, At, ListInv, CurrentReady
  <1>5. c # new
    BY <1>1, <1>2, <1>4 DEF Ctx
  <1>6. TypeOK'
    BY <1>1, <1>3 DEF ListInv, TypeOK, MutexInv, SyncTypes, syncVars
  <1>7. CurrentReady'
    BY <1>1 DEF ListInv, CurrentReady
  <1>8. CallObject'
    <2>1. /\ c = idle \/ c \in Thread
          /\ idle \in Ctx /\ idle \notin Thread /\ \A t \in Thread : t \in Ctx
      BY ObjectsDistinct DEF Ctx
    <2>2. /\ pc'[idle] \in {"boot", "create_put", "loop"}
          /\ \A t \in Thread : pc'[t] \notin {"boot", "loop"}
      BY <1>1, <1>2, <2>1 DEF ListInv, TypeOK, CallObject
    <2>3. \A t \in Thread : flags'[t] = "WAIT" => obj'[t] \in WaitObj
      BY <1>1, <1>4 DEF ListInv, TypeOK, CallObject
    <2>4. \A d \in Ctx : d # c =>
             /\ pc'[d] \in {"again", "wait_sched"} => obj'[d] \in WaitObj
             /\ pc'[d] = "create_put" => obj'[d] \in Thread /\ flags'[obj'[d]] = "NEW"
             /\ pc'[d] = "timer_add" => obj'[d] \in UTimer /\ Detached(timer', obj'[d])
             /\ obj'[d] \in Timer => \A e \in Ctx : obj'[e] = obj'[d] => e = d
      BY <1>1, <1>3 DEF ListInv, TypeOK, CallObject
    <2>5. /\ pc'[c] = "create_put" /\ obj'[c] = new
          /\ \A e \in Ctx : obj'[e] = obj'[c] => e = c
      BY <1>1, <1>5 DEF ListInv, TypeOK
    <2>6. flags'[new] = "NEW"
      BY <1>1
    <2> QED
      BY <2>2, <2>3, <2>4, <2>5, <2>6 DEF CallObject
  <1>9. \A t \in Thread : flags[t] = "WAIT" => obj'[t] = obj[t]
    BY <1>1, <1>4 DEF ListInv, TypeOK
  <1> QED
    BY <1>1, <1>3, <1>6, <1>7, <1>8, <1>9, QuietStep

\* A thread that belongs on no list is on none.
LEMMA HomelessDetached ==
  ASSUME ListInv, NEW t \in Thread, flags[t] \in {"NEW", "SLEEPING"}
  PROVE  Detached(list, t)
  <1> DEFINE m == list.next[t]
  <1>1. t \in ListNode /\ m \in ListNode
    BY DEF ListInv, TypeOK, LinkStates, ListNode
  <1>2. Home[m] = t
    <2>1. Home[m] = Home[t]
      BY <1>1 DEF ListInv, ListsApart, Respects
    <2> QED
      BY <1>1, <2>1 DEF Home
  <1>3. t # sched_list /\ t \notin WaitObj
    BY ObjectsDistinct
  <1>4. m = t
    BY <1>1, <1>2, <1>3 DEF Home, ListInv, CallObject
  <1> QED
    BY <1>4 DEF Detached

LEMMA RingsCreatePut ==
  ASSUME ListInv, NEW c \in Ctx, thread_create_put(c), MutexInv', ~SelfWake'
  PROVE  ListInv'
  <1> DEFINE new == obj[c]
  <1>1. /\ handler = "none" /\ current = c /\ pc[c] = "create_put"
        /\ flags' = [flags EXCEPT ![new] = "RUN"]
        /\ list' = list_fifo_put(list, new, sched_list)
        /\ obj' = [obj EXCEPT ![c] = NULL]
        /\ pc' = [pc EXCEPT ![c] = IF c = idle THEN "loop" ELSE "user"]
        /\ UNCHANGED <<timer, timer_us, cpuVars, deadline, need_wakeup, syncVars>>
    BY DEF thread_create_put, At, Goto
  <1>2. /\ new \in Thread /\ flags[new] = "NEW"
        /\ \A d \in Ctx \ {c} : obj[d] # new
    BY <1>1 DEF ListInv, CallObject, Timer
  <1>3. /\ new \in ListNode /\ sched_list \in ListNode /\ new # sched_list
        /\ sched_list \notin Thread
    BY <1>2, ObjectsDistinct DEF ListNode
  <1>4. c \in Thread => flags[c] = "RUN" /\ c # new
    BY <1>1, <1>2 DEF ListInv, CurrentReady
  <1>5. Detached(list, new)
    BY <1>2, HomelessDetached
  <1> HIDE DEF new
  <1>6. \A m \in ListNode \ {new} : Home'[m] = Home[m]
    BY <1>1, <1>4 DEF Home, ListInv, TypeOK
  <1>7. Home'[new] = Home'[sched_list]
    BY <1>1, <1>2, <1>3 DEF Home, ListInv, TypeOK
  <1>8. /\ list' \in LinkStates(ListNode) /\ Consistent(list', ListNode)
        /\ Respects(list', ListNode, Home')
        /\ \A m \in ListNode \ {new, sched_list} : Detached(list, m) <=> Detached(list', m)
    <2> HIDE DEF Home
    <2>1. Respects(list, ListNode, Home')
      BY <1>3, <1>5, <1>6, Rehome DEF ListInv, TypeOK, ListsConsistent, ListsApart
    <2> QED
      BY <1>1, <1>3, <1>5, <1>7, <2>1, FifoPutConsistent
         DEF ListInv, TypeOK, ListsConsistent
  <1> USE DEF cpuVars, syncVars
  <1>9. TypeOK'
    BY <1>1, <1>2, <1>8 DEF ListInv, TypeOK, MutexInv, SyncTypes
  <1>10. CurrentOffList' /\ CurrentReady'
    <2>1. c \in Thread => c \in ListNode /\ c # sched_list
      BY <1>3 DEF ListNode
    <2>2. c = idle \/ c \in Thread
      BY DEF Ctx
    <2> QED
      BY <1>1, <1>2, <1>4, <1>8, <2>1, <2>2
         DEF ListInv, TypeOK, CurrentOffList, CurrentReady, thread_is_run
  <1>11. TimerOff'
    BY <1>1, <1>2 DEF ListInv, TypeOK, TimerOff
  <1>12. CallObject'
    <2>1. /\ idle \in Ctx /\ idle \notin Thread /\ \A t \in Thread : t \in Ctx
          /\ NULL \notin Timer
      BY ObjectsDistinct DEF Ctx, Timer
    <2>2. /\ pc'[idle] \in {"boot", "create_put", "loop"}
          /\ \A t \in Thread : pc'[t] \notin {"boot", "loop"}
      BY <1>1, <2>1 DEF ListInv, TypeOK, CallObject
    <2>3. \A t \in Thread : flags'[t] = "WAIT" => obj'[t] \in WaitObj
      BY <1>1, <1>2, <1>4, <2>1 DEF ListInv, TypeOK, CallObject
    <2>4. \A d \in Ctx : d # c => pc'[d] = pc[d] /\ obj'[d] = obj[d]
      BY <1>1 DEF ListInv, TypeOK
    <2>5. obj'[c] = NULL /\ pc'[c] \in {"loop", "user"}
      BY <1>1 DEF ListInv, TypeOK
    <2>6. \A u \in Thread : u # new => flags'[u] = flags[u]
      BY <1>1 DEF ListInv, TypeOK
    <2>7. \A d \in Ctx :
             /\ pc'[d] \in {"again", "wait_sched"} => obj'[d] \in WaitObj
             /\ pc'[d] = "create_put" => obj'[d] \in Thread /\ flags'[obj'[d]] = "NEW"
             /\ pc'[d] = "timer_add" => obj'[d] \in UTimer /\ Detached(timer', obj'[d])
             /\ obj'[d] \in Timer => \A e \in Ctx : obj'[e] = obj'[d] => e = d
      BY <1>1, <1>2, <2>1, <2>4, <2>5, <2>6 DEF ListInv, CallObject
    <2> QED
      BY <2>2, <2>3, <2>7 DEF CallObject
  <1> QED
    BY <1>1, <1>8, <1>9, <1>10, <1>11, <1>12
       DEF ListInv, MutexInv, ListsConsistent, ListsApart, NoSelfWake

\* Calls that only move their thread from one point to another, with new
\* locals, and that are not suspended in the queue of an object.
LEMMA RingsLocal ==
  ASSUME ListInv, NEW t \in Thread, At(t, {"user", "udelay", "again"}),
         UNCHANGED <<listVars, flags, cpuVars>>,
         NEW p \in {"user", "ended", "udelay", "again"},
         NEW o \in WaitObj \cup {NULL}, p = "again" => o \in WaitObj,
         pc' = [pc EXCEPT ![t] = p],
         \/ obj' = [obj EXCEPT ![t] = o]
         \/ obj' = obj /\ p # "again",
         deadline' \in [Ctx -> Nat], need_wakeup' \in [Ctx -> BOOLEAN],
         sem' \in [Sem -> Nat], MutexInv', ~SelfWake'
  PROVE  ListInv'
  <1> USE DEF listVars, cpuVars
  <1>1. t \in Ctx /\ t # idle /\ flags[t] = "RUN"
    BY RunningThread DEF PcValues, At
  <1>2. TypeOK'
    BY DEF ListInv, TypeOK, MutexInv, SyncTypes
  <1>3. CurrentReady'
    BY <1>1 DEF ListInv, CurrentReady, At
  <1>4. CallObject'
    <2>1. o \notin Timer
      BY ObjectsDistinct DEF Timer, Ctx
    <2>2. \A d \in Ctx : d # t => pc'[d] = pc[d] /\ obj'[d] = obj[d]
      BY DEF ListInv, TypeOK
    <2>3. pc'[t] = p /\ (obj'[t] = o \/ (obj' = obj /\ p # "again"))
      BY <1>1 DEF ListInv, TypeOK
    <2>4. idle \in Ctx /\ \A u \in Thread : u \in Ctx
      BY DEF Ctx
    <2> QED
      BY <1>1, <2>1, <2>2, <2>3, <2>4 DEF ListInv, CallObject
  <1>5. \A u \in Thread : flags[u] = "WAIT" => obj'[u] = obj[u]
    BY <1>1 DEF ListInv, TypeOK, Ctx
  <1> QED
    BY <1>2, <1>3, <1>4, <1>5, QuietStep

\* The running thread arms its own timer; it keeps the CPU until snow_sched().
LEMMA RingsUsleep ==
  ASSUME ListInv, NEW t \in Thread, NEW us \in SleepUs, snow_usleep(t, us),
         MutexInv', ~SelfWake'
  PROVE  ListInv'
  <1>1. /\ At(t, {"user"})
        /\ flags' = [flags EXCEPT ![t] = "SLEEPING"]
        /\ TimerInsert(timer, t, sys_time_us + us)
        /\ timer_us' = [timer_us EXCEPT ![t] = sys_time_us + us]
        /\ pc' = [pc EXCEPT ![t] = "usleep_sched"]
        /\ UNCHANGED <<list, cpuVars, obj, deadline, need_wakeup, syncVars>>
    BY DEF snow_usleep, snow_timer_add, Goto
  <1> USE DEF cpuVars, syncVars
  <1>2. /\ t \in Ctx /\ t \in ListNode /\ t \in Timer /\ t # idle
        /\ flags[t] = "RUN" /\ Detached(list, t) /\ Detached(timer, t)
    BY <1>1, RunningThread DEF PcValues, At
  <1>3. sys_time_us + us \in Nat
    BY TimesAreNaturals DEF ListInv, TypeOK
  <1>4. /\ timer' \in LinkStates(TimerNode) /\ Consistent(timer', TimerNode)
        /\ \A x \in Timer \ {t} : Detached(timer, x) => Detached(timer', x)
    BY <1>1, <1>2, TimerInsertRings DEF ListInv, TypeOK, ListsConsistent
  <1>5. \A m \in ListNode \ {t} : Home'[m] = Home[m]
    BY <1>1 DEF Home, ListInv, TypeOK
  <1>6. ListsConsistent' /\ ListsApart'
    <2> HIDE DEF Home
    <2> QED
      BY <1>1, <1>2, <1>4, <1>5, Rehome
         DEF ListInv, TypeOK, ListsConsistent, ListsApart
  <1>7. TypeOK'
    BY <1>1, <1>3, <1>4 DEF ListInv, TypeOK, MutexInv, SyncTypes
  <1>8. CurrentOffList' /\ CurrentReady'
    BY <1>1, <1>2 DEF ListInv, TypeOK, CurrentOffList, CurrentReady, thread_is_run, At
  <1>9. TimerOff'
    BY <1>1, <1>4 DEF ListInv, TypeOK, TimerOff, Timer
  <1>10. CallObject'
    <2>1. \A x \in UTimer : Detached(timer, x) => Detached(timer', x)
      BY <1>4, ObjectsDistinct DEF Timer
    <2>2. \A u \in Thread : /\ flags[u] = "NEW" => flags'[u] = "NEW"
                            /\ flags'[u] = "WAIT" => flags[u] = "WAIT"
      BY <1>1, <1>2 DEF ListInv, TypeOK
    <2>3. \A d \in Ctx : d # t => pc'[d] = pc[d]
      BY <1>1 DEF ListInv, TypeOK
    <2>4. pc'[t] = "usleep_sched" /\ idle \in Ctx /\ \A u \in Thread : u \in Ctx
      BY <1>1, <1>2 DEF ListInv, TypeOK, Ctx
    <2> QED
      BY <1>1, <1>2, <2>1, <2>2, <2>3, <2>4 DEF ListInv, CallObject
  <1> QED
    BY <1>6, <1>7, <1>8, <1>9, <1>10 DEF ListInv, MutexInv, NoSelfWake

LEMMA RingsTimerAddUs ==
  ASSUME ListInv, NEW t \in Thread, NEW x \in UTimer, NEW us \in TimerUs,
         timer_add_us(t, x, us), MutexInv', ~SelfWake'
  PROVE  ListInv'
  <1>1. /\ At(t, {"user"}) /\ Detached(timer, x) /\ \A c \in Ctx : obj[c] # x
        /\ timer_us' = [timer_us EXCEPT ![x] = sys_time_us + us]
        /\ obj' = [obj EXCEPT ![t] = x]
        /\ pc' = [pc EXCEPT ![t] = "timer_add"]
        /\ UNCHANGED <<list, timer, flags, cpuVars, deadline, need_wakeup, syncVars>>
    BY DEF timer_add_us, Goto
  <1> USE DEF cpuVars, syncVars
  <1>2. t \in Ctx /\ t # idle /\ flags[t] = "RUN"
    BY <1>1, RunningThread DEF PcValues, At
  <1>3. TypeOK'
    <2>1. sys_time_us + us \in Nat
      BY TimesAreNaturals DEF ListInv, TypeOK
    <2> QED
      BY <1>1, <2>1 DEF ListInv, TypeOK, MutexInv, SyncTypes
  <1>4. CurrentReady'
    BY <1>1, <1>2 DEF ListInv, CurrentReady, At
  <1>5. CallObject'
    <2>1. \A d \in Ctx : d # t => pc'[d] = pc[d] /\ obj'[d] = obj[d]
      BY <1>1 DEF ListInv, TypeOK
    <2>2. pc'[t] = "timer_add" /\ obj'[t] = x
      BY <1>1, <1>2 DEF ListInv, TypeOK
    <2>3. idle \in Ctx /\ \A u \in Thread : u \in Ctx
      BY DEF Ctx
    <2> QED
      BY <1>1, <1>2, <2>1, <2>2, <2>3 DEF ListInv, CallObject
  <1>6. \A u \in Thread : flags[u] = "WAIT" => obj'[u] = obj[u]
    BY <1>1, <1>2 DEF ListInv, TypeOK
  <1> QED
    BY <1>1, <1>3, <1>4, <1>5, <1>6, QuietStep

\* Steps that change only the timers, and the point their thread is at.
LEMMA TimerStep ==
  ASSUME ListInv, UNCHANGED <<list, flags, current>>,
         \A u \in Thread : flags[u] = "WAIT" => obj'[u] = obj[u],
         \A u \in Thread : Detached(timer, u) => Detached(timer', u),
         Consistent(timer', TimerNode),
         MutexInv', TypeOK', CurrentReady', CallObject', ~SelfWake'
  PROVE  ListInv'
  <1>1. ListsConsistent' /\ ListsApart'
    BY SameHome DEF ListInv, ListsConsistent, ListsApart
  <1>2. CurrentOffList' /\ TimerOff'
    BY DEF ListInv, CurrentOffList, TimerOff, thread_is_run
  <1> QED
    BY <1>1, <1>2 DEF ListInv, MutexInv, NoSelfWake

LEMMA RingsTimerAddInsert ==
  ASSUME ListInv, NEW t \in Thread, timer_add_insert(t), MutexInv', ~SelfWake'
  PROVE  ListInv'
  <1> DEFINE x == obj[t]
  <1>1. /\ At(t, {"timer_add"})
        /\ TimerInsert(timer, x, timer_us[x])
        /\ pc' = [pc EXCEPT ![t] = "user"]
        /\ obj' = [obj EXCEPT ![t] = NULL]
        /\ deadline' = [deadline EXCEPT ![t] = 0]
        /\ need_wakeup' = [need_wakeup EXCEPT ![t] = FALSE]
        /\ UNCHANGED <<list, timer_us, flags, cpuVars, syncVars>>
    BY DEF timer_add_insert, Return
  <1> USE DEF cpuVars, syncVars
  <1>2. t \in Ctx /\ t # idle /\ flags[t] = "RUN"
    BY <1>1, RunningThread DEF PcValues, At
  <1>3. /\ x \in UTimer /\ x \in Timer /\ Detached(timer, x)
        /\ \A d \in Ctx : d # t => obj[d] # x
    BY <1>1, <1>2 DEF ListInv, CallObject, At, Timer
  <1> HIDE DEF x
  <1>4. /\ timer' \in LinkStates(TimerNode) /\ Consistent(timer', TimerNode)
        /\ \A m \in Timer \ {x} : Detached(timer, m) => Detached(timer', m)
    BY <1>1, <1>3, TimerInsertRings DEF ListInv, TypeOK, ListsConsistent
  <1>5. TypeOK'
    BY <1>1, <1>4 DEF ListInv, TypeOK, MutexInv, SyncTypes
  <1>6. CurrentReady'
    BY <1>1, <1>2 DEF ListInv, CurrentReady, At
  <1>7. CallObject'
    <2>1. \A d \in Ctx : d # t => pc'[d] = pc[d] /\ obj'[d] = obj[d]
      BY <1>1 DEF ListInv, TypeOK
    <2>2. pc'[t] = "user" /\ obj'[t] = NULL /\ NULL \notin Timer
      BY <1>1, <1>2, ObjectsDistinct DEF ListInv, TypeOK, Timer, Ctx
    <2>3. idle \in Ctx /\ \A u \in Thread : u \in Ctx
      BY DEF Ctx
    <2>4. \A m \in UTimer : m # x /\ Detached(timer, m) => Detached(timer', m)
      BY <1>4 DEF Timer
    <2> QED
      BY <1>1, <1>2, <1>3, <2>1, <2>2, <2>3, <2>4 DEF ListInv, CallObject
  <1>8. \A u \in Thread : flags[u] = "WAIT" => obj'[u] = obj[u]
    BY <1>1, <1>2 DEF ListInv, TypeOK
  <1>9. \A u \in Thread : Detached(timer, u) => Detached(timer', u)
    BY <1>3, <1>4, ObjectsDistinct DEF Timer
  <1> QED
    BY <1>1, <1>4, <1>5, <1>6, <1>7, <1>8, <1>9, TimerStep

LEMMA RingsTimerDel ==
  ASSUME ListInv, NEW t \in Thread, NEW x \in UTimer, snow_timer_del(t, x),
         MutexInv', ~SelfWake'
  PROVE  ListInv'
  <1>1. /\ timer' = list_remove(timer, x)
        /\ UNCHANGED <<list, timer_us, flags, cpuVars, callVars, syncVars>>
    BY DEF snow_timer_del
  <1> USE DEF cpuVars, callVars, syncVars
  <1>2. x \in TimerNode
    BY DEF Timer, TimerNode
  <1>3. /\ timer' \in LinkStates(TimerNode) /\ Consistent(timer', TimerNode)
        /\ \A m \in TimerNode : Detached(timer, m) => Detached(timer', m)
    BY <1>1, <1>2, RemoveConsistent DEF ListInv, TypeOK, ListsConsistent
  <1>4. TypeOK'
    BY <1>1, <1>3 DEF ListInv, TypeOK
  <1>5. CurrentReady'
    BY <1>1 DEF ListInv, CurrentReady
  <1>6. /\ \A u \in Thread : Detached(timer, u) => Detached(timer', u)
        /\ \A m \in UTimer : Detached(timer, m) => Detached(timer', m)
    BY <1>3 DEF Timer, TimerNode
  <1>7. CallObject'
    BY <1>1, <1>6 DEF ListInv, CallObject
  <1> QED
    BY <1>1, <1>3, <1>4, <1>5, <1>6, <1>7, TimerStep

-----------------------------------------------------------------------------
(***************************************************************************)
(* Semaphores and mutexes.                                                  *)
(***************************************************************************)

LEMMA RingsWaitBlock ==
  ASSUME ListInv, NEW t \in Thread, wait_get_block(t), MutexInv', ~SelfWake'
  PROVE  ListInv'
  <1> DEFINE o == obj[t]
  <1>1. /\ At(t, {"again"})
        /\ flags' = [flags EXCEPT ![t] = "WAIT"]
        /\ list' = list_fifo_put(list, t, o)
        /\ \/ /\ TimerInsert(timer, t, deadline[t])
              /\ timer_us' = [timer_us EXCEPT ![t] = deadline[t]]
           \/ UNCHANGED <<timer, timer_us>>
        /\ pc' = [pc EXCEPT ![t] = "wait_sched"]
        /\ UNCHANGED <<cpuVars, obj, deadline, need_wakeup, syncVars>>
    BY DEF wait_get_block, snow_timer_add, Goto
  <1> USE DEF cpuVars, syncVars
  <1>2. /\ t \in Ctx /\ t \in ListNode /\ t \in Timer /\ t # idle
        /\ flags[t] = "RUN" /\ Detached(list, t) /\ Detached(timer, t)
    BY <1>1, RunningThread DEF PcValues, At
  <1>3. o \in WaitObj /\ o \in ListNode /\ o \notin Thread /\ o # t
    <2>1. o \in WaitObj
      BY <1>1, <1>2 DEF ListInv, CallObject, At
    <2> QED
      BY <2>1, ObjectsDistinct DEF ListNode
  <1>4. /\ timer' \in LinkStates(TimerNode) /\ Consistent(timer', TimerNode)
        /\ \A x \in Timer \ {t} : Detached(timer, x) => Detached(timer', x)
        /\ timer_us' \in [Timer -> Nat]
    <2>1. CASE UNCHANGED <<timer, timer_us>>
      BY <2>1 DEF ListInv, TypeOK, ListsConsistent
    <2>2. CASE /\ TimerInsert(timer, t, deadline[t])
               /\ timer_us' = [timer_us EXCEPT ![t] = deadline[t]]
      <3>1. timer_us' \in [Timer -> Nat]
        BY <1>2, <2>2 DEF ListInv, TypeOK
      <3> QED
        BY <1>2, <2>2, <3>1, TimerInsertRings DEF ListInv, TypeOK, ListsConsistent
    <2> QED
      BY <1>1, <2>1, <2>2
  <1>5. \A m \in ListNode \ {t} : Home'[m] = Home[m]
    BY <1>1 DEF Home, ListInv, TypeOK
  <1>6. Home'[t] = Home'[o]
    BY <1>1, <1>2, <1>3 DEF Home, ListInv, TypeOK
  <1>7. /\ list' \in LinkStates(ListNode) /\ Consistent(list', ListNode)
        /\ Respects(list', ListNode, Home')
    <2> HIDE DEF Home, o
    <2>1. Respects(list, ListNode, Home')
      BY <1>2, <1>5, Rehome DEF ListInv, TypeOK, ListsConsistent, ListsApart
    <2> QED
      BY <1>1, <1>2, <1>3, <1>6, <2>1, FifoPutConsistent
         DEF ListInv, TypeOK, ListsConsistent
  <1>8. TypeOK'
    BY <1>1, <1>4, <1>7 DEF ListInv, TypeOK, MutexInv, SyncTypes
  <1>9. CurrentOffList' /\ CurrentReady'
    BY <1>1, <1>2 DEF ListInv, TypeOK, CurrentOffList, CurrentReady, thread_is_run, At
  <1>10. TimerOff'
    BY <1>1, <1>4 DEF ListInv, TypeOK, TimerOff, Timer
  <1>11. CallObject'
    <2>1. \A x \in UTimer : Detached(timer, x) => Detached(timer', x)
      BY <1>4, ObjectsDistinct DEF Timer
    <2>2. \A u \in Thread : /\ flags[u] = "NEW" => flags'[u] = "NEW"
                            /\ flags'[u] = "WAIT" /\ u # t => flags[u] = "WAIT"
      BY <1>1, <1>2 DEF ListInv, TypeOK
    <2>3. \A d \in Ctx : d # t => pc'[d] = pc[d]
      BY <1>1 DEF ListInv, TypeOK
    <2>4. pc'[t] = "wait_sched" /\ idle \in Ctx /\ \A u \in Thread : u \in Ctx
      BY <1>1, <1>2 DEF ListInv, TypeOK, Ctx
    <2> QED
      BY <1>1, <1>2, <1>3, <2>1, <2>2, <2>3, <2>4 DEF ListInv, CallObject
  <1> QED
    BY <1>4, <1>7, <1>8, <1>9, <1>10, <1>11
       DEF ListInv, MutexInv, ListsConsistent, ListsApart, NoSelfWake

\* wait_put: the first waiter, if there is one, is made ready.
LEMMA RingsWaitPut ==
  ASSUME ListInv, NEW t \in Thread, NEW o \in WaitObj, NEW freed,
         At(t, {"user"}), wait_put(t, o, freed),
         UNCHANGED <<timer_us, cpuVars, obj, deadline, need_wakeup>>,
         sem' \in [Sem -> Nat], MutexInv', ~SelfWake'
  PROVE  ListInv'
  <1> USE DEF cpuVars
  <1>1. t \in Ctx /\ t # idle /\ flags[t] = "RUN" /\ Detached(list, t)
    BY RunningThread DEF PcValues, At
  <1>2. CASE ~(freed /\ ~list_empty(list, o))
    <2>1. UNCHANGED <<list, timer, flags, pc>>
      BY <1>2 DEF wait_put
    <2>2. TypeOK'
      BY <2>1 DEF ListInv, TypeOK, MutexInv, SyncTypes
    <2>3. CurrentReady' /\ CallObject'
      BY <2>1 DEF ListInv, CurrentReady, CallObject
    <2> QED
      BY <2>1, <2>2, <2>3, QuietStep
  <1>3. CASE freed /\ ~list_empty(list, o)
    <2> DEFINE w == list_fifo_first(list, o)
               l == list_fifo_get(list, o)
    <2>1. snow_wakeup(l, timer, w) /\ pc' = [pc EXCEPT ![t] = "put_sched"]
      BY <1>3 DEF wait_put, Goto
    <2>2. w \in Thread /\ flags[w] = "WAIT" /\ w # t
      BY <1>1, <1>3, FirstWaiter
    <2>3. l = list_remove(list, w)
      BY DEF list_fifo_get
    <2> HIDE DEF w, l
    <2>4. /\ l \in LinkStates(ListNode) /\ Consistent(l, ListNode)
          /\ Respects(l, ListNode, Home)
          /\ \A m \in ListNode : Detached(list, m) => Detached(l, m)
      <3>1. w \in ListNode
        BY <2>2 DEF ListNode
      <3> QED
        BY <2>3, <3>1, RemoveConsistent
           DEF ListInv, TypeOK, ListsConsistent, ListsApart
    <2>5. /\ flags' = [flags EXCEPT ![w] = "RUN"]
          /\ list' \in LinkStates(ListNode) /\ Consistent(list', ListNode)
          /\ Respects(list', ListNode, Home')
          /\ \A u \in Thread \ {w} : Detached(l, u) => Detached(list', u)
          /\ timer' \in LinkStates(TimerNode) /\ Consistent(timer', TimerNode)
          /\ Detached(timer', w)
          /\ \A x \in Timer : Detached(timer, x) => Detached(timer', x)
      BY <2>1, <2>2, <2>4, WakeupRings DEF ListInv, TypeOK, ListsConsistent
    <2>6. TypeOK'
      BY <2>5 DEF ListInv, TypeOK, MutexInv, SyncTypes
    <2>7. CurrentOffList' /\ CurrentReady'
      <3>1. Detached(list', t)
        BY <1>1, <2>2, <2>4, <2>5 DEF ListNode
      <3> QED
        BY <1>1, <2>1, <2>2, <2>5, <3>1
           DEF ListInv, TypeOK, CurrentOffList, CurrentReady, thread_is_run, At
    <2>8. TimerOff'
      BY <2>2, <2>5 DEF ListInv, TypeOK, TimerOff, Timer
    <2>9. CallObject'
      <3>1. \A x \in UTimer : Detached(timer, x) => Detached(timer', x)
        BY <2>5 DEF Timer
      <3>2. \A u \in Thread : /\ flags[u] = "NEW" => flags'[u] = "NEW"
                              /\ flags'[u] = "WAIT" => flags[u] = "WAIT"
        BY <2>2, <2>5 DEF ListInv, TypeOK
      <3>3. \A d \in Ctx : d # t => pc'[d] = pc[d]
        BY <2>1 DEF ListInv, TypeOK
      <3>4. pc'[t] = "put_sched" /\ idle \in Ctx /\ \A u \in Thread : u \in Ctx
        BY <1>1, <2>1 DEF ListInv, TypeOK, Ctx
      <3> QED
        BY <1>1, <3>1, <3>2, <3>3, <3>4 DEF ListInv, CallObject
    <2> QED
      BY <2>5, <2>6, <2>7, <2>8, <2>9
         DEF ListInv, MutexInv, ListsConsistent, ListsApart, NoSelfWake
  <1> QED
    BY <1>2, <1>3

-----------------------------------------------------------------------------
(***************************************************************************)
(* The theorem.                                                             *)
(***************************************************************************)

LEMMA RingsInit == Init => ListInv
  <1> SUFFICES ASSUME Init PROVE ListInv
    OBVIOUS
  <1> USE ObjectsDistinct, TimesAreNaturals DEF Init
  <1>1. TypeOK
    BY UnlinkedConsistent DEF TypeOK, PcValues, Ctx
  <1>2. MutexOwnership
    BY MutexInit DEF MutexInv
  <1>3. ListsConsistent
    BY UnlinkedConsistent DEF ListsConsistent
  <1>4. ListsApart
    BY DEF ListsApart, Respects, Unlinked
  <1>5. CurrentOffList /\ CurrentReady /\ NoSelfWake
    BY DEF CurrentOffList, CurrentReady, NoSelfWake, SelfWake, thread_is_run
  <1>6. TimerOff
    BY UnlinkedConsistent DEF TimerOff, TimerNode, Timer
  <1>7. CallObject
    BY DEF CallObject, Ctx, Timer
  <1> QED
    BY <1>1, <1>2, <1>3, <1>4, <1>5, <1>6, <1>7 DEF ListInv

LEMMA RingsCall ==
  ASSUME ListInv, NEW t \in Thread, Call(t), MutexInv', ~SelfWake'
  PROVE  ListInv'
  <1>1. t \in Ctx /\ NULL \notin WaitObj
    BY ObjectsDistinct DEF Ctx
  <1>2. CASE \E new \in Thread : snow_thread_create(t, new)
    BY <1>1, <1>2, RingsCreate
  <1>3. CASE thread_end(t)
    BY <1>3, RingsLocal DEF thread_end, Goto, At, syncVars, ListInv, TypeOK
  <1>4. CASE \E us \in SleepUs : snow_usleep(t, us)
    BY <1>4, RingsUsleep
  <1>5. ASSUME NEW us \in TimerUs, snow_udelay(t, us)
        PROVE  ListInv'
    <2>1. deadline' \in [Ctx -> Nat]
      BY <1>1, <1>5, TimesAreNaturals DEF snow_udelay, ListInv, TypeOK
    <2> QED
      BY <1>5, <2>1, RingsLocal DEF snow_udelay, Goto, At, syncVars, ListInv, TypeOK
  <1>6. CASE \E x \in UTimer, us \in TimerUs : timer_add_us(t, x, us)
    BY <1>6, RingsTimerAddUs
  <1>7. CASE \E x \in UTimer : snow_timer_del(t, x)
    BY <1>7, RingsTimerDel
  <1>8. ASSUME NEW o \in WaitObj, NEW us \in WaitUs, wait_get_timeout(t, o, us)
        PROVE  ListInv'
    <2>1. us \in Nat /\ sys_time_us + us \in Nat /\ ULLONG_MAX \in Nat
      BY TimesAreNaturals DEF ListInv, TypeOK
    <2>2. deadline' \in [Ctx -> Nat]
      BY <1>1, <1>8, <2>1 DEF wait_get_timeout, ListInv, TypeOK
    <2>3. need_wakeup' \in [Ctx -> BOOLEAN]
      BY <1>1, <1>8 DEF wait_get_timeout, ListInv, TypeOK
    <2> QED
      BY <1>8, <2>2, <2>3, RingsLocal
         DEF wait_get_timeout, Goto, At, syncVars, ListInv, TypeOK
  <1>9. ASSUME NEW s \in Sem, snow_sem_up(t, s)
        PROVE  ListInv'
    <2>1. s \in WaitObj /\ sem' \in [Sem -> Nat]
      BY <1>9 DEF snow_sem_up, ListInv, TypeOK, WaitObj
    <2> QED
      BY <1>9, <2>1, RingsWaitPut DEF snow_sem_up
  <1>10. ASSUME NEW m \in Mutex, snow_mutex_unlock(t, m)
         PROVE  ListInv'
    <2>1. m \in WaitObj /\ sem' \in [Sem -> Nat]
      BY <1>10 DEF snow_mutex_unlock, ListInv, TypeOK, WaitObj
    <2> QED
      BY <1>10, <2>1, RingsWaitPut DEF snow_mutex_unlock
  <1> QED
    BY <1>2, <1>3, <1>4, <1>5, <1>6, <1>7, <1>8, <1>9, <1>10 DEF Call

LEMMA RingsKernelStep ==
  ASSUME ListInv, NEW t \in Thread, KernelStep(t), MutexInv', ~SelfWake'
  PROVE  ListInv'
  <1>1. t \in Ctx /\ NULL \notin WaitObj
    BY ObjectsDistinct DEF Ctx
  <1>2. Return(t) => /\ deadline' \in [Ctx -> Nat]
                     /\ need_wakeup' \in [Ctx -> BOOLEAN]
    BY <1>1 DEF Return, ListInv, TypeOK
  <1>3. CASE snow_sched(t)
    BY <1>3, RingsSched
  <1>4. CASE udelay_return(t)
    BY <1>2, <1>4, RingsLocal
       DEF udelay_return, Return, At, syncVars, ListInv, TypeOK
  <1>5. CASE timer_add_insert(t)
    BY <1>5, RingsTimerAddInsert
  <1>6. CASE wait_get_success(t)
    <2>1. sem' \in [Sem -> Nat]
      <3>1. CASE obj[t] \in Sem
        BY <1>6, <3>1 DEF wait_get_success, CanGet, sem_get, ListInv, TypeOK
      <3>2. CASE obj[t] \notin Sem
        BY <1>6, <3>2 DEF wait_get_success, mutex_get, ListInv, TypeOK
      <3> QED
        BY <3>1, <3>2
    <2> QED
      BY <1>2, <1>6, <2>1, RingsLocal DEF wait_get_success, Return, At
  <1>7. CASE wait_get_fail(t)
    BY <1>2, <1>7, RingsLocal
       DEF wait_get_fail, Return, At, syncVars, ListInv, TypeOK
  <1>8. CASE wait_get_block(t)
    BY <1>8, RingsWaitBlock
  <1> QED
    BY <1>3, <1>4, <1>5, <1>6, <1>7, <1>8 DEF KernelStep

LEMMA RingsStep ==
  ASSUME ListInv, [Next /\ ~SelfWake']_vars
  PROVE  ListInv'
  <1>1. CASE UNCHANGED vars
    <2>1. Home' = Home
      BY <1>1, SameHome DEF vars, callVars
    <2> QED
      BY <1>1, <2>1
         DEF vars, listVars, cpuVars, callVars, syncVars, ListInv, TypeOK,
             MutexOwnership, ListsConsistent, ListsApart, CurrentOffList,
             CurrentReady, TimerOff, CallObject, NoSelfWake, SelfWake,
             thread_is_run
  <1>2. CASE Next /\ ~SelfWake'
    <2>1. MutexInv'
      BY <1>2, RingsImplyMutex, MutexStep
    <2>2. ~SelfWake'
      BY <1>2
    <2>3. CASE SchedStep
      BY <2>1, <2>2, <2>3, RingsFireWakeup, RingsFireUser, RingsSwitch DEF SchedStep
    <2>4. CASE Idle
      BY <1>1, <2>1, <2>2, <2>4, RingsCreate, RingsCreatePut, ObjectsDistinct
         DEF Idle, spin, Ctx
    <2>5. ASSUME NEW t \in Thread,
                 Call(t) \/ KernelStep(t) \/ thread_create_put(t) \/ spin(t)
          PROVE  ListInv'
      <3>1. t \in Ctx
        BY DEF Ctx
      <3> QED
        BY <1>1, <2>1, <2>2, <2>5, <3>1, RingsCall, RingsKernelStep, RingsCreatePut
           DEF spin
    <2> QED
      BY <1>2, <2>1, <2>2, <2>3, <2>4, <2>5, RingsTick DEF Next
  <1> QED
    BY <1>1, <1>2

\* The invariant holds in every execution in which no thread is woken while
\* it is current: no interleaving of ticks, timeouts, wakeups and calls makes
\* list_insert link a node that is on a list.
THEOREM RingsInductive == TimelySpec => []ListInv
  <1> QED
    BY RingsInit, RingsStep, PTL DEF TimelySpec

\* In particular every list of snow.c can be walked both ways at any time.
THEOREM RingsIntact == TimelySpec => []ListsConsistent
  <1>1. ListInv => ListsConsistent
    BY DEF ListInv
  <1> QED
    BY <1>1, RingsInductive, PTL

\* And every variable has its type.
THEOREM KernelTyped == TimelySpec => []TypeOK
  <1>1. ListInv => TypeOK
    BY DEF ListInv
  <1> QED
    BY <1>1, RingsInductive, PTL

-----------------------------------------------------------------------------
(***************************************************************************)
(* Arguments with which no thread is woken while it is current.             *)
(***************************************************************************)

\* A step of a ready thread that does not arm a thread's timer.
LEMMA SafeCall ==
  ASSUME ListInv, SleepInv, NEW t \in Thread,
         At(t, PcValues \ {"usleep_sched", "wait_sched"}),
         current' = current, \A c \in Ctx : ~need_wakeup'[c],
         \A u \in Thread : Detached(timer, u) => Detached(timer', u)
  PROVE  SleepInv'
  <1>1. Detached(timer, t) /\ current = t
    BY RunningThread DEF At
  <1> QED
    BY <1>1 DEF SleepInv

\* A step within an exception that does not arm a thread's timer.
LEMMA SafeException ==
  ASSUME ListInv, SleepInv, handler' = "sched",
         UNCHANGED <<current, sys_time_us, need_wakeup>>,
         \A u \in Thread : Detached(timer, u) => Detached(timer', u),
         \A u \in Thread : timer_us'[u] = timer_us[u]
  PROVE  SleepInv'
BY DEF SleepInv

\* snow_wakeup only takes a timer off the list.
LEMMA WakeupTimers ==
  ASSUME ListInv, NEW tm \in LinkStates(TimerNode), Consistent(tm, TimerNode),
         NEW t \in Thread, NEW l, snow_wakeup(l, tm, t)
  PROVE  \A u \in Thread : Detached(tm, u) => Detached(timer', u)
  <1>1. t \in TimerNode /\ timer' = list_remove(tm, t)
    BY DEF TimerNode, Timer, snow_wakeup
  <1>2. \A u \in TimerNode : Detached(tm, u) => Detached(timer', u)
    BY <1>1, RemoveConsistent
  <1> QED
    BY <1>2 DEF TimerNode, Timer

LEMMA SafeSched ==
  ASSUME ListInv, SleepInv, SchedStep
  PROVE  SleepInv'
  <1> USE DEF cpuVars, callVars
  <1> DEFINE x == timer.next[timer_list]
             tm == list_remove(timer, x)
  <1>1. timer_list \in TimerNode /\ x \in TimerNode
    BY DEF ListInv, TypeOK, LinkStates, TimerNode
  <1>2. /\ tm \in LinkStates(TimerNode) /\ Consistent(tm, TimerNode)
        /\ Detached(tm, x)
        /\ \A u \in Thread : Detached(timer, u) => Detached(tm, u)
    BY <1>1, RemoveConsistent DEF ListInv, TypeOK, ListsConsistent, TimerNode, Timer
  <1>3. CASE sched_fire_wakeup
    <2>1. x \in Thread /\ snow_wakeup(list, tm, x) /\ handler = "sched"
          /\ UNCHANGED <<timer_us, cpuVars, callVars>>
      BY <1>3 DEF sched_fire_wakeup
    <2> HIDE DEF x, tm
    <2>2. \A u \in Thread : Detached(tm, u) => Detached(timer', u)
      BY <1>2, <2>1, WakeupTimers
    <2> QED
      BY <1>2, <2>1, <2>2, SafeException
  <1>4. CASE sched_fire_user
    <2>1. /\ x \in UTimer /\ handler = "sched"
          /\ \/ timer' = tm /\ UNCHANGED timer_us
             \/ \E us \in TimerUs : snow_timer_add(tm, x, sys_time_us + us)
          /\ UNCHANGED <<cpuVars, callVars>>
      BY <1>4 DEF sched_fire_user
    <2> HIDE DEF x, tm
    <2>2. x \in Timer /\ x \notin Thread
      BY <2>1, ObjectsDistinct DEF Timer
    <2>3. CASE timer' = tm /\ UNCHANGED timer_us
      BY <1>2, <2>1, <2>3, SafeException
    <2>4. CASE \E us \in TimerUs : snow_timer_add(tm, x, sys_time_us + us)
      <3> PICK us \in TimerUs : snow_timer_add(tm, x, sys_time_us + us)
        BY <2>4
      <3>1. \A u \in Thread : timer_us'[u] = timer_us[u]
        BY <2>2 DEF snow_timer_add, ListInv, TypeOK, Timer
      <3>2. \A u \in Timer \ {x} : Detached(tm, u) => Detached(timer', u)
        BY <1>2, <2>2, TimerInsertRings DEF snow_timer_add
      <3>3. \A u \in Thread : Detached(timer, u) => Detached(timer', u)
        BY <1>2, <2>2, <3>2 DEF Timer
      <3> QED
        BY <2>1, <3>1, <3>3, SafeException
    <2> QED
      BY <2>1, <2>3, <2>4
  <1>5. CASE sched_switch
    <2>1. UNCHANGED <<timer, timer_us, flags, sys_time_us, callVars>>
      BY <1>5 DEF sched_switch
    <2>2. current' \in Thread => Detached(timer', current')
      BY <1>5, <2>1, SwitchRings, ObjectsDistinct DEF ListInv, TimerOff
    <2> QED
      BY <2>1, <2>2 DEF SleepInv
  <1> QED
    BY <1>3, <1>4, <1>5 DEF SchedStep

LEMMA SafeUsleep ==
  ASSUME SafeTimes, ListInv, SleepInv, NEW t \in Thread, NEW us \in SleepUs,
         snow_usleep(t, us)
  PROVE  SleepInv'
  <1>1. /\ current = t /\ handler = "none"
        /\ timer_us' = [timer_us EXCEPT ![t] = sys_time_us + us]
        /\ UNCHANGED <<cpuVars, need_wakeup>>
    BY DEF snow_usleep, snow_timer_add, At
  <1>2. us \in Nat /\ us > TickUs /\ TickUs \in Nat /\ sys_time_us \in Nat
    BY TimesAreNaturals DEF SafeTimes, ListInv, TypeOK
  <1>3. timer_us'[t] = sys_time_us + us
    BY <1>1 DEF ListInv, TypeOK, Timer
  <1> QED
    BY <1>1, <1>2, <1>3 DEF SleepInv, cpuVars

LEMMA SafeBlock ==
  ASSUME ListInv, SleepInv, NEW t \in Thread, wait_get_block(t)
  PROVE  SleepInv'
  <1>1. At(t, {"again"}) /\ ~need_wakeup[t]
    BY DEF wait_get_block, SleepInv, Ctx
  <1>2. UNCHANGED <<timer, cpuVars, need_wakeup>>
    BY <1>1 DEF wait_get_block
  <1> QED
    BY <1>1, <1>2, SafeCall DEF SleepInv, cpuVars, At, PcValues

LEMMA SafePut ==
  ASSUME ListInv, SleepInv, NEW t \in Thread, NEW o \in WaitObj, NEW freed,
         At(t, {"user"}), wait_put(t, o, freed), UNCHANGED <<cpuVars, need_wakeup>>
  PROVE  SleepInv'
  <1>1. \A u \in Thread : Detached(timer, u) => Detached(timer', u)
    <2>1. CASE freed /\ ~list_empty(list, o)
      <3> DEFINE w == list_fifo_first(list, o)
                 l == list_fifo_get(list, o)
      <3>1. w \in Thread
        BY <2>1, FirstWaiter
      <3>2. snow_wakeup(l, timer, w)
        BY <2>1 DEF wait_put
      <3> HIDE DEF w, l
      <3> QED
        BY <3>1, <3>2, WakeupTimers DEF ListInv, TypeOK, ListsConsistent
    <2>2. CASE ~(freed /\ ~list_empty(list, o))
      BY <2>2 DEF wait_put
    <2> QED
      BY <2>1, <2>2
  <1> QED
    BY <1>1, SafeCall DEF SleepInv, cpuVars, At, PcValues

LEMMA SafeCreate ==
  ASSUME ListInv, SleepInv, NEW c \in Ctx, NEW new \in Thread,
         snow_thread_create(c, new)
  PROVE  SleepInv'
  <1>1. \A u \in Thread : Detached(timer, u) => Detached(timer', u)
    BY DEF snow_thread_create, list_init, Detached, ListInv, TypeOK, LinkStates,
           TimerNode, Timer
  <1>2. UNCHANGED <<current, sys_time_us, timer_us, need_wakeup>> /\ handler' = "sched"
    BY DEF snow_thread_create, entry_handler
  <1> QED
    BY <1>1, <1>2, SafeException

LEMMA SafeCalls ==
  ASSUME SafeTimes, ListInv, SleepInv, NEW t \in Thread, Call(t)
  PROVE  SleepInv'
  <1> USE DEF listVars, cpuVars, callVars
  <1>1. t \in Ctx
    BY DEF Ctx
  <1>2. CASE \E new \in Thread : snow_thread_create(t, new)
    BY <1>1, <1>2, SafeCreate
  <1>3. CASE thread_end(t)
    BY <1>3, SafeCall DEF thread_end, At, PcValues, SleepInv
  <1>4. CASE \E us \in SleepUs : snow_usleep(t, us)
    BY <1>4, SafeUsleep
  <1>5. CASE \E us \in TimerUs : snow_udelay(t, us)
    BY <1>5, SafeCall DEF snow_udelay, At, PcValues, SleepInv
  <1>6. CASE \E x \in UTimer, us \in TimerUs : timer_add_us(t, x, us)
    BY <1>6, SafeCall DEF timer_add_us, At, PcValues, SleepInv
  <1>7. ASSUME NEW x \in UTimer, snow_timer_del(t, x)
        PROVE  SleepInv'
    <2>1. \A u \in TimerNode : Detached(timer, u) => Detached(timer', u)
      BY <1>7, RemoveConsistent
         DEF snow_timer_del, ListInv, TypeOK, ListsConsistent, TimerNode, Timer
    <2>2. \A u \in Thread : Detached(timer, u) => Detached(timer', u)
      BY <2>1 DEF TimerNode, Timer
    <2> QED
      BY <1>7, <2>2, SafeCall DEF snow_timer_del, At, PcValues, SleepInv
  <1>8. ASSUME NEW o \in WaitObj, NEW us \in WaitUs, wait_get_timeout(t, o, us)
        PROVE  SleepInv'
    <2>1. us \in {0, UINT_MAX}
      BY DEF SafeTimes
    <2>2. \A c \in Ctx : ~need_wakeup'[c]
      BY <1>8, <2>1 DEF wait_get_timeout, SleepInv, ListInv, TypeOK
    <2> QED
      BY <1>8, <2>2, SafeCall DEF wait_get_timeout, At, PcValues
  <1>9. CASE \E s \in Sem : snow_sem_up(t, s)
    BY <1>9, SafePut DEF snow_sem_up, WaitObj
  <1>10. CASE \E m \in Mutex : snow_mutex_unlock(t, m)
    BY <1>10, SafePut DEF snow_mutex_unlock, WaitObj
  <1> QED
    BY <1>2, <1>3, <1>4, <1>5, <1>6, <1>7, <1>8, <1>9, <1>10, Call(t) DEF Call

LEMMA SafeKernelStep ==
  ASSUME ListInv, SleepInv, NEW t \in Thread, KernelStep(t)
  PROVE  SleepInv'
  <1> USE DEF listVars, cpuVars, callVars
  <1>1. Return(t) => \A c \in Ctx : ~need_wakeup'[c]
    BY DEF Return, SleepInv, ListInv, TypeOK
  <1>2. CASE snow_sched(t)
    BY <1>2, SafeException DEF snow_sched, entry_handler
  <1>3. CASE udelay_return(t)
    BY <1>1, <1>3, SafeCall DEF udelay_return, At, PcValues
  <1>4. CASE timer_add_insert(t)
    <2>1. /\ obj[t] \in UTimer /\ obj[t] \in Timer /\ obj[t] \notin Thread
          /\ Detached(timer, obj[t])
      BY <1>4, ObjectsDistinct DEF timer_add_insert, At, ListInv, CallObject, Ctx, Timer
    <2>2. \A u \in Timer \ {obj[t]} : Detached(timer, u) => Detached(timer', u)
      BY <1>4, <2>1, TimerInsertRings
         DEF timer_add_insert, ListInv, TypeOK, ListsConsistent
    <2>3. \A u \in Thread : Detached(timer, u) => Detached(timer', u)
      BY <2>1, <2>2 DEF Timer
    <2> QED
      BY <1>1, <1>4, <2>3, SafeCall DEF timer_add_insert, At, PcValues
  <1>5. CASE wait_get_success(t)
    BY <1>1, <1>5, SafeCall DEF wait_get_success, At, PcValues
  <1>6. CASE wait_get_fail(t)
    BY <1>1, <1>6, SafeCall DEF wait_get_fail, At, PcValues
  <1>7. CASE wait_get_block(t)
    BY <1>7, SafeBlock
  <1> QED
    BY <1>2, <1>3, <1>4, <1>5, <1>6, <1>7 DEF KernelStep

LEMMA SafeStep ==
  ASSUME SafeTimes, ListInv, SleepInv, [Next]_vars
  PROVE  ListInv' /\ SleepInv'
  <1> SUFFICES SleepInv'
    <2>1. SleepInv' => ~SelfWake'
      BY DEF SleepInv, SelfWake
    <2> QED
      BY <2>1, RingsStep
  <1> USE DEF cpuVars, callVars, listVars
  <1>1. CASE UNCHANGED vars
    BY <1>1 DEF vars, SleepInv
  <1>2. CASE snow_tick_handler
    BY <1>2, TimesAreNaturals DEF snow_tick_handler, SleepInv, ListInv, TypeOK, entry_handler
  <1>3. ASSUME NEW c \in Ctx, thread_create_put(c)
        PROVE  SleepInv'
    BY <1>3 DEF thread_create_put, SleepInv
  <1>4. CASE Idle
    BY <1>1, <1>3, <1>4, SafeCreate, ObjectsDistinct DEF Idle, spin, Ctx
  <1>5. ASSUME NEW t \in Thread,
               Call(t) \/ KernelStep(t) \/ thread_create_put(t) \/ spin(t)
        PROVE  SleepInv'
    <2>1. t \in Ctx
      BY DEF Ctx
    <2> QED
      BY <1>1, <1>3, <1>5, <2>1, SafeCalls, SafeKernelStep DEF spin
  <1> QED
    BY <1>1, <1>2, <1>4, <1>5, SafeSched DEF Next

\* ListInv and SleepInv together are inductive without restricting the steps.
LEMMA SafeInductive ==
  ASSUME SafeTimes
  PROVE  Spec => [](ListInv /\ SleepInv)
  <1>1. Init => SleepInv
    BY ObjectsDistinct DEF Init, SleepInv
  <1>2. (ListInv /\ SleepInv) /\ [Next]_vars => (ListInv /\ SleepInv)'
    BY SafeStep
  <1> QED
    BY <1>1, <1>2, RingsInit, PTL DEF Spec

\* snow_usleep and wait_get_timeout call snow_sched() with interrupts enabled
\* and their own timer armed.  With the arguments SafeTimes allows, the tick
\* that may come in between never finds that timer due: no thread is woken
\* while it is current.
THEOREM SafeTimesSuffice ==
  ASSUME SafeTimes
  PROVE  Spec => []NoSelfWake
  <1>1. ListInv => NoSelfWake
    BY DEF ListInv
  <1> QED
    BY <1>1, SafeInductive, PTL

\* So for such an application every list helper of snow.c is called within
\* its conditions, in every execution: all rings stay intact.
THEOREM SafeTimesRings ==
  ASSUME SafeTimes
  PROVE  Spec => []ListsConsistent
  <1>1. ListInv => ListsConsistent
    BY DEF ListInv
  <1> QED
    BY <1>1, SafeInductive, PTL

-----------------------------------------------------------------------------
(***************************************************************************)
(* The order of the timer list.                                             *)
(***************************************************************************)

\* list_remove of any timer.
LEMMA SortedRemove ==
  ASSUME NEW tm \in LinkStates(TimerNode), Consistent(tm, TimerNode),
         NEW us \in [Timer -> Nat], Sorted(tm, us), NEW n \in Timer
  PROVE  Sorted(list_remove(tm, n), us)
  <1> DEFINE p == tm.prev[n]
             x == tm.next[n]
             r == list_remove(tm, n)
  <1>1. n \in TimerNode /\ p \in TimerNode /\ x \in TimerNode /\ tm.next[p] = n
    BY DEF TimerNode, LinkStates, Consistent
  <1>2. \A m \in TimerNode : r.next[m] = IF m = n THEN n
                                         ELSE IF m = p THEN x ELSE tm.next[m]
    BY <1>1 DEF list_remove, list_init, LinkStates
  <1> HIDE DEF r
  <1> SUFFICES ASSUME NEW m \in Timer, r.next[m] \in Timer
               PROVE  us[m] <= us[r.next[m]]
    BY DEF Sorted, r
  <1>3. m \in TimerNode
    BY DEF TimerNode
  <1>4. CASE m = n
    BY <1>2, <1>3, <1>4
  <1>5. CASE m # n /\ m = p
    <2>1. us[p] <= us[n] /\ us[n] <= us[x]
      BY <1>1, <1>2, <1>3, <1>5 DEF Sorted
    <2> QED
      BY <1>2, <1>3, <1>5, <2>1
  <1>6. CASE m # n /\ m # p
    BY <1>2, <1>3, <1>6 DEF Sorted
  <1> QED
    BY <1>4, <1>5, <1>6

\* snow_timer_add of a timer that is not pending, with its new time v.
LEMMA SortedInsert ==
  ASSUME NEW tm \in LinkStates(TimerNode), Consistent(tm, TimerNode),
         timer_us \in [Timer -> Nat], Sorted(tm, timer_us),
         NEW x \in Timer, Detached(tm, x), NEW v \in Nat, TimerInsert(tm, x, v)
  PROVE  Sorted(timer', [timer_us EXCEPT ![x] = v])
  <1> DEFINE us == [timer_us EXCEPT ![x] = v]
  <1>1. PICK s \in TimerNode \ {x} :
           IsSlot(tm, s, v) /\ timer' = list_insert(tm, x, s, tm.next[s])
    BY DEF TimerInsert
  <1> DEFINE n == tm.next[s]
  <1>2. x \in TimerNode /\ n \in TimerNode /\ n # x
    <2>1. x \in TimerNode
      BY DEF TimerNode
    <2>2. tm.prev[x] = x
      BY <2>1, DetachedBothWays DEF Detached
    <2> QED
      BY <1>1, <2>1, <2>2 DEF LinkStates, Consistent
  <1>3. \A m \in TimerNode : timer'.next[m] = IF m = s THEN x
                                ELSE IF m = x THEN n ELSE tm.next[m]
    BY <1>1, <1>2 DEF list_insert, LinkStates
  <1>4. us[x] = v /\ \A m \in Timer \ {x} : us[m] = timer_us[m]
    OBVIOUS
  <1>5. timer_list \notin Timer
    BY ObjectsDistinct
  <1> HIDE DEF us, n
  <1> SUFFICES ASSUME NEW m \in Timer, timer'.next[m] \in Timer
               PROVE  us[m] <= us[timer'.next[m]]
    BY DEF Sorted, us
  <1>6. m \in TimerNode
    BY DEF TimerNode
  <1>7. CASE m = s
    <2>1. timer_us[s] < v
      BY <1>1, <1>5, <1>7 DEF IsSlot
    <2> QED
      BY <1>1, <1>3, <1>4, <1>6, <1>7, <2>1
  <1>8. CASE m = x
    <2>1. timer'.next[m] = n /\ n \in Timer
      BY <1>1, <1>3, <1>6, <1>8
    <2>2. timer_us[n] >= v
      BY <1>1, <1>5, <2>1 DEF IsSlot, n
    <2> QED
      BY <1>2, <1>4, <1>8, <2>1, <2>2
  <1>9. CASE m # s /\ m # x
    <2>1. timer'.next[m] = tm.next[m] /\ tm.next[m] # x
      BY <1>2, <1>3, <1>6, <1>9 DEF LinkStates, Consistent, Detached
    <2> QED
      BY <1>4, <1>9, <2>1 DEF Sorted
  <1> QED
    BY <1>7, <1>8, <1>9

\* The time of a timer that is not pending may change.
LEMMA SortedDetached ==
  ASSUME NEW tm \in LinkStates(TimerNode), Consistent(tm, TimerNode),
         NEW us \in [Timer -> Nat], Sorted(tm, us),
         NEW x \in Timer, Detached(tm, x), NEW v \in Nat
  PROVE  Sorted(tm, [us EXCEPT ![x] = v])
  <1>1. \A m \in Timer \ {x} : tm.next[m] # x
    BY DEF LinkStates, Consistent, Detached, TimerNode
  <1> QED
    BY <1>1 DEF Sorted, Detached

\* Every step of the kernel keeps the order.
LEMMA SortedStep ==
  ASSUME ListInv, TimersSorted, [Next]_vars
  PROVE  TimersSorted'
  <1> USE DEF TimersSorted
  <1>1. /\ timer \in LinkStates(TimerNode) /\ Consistent(timer, TimerNode)
        /\ timer_us \in [Timer -> Nat] /\ Sorted(timer, timer_us)
    BY DEF ListInv, TypeOK, ListsConsistent
  <1>2. CASE UNCHANGED <<timer, timer_us>>
    BY <1>1, <1>2 DEF Sorted
  <1>3. ASSUME NEW x \in Timer, timer' = list_remove(timer, x), timer_us' = timer_us
        PROVE  TimersSorted'
    BY <1>1, <1>3, SortedRemove
  <1>4. ASSUME NEW x \in Timer, Detached(timer, x), NEW v \in Nat,
               snow_timer_add(timer, x, v)
        PROVE  TimersSorted'
    BY <1>1, <1>4, SortedInsert DEF snow_timer_add
  <1>5. CASE sched_fire_wakeup
    <2> DEFINE t == timer.next[timer_list]
               tm == list_remove(timer, t)
    <2>1. t \in Thread /\ timer' = list_remove(tm, t) /\ timer_us' = timer_us
      BY <1>5 DEF sched_fire_wakeup, snow_wakeup
    <2> HIDE DEF t
    <2>2. t \in Timer /\ t \in TimerNode
      BY <2>1 DEF Timer, TimerNode
    <2>3. tm \in LinkStates(TimerNode) /\ Consistent(tm, TimerNode) /\ Sorted(tm, timer_us)
      BY <1>1, <2>2, RemoveConsistent, SortedRemove
    <2> HIDE DEF tm
    <2> QED
      BY <1>1, <2>1, <2>2, <2>3, SortedRemove
  <1>6. CASE sched_fire_user
    <2> DEFINE x == timer.next[timer_list]
               tm == list_remove(timer, x)
    <2>1. /\ x \in UTimer
          /\ \/ timer' = tm /\ UNCHANGED timer_us
             \/ \E us \in TimerUs : snow_timer_add(tm, x, sys_time_us + us)
      BY <1>6 DEF sched_fire_user
    <2> HIDE DEF x
    <2>2. x \in Timer /\ x \in TimerNode
      BY <2>1 DEF Timer, TimerNode
    <2>3. /\ tm \in LinkStates(TimerNode) /\ Consistent(tm, TimerNode)
          /\ Sorted(tm, timer_us) /\ Detached(tm, x)
      BY <1>1, <2>2, RemoveConsistent, SortedRemove
    <2> HIDE DEF tm
    <2>4. CASE timer' = tm /\ UNCHANGED timer_us
      BY <2>3, <2>4
    <2>5. CASE \E us \in TimerUs : snow_timer_add(tm, x, sys_time_us + us)
      <3> PICK us \in TimerUs : snow_timer_add(tm, x, sys_time_us + us)
        BY <2>5
      <3>1. sys_time_us + us \in Nat
        BY TimesAreNaturals DEF ListInv, TypeOK
      <3> QED
        BY <1>1, <2>2, <2>3, <3>1, SortedInsert DEF snow_timer_add
    <2> QED
      BY <2>1, <2>4, <2>5
  <1>7. ASSUME NEW c \in Ctx, NEW new \in Thread, snow_thread_create(c, new)
        PROVE  TimersSorted'
    <2>1. new \in TimerNode /\ Detached(timer, new)
      BY <1>7 DEF snow_thread_create, ListInv, TimerOff, TimerNode, Timer
    <2>2. timer.next[new] = new /\ timer.prev[new] = new
      BY <1>1, <2>1, DetachedBothWays DEF Detached
    <2>3. timer' = timer
      BY <1>1, <1>7, <2>1, <2>2 DEF snow_thread_create, list_init, LinkStates
    <2> QED
      BY <1>2, <1>7, <2>3 DEF snow_thread_create
  <1>8. ASSUME NEW t \in Thread, NEW us \in SleepUs, snow_usleep(t, us)
        PROVE  TimersSorted'
    <2>1. t \in Timer /\ Detached(timer, t)
      BY <1>8, RunningThread DEF snow_usleep, At, PcValues
    <2>2. sys_time_us + us \in Nat
      BY TimesAreNaturals DEF ListInv, TypeOK
    <2> QED
      BY <1>4, <1>8, <2>1, <2>2 DEF snow_usleep
  <1>9. ASSUME NEW t \in Thread, wait_get_block(t)
        PROVE  TimersSorted'
    <2>1. t \in Timer /\ Detached(timer, t) /\ t \in Ctx
      BY <1>9, RunningThread DEF wait_get_block, At, PcValues
    <2>2. deadline[t] \in Nat
      BY <2>1 DEF ListInv, TypeOK
    <2> QED
      BY <1>2, <1>4, <1>9, <2>1, <2>2 DEF wait_get_block
  <1>10. ASSUME NEW t \in Thread, NEW x \in UTimer, NEW us \in TimerUs,
                timer_add_us(t, x, us)
         PROVE  TimersSorted'
    <2>1. sys_time_us + us \in Nat /\ x \in Timer
      BY TimesAreNaturals DEF ListInv, TypeOK, Timer
    <2> QED
      BY <1>1, <1>10, <2>1, SortedDetached DEF timer_add_us
  <1>11. ASSUME NEW t \in Thread, timer_add_insert(t)
         PROVE  TimersSorted'
    <2>1. obj[t] \in Timer /\ Detached(timer, obj[t])
      BY <1>11 DEF timer_add_insert, At, ListInv, CallObject, Ctx, Timer
    <2>2. timer_us' = [timer_us EXCEPT ![obj[t]] = timer_us[obj[t]]]
      BY <1>1, <1>11, <2>1 DEF timer_add_insert
    <2>3. timer_us[obj[t]] \in Nat
      BY <1>1, <2>1
    <2> QED
      BY <1>1, <1>11, <2>1, <2>2, <2>3, SortedInsert DEF timer_add_insert
  <1>12. ASSUME NEW t \in Thread, NEW o \in WaitObj, NEW freed, wait_put(t, o, freed),
                timer_us' = timer_us
         PROVE  TimersSorted'
    <2>1. CASE freed /\ ~list_empty(list, o)
      <3> DEFINE w == list_fifo_first(list, o)
      <3>1. w \in Timer
        BY <2>1, FirstWaiter DEF Timer
      <3>2. timer' = list_remove(timer, w)
        BY <1>12, <2>1 DEF wait_put, snow_wakeup
      <3> QED
        BY <1>3, <1>12, <3>1, <3>2
    <2>2. CASE ~(freed /\ ~list_empty(list, o))
      BY <1>2, <1>12, <2>2 DEF wait_put
    <2> QED
      BY <2>1, <2>2
  <1> HIDE DEF TimersSorted
  <1>13. ASSUME NEW t \in Thread, Call(t)
         PROVE  TimersSorted'
    <2>1. CASE \E s \in Sem : snow_sem_up(t, s)
      BY <1>12, <2>1 DEF snow_sem_up, WaitObj
    <2>2. CASE \E m \in Mutex : snow_mutex_unlock(t, m)
      BY <1>12, <2>2 DEF snow_mutex_unlock, WaitObj
    <2>3. CASE \E x \in UTimer : snow_timer_del(t, x)
      BY <1>3, <2>3 DEF snow_timer_del, Timer
    <2>4. CASE thread_end(t) \/ (\E us \in TimerUs : snow_udelay(t, us))
               \/ (\E o \in WaitObj, us \in WaitUs : wait_get_timeout(t, o, us))
      BY <1>2, <2>4 DEF thread_end, snow_udelay, wait_get_timeout, listVars
    <2> QED
      BY <1>7, <1>8, <1>10, <1>13, <2>1, <2>2, <2>3, <2>4 DEF Call, Ctx
  <1>14. ASSUME NEW t \in Thread, KernelStep(t)
         PROVE  TimersSorted'
    BY <1>2, <1>9, <1>11, <1>14
       DEF KernelStep, snow_sched, udelay_return, wait_get_success, wait_get_fail,
           listVars
  <1>15. ASSUME NEW c \in Ctx, thread_create_put(c) \/ spin(c)
         PROVE  TimersSorted'
    BY <1>2, <1>15 DEF thread_create_put, spin, vars, listVars
  <1>16. CASE Idle
    BY <1>7, <1>15, <1>16, ObjectsDistinct DEF Idle, Ctx
  <1>17. CASE UNCHANGED vars \/ snow_tick_handler \/ sched_switch
    BY <1>2, <1>17 DEF vars, snow_tick_handler, sched_switch, listVars
  <1> QED
    BY <1>5, <1>6, <1>13, <1>14, <1>15, <1>16, <1>17 DEF Next, SchedStep, Ctx

\* The loop of __snow_sched, which stops at the first timer that is not due,
\* relies on it: timers are inserted, deleted, fired and armed again in every
\* order, and the list stays sorted by time.
THEOREM TimersStaySorted == TimelySpec => []TimersSorted
  <1>1. Init => TimersSorted
    BY ObjectsDistinct DEF Init, TimersSorted, Sorted, Unlinked, TimerNode
  <1>2. TimersSorted /\ ListInv /\ [Next /\ ~SelfWake']_vars => TimersSorted'
    BY SortedStep
  <1> QED
    BY <1>1, <1>2, RingsInductive, PTL DEF TimelySpec

-----------------------------------------------------------------------------
(***************************************************************************)
(* Every thread is in its place.                                            *)
(***************************************************************************)

\* Waiting, or ready without the CPU.
Queued(t) == flags[t] = "WAIT" \/ (flags[t] = "RUN" /\ t # current)

Armed(t) == flags[t] = "SLEEPING" \/ (flags[t] = "WAIT" /\ need_wakeup[t])

\* The part of the invariant that is about reachability.
PlaceInv ==
  /\ \A t \in Thread : Queued(t) => t \in Ring(list, ListNode, Home[t])
  /\ \A t \in Thread : Armed(t) => ~Detached(timer, t)
  /\ \A x \in Timer :
       ~Detached(timer, x) => x \in Ring(timer, TimerNode, timer_list)

LEMMA NodesFinite == IsFiniteSet(ListNode) /\ IsFiniteSet(TimerNode)
  <1> DEFINE M == Thread \cup WaitObj \cup UTimer
  <1>1. IsFiniteSet(M \cup {sched_list}) /\ IsFiniteSet(M \cup {timer_list})
    BY ObjectsFinite, FS_AddElement
  <1>2. ListNode \in SUBSET (M \cup {sched_list}) /\ TimerNode \in SUBSET (M \cup {timer_list})
    BY DEF ListNode, TimerNode, Timer
  <1> QED
    BY <1>1, <1>2, FS_Subset

\* Where a queued thread belongs is the head of a list.
LEMMA QueuedHome ==
  ASSUME ListInv, NEW t \in Thread, flags[t] \in {"RUN", "WAIT"}
  PROVE  /\ Home[t] \in ListNode \ Thread
         /\ flags[t] = "RUN" => Home[t] = sched_list
         /\ flags[t] = "WAIT" => Home[t] = obj[t] /\ obj[t] \in WaitObj
  <1>1. t \in ListNode
    BY DEF ListNode
  <1>2. CASE flags[t] = "RUN"
    BY <1>1, <1>2, ObjectsDistinct DEF Home, ListNode
  <1>3. CASE flags[t] = "WAIT"
    BY <1>1, <1>3, ObjectsDistinct DEF Home, ListNode, ListInv, CallObject
  <1> QED
    BY <1>2, <1>3

\* The invariant puts every thread where ThreadPlaced wants it.
LEMMA PlacedByRings ==
  ASSUME ListInv, PlaceInv
  PROVE  ThreadPlaced
  <1> SUFFICES ASSUME NEW t \in Thread
               PROVE  LET ready == OnList(list, ListNode, sched_list)
                          timed == OnList(timer, TimerNode, timer_list)
                      IN  CASE flags[t] = "RUN" ->
                                 /\ t \in ready <=> t # current
                                 /\ t \notin timed
                            [] flags[t] = "SLEEPING" ->
                                 t \in timed /\ Detached(list, t)
                            [] flags[t] = "WAIT" ->
                                 /\ obj[t] \in WaitObj
                                 /\ t \in OnList(list, ListNode, obj[t])
                                 /\ need_wakeup[t] => t \in timed
                            [] OTHER -> Detached(list, t) /\ Detached(timer, t)
    BY DEF ThreadPlaced
  <1> DEFINE ready == OnList(list, ListNode, sched_list)
             timed == OnList(timer, TimerNode, timer_list)
  <1>1. /\ t \in ListNode /\ t \in Timer /\ t # sched_list /\ t # timer_list
        /\ sched_list \in ListNode /\ timer_list \in TimerNode
        /\ t \notin WaitObj
    BY ObjectsDistinct DEF ListNode, TimerNode, Timer
  <1>2. /\ list \in LinkStates(ListNode) /\ Consistent(list, ListNode)
        /\ timer \in LinkStates(TimerNode) /\ Consistent(timer, TimerNode)
    BY DEF ListInv, TypeOK, ListsConsistent
  <1>3. /\ ready = Ring(list, ListNode, sched_list) \ {sched_list}
        /\ timed = Ring(timer, TimerNode, timer_list) \ {timer_list}
    BY <1>1, <1>2, NodesFinite, OnListIsRing
  <1>4. t \in timed <=> ~Detached(timer, t)
    BY <1>1, <1>2, <1>3, RingLinked DEF PlaceInv
  <1>5. CASE flags[t] = "RUN"
    <2>1. Home[t] = sched_list
      BY <1>5, QueuedHome
    <2>2. Detached(timer, t)
      BY <1>5 DEF ListInv, TimerOff
    <2>3. CASE t = current
      <3>1. Detached(list, t)
        BY <1>5, <2>3, ObjectsDistinct DEF ListInv, CurrentOffList, thread_is_run
      <3>2. t \notin ready
        BY <1>1, <1>2, <1>3, <3>1, RingLinked
      <3> QED
        BY <1>4, <1>5, <2>2, <2>3, <3>2
    <2>4. CASE t # current
      BY <1>1, <1>3, <1>4, <1>5, <2>1, <2>2, <2>4 DEF PlaceInv, Queued
    <2> QED
      BY <2>3, <2>4
  <1>6. CASE flags[t] = "SLEEPING"
    BY <1>4, <1>6, HomelessDetached DEF PlaceInv, Armed
  <1>7. CASE flags[t] = "WAIT"
    <2>1. obj[t] \in WaitObj /\ Home[t] = obj[t] /\ obj[t] \in ListNode
      BY <1>7, QueuedHome
    <2>2. t \in OnList(list, ListNode, obj[t])
      BY <1>1, <1>2, <1>7, <2>1, NodesFinite, OnListIsRing DEF PlaceInv, Queued
    <2> QED
      BY <1>4, <1>7, <2>1, <2>2 DEF PlaceInv, Armed
  <1>8. CASE flags[t] = "NEW"
    BY <1>8, HomelessDetached DEF ListInv, TimerOff
  <1>9. flags[t] \in {"NEW", "RUN", "SLEEPING", "WAIT"}
    BY DEF ListInv, TypeOK
  <1> QED
    BY <1>5, <1>6, <1>7, <1>8, <1>9

LEMMA PlaceInit ==
  ASSUME Init
  PROVE  PlaceInv
  <1>1. \A x \in Timer : Detached(timer, x)
    BY UnlinkedConsistent DEF Init, TimerNode
  <1> QED
    BY <1>1 DEF Init, PlaceInv, Queued, Armed

\* A step that leaves both link structures alone and queues nobody.
LEMMA PlaceQuiet ==
  ASSUME PlaceInv, UNCHANGED <<list, timer>>,
         \A t \in Thread : Queued(t)' => Queued(t) /\ Home'[t] = Home[t],
         \A t \in Thread : Armed(t)' => Armed(t)
  PROVE  PlaceInv'
BY DEF PlaceInv

\* The same for one that changes only the timers.
LEMMA PlaceTimers ==
  ASSUME PlaceInv, UNCHANGED list,
         \A t \in Thread : Queued(t)' => Queued(t) /\ Home'[t] = Home[t],
         \A t \in Thread : Armed(t)' => ~Detached(timer', t),
         \A x \in Timer : ~Detached(timer', x) =>
                              x \in Ring(timer', TimerNode, timer_list)
  PROVE  PlaceInv'
BY DEF PlaceInv

\* snow_timer_add makes its timer reachable.
LEMMA TimerInsertReach ==
  ASSUME NEW tm \in LinkStates(TimerNode), Consistent(tm, TimerNode),
         \A y \in Timer : ~Detached(tm, y) => y \in Ring(tm, TimerNode, timer_list),
         NEW x \in Timer, Detached(tm, x), NEW us, TimerInsert(tm, x, us)
  PROVE  /\ \A y \in Timer : ~Detached(timer', y) =>
                                y \in Ring(timer', TimerNode, timer_list)
         /\ ~Detached(timer', x)
         /\ \A y \in Timer : ~Detached(tm, y) => ~Detached(timer', y)
  <1>1. PICK s \in TimerNode \ {x} :
           /\ s = timer_list \/ ~Detached(tm, s)
           /\ timer' = list_insert(tm, x, s, tm.next[s])
    BY DEF TimerInsert, IsSlot
  <1>2. x \in TimerNode /\ timer_list \in TimerNode /\ x # timer_list
    BY ObjectsDistinct DEF TimerNode
  <1>3. s \in Ring(tm, TimerNode, timer_list)
    BY <1>1, <1>2, HeadInRing DEF TimerNode
  <1>4. /\ \A m \in Ring(tm, TimerNode, timer_list) :
             m \in Ring(timer', TimerNode, timer_list)
        /\ x \in Ring(timer', TimerNode, timer_list)
    BY <1>1, <1>2, <1>3, RingInsert
  <1>5. /\ \A m \in TimerNode \ {x, s} : Detached(tm, m) <=> Detached(timer', m)
        /\ ~Detached(timer', x)
        /\ timer' \in LinkStates(TimerNode) /\ Consistent(timer', TimerNode)
    BY <1>1, <1>2, InsertConsistent
  <1>6. ASSUME NEW y \in Timer, ~Detached(tm, y)
        PROVE  y \in Ring(timer', TimerNode, timer_list) /\ ~Detached(timer', y)
    <2>1. y \in Ring(timer', TimerNode, timer_list)
      BY <1>4, <1>6
    <2> QED
      BY <1>2, <1>5, <2>1, RingLinked, ObjectsDistinct
  <1>7. ASSUME NEW y \in Timer, ~Detached(timer', y), Detached(tm, y)
        PROVE  y \in Ring(timer', TimerNode, timer_list)
    <2>1. y \in TimerNode /\ y # timer_list
      BY ObjectsDistinct DEF TimerNode
    <2>2. y = x \/ y = s
      BY <1>5, <1>7, <2>1
    <2> QED
      BY <1>1, <1>4, <1>7, <2>1, <2>2
  <1> QED
    BY <1>5, <1>6, <1>7

\* Taking a timer off leaves the others reachable.
LEMMA TimerRemoveReach ==
  ASSUME NEW tm \in LinkStates(TimerNode), Consistent(tm, TimerNode),
         \A y \in Timer : ~Detached(tm, y) => y \in Ring(tm, TimerNode, timer_list),
         NEW x \in Timer, NEW r, r = list_remove(tm, x)
  PROVE  \A y \in Timer :
           /\ y # x /\ ~Detached(tm, y) => ~Detached(r, y)
           /\ ~Detached(r, y) => y \in Ring(r, TimerNode, timer_list)
  <1>1. /\ x \in TimerNode /\ timer_list \in TimerNode /\ timer_list \notin Timer
        /\ \A y \in Timer : y \in TimerNode
    BY ObjectsDistinct DEF TimerNode
  <1>2. /\ r \in LinkStates(TimerNode) /\ Consistent(r, TimerNode) /\ Detached(r, x)
        /\ \A y \in TimerNode : Detached(tm, y) => Detached(r, y)
    BY <1>1, RemoveConsistent
  <1>3. \A y \in Ring(tm, TimerNode, timer_list) \ {x} :
           y \in Ring(r, TimerNode, timer_list)
    BY <1>1, RingRemove
  <1>4. ASSUME NEW y \in Timer, y # x, ~Detached(tm, y)
        PROVE  ~Detached(r, y) /\ y \in Ring(r, TimerNode, timer_list)
    BY <1>1, <1>2, <1>3, <1>4, RingLinked
  <1>5. ASSUME NEW y \in Timer, ~Detached(r, y)
        PROVE  y # x /\ ~Detached(tm, y)
    BY <1>1, <1>2, <1>5
  <1> QED
    BY <1>4, <1>5

\* snow_wakeup: the thread becomes reachable from sched_list, all others stay
\* where they are.
LEMMA WakeupPlace ==
  ASSUME ListInv, NEW t \in Thread, flags[t] \in {"SLEEPING", "WAIT"},
         NEW l \in LinkStates(ListNode), Consistent(l, ListNode),
         \A u \in Thread \ {t} : Queued(u) => u \in Ring(l, ListNode, Home[u]),
         NEW tm \in LinkStates(TimerNode), Consistent(tm, TimerNode),
         \A u \in Thread \ {t} : Armed(u) => ~Detached(tm, u),
         \A x \in Timer : ~Detached(tm, x) => x \in Ring(tm, TimerNode, timer_list),
         snow_wakeup(l, tm, t), UNCHANGED <<obj, current, need_wakeup>>
  PROVE  PlaceInv'
  <1> DEFINE r == list_remove(l, t)
  <1>1. /\ t \in ListNode /\ t \in Timer /\ t # idle /\ t # sched_list
        /\ sched_list \in ListNode /\ sched_list \notin Thread
    BY ObjectsDistinct DEF ListNode, TimerNode, Timer
  <1>2. /\ flags' = [flags EXCEPT ![t] = "RUN"]
        /\ list' = list_fifo_put(r, t, sched_list)
        /\ timer' = list_remove(tm, t)
    BY <1>1 DEF snow_wakeup, thread_is_run
  <1>3. /\ r \in LinkStates(ListNode) /\ Consistent(r, ListNode) /\ Detached(r, t)
    BY <1>1, RemoveConsistent
  <1>4. /\ flags'[t] = "RUN"
        /\ \A u \in Thread \ {t} : flags'[u] = flags[u] /\ Home'[u] = Home[u]
    BY <1>2 DEF Home, ListInv, TypeOK, ListNode
  <1>5. Home'[t] = sched_list
    BY <1>1, <1>4 DEF Home
  <1>6. ASSUME NEW u \in Thread, Queued(u)'
        PROVE  u \in Ring(list', ListNode, Home'[u])
    <2>1. t \in Ring(list', ListNode, sched_list)
      <3> HIDE DEF r
      <3> QED
        BY <1>1, <1>2, <1>3, NodesFinite, RingPut
    <2>2. CASE u = t
      BY <1>5, <2>1, <2>2
    <2>3. CASE u # t
      <3>1. Queued(u) /\ Home'[u] = Home[u] /\ flags[u] \in {"RUN", "WAIT"}
        BY <1>4, <1>6, <2>3 DEF Queued
      <3>2. Home[u] \in ListNode /\ Home[u] # t
        BY <3>1, QueuedHome
      <3>3. u \in Ring(r, ListNode, Home[u])
        <4>1. u \in Ring(l, ListNode, Home[u])
          BY <2>3, <3>1
        <4> HIDE DEF Home
        <4> QED
          BY <1>1, <2>3, <3>2, <4>1, RingRemove
      <3> HIDE DEF r, Home
      <3> QED
        BY <1>1, <1>2, <1>3, <3>1, <3>2, <3>3, NodesFinite, RingPut
    <2> QED
      BY <2>2, <2>3
  <1>7. \A y \in Timer :
           /\ y # t /\ ~Detached(tm, y) => ~Detached(timer', y)
           /\ ~Detached(timer', y) => y \in Ring(timer', TimerNode, timer_list)
    BY <1>1, <1>2, TimerRemoveReach
  <1>8. ASSUME NEW u \in Thread, Armed(u)'
        PROVE  ~Detached(timer', u)
    <2>1. u # t /\ Armed(u) /\ u \in Timer
      BY <1>4, <1>8 DEF Armed, Timer
    <2> QED
      BY <1>7, <2>1
  <1> QED
    BY <1>6, <1>7, <1>8 DEF PlaceInv

LEMMA PlaceFireWakeup ==
  ASSUME ListInv, PlaceInv, sched_fire_wakeup
  PROVE  PlaceInv'
  <1> DEFINE t == timer.next[timer_list]
             tm == list_remove(timer, t)
  <1>1. /\ ~list_empty(timer, timer_list)
        /\ t \in Thread /\ snow_wakeup(list, tm, t)
        /\ UNCHANGED <<timer_us, cpuVars, callVars, syncVars>>
    BY DEF sched_fire_wakeup, TimerDue
  <1>2. timer_list \in TimerNode /\ t \in TimerNode /\ t \in Timer
    BY <1>1 DEF TimerNode, Timer
  <1>3. /\ list \in LinkStates(ListNode) /\ Consistent(list, ListNode)
        /\ timer \in LinkStates(TimerNode) /\ Consistent(timer, TimerNode)
    BY DEF ListInv, TypeOK, ListsConsistent
  <1>4. flags[t] \in {"SLEEPING", "WAIT"}
    <2>1. ~Detached(timer, t)
      BY <1>1, <1>2, <1>3, FirstLinked
    <2> QED
      BY <1>1, <2>1 DEF ListInv, TypeOK, TimerOff
  <1>5. tm \in LinkStates(TimerNode) /\ Consistent(tm, TimerNode)
    BY <1>2, <1>3, RemoveConsistent
  <1> HIDE DEF t
  <1>6. \A y \in Timer :
           /\ y # t /\ ~Detached(timer, y) => ~Detached(tm, y)
           /\ ~Detached(tm, y) => y \in Ring(tm, TimerNode, timer_list)
    BY <1>2, <1>3, TimerRemoveReach DEF PlaceInv
  <1>7. \A u \in Thread \ {t} : Armed(u) => ~Detached(tm, u)
    BY <1>6 DEF PlaceInv, Timer
  <1> HIDE DEF tm
  <1>8. UNCHANGED <<obj, current, need_wakeup>>
    BY <1>1 DEF cpuVars, callVars
  <1> QED
    BY <1>1, <1>3, <1>4, <1>5, <1>6, <1>7, <1>8, WakeupPlace DEF PlaceInv

LEMMA PlaceFireUser ==
  ASSUME ListInv, PlaceInv, sched_fire_user
  PROVE  PlaceInv'
  <1> DEFINE x == timer.next[timer_list]
             tm == list_remove(timer, x)
  <1>1. /\ x \in UTimer
        /\ \/ timer' = tm
           \/ \E us \in TimerUs : TimerInsert(tm, x, sys_time_us + us)
        /\ UNCHANGED <<list, flags, cpuVars, callVars, syncVars>>
    BY DEF sched_fire_user, snow_timer_add
  <1>2. x \in TimerNode /\ x \in Timer /\ x \notin Thread
    BY <1>1, ObjectsDistinct DEF TimerNode, Timer
  <1>3. timer \in LinkStates(TimerNode) /\ Consistent(timer, TimerNode)
    BY DEF ListInv, TypeOK, ListsConsistent
  <1>4. tm \in LinkStates(TimerNode) /\ Consistent(tm, TimerNode) /\ Detached(tm, x)
    BY <1>2, <1>3, RemoveConsistent
  <1> HIDE DEF x
  <1>5. \A y \in Timer :
           /\ y # x /\ ~Detached(timer, y) => ~Detached(tm, y)
           /\ ~Detached(tm, y) => y \in Ring(tm, TimerNode, timer_list)
    BY <1>2, <1>3, TimerRemoveReach DEF PlaceInv
  <1> HIDE DEF tm
  <1>6. \A y \in Timer :
           /\ ~Detached(timer', y) => y \in Ring(timer', TimerNode, timer_list)
           /\ ~Detached(tm, y) => ~Detached(timer', y)
    BY <1>1, <1>2, <1>4, <1>5, TimerInsertReach
  <1>7. Home' = Home
    BY <1>1, SameHome DEF callVars
  <1>8. \A t \in Thread : /\ Queued(t)' => Queued(t)
                          /\ Armed(t)' => Armed(t) /\ t # x /\ t \in Timer
    BY <1>1, <1>2 DEF Queued, Armed, cpuVars, callVars, Timer
  <1>9. \A t \in Thread : Armed(t)' => ~Detached(timer', t)
    BY <1>5, <1>6, <1>8 DEF PlaceInv
  <1> QED
    BY <1>1, <1>6, <1>7, <1>8, <1>9, PlaceTimers

\* The thread that loses the CPU is queued before another one is taken.
LEMMA PlaceSwitch ==
  ASSUME ListInv, PlaceInv, sched_switch
  PROVE  PlaceInv'
  <1> DEFINE l == IF thread_is_run(current)
                  THEN list_fifo_put(list, current, sched_list) ELSE list
             none == list_empty(l, sched_list)
             next == IF none THEN idle ELSE list_fifo_first(l, sched_list)
  <1>1. /\ UNCHANGED <<timer, flags, callVars>>
        /\ sched_list \in ListNode /\ sched_list \notin Thread
        /\ idle \notin Thread /\ \A t \in Thread : t \in ListNode
    BY ObjectsDistinct DEF sched_switch, ListNode
  <1>2. Home' = Home
    BY <1>1, SameHome DEF callVars
  <1>3. /\ list \in LinkStates(ListNode) /\ Consistent(list, ListNode)
        /\ Respects(list, ListNode, Home)
    BY DEF ListInv, TypeOK, ListsConsistent, ListsApart
  <1>4. thread_is_run(current) =>
          /\ current \in Thread /\ flags[current] = "RUN" /\ Detached(list, current)
          /\ Home[current] = sched_list /\ Home[sched_list] = sched_list
    BY <1>1 DEF ListInv, TypeOK, CurrentOffList, thread_is_run, Ctx, Home
  <1>5. /\ l \in LinkStates(ListNode) /\ Consistent(l, ListNode)
        /\ Respects(l, ListNode, Home)
    <2> HIDE DEF Home
    <2> QED
      BY <1>1, <1>3, <1>4, FifoPutConsistent
  <1>6. ASSUME NEW t \in Thread, flags[t] = "WAIT" \/ flags[t] = "RUN",
               thread_is_run(current) \/ t # current
        PROVE  t \in Ring(l, ListNode, Home[t])
    <2>1. Home[t] \in ListNode \ Thread
      BY <1>6, QueuedHome
    <2>2. t # current => Queued(t)
      BY <1>6 DEF Queued
    <2>3. t # current => t \in Ring(list, ListNode, Home[t])
      BY <2>2 DEF PlaceInv
    <2>4. CASE ~thread_is_run(current)
      BY <1>6, <2>3, <2>4
    <2>5. CASE thread_is_run(current) /\ t = current
      <3>1. current \in Ring(l, ListNode, sched_list)
        <4> HIDE DEF Home
        <4> QED
          BY <1>1, <1>3, <1>4, <2>5, NodesFinite, RingPut
      <3> QED
        BY <1>4, <2>5, <3>1
    <2>6. CASE thread_is_run(current) /\ t # current
      <3>1. Home[t] \in ListNode /\ Home[t] # current
        BY <1>4, <2>1, <2>6
      <3> HIDE DEF Home
      <3> QED
        BY <1>1, <1>3, <1>4, <2>3, <2>6, <3>1, NodesFinite, RingPut
    <2> QED
      BY <2>4, <2>5, <2>6
  <1>7. ASSUME NEW t \in Thread, Queued(t)'
        PROVE  t \in Ring(list', ListNode, Home[t])
    <2>1. flags[t] = "WAIT" \/ (flags[t] = "RUN" /\ t # current')
      BY <1>1, <1>7 DEF Queued
    <2>2. CASE ~SliceOver
      <3>1. UNCHANGED <<list, current>> /\ thread_is_run(current)
        BY <2>2 DEF sched_switch, SliceOver
      <3> QED
        BY <2>1, <3>1 DEF PlaceInv, Queued
    <2>3. CASE SliceOver
      <3>1. /\ list' = IF none THEN l ELSE list_fifo_get(l, sched_list)
            /\ current' = next
        BY <2>3 DEF sched_switch
      <3>2. t \in Ring(l, ListNode, Home[t])
        <4>1. CASE thread_is_run(current) \/ t # current
          BY <1>6, <2>1, <4>1
        <4>2. CASE ~thread_is_run(current) /\ t = current
          <5>1. flags[t] = "WAIT" /\ Queued(t)
            BY <1>1, <2>1, <4>2 DEF thread_is_run, Queued
          <5> QED
            BY <4>2, <5>1 DEF PlaceInv
        <4> QED
          BY <4>1, <4>2
      <3>3. Home[t] \in ListNode \ Thread
        BY <2>1, QueuedHome
      <3> HIDE DEF l
      <3>4. CASE none
        BY <3>1, <3>2, <3>4
      <3>5. CASE ~none
        <4>1. list' = list_remove(l, next) /\ next = list_fifo_first(l, sched_list)
          BY <3>1, <3>5 DEF list_fifo_get
        <4>2. next \in Thread /\ flags[next] = "RUN"
          BY <1>5, <3>5, <4>1, FirstReady
        <4>3. t # next /\ next \in ListNode
          BY <1>1, <2>1, <3>1, <4>2
        <4> HIDE DEF next, none, Home
        <4> QED
          BY <1>5, <3>2, <3>3, <4>1, <4>2, <4>3, RingRemove
      <3> QED
        BY <3>4, <3>5
    <2> QED
      BY <2>2, <2>3
  <1>8. \A t \in Thread : Armed(t)' => Armed(t)
    BY <1>1 DEF Armed, callVars
  <1> QED
    BY <1>1, <1>2, <1>7, <1>8 DEF PlaceInv

LEMMA PlaceCreate ==
  ASSUME ListInv, PlaceInv, NEW c \in Ctx, NEW new \in Thread,
         snow_thread_create(c, new)
  PROVE  PlaceInv'
  <1>1. /\ flags[new] = "NEW" /\ timer' = list_init(timer, new)
        /\ obj' = [obj EXCEPT ![c] = new]
        /\ UNCHANGED <<list, flags, current, need_wakeup>>
        /\ handler = "none" /\ current = c /\ pc[c] \in {"boot", "user"}
    BY DEF snow_thread_create, At
  <1>2. new \in TimerNode /\ new \in Timer
    BY DEF TimerNode, Timer
  <1>3. timer' = timer
    <2>1. timer.next[new] = new /\ timer.prev[new] = new
      BY <1>1, <1>2, DetachedBothWays
         DEF ListInv, TypeOK, ListsConsistent, TimerOff, Detached
    <2> QED
      BY <1>1, <1>2, <2>1 DEF ListInv, TypeOK, LinkStates, list_init
  <1>4. c \in Thread => flags[c] = "RUN"
    BY <1>1 DEF ListInv, CurrentReady
  <1>5. \A t \in Thread : flags[t] = "WAIT" => obj'[t] = obj[t]
    BY <1>1, <1>4 DEF ListInv, TypeOK, Ctx
  <1>6. Home' = Home
    BY <1>1, <1>5, SameHome
  <1>7. \A t \in Thread : (Queued(t)' => Queued(t)) /\ (Armed(t)' => Armed(t))
    BY <1>1 DEF Queued, Armed
  <1> QED
    BY <1>1, <1>3, <1>6, <1>7, PlaceQuiet

LEMMA PlaceCreatePut ==
  ASSUME ListInv, PlaceInv, NEW c \in Ctx, thread_create_put(c)
  PROVE  PlaceInv'
  <1> DEFINE new == obj[c]
  <1>1. /\ handler = "none" /\ current = c /\ pc[c] = "create_put"
        /\ flags' = [flags EXCEPT ![new] = "RUN"]
        /\ list' = list_fifo_put(list, new, sched_list)
        /\ obj' = [obj EXCEPT ![c] = NULL]
        /\ UNCHANGED <<timer, current, need_wakeup>>
    BY DEF thread_create_put, At, cpuVars
  <1>2. new \in Thread /\ flags[new] = "NEW"
    BY <1>1 DEF ListInv, CallObject
  <1>3. /\ new \in ListNode /\ sched_list \in ListNode /\ new # sched_list
    BY <1>2, ObjectsDistinct DEF ListNode
  <1>4. c \in Thread => flags[c] = "RUN" /\ c # new
    BY <1>1, <1>2 DEF ListInv, CurrentReady
  <1>5. Detached(list, new)
    BY <1>2, HomelessDetached
  <1>6. list \in LinkStates(ListNode) /\ Consistent(list, ListNode)
    BY DEF ListInv, TypeOK, ListsConsistent
  <1> HIDE DEF new
  <1>7. /\ \A t \in Thread \ {new} : flags'[t] = flags[t] /\ Home'[t] = Home[t]
        /\ flags'[new] = "RUN" /\ Home'[new] = sched_list
    BY <1>1, <1>2, <1>3, <1>4 DEF Home, ListInv, TypeOK, ListNode
  <1>8. ASSUME NEW t \in Thread, Queued(t)'
        PROVE  t \in Ring(list', ListNode, Home'[t])
    <2>1. CASE t = new
      BY <1>1, <1>3, <1>5, <1>6, <1>7, <2>1, NodesFinite, RingPut
    <2>2. CASE t # new
      <3>1. Queued(t) /\ Home'[t] = Home[t] /\ flags[t] \in {"RUN", "WAIT"}
        BY <1>1, <1>7, <1>8, <2>2 DEF Queued
      <3>2. Home[t] \in ListNode /\ Home[t] # new
        BY <1>2, <3>1, QueuedHome
      <3>3. t \in Ring(list, ListNode, Home[t])
        BY <3>1 DEF PlaceInv
      <3> HIDE DEF Home
      <3> QED
        BY <1>1, <1>3, <1>5, <1>6, <3>1, <3>2, <3>3, NodesFinite, RingPut
    <2> QED
      BY <2>1, <2>2
  <1>9. \A t \in Thread : Armed(t)' => Armed(t)
    BY <1>1, <1>7 DEF Armed
  <1> QED
    BY <1>1, <1>8, <1>9 DEF PlaceInv

\* A call that only moves the running, ready thread to another point.
LEMMA PlaceLocal ==
  ASSUME ListInv, PlaceInv, NEW t \in Thread,
         At(t, PcValues \ {"usleep_sched", "wait_sched"}),
         UNCHANGED <<list, timer, flags, current>>,
         \A u \in Thread \ {t} : obj'[u] = obj[u] /\ need_wakeup'[u] = need_wakeup[u]
  PROVE  PlaceInv'
  <1>1. flags[t] = "RUN" /\ current = t
    BY RunningThread DEF At
  <1>2. Home' = Home
    BY <1>1, SameHome
  <1>3. \A u \in Thread : (Queued(u)' => Queued(u)) /\ (Armed(u)' => Armed(u))
    BY <1>1 DEF Queued, Armed
  <1> QED
    BY <1>2, <1>3, PlaceQuiet

LEMMA PlaceUsleep ==
  ASSUME ListInv, PlaceInv, NEW t \in Thread, NEW us, snow_usleep(t, us)
  PROVE  PlaceInv'
  <1>1. /\ At(t, {"user"})
        /\ flags' = [flags EXCEPT ![t] = "SLEEPING"]
        /\ TimerInsert(timer, t, sys_time_us + us)
        /\ UNCHANGED <<list, current, obj, need_wakeup>>
    BY DEF snow_usleep, snow_timer_add, cpuVars
  <1>2. t \in Timer /\ flags[t] = "RUN" /\ Detached(timer, t)
    BY <1>1, RunningThread DEF PcValues, At
  <1>3. timer \in LinkStates(TimerNode) /\ Consistent(timer, TimerNode)
    BY DEF ListInv, TypeOK, ListsConsistent
  <1>4. /\ \A y \in Timer : ~Detached(timer', y) =>
                               y \in Ring(timer', TimerNode, timer_list)
        /\ ~Detached(timer', t)
        /\ \A y \in Timer : ~Detached(timer, y) => ~Detached(timer', y)
    BY <1>1, <1>2, <1>3, TimerInsertReach DEF PlaceInv
  <1>5. /\ flags'[t] = "SLEEPING"
        /\ \A u \in Thread \ {t} : flags'[u] = flags[u] /\ Home'[u] = Home[u]
    BY <1>1 DEF Home, ListInv, TypeOK, ListNode
  <1>6. \A u \in Thread : Queued(u)' => Queued(u) /\ Home'[u] = Home[u]
    BY <1>1, <1>5 DEF Queued
  <1>7. \A u \in Thread : Armed(u)' => ~Detached(timer', u)
    <2>1. \A u \in Thread : u # t /\ Armed(u)' => Armed(u) /\ u \in Timer
      BY <1>1, <1>5 DEF Armed, Timer
    <2> QED
      BY <1>4, <2>1 DEF PlaceInv
  <1> QED
    BY <1>1, <1>4, <1>6, <1>7, PlaceTimers

LEMMA PlaceTimerAddInsert ==
  ASSUME ListInv, PlaceInv, NEW t \in Thread, timer_add_insert(t)
  PROVE  PlaceInv'
  <1> DEFINE x == obj[t]
  <1>1. /\ At(t, {"timer_add"})
        /\ TimerInsert(timer, x, timer_us[x])
        /\ obj' = [obj EXCEPT ![t] = NULL]
        /\ need_wakeup' = [need_wakeup EXCEPT ![t] = FALSE]
        /\ UNCHANGED <<list, flags, current>>
    BY DEF timer_add_insert, Return, cpuVars
  <1>2. t \in Ctx /\ flags[t] = "RUN"
    BY <1>1, RunningThread DEF PcValues, At
  <1>3. x \in Timer /\ Detached(timer, x)
    BY <1>1, <1>2 DEF ListInv, CallObject, At, Timer
  <1>4. timer \in LinkStates(TimerNode) /\ Consistent(timer, TimerNode)
    BY DEF ListInv, TypeOK, ListsConsistent
  <1> HIDE DEF x
  <1>5. /\ \A y \in Timer : ~Detached(timer', y) =>
                               y \in Ring(timer', TimerNode, timer_list)
        /\ \A y \in Timer : ~Detached(timer, y) => ~Detached(timer', y)
    BY <1>1, <1>3, <1>4, TimerInsertReach DEF PlaceInv
  <1>6. \A u \in Thread \ {t} : obj'[u] = obj[u] /\ need_wakeup'[u] = need_wakeup[u]
    BY <1>1 DEF ListInv, TypeOK, Ctx
  <1>7. Home' = Home
    BY <1>1, <1>2, <1>6, SameHome
  <1>8. \A u \in Thread : /\ Queued(u)' => Queued(u)
                          /\ Armed(u)' => Armed(u) /\ u \in Timer
    BY <1>1, <1>2, <1>6 DEF Queued, Armed, Timer
  <1>9. \A u \in Thread : Armed(u)' => ~Detached(timer', u)
    BY <1>5, <1>8 DEF PlaceInv
  <1> QED
    BY <1>1, <1>5, <1>7, <1>8, <1>9, PlaceTimers

LEMMA PlaceTimerDel ==
  ASSUME ListInv, PlaceInv, NEW t \in Thread, NEW x \in UTimer, snow_timer_del(t, x)
  PROVE  PlaceInv'
  <1>1. /\ timer' = list_remove(timer, x)
        /\ UNCHANGED <<list, flags, current, obj, need_wakeup>>
    BY DEF snow_timer_del, cpuVars, callVars
  <1>2. x \in Timer /\ x \notin Thread
    BY ObjectsDistinct DEF Timer
  <1>3. timer \in LinkStates(TimerNode) /\ Consistent(timer, TimerNode)
    BY DEF ListInv, TypeOK, ListsConsistent
  <1>4. \A y \in Timer :
           /\ y # x /\ ~Detached(timer, y) => ~Detached(timer', y)
           /\ ~Detached(timer', y) => y \in Ring(timer', TimerNode, timer_list)
    BY <1>1, <1>2, <1>3, TimerRemoveReach DEF PlaceInv
  <1>5. Home' = Home
    BY <1>1, SameHome
  <1>6. \A u \in Thread : /\ Queued(u)' => Queued(u)
                          /\ Armed(u)' => Armed(u) /\ u \in Timer /\ u # x
    BY <1>1, <1>2 DEF Queued, Armed, Timer
  <1>7. \A u \in Thread : Armed(u)' => ~Detached(timer', u)
    BY <1>4, <1>6 DEF PlaceInv
  <1> QED
    BY <1>1, <1>4, <1>5, <1>6, <1>7, PlaceTimers

\* The running thread queues up behind the object and arms its timer.
LEMMA PlaceWaitBlock ==
  ASSUME ListInv, PlaceInv, NEW t \in Thread, wait_get_block(t)
  PROVE  PlaceInv'
  <1> DEFINE o == obj[t]
  <1>1. /\ At(t, {"again"})
        /\ flags' = [flags EXCEPT ![t] = "WAIT"]
        /\ list' = list_fifo_put(list, t, o)
        /\ IF need_wakeup[t] THEN TimerInsert(timer, t, deadline[t])
                             ELSE UNCHANGED timer
        /\ UNCHANGED <<current, obj, need_wakeup>>
    BY DEF wait_get_block, snow_timer_add, cpuVars
  <1>2. /\ t \in Ctx /\ t \in ListNode /\ t \in Timer
        /\ flags[t] = "RUN" /\ Detached(list, t) /\ Detached(timer, t)
    BY <1>1, RunningThread DEF PcValues, At
  <1>3. o \in WaitObj /\ o \in ListNode /\ o # t
    <2>1. o \in WaitObj
      BY <1>1, <1>2 DEF ListInv, CallObject, At
    <2> QED
      BY <2>1, ObjectsDistinct DEF ListNode
  <1>4. /\ list \in LinkStates(ListNode) /\ Consistent(list, ListNode)
        /\ timer \in LinkStates(TimerNode) /\ Consistent(timer, TimerNode)
    BY DEF ListInv, TypeOK, ListsConsistent
  <1>5. /\ \A u \in Thread \ {t} : flags'[u] = flags[u] /\ Home'[u] = Home[u]
        /\ flags'[t] = "WAIT" /\ Home'[t] = o
    BY <1>1, <1>2 DEF Home, ListInv, TypeOK, ListNode
  <1>6. ASSUME NEW u \in Thread, Queued(u)'
        PROVE  u \in Ring(list', ListNode, Home'[u])
    <2>1. CASE u = t
      <3> HIDE DEF o
      <3> QED
        BY <1>1, <1>2, <1>3, <1>4, <1>5, <2>1, NodesFinite, RingPut
    <2>2. CASE u # t
      <3>1. Queued(u) /\ Home'[u] = Home[u] /\ flags[u] \in {"RUN", "WAIT"}
        BY <1>1, <1>5, <1>6, <2>2 DEF Queued
      <3>2. Home[u] \in ListNode /\ Home[u] # t
        BY <3>1, QueuedHome
      <3>3. u \in Ring(list, ListNode, Home[u])
        BY <3>1 DEF PlaceInv
      <3> HIDE DEF Home, o
      <3> QED
        BY <1>1, <1>2, <1>3, <1>4, <3>1, <3>2, <3>3, NodesFinite, RingPut
    <2> QED
      BY <2>1, <2>2
  <1>7. /\ \A y \in Timer : ~Detached(timer', y) =>
                               y \in Ring(timer', TimerNode, timer_list)
        /\ need_wakeup[t] => ~Detached(timer', t)
        /\ \A y \in Timer : ~Detached(timer, y) => ~Detached(timer', y)
    <2>1. CASE need_wakeup[t]
      <3>1. TimerInsert(timer, t, deadline[t])
        BY <1>1, <2>1
      <3> QED
        BY <1>2, <1>4, <3>1, TimerInsertReach DEF PlaceInv
    <2>2. CASE ~need_wakeup[t]
      BY <1>1, <2>2 DEF PlaceInv
    <2> QED
      BY <2>1, <2>2
  <1>8. ASSUME NEW u \in Thread, Armed(u)'
        PROVE  ~Detached(timer', u)
    <2>1. CASE u = t
      BY <1>1, <1>5, <1>7, <1>8, <2>1 DEF Armed
    <2>2. CASE u # t
      <3>1. Armed(u) /\ u \in Timer
        BY <1>1, <1>5, <1>8, <2>2 DEF Armed, Timer
      <3> QED
        BY <1>7, <3>1 DEF PlaceInv
    <2> QED
      BY <2>1, <2>2
  <1> QED
    BY <1>6, <1>7, <1>8 DEF PlaceInv

LEMMA PlaceWaitPut ==
  ASSUME ListInv, PlaceInv, NEW t \in Thread, NEW o \in WaitObj, NEW freed,
         wait_put(t, o, freed), UNCHANGED <<current, obj, need_wakeup>>
  PROVE  PlaceInv'
  <1>1. CASE ~(freed /\ ~list_empty(list, o))
    <2>1. UNCHANGED <<list, timer, flags>>
      BY <1>1 DEF wait_put
    <2>2. Home' = Home
      BY <2>1, SameHome
    <2>3. \A u \in Thread : (Queued(u)' => Queued(u)) /\ (Armed(u)' => Armed(u))
      BY <2>1 DEF Queued, Armed
    <2> QED
      BY <2>1, <2>2, <2>3, PlaceQuiet
  <1>2. CASE freed /\ ~list_empty(list, o)
    <2> DEFINE w == list_fifo_first(list, o)
               l == list_fifo_get(list, o)
    <2>1. snow_wakeup(l, timer, w)
      BY <1>2 DEF wait_put
    <2>2. w \in Thread /\ flags[w] = "WAIT" /\ w \in ListNode
      BY <1>2, FirstWaiter DEF ListNode
    <2>3. l = list_remove(list, w)
      BY DEF list_fifo_get
    <2> HIDE DEF w, l
    <2>4. /\ list \in LinkStates(ListNode) /\ Consistent(list, ListNode)
          /\ timer \in LinkStates(TimerNode) /\ Consistent(timer, TimerNode)
      BY DEF ListInv, TypeOK, ListsConsistent
    <2>5. l \in LinkStates(ListNode) /\ Consistent(l, ListNode)
      BY <2>2, <2>3, <2>4, RemoveConsistent
    <2>6. ASSUME NEW u \in Thread \ {w}, Queued(u)
          PROVE  u \in Ring(l, ListNode, Home[u])
      <3>1. Home[u] \in ListNode /\ Home[u] # w
        BY <2>2, <2>6, QueuedHome DEF Queued
      <3>2. u \in Ring(list, ListNode, Home[u])
        BY <2>6 DEF PlaceInv
      <3> HIDE DEF Home
      <3> QED
        BY <2>2, <2>3, <2>4, <2>6, <3>1, <3>2, RingRemove
    <2> QED
      BY <2>1, <2>2, <2>4, <2>5, <2>6, WakeupPlace DEF PlaceInv
  <1> QED
    BY <1>1, <1>2

LEMMA PlaceCall ==
  ASSUME ListInv, PlaceInv, NEW t \in Thread, Call(t)
  PROVE  PlaceInv'
  <1>1. t \in Ctx /\ Thread \subseteq Ctx /\ Sem \subseteq WaitObj /\ Mutex \subseteq WaitObj
    BY DEF Ctx, WaitObj
  <1>2. obj \in [Ctx -> Thread \cup WaitObj \cup UTimer \cup {NULL}]
        /\ need_wakeup \in [Ctx -> BOOLEAN]
    BY DEF ListInv, TypeOK
  <1> USE DEF cpuVars, callVars, listVars, syncVars
  <1>3. CASE \E new \in Thread : snow_thread_create(t, new)
    BY <1>1, <1>3, PlaceCreate
  <1>4. CASE thread_end(t)
    BY <1>4, PlaceLocal DEF thread_end, At, PcValues
  <1>5. CASE \E us \in SleepUs : snow_usleep(t, us)
    BY <1>5, PlaceUsleep
  <1>6. CASE \E us \in TimerUs : snow_udelay(t, us)
    BY <1>6, PlaceLocal DEF snow_udelay, At, PcValues
  <1>7. ASSUME NEW x \in UTimer, NEW us \in TimerUs, timer_add_us(t, x, us)
        PROVE  PlaceInv'
    <2>1. \A u \in Thread \ {t} : obj'[u] = obj[u] /\ need_wakeup'[u] = need_wakeup[u]
      BY <1>1, <1>2, <1>7 DEF timer_add_us
    <2> QED
      BY <1>7, <2>1, PlaceLocal DEF timer_add_us, At, PcValues
  <1>8. CASE \E x \in UTimer : snow_timer_del(t, x)
    BY <1>8, PlaceTimerDel
  <1>9. ASSUME NEW o \in WaitObj, NEW us \in WaitUs, wait_get_timeout(t, o, us)
        PROVE  PlaceInv'
    <2>1. \A u \in Thread \ {t} : obj'[u] = obj[u] /\ need_wakeup'[u] = need_wakeup[u]
      BY <1>1, <1>2, <1>9 DEF wait_get_timeout
    <2> QED
      BY <1>9, <2>1, PlaceLocal DEF wait_get_timeout, At, PcValues
  <1>10. CASE \E s \in Sem : snow_sem_up(t, s)
    BY <1>1, <1>10, PlaceWaitPut DEF snow_sem_up
  <1>11. CASE \E m \in Mutex : snow_mutex_unlock(t, m)
    BY <1>1, <1>11, PlaceWaitPut DEF snow_mutex_unlock
  <1> QED
    BY <1>3, <1>4, <1>5, <1>6, <1>7, <1>8, <1>9, <1>10, <1>11 DEF Call

LEMMA PlaceKernelStep ==
  ASSUME ListInv, PlaceInv, NEW t \in Thread, KernelStep(t)
  PROVE  PlaceInv'
  <1>1. /\ t \in Ctx /\ Thread \subseteq Ctx
        /\ obj \in [Ctx -> Thread \cup WaitObj \cup UTimer \cup {NULL}]
        /\ need_wakeup \in [Ctx -> BOOLEAN]
    BY DEF ListInv, TypeOK, Ctx
  <1> USE DEF cpuVars, callVars, listVars, syncVars
  <1>2. CASE snow_sched(t)
    <2>1. UNCHANGED <<list, timer, flags, current, obj, need_wakeup>>
      BY <1>2 DEF snow_sched
    <2>2. Home' = Home
      BY <2>1, SameHome
    <2>3. \A u \in Thread : (Queued(u)' => Queued(u)) /\ (Armed(u)' => Armed(u))
      BY <2>1 DEF Queued, Armed
    <2> QED
      BY <2>1, <2>2, <2>3, PlaceQuiet
  <1>3. ASSUME At(t, {"udelay", "again"}), Return(t), UNCHANGED <<listVars, flags, cpuVars>>
        PROVE  PlaceInv'
    <2>1. \A u \in Thread \ {t} : obj'[u] = obj[u] /\ need_wakeup'[u] = need_wakeup[u]
      BY <1>1, <1>3 DEF Return
    <2> QED
      BY <1>3, <2>1, PlaceLocal DEF At, PcValues
  <1>4. CASE udelay_return(t) \/ wait_get_success(t) \/ wait_get_fail(t)
    BY <1>3, <1>4 DEF udelay_return, wait_get_success, wait_get_fail, At
  <1>5. CASE timer_add_insert(t)
    BY <1>5, PlaceTimerAddInsert
  <1>6. CASE wait_get_block(t)
    BY <1>6, PlaceWaitBlock
  <1> QED
    BY <1>2, <1>4, <1>5, <1>6 DEF KernelStep

LEMMA PlaceStep ==
  ASSUME ListInv, PlaceInv, [Next]_vars
  PROVE  PlaceInv'
  <1>1. ASSUME UNCHANGED <<list, timer, flags, current, obj, need_wakeup>>
        PROVE  PlaceInv'
    <2>1. Home' = Home
      BY <1>1, SameHome
    <2>2. \A u \in Thread : (Queued(u)' => Queued(u)) /\ (Armed(u)' => Armed(u))
      BY <1>1 DEF Queued, Armed
    <2> QED
      BY <1>1, <2>1, <2>2, PlaceQuiet
  <1>2. CASE UNCHANGED vars
    BY <1>1, <1>2 DEF vars, listVars, cpuVars, callVars
  <1>3. CASE snow_tick_handler
    BY <1>1, <1>3 DEF snow_tick_handler, listVars, callVars
  <1>4. CASE SchedStep
    BY <1>4, PlaceFireWakeup, PlaceFireUser, PlaceSwitch DEF SchedStep
  <1>5. CASE Idle
    BY <1>2, <1>5, PlaceCreate, PlaceCreatePut, ObjectsDistinct DEF Idle, spin, Ctx
  <1>6. ASSUME NEW t \in Thread,
               Call(t) \/ KernelStep(t) \/ thread_create_put(t) \/ spin(t)
        PROVE  PlaceInv'
    BY <1>2, <1>6, PlaceCall, PlaceKernelStep, PlaceCreatePut DEF spin, Ctx
  <1> QED
    BY <1>2, <1>3, <1>4, <1>5, <1>6 DEF Next

\* No thread is ever lost or in two places, in every execution in which no
\* thread is woken while it is current: list_foreach from the right head
\* finds every thread that is ready, sleeps or waits.
THEOREM ThreadsStayPlaced == TimelySpec => []ThreadPlaced
  <1>1. Init => PlaceInv
    BY PlaceInit
  <1>2. ListInv /\ PlaceInv /\ [Next /\ ~SelfWake']_vars => PlaceInv'
    BY PlaceStep
  <1>3. ListInv /\ PlaceInv => ThreadPlaced
    BY PlacedByRings
  <1> QED
    BY <1>1, <1>2, <1>3, RingsInductive, PTL DEF TimelySpec

-----------------------------------------------------------------------------
(***************************************************************************)
(* No wakeup is lost.                                                       *)
(***************************************************************************)

\* NoLostWakeup for one object.
Covered(o) == Waiters(o) # {} => Available(o) <= Cardinality(Retrying(o))

\* A waiting thread tries again when it is woken.
WaitersRetry ==
  \A t \in Thread : flags[t] = "WAIT" => pc[t] \in {"again", "wait_sched"}

WakeInv == WaitersRetry /\ \A o \in WaitObj : Covered(o)

LEMMA CountTypes ==
  ASSUME ListInv, NEW o \in WaitObj
  PROVE  /\ IsFiniteSet(Retrying(o)) /\ Cardinality(Retrying(o)) \in Nat
         /\ Available(o) \in Nat
         /\ o \in Mutex => Available(o) \in {0, 1}
  <1>1. IsFiniteSet(Thread)
    BY ObjectsFinite, FS_Subset
  <1>2. Retrying(o) \in SUBSET Thread
    BY DEF Retrying
  <1>3. IsFiniteSet(Retrying(o)) /\ Cardinality(Retrying(o)) \in Nat
    BY <1>1, <1>2, FS_Subset, FS_CardinalityType
  <1>4. Available(o) \in Nat /\ (o \in Mutex => Available(o) \in {0, 1})
    BY ObjectsDistinct DEF Available, WaitObj, ListInv, TypeOK
  <1> QED
    BY <1>3, <1>4

\* A step that takes nobody away from those that will try again.
LEMMA WakeMono ==
  ASSUME ListInv, ListInv', NEW o \in WaitObj, Covered(o),
         \A u \in Thread : u \in Waiters(o)' => u \in Waiters(o),
         \A u \in Thread : u \in Retrying(o) => u \in Retrying(o)',
         Available(o)' <= Available(o)
  PROVE  Covered(o)'
  <1>1. Waiters(o)' \subseteq Waiters(o) /\ Retrying(o) \in SUBSET (Retrying(o)')
    BY DEF Waiters, Retrying
  <1>2. IsFiniteSet(Retrying(o)') /\ Cardinality(Retrying(o)') \in Nat
        /\ Cardinality(Retrying(o)) \in Nat
        /\ Available(o) \in Nat /\ Available(o)' \in Nat
    <2>1. IsFiniteSet(Thread)
      BY ObjectsFinite, FS_Subset
    <2>2. Retrying(o)' \in SUBSET Thread
      BY DEF Retrying
    <2>3. Available(o)' \in Nat
      BY ObjectsDistinct DEF Available, WaitObj, ListInv, TypeOK
    <2> QED
      BY <2>1, <2>2, <2>3, CountTypes, FS_Subset, FS_CardinalityType
  <1>3. Cardinality(Retrying(o)) <= Cardinality(Retrying(o)')
    BY <1>1, <1>2, FS_Subset
  <1> QED
    BY <1>1, <1>2, <1>3 DEF Covered

\* A step after which o has no free unit.
LEMMA WakeNone ==
  ASSUME ListInv, ListInv', NEW o \in WaitObj, Available(o)' = 0
  PROVE  Covered(o)'
  <1>1. IsFiniteSet(Thread)
    BY ObjectsFinite, FS_Subset
  <1>2. Retrying(o)' \in SUBSET Thread
    BY DEF Retrying
  <1>3. Cardinality(Retrying(o)') \in Nat
    BY <1>1, <1>2, FS_Subset, FS_CardinalityType
  <1> QED
    BY <1>3 DEF Covered

\* A step that touches no semaphore, no mutex and no thread that waits or will
\* try again.
LEMMA WakeQuiet ==
  ASSUME ListInv, ListInv', WakeInv, UNCHANGED <<sem, mutex>>,
         \A u \in Thread :
           /\ flags'[u] = "WAIT" => flags[u] = "WAIT"
           /\ flags[u] = "WAIT" => obj'[u] = obj[u]
                                   /\ pc'[u] \in {"again", "wait_sched"}
           /\ flags[u] = "RUN" => flags'[u] = "RUN"
           /\ flags[u] = "RUN" /\ pc[u] \in {"again", "wait_sched"} =>
                obj'[u] = obj[u] /\ pc'[u] \in {"again", "wait_sched"}
  PROVE  WakeInv'
  <1>1. WaitersRetry'
    BY DEF WakeInv, WaitersRetry
  <1>2. ASSUME NEW o \in WaitObj
        PROVE  Covered(o)'
    <2>1. Covered(o) /\ Available(o)' = Available(o) /\ Available(o) \in Nat
      BY CountTypes DEF WakeInv, Available
    <2>2. \A u \in Thread : /\ u \in Waiters(o)' => u \in Waiters(o)
                            /\ u \in Retrying(o) => u \in Retrying(o)'
      BY DEF Waiters, Retrying
    <2> QED
      BY <2>1, <2>2, WakeMono
  <1> QED
    BY <1>1, <1>2 DEF WakeInv

\* Where every thread but t keeps its flags, its object and its pc, only t can
\* make a difference.
LEMMA WakeSelf ==
  ASSUME ListInv, ListInv', WakeInv, UNCHANGED <<sem, mutex>>,
         NEW t \in Thread, flags[t] = "RUN", pc[t] \notin {"again", "wait_sched"},
         \A u \in Thread \ {t} :
           flags'[u] = flags[u] /\ obj'[u] = obj[u] /\ pc'[u] = pc[u],
         flags'[t] \in {"RUN", "SLEEPING"}
  PROVE  WakeInv'
  <1>1. WaitersRetry'
    BY DEF WakeInv, WaitersRetry
  <1>2. ASSUME NEW o \in WaitObj
        PROVE  Covered(o)'
    <2>1. Covered(o) /\ Available(o)' = Available(o) /\ Available(o) \in Nat
      BY CountTypes DEF WakeInv, Available
    <2>2. \A u \in Thread : /\ u \in Waiters(o)' => u \in Waiters(o)
                            /\ u \in Retrying(o) => u \in Retrying(o)'
      BY DEF Waiters, Retrying
    <2> QED
      BY <2>1, <2>2, WakeMono
  <1> QED
    BY <1>1, <1>2 DEF WakeInv

\* sem_get and mutex_get take the unit the thread was on its way to.
LEMMA WakeSuccess ==
  ASSUME ListInv, ListInv', WakeInv, NEW t \in Thread, wait_get_success(t)
  PROVE  WakeInv'
  <1> PICK o : o = obj[t]
    OBVIOUS
  <1>1. /\ At(t, {"again"}) /\ CanGet(o, t)
        /\ IF o \in Sem THEN sem_get(o) ELSE mutex_get(o, t)
        /\ pc' = [pc EXCEPT ![t] = "user"]
        /\ obj' = [obj EXCEPT ![t] = NULL]
        /\ UNCHANGED flags
    BY DEF wait_get_success, Return
  <1>2. t \in Ctx /\ flags[t] = "RUN" /\ pc[t] = "again" /\ o \in WaitObj
    <2>1. t \in Ctx /\ flags[t] = "RUN"
      BY <1>1, RunningThread DEF PcValues, At
    <2> QED
      BY <1>1, <2>1 DEF ListInv, CallObject, At
  <1>3. /\ \A u \in Thread \ {t} : obj'[u] = obj[u] /\ pc'[u] = pc[u]
        /\ pc'[t] = "user"
    BY <1>1, <1>2 DEF ListInv, TypeOK, Ctx
  <1>4. WaitersRetry'
    BY <1>1, <1>2, <1>3 DEF WakeInv, WaitersRetry
  <1>5. ASSUME NEW q \in WaitObj, q # o
        PROVE  Covered(q)'
    <2>1. Available(q)' = Available(q) /\ Available(q) \in Nat
      BY <1>1, <1>2, <1>5, CountTypes, ObjectsDistinct
         DEF Available, sem_get, mutex_get, ListInv, TypeOK, WaitObj
    <2>2. \A u \in Thread : /\ u \in Waiters(q)' => u \in Waiters(q)
                            /\ u \in Retrying(q) => u \in Retrying(q)'
      BY <1>1, <1>2, <1>3, <1>5 DEF Waiters, Retrying
    <2> QED
      BY <2>1, <2>2, WakeMono DEF WakeInv
  <1>6. Covered(o)'
    <2>1. CASE o \in Sem
      <3>1. Available(o)' = Available(o) - 1
        BY <1>1, <2>1 DEF Available, sem_get, ListInv, TypeOK
      <3>2. Waiters(o)' \subseteq Waiters(o)
        BY <1>1, <1>2, <1>3 DEF Waiters
      <3>3. Retrying(o)' = Retrying(o) \ {t} /\ t \in Retrying(o)
        BY <1>1, <1>2, <1>3 DEF Retrying
      <3>4. /\ IsFiniteSet(Retrying(o)) /\ Cardinality(Retrying(o)) \in Nat
            /\ Available(o) \in Nat
        BY <1>2, CountTypes
      <3>5. Cardinality(Retrying(o)') = Cardinality(Retrying(o)) - 1
        BY <3>3, <3>4, FS_RemoveElement
      <3> QED
        BY <1>2, <3>1, <3>2, <3>4, <3>5 DEF Covered, WakeInv
    <2>2. CASE o \notin Sem
      <3>1. Available(o)' = 0
        <4>1. o \in Mutex /\ t # NULL
          BY <1>2, <2>2, ObjectsDistinct DEF WaitObj, Ctx
        <4>2. mutex'[o].thread = t
          BY <1>1, <2>2, <4>1 DEF mutex_get, ListInv, TypeOK
        <4> QED
          BY <2>2, <4>1, <4>2 DEF Available
      <3> QED
        BY <1>2, <3>1, WakeNone
    <2> QED
      BY <2>1, <2>2
  <1> QED
    BY <1>4, <1>5, <1>6 DEF WakeInv

\* A thread that gives up or queues up found nothing to take.
LEMMA WakeNothing ==
  ASSUME ListInv, ListInv', WakeInv, NEW t \in Thread,
         wait_get_fail(t) \/ wait_get_block(t)
  PROVE  WakeInv'
  <1> PICK o : o = obj[t]
    OBVIOUS
  <1>1. /\ At(t, {"again"}) /\ ~CanGet(o, t) /\ UNCHANGED <<sem, mutex>>
        /\ \/ /\ pc' = [pc EXCEPT ![t] = "user"]
              /\ obj' = [obj EXCEPT ![t] = NULL] /\ UNCHANGED flags
           \/ /\ pc' = [pc EXCEPT ![t] = "wait_sched"]
              /\ flags' = [flags EXCEPT ![t] = "WAIT"] /\ UNCHANGED obj
    BY DEF wait_get_fail, wait_get_block, Return, Goto, syncVars
  <1>2. t \in Ctx /\ flags[t] = "RUN" /\ pc[t] = "again" /\ o \in WaitObj
    <2>1. t \in Ctx /\ flags[t] = "RUN"
      BY <1>1, RunningThread DEF PcValues, At
    <2> QED
      BY <1>1, <2>1 DEF ListInv, CallObject, At
  <1>3. /\ \A u \in Thread \ {t} :
             obj'[u] = obj[u] /\ pc'[u] = pc[u] /\ flags'[u] = flags[u]
        /\ \/ flags'[t] = "RUN"
           \/ flags'[t] = "WAIT" /\ pc'[t] = "wait_sched" /\ obj'[t] = o
    BY <1>1, <1>2 DEF ListInv, TypeOK, Ctx
  <1>4. WaitersRetry'
    BY <1>2, <1>3 DEF WakeInv, WaitersRetry
  <1>5. ASSUME NEW q \in WaitObj, q # o
        PROVE  Covered(q)'
    <2>1. Available(q)' = Available(q) /\ Available(q) \in Nat
      BY <1>1, CountTypes DEF Available
    <2>2. \A u \in Thread : /\ u \in Waiters(q)' => u \in Waiters(q)
                            /\ u \in Retrying(q) => u \in Retrying(q)'
      BY <1>2, <1>3, <1>5 DEF Waiters, Retrying
    <2> QED
      BY <2>1, <2>2, WakeMono DEF WakeInv
  <1>6. Available(o)' = 0
    BY <1>1, <1>2, ObjectsDistinct DEF Available, CanGet, ListInv, TypeOK, WaitObj
  <1> QED
    BY <1>2, <1>4, <1>5, <1>6, WakeNone DEF WakeInv

\* wait_put: with a free unit more there is a thread more to take it, unless
\* nobody waits.
LEMMA WakePut ==
  ASSUME ListInv, ListInv', PlaceInv, WakeInv, NEW t \in Thread, NEW o \in WaitObj,
         NEW freed \in BOOLEAN, At(t, {"user"}), wait_put(t, o, freed), UNCHANGED obj,
         \A q \in WaitObj \ {o} : Available(q)' = Available(q),
         ~freed => Available(o)' = 0,
         freed => Available(o)' <= Available(o) + 1
  PROVE  WakeInv'
  <1>1. flags[t] = "RUN" /\ pc[t] = "user" /\ t \in Ctx
    BY RunningThread DEF PcValues, At
  <1>2. CASE ~(freed /\ ~list_empty(list, o))
    <2>1. UNCHANGED <<flags, pc>>
      BY <1>2 DEF wait_put
    <2>2. \A q : Waiters(q)' = Waiters(q) /\ Retrying(q)' = Retrying(q)
      BY <2>1 DEF Waiters, Retrying
    <2>3. Covered(o)'
      <3>1. CASE ~freed
        BY <3>1, WakeNone
      <3>2. CASE freed
        <4>1. list_empty(list, o) /\ o \in ListNode
          BY <1>2, <3>2 DEF ListNode
        <4>2. Ring(list, ListNode, o) = {o}
          BY <4>1, RingEmpty
        <4>3. Waiters(o) = {}
          <5> SUFFICES ASSUME NEW u \in Thread, flags[u] = "WAIT", obj[u] = o
                       PROVE  FALSE
            BY DEF Waiters
          <5>1. u \in Ring(list, ListNode, o)
            BY QueuedHome DEF PlaceInv, Queued
          <5> QED
            BY <4>2, <5>1, ObjectsDistinct
        <4> QED
          BY <2>2, <4>3 DEF Covered
      <3> QED
        BY <3>1, <3>2
    <2>4. \A q \in WaitObj \ {o} : Covered(q)'
      BY <2>2 DEF Covered, WakeInv
    <2>5. WaitersRetry'
      BY <2>1 DEF WakeInv, WaitersRetry
    <2> QED
      BY <2>3, <2>4, <2>5 DEF WakeInv
  <1>3. CASE freed /\ ~list_empty(list, o)
    <2> DEFINE w == list_fifo_first(list, o)
    <2>1. /\ snow_wakeup(list_fifo_get(list, o), timer, w)
          /\ pc' = [pc EXCEPT ![t] = "put_sched"]
      BY <1>3 DEF wait_put, Goto
    <2>2. w \in Thread /\ flags[w] = "WAIT" /\ obj[w] = o /\ w # t
      BY <1>1, <1>3, FirstWaiter
    <2> HIDE DEF w
    <2>3. flags' = [flags EXCEPT ![w] = "RUN"]
      BY <2>1, <2>2 DEF snow_wakeup, thread_is_run
    <2>4. /\ \A u \in Thread \ {w} : flags'[u] = flags[u]
          /\ \A u \in Thread \ {t} : pc'[u] = pc[u]
          /\ flags'[w] = "RUN" /\ pc[w] \in {"again", "wait_sched"}
          /\ pc'[t] = "put_sched"
      BY <1>1, <2>1, <2>2, <2>3 DEF ListInv, TypeOK, Ctx, WakeInv, WaitersRetry
    <2>5. WaitersRetry'
      BY <1>1, <2>2, <2>4 DEF WakeInv, WaitersRetry
    <2>6. ASSUME NEW q \in WaitObj, q # o
          PROVE  Covered(q)'
      <3>1. Available(q)' = Available(q) /\ Available(q) \in Nat
        BY <2>6, CountTypes
      <3>2. \A u \in Thread : /\ u \in Waiters(q)' => u \in Waiters(q)
                              /\ u \in Retrying(q) => u \in Retrying(q)'
        BY <1>1, <2>2, <2>4 DEF Waiters, Retrying
      <3> QED
        BY <3>1, <3>2, WakeMono DEF WakeInv
    <2>7. Covered(o)'
      <3>1. w \in Waiters(o) /\ w \notin Retrying(o)
        BY <2>2 DEF Waiters, Retrying
      <3>2. Retrying(o)' = Retrying(o) \cup {w}
        BY <1>1, <2>2, <2>4 DEF Retrying
      <3>3. /\ IsFiniteSet(Retrying(o)) /\ Cardinality(Retrying(o)) \in Nat
            /\ Available(o) \in Nat
        BY CountTypes
      <3>4. Cardinality(Retrying(o)') = Cardinality(Retrying(o)) + 1
        BY <3>1, <3>2, <3>3, FS_AddElement
      <3>5. Available(o)' \in Nat
        BY ObjectsDistinct DEF Available, WaitObj, ListInv, TypeOK
      <3> QED
        BY <1>3, <3>1, <3>3, <3>4, <3>5 DEF Covered, WakeInv
    <2> QED
      BY <2>5, <2>6, <2>7 DEF WakeInv
  <1> QED
    BY <1>2, <1>3

\* The scheduler only makes threads ready.
LEMMA WakeSched ==
  ASSUME ListInv, ListInv', WakeInv, SchedStep
  PROVE  WakeInv'
  <1>1. UNCHANGED <<sem, mutex, pc, obj>>
    BY DEF SchedStep, sched_fire_wakeup, sched_fire_user, sched_switch,
           callVars, syncVars
  <1>2. \A u \in Thread : flags'[u] \in {flags[u], "RUN"}
    <2>1. CASE sched_fire_wakeup
      BY <2>1 DEF sched_fire_wakeup, snow_wakeup, ListInv, TypeOK
    <2>2. CASE sched_fire_user \/ sched_switch
      BY <2>2 DEF sched_fire_user, sched_switch
    <2> QED
      BY <2>1, <2>2 DEF SchedStep
  <1> QED
    BY <1>1, <1>2, WakeQuiet DEF WakeInv, WaitersRetry

LEMMA WakeCreate ==
  ASSUME ListInv, ListInv', WakeInv, NEW c \in Ctx,
         (\E new \in Thread : snow_thread_create(c, new)) \/ thread_create_put(c)
  PROVE  WakeInv'
  <1>1. /\ handler = "none" /\ current = c
        /\ pc[c] \in {"boot", "user", "create_put"}
        /\ UNCHANGED <<sem, mutex>>
    BY DEF snow_thread_create, thread_create_put, At, syncVars
  <1>2. c \in Thread => flags[c] = "RUN"
    BY <1>1 DEF ListInv, CurrentReady
  <1>3. CASE \E new \in Thread : snow_thread_create(c, new)
    <2>1. PICK new \in Thread : snow_thread_create(c, new)
      BY <1>3
    <2>2. /\ flags[new] = "NEW" /\ UNCHANGED flags
          /\ obj' = [obj EXCEPT ![c] = new]
          /\ pc' = [[pc EXCEPT ![new] = "user"] EXCEPT ![c] = "create_put"]
      BY <2>1 DEF snow_thread_create, syscall_forkidle
    <2>3. \A u \in Thread : u # c /\ flags[u] # "NEW" =>
             obj'[u] = obj[u] /\ pc'[u] = pc[u]
      BY <2>2 DEF ListInv, TypeOK, Ctx
    <2> QED
      BY <1>1, <1>2, <2>2, <2>3, WakeQuiet DEF WakeInv, WaitersRetry
  <1>4. CASE thread_create_put(c)
    <2>1. /\ flags' = [flags EXCEPT ![obj[c]] = "RUN"]
          /\ obj' = [obj EXCEPT ![c] = NULL]
          /\ pc' = [pc EXCEPT ![c] = IF c = idle THEN "loop" ELSE "user"]
          /\ pc[c] = "create_put"
      BY <1>4 DEF thread_create_put, Goto, At
    <2>2. obj[c] \in Thread /\ flags[obj[c]] = "NEW"
      BY <2>1 DEF ListInv, CallObject
    <2>3. \A u \in Thread :
             /\ flags'[u] \in {flags[u], "RUN"}
             /\ u # c => obj'[u] = obj[u] /\ pc'[u] = pc[u]
      BY <2>1 DEF ListInv, TypeOK, Ctx
    <2> QED
      BY <1>1, <1>2, <2>1, <2>3, WakeQuiet DEF WakeInv, WaitersRetry
  <1> QED
    BY <1>3, <1>4

LEMMA WakeCall ==
  ASSUME ListInv, ListInv', PlaceInv, WakeInv, NEW t \in Thread, Call(t)
  PROVE  WakeInv'
  <1>1. /\ t \in Ctx /\ Thread \subseteq Ctx
        /\ Sem \subseteq WaitObj /\ Mutex \subseteq WaitObj /\ Sem \cap Mutex = {}
        /\ NULL \notin Thread
    BY ObjectsDistinct DEF Ctx, WaitObj
  <1>2. At(t, {"user"})
    BY ObjectsDistinct
       DEF Call, snow_thread_create, thread_end, snow_usleep, snow_udelay,
           timer_add_us, snow_timer_del, wait_get_timeout, snow_sem_up,
           snow_mutex_unlock, At, ListInv, CallObject
  <1>3. flags[t] = "RUN" /\ pc[t] = "user"
    BY <1>2, RunningThread DEF At, PcValues
  <1>4. CASE \E new \in Thread : snow_thread_create(t, new)
    BY <1>1, <1>4, WakeCreate
  <1>5. ASSUME UNCHANGED <<sem, mutex>>,
               \E f \in {"RUN", "SLEEPING"} : flags' = [flags EXCEPT ![t] = f],
               \E p : pc' = [pc EXCEPT ![t] = p],
               \E x : obj' = [obj EXCEPT ![t] = x]
        PROVE  WakeInv'
    <2>1. /\ \A u \in Thread \ {t} :
               flags'[u] = flags[u] /\ obj'[u] = obj[u] /\ pc'[u] = pc[u]
          /\ flags'[t] \in {"RUN", "SLEEPING"}
      BY <1>1, <1>5 DEF ListInv, TypeOK
    <2> QED
      BY <1>3, <1>5, <2>1, WakeSelf
  <1>6. /\ flags = [flags EXCEPT ![t] = "RUN"]
        /\ pc = [pc EXCEPT ![t] = pc[t]] /\ obj = [obj EXCEPT ![t] = obj[t]]
    BY <1>1, <1>3 DEF ListInv, TypeOK
  <1> USE DEF syncVars, callVars
  <1>7. CASE thread_end(t)
    BY <1>5, <1>6, <1>7 DEF thread_end, Goto
  <1>8. CASE \E us \in SleepUs : snow_usleep(t, us)
    BY <1>5, <1>6, <1>8 DEF snow_usleep, Goto
  <1>9. CASE \E us \in TimerUs : snow_udelay(t, us)
    BY <1>5, <1>6, <1>9 DEF snow_udelay, Goto
  <1>10. CASE \E x \in UTimer, us \in TimerUs : timer_add_us(t, x, us)
    BY <1>5, <1>6, <1>10 DEF timer_add_us, Goto
  <1>11. CASE \E x \in UTimer : snow_timer_del(t, x)
    BY <1>5, <1>6, <1>11 DEF snow_timer_del
  <1>12. CASE \E o \in WaitObj, us \in WaitUs : wait_get_timeout(t, o, us)
    BY <1>5, <1>6, <1>12 DEF wait_get_timeout, Goto
  <1>13. ASSUME NEW s \in Sem, snow_sem_up(t, s)
         PROVE  WakeInv'
    <2>1. /\ wait_put(t, s, TRUE) /\ UNCHANGED <<obj, mutex>>
          /\ sem' = [sem EXCEPT ![s] = @ + 1]
      BY <1>13 DEF snow_sem_up
    <2>2. /\ \A q \in WaitObj \ {s} : Available(q)' = Available(q)
          /\ Available(s)' <= Available(s) + 1
      BY <2>1 DEF Available, ListInv, TypeOK
    <2> QED
      BY <1>1, <1>2, <2>1, <2>2, WakePut
  <1>14. ASSUME NEW m \in Mutex, snow_mutex_unlock(t, m)
         PROVE  WakeInv'
    <2> DEFINE freed == mutex_put(m).count = 0
    <2>1. /\ wait_put(t, m, freed) /\ UNCHANGED <<obj, sem>>
          /\ mutex' = [mutex EXCEPT ![m] = mutex_put(m)]
          /\ held[t][m] > 0
      BY <1>14 DEF snow_mutex_unlock
    <2>2. mutex[m].thread = t /\ mutex[m].thread # NULL
      BY <1>1, <2>1 DEF ListInv, MutexOwnership
    <2>3. /\ \A q \in WaitObj \ {m} : Available(q)' = Available(q)
          /\ m \notin Sem /\ Available(m) = 0 /\ Available(m)' \in {0, 1}
      BY <1>1, <2>1, <2>2 DEF Available, ListInv, TypeOK
    <2>4. ~freed => Available(m)' = 0
      BY <1>1, <2>1, <2>2, <2>3 DEF Available, mutex_put, ListInv, TypeOK
    <2>5. freed \in BOOLEAN /\ (freed => Available(m)' <= Available(m) + 1)
      BY <2>3
    <2> HIDE DEF freed
    <2> QED
      BY <1>1, <1>2, <2>1, <2>3, <2>4, <2>5, WakePut
  <1> QED
    BY <1>4, <1>7, <1>8, <1>9, <1>10, <1>11, <1>12, <1>13, <1>14 DEF Call

LEMMA WakeKernelStep ==
  ASSUME ListInv, ListInv', WakeInv, NEW t \in Thread, KernelStep(t)
  PROVE  WakeInv'
  <1>1. t \in Ctx /\ Thread \subseteq Ctx
    BY DEF Ctx
  <1> USE DEF syncVars
  <1>2. CASE snow_sched(t)
    <2>1. /\ UNCHANGED <<sem, mutex, flags, obj>>
          /\ pc' = [pc EXCEPT ![t] = IF pc[t] = "wait_sched" THEN "again" ELSE "user"]
          /\ pc[t] # "again"
      BY <1>2 DEF snow_sched, Goto, At
    <2>2. /\ \A u \in Thread \ {t} : pc'[u] = pc[u]
          /\ pc[t] = "wait_sched" => pc'[t] = "again"
      BY <1>1, <2>1 DEF ListInv, TypeOK
    <2> QED
      BY <2>1, <2>2, WakeQuiet DEF WakeInv, WaitersRetry
  <1>3. CASE udelay_return(t) \/ timer_add_insert(t)
    <2>1. /\ At(t, {"udelay", "timer_add"}) /\ UNCHANGED <<sem, mutex, flags>>
          /\ pc' = [pc EXCEPT ![t] = "user"] /\ obj' = [obj EXCEPT ![t] = NULL]
      BY <1>3 DEF udelay_return, timer_add_insert, Return, At
    <2>2. flags[t] = "RUN" /\ pc[t] \notin {"again", "wait_sched"}
      BY <2>1, RunningThread DEF At, PcValues
    <2>3. \A u \in Thread \ {t} : obj'[u] = obj[u] /\ pc'[u] = pc[u]
      BY <1>1, <2>1 DEF ListInv, TypeOK
    <2> QED
      BY <2>1, <2>2, <2>3, WakeSelf
  <1>4. CASE wait_get_success(t)
    BY <1>4, WakeSuccess
  <1>5. CASE wait_get_fail(t) \/ wait_get_block(t)
    BY <1>5, WakeNothing
  <1> QED
    BY <1>2, <1>3, <1>4, <1>5 DEF KernelStep

LEMMA WakeStep ==
  ASSUME ListInv, ListInv', PlaceInv, WakeInv, [Next]_vars
  PROVE  WakeInv'
  <1>1. ASSUME UNCHANGED <<sem, mutex, flags, pc, obj>>
        PROVE  WakeInv'
    BY <1>1, WakeQuiet DEF WakeInv, WaitersRetry
  <1>2. CASE UNCHANGED vars
    BY <1>1, <1>2 DEF vars, callVars, syncVars
  <1>3. CASE snow_tick_handler
    BY <1>1, <1>3 DEF snow_tick_handler, callVars, syncVars
  <1>4. CASE SchedStep
    BY <1>4, WakeSched
  <1>5. CASE Idle
    BY <1>2, <1>5, WakeCreate, ObjectsDistinct DEF Idle, spin, Ctx
  <1>6. ASSUME NEW t \in Thread,
               Call(t) \/ KernelStep(t) \/ thread_create_put(t) \/ spin(t)
        PROVE  WakeInv'
    BY <1>2, <1>6, WakeCall, WakeKernelStep, WakeCreate DEF spin, Ctx
  <1> QED
    BY <1>2, <1>3, <1>4, <1>5, <1>6 DEF Next

\* No wakeup is lost, in every execution in which no thread is woken while it
\* is current: however timeouts, wakeups and late comers interleave, a thread
\* waits for a semaphore or a mutex only while every free unit of it has a
\* thread on its way to take it.
THEOREM WakeupsNotLost == TimelySpec => []NoLostWakeup
  <1>1. Init => PlaceInv /\ WakeInv
    <2>1. ASSUME Init
          PROVE  WakeInv
      BY <2>1 DEF Init, WakeInv, WaitersRetry, Covered, Waiters
    <2> QED
      BY <2>1, PlaceInit
  <1>2. /\ ListInv /\ ListInv' /\ PlaceInv /\ WakeInv
        /\ [Next /\ ~SelfWake']_vars
        => PlaceInv' /\ WakeInv'
    BY PlaceStep, WakeStep
  <1>3. WakeInv => NoLostWakeup
    BY DEF WakeInv, Covered, NoLostWakeup
  <1> QED
    BY <1>1, <1>2, <1>3, RingsInductive, PTL DEF TimelySpec

-----------------------------------------------------------------------------
(***************************************************************************)
(* The scheduler is round robin.                                            *)
(***************************************************************************)

Queue == Walk(list, ListNode, sched_list)

Ready == {t \in Thread : flags[t] = "RUN"}

LEMMA SchedListNode ==
  ASSUME ListInv
  PROVE  /\ sched_list \in ListNode /\ sched_list \notin Thread
         /\ Home[sched_list] = sched_list
         /\ IsFiniteSet(ListNode)
         /\ list \in LinkStates(ListNode) /\ Consistent(list, ListNode)
         /\ Respects(list, ListNode, Home)
  <1>1. sched_list \in ListNode /\ sched_list \notin Thread
    BY ObjectsDistinct DEF ListNode
  <1>2. Home[sched_list] = sched_list
    BY <1>1 DEF Home
  <1> QED
    BY <1>1, <1>2, NodesFinite DEF ListInv, TypeOK, ListsConsistent, ListsApart

\* A thread that becomes ready goes to the end of the queue.
LEMMA ReadyStep ==
  ASSUME ListInv, NEW t \in Thread, flags[t] # "RUN", t # current,
         flags' = [flags EXCEPT ![t] = "RUN"], current' = current,
         Queue' = Append(Queue, t)
  PROVE  RR!RRNext
  <1>1. Ready' = Ready \cup {t} /\ t \notin Ready
    BY DEF Ready, ListInv, TypeOK
  <1>2. RR!MakeReady(t)
    BY <1>1 DEF RR!MakeReady, Queue, Ready
  <1> QED
    BY <1>2 DEF RR!RRNext

\* A step that leaves the queue, the CPU and the ready threads alone.
LEMMA SameStep ==
  ASSUME UNCHANGED <<list, flags, current>>
  PROVE  UNCHANGED RR!rrVars
BY DEF RR!rrVars

\* snow_wakeup of a thread that sleeps or waits, which has already been taken
\* off its wait list or not.
LEMMA WakeupStep ==
  ASSUME ListInv, NEW t \in Thread, flags[t] \in {"SLEEPING", "WAIT"}, t # current,
         NEW l, l \in {list, list_remove(list, t)}, NEW tm, snow_wakeup(l, tm, t),
         current' = current
  PROVE  RR!RRNext
  <1> DEFINE r == list_remove(list, t)
  <1>1. t \in ListNode /\ t # idle /\ t # sched_list
    BY ObjectsDistinct DEF ListNode
  <1>2. /\ flags' = [flags EXCEPT ![t] = "RUN"]
        /\ list' = list_fifo_put(list_remove(l, t), t, sched_list)
    BY <1>1 DEF snow_wakeup, thread_is_run
  <1>3. /\ sched_list \in ListNode /\ Home[sched_list] = sched_list
        /\ IsFiniteSet(ListNode)
        /\ list \in LinkStates(ListNode) /\ Consistent(list, ListNode)
        /\ Respects(list, ListNode, Home)
    BY SchedListNode
  <1>4. Home[t] # Home[sched_list]
    <2>1. CASE flags[t] = "SLEEPING"
      BY <1>1, <1>3, <2>1 DEF Home
    <2>2. CASE flags[t] = "WAIT"
      <3>1. Home[t] \in WaitObj
        BY <2>2, QueuedHome
      <3> QED
        BY <1>3, <3>1, ObjectsDistinct
    <2> QED
      BY <2>1, <2>2
  <1> HIDE DEF Home
  <1>5. r \in LinkStates(ListNode) /\ Consistent(r, ListNode) /\ Detached(r, t)
    BY <1>1, <1>3, RemoveConsistent
  <1>6. Walk(r, ListNode, sched_list) = Queue
    BY <1>1, <1>3, <1>4, WalkRemoveAway DEF Queue
  <1> HIDE DEF r
  <1>7. list_remove(l, t) = r
    BY <1>1, <1>5, RemoveDetached DEF r
  <1>8. Walk(list_fifo_put(r, t, sched_list), ListNode, sched_list) = Append(Queue, t)
    BY <1>1, <1>3, <1>5, <1>6, WalkPut
  <1>9. Queue' = Append(Queue, t)
    BY <1>2, <1>7, <1>8 DEF Queue
  <1> QED
    BY <1>2, <1>9, ReadyStep

LEMMA FireWakeupStep ==
  ASSUME ListInv, sched_fire_wakeup
  PROVE  RR!RRNext
  <1> DEFINE t == timer.next[timer_list]
  <1>1. /\ handler = "sched" /\ ~list_empty(timer, timer_list)
        /\ timer_us[t] <= sys_time_us
        /\ t \in Thread /\ snow_wakeup(list, list_remove(timer, t), t)
        /\ current' = current
    BY DEF sched_fire_wakeup, TimerDue, cpuVars
  <1>2. timer_list \in TimerNode
    BY DEF TimerNode
  <1>3. ~Detached(timer, t)
    BY <1>1, <1>2, FirstLinked DEF ListInv, TypeOK, ListsConsistent
  <1>4. flags[t] \in {"SLEEPING", "WAIT"} /\ t # current
    BY <1>1, <1>3 DEF ListInv, TypeOK, TimerOff, NoSelfWake, SelfWake
  <1> HIDE DEF t
  <1> QED
    BY <1>1, <1>4, WakeupStep

LEMMA PutWakesStep ==
  ASSUME ListInv, NEW t \in Thread, At(t, {"user"}), NEW o \in WaitObj, NEW freed,
         wait_put(t, o, freed), current' = current
  PROVE  RR!RRNext \/ UNCHANGED RR!rrVars
  <1>1. CASE freed /\ ~list_empty(list, o)
    <2> DEFINE w == list_fifo_first(list, o)
    <2>1. snow_wakeup(list_fifo_get(list, o), timer, w)
      BY <1>1 DEF wait_put
    <2>2. w \in Thread /\ flags[w] = "WAIT"
      BY <1>1, FirstWaiter
    <2>3. list_fifo_get(list, o) = list_remove(list, w)
      BY DEF list_fifo_get
    <2>4. flags[current] = "RUN"
      BY RunningThread DEF At, PcValues
    <2>5. flags[w] \in {"SLEEPING", "WAIT"} /\ w # current
      BY <2>2, <2>4
    <2> HIDE DEF w
    <2> QED
      BY <2>1, <2>2, <2>3, <2>5, WakeupStep
  <1>2. CASE ~(freed /\ ~list_empty(list, o))
    BY <1>2, SameStep DEF wait_put
  <1> QED
    BY <1>1, <1>2

LEMMA CreatePutStep ==
  ASSUME ListInv, NEW c \in Ctx, thread_create_put(c)
  PROVE  RR!RRNext
  <1> DEFINE t == obj[c]
  <1>1. /\ pc[c] = "create_put"
        /\ flags' = [flags EXCEPT ![t] = "RUN"]
        /\ list' = list_fifo_put(list, t, sched_list)
        /\ current' = current
    BY DEF thread_create_put, At, cpuVars
  <1>2. t \in Thread /\ flags[t] = "NEW"
    BY <1>1 DEF ListInv, CallObject
  <1> HIDE DEF t
  <1>3. t # current /\ Detached(list, t)
    BY <1>2, HomelessDetached DEF ListInv, CurrentReady
  <1>4. t \in ListNode /\ t # sched_list
    BY <1>2, ObjectsDistinct DEF ListNode
  <1>5. Queue' = Append(Queue, t)
    BY <1>1, <1>3, <1>4, SchedListNode, WalkPut DEF Queue
  <1> QED
    BY <1>1, <1>2, <1>3, <1>5, ReadyStep

\* The running thread sleeps or waits.
LEMMA BlockStep ==
  ASSUME ListInv, NEW t \in Thread, t = current, flags[t] = "RUN", NEW f, f # "RUN",
         flags' = [flags EXCEPT ![t] = f], current' = current, Queue' = Queue
  PROVE  RR!RRNext
  <1>1. Ready' = Ready \ {current} /\ current \in Ready
    BY DEF Ready, ListInv, TypeOK
  <1>2. RR!Block
    BY <1>1 DEF RR!Block, Queue, Ready
  <1> QED
    BY <1>2 DEF RR!RRNext

LEMMA UsleepStep ==
  ASSUME ListInv, NEW t \in Thread, NEW us, snow_usleep(t, us)
  PROVE  RR!RRNext
  <1>1. /\ t = current /\ flags' = [flags EXCEPT ![t] = "SLEEPING"]
        /\ current' = current /\ list' = list
    BY DEF snow_usleep, At, cpuVars
  <1>2. flags[t] = "RUN"
    BY RunningThread DEF snow_usleep, At, PcValues
  <1>3. Queue' = Queue
    BY <1>1 DEF Queue
  <1> QED
    BY <1>1, <1>2, <1>3, BlockStep

LEMMA WaitBlockStep ==
  ASSUME ListInv, NEW t \in Thread, wait_get_block(t)
  PROVE  RR!RRNext
  <1>1. /\ t = current /\ flags' = [flags EXCEPT ![t] = "WAIT"]
        /\ list' = list_fifo_put(list, t, obj[t]) /\ pc[t] = "again"
        /\ current' = current
    BY DEF wait_get_block, At, cpuVars
  <1>2. flags[t] = "RUN" /\ Detached(list, t) /\ t \in ListNode
    BY RunningThread DEF wait_get_block, At, PcValues
  <1> DEFINE o == obj[t]
  <1>3. o \in WaitObj
    BY <1>1 DEF ListInv, CallObject, Ctx
  <1> HIDE DEF o
  <1>4. o \in ListNode /\ o \notin Thread /\ o # sched_list /\ t # o /\ t # sched_list
    BY <1>3, ObjectsDistinct DEF ListNode
  <1>5. Home[o] = o
    BY <1>4 DEF Home
  <1>6. Home[o] # Home[sched_list]
    BY <1>4, <1>5, SchedListNode
  <1> HIDE DEF Home
  <1>7. Walk(list_fifo_put(list, t, o), ListNode, sched_list) = Queue
    BY <1>2, <1>4, <1>6, SchedListNode, WalkPutAway DEF Queue
  <1>8. Queue' = Queue
    BY <1>1, <1>7 DEF Queue, o
  <1> QED
    BY <1>1, <1>2, <1>8, BlockStep

LEMMA SwitchStep ==
  ASSUME ListInv, sched_switch
  PROVE  RR!RRNext \/ UNCHANGED RR!rrVars
  <1> DEFINE l == IF thread_is_run(current)
                  THEN list_fifo_put(list, current, sched_list) ELSE list
             none == list_empty(l, sched_list)
             queue == IF current \in Ready THEN Append(Queue, current) ELSE Queue
  <1>1. /\ sched_list \in ListNode /\ sched_list \notin Thread /\ IsFiniteSet(ListNode)
        /\ list \in LinkStates(ListNode) /\ Consistent(list, ListNode)
    BY SchedListNode
  <1>2. thread_is_run(current) <=> current \in Ready
    BY ObjectsDistinct DEF thread_is_run, Ready, ListInv, TypeOK, Ctx
  <1>3. l \in LinkStates(ListNode) /\ Consistent(l, ListNode)
        /\ Walk(l, ListNode, sched_list) = queue
    <2>1. CASE thread_is_run(current)
      <3>1. current \in ListNode /\ current # sched_list /\ Detached(list, current)
        BY <1>1, <1>2, <2>1 DEF Ready, ListNode, ListInv, CurrentOffList
      <3>2. Walk(list_fifo_put(list, current, sched_list), ListNode, sched_list)
              = Append(Queue, current)
        BY <1>1, <3>1, WalkPut DEF Queue
      <3>3. /\ list_fifo_put(list, current, sched_list) \in LinkStates(ListNode)
            /\ Consistent(list_fifo_put(list, current, sched_list), ListNode)
        BY <1>1, <3>1, FifoPutConsistent
      <3> QED
        BY <1>2, <2>1, <3>2, <3>3
    <2>2. CASE ~thread_is_run(current)
      BY <1>1, <1>2, <2>2 DEF Queue
    <2> QED
      BY <2>1, <2>2
  <1>4. CASE ~SliceOver
    BY <1>4, SameStep DEF sched_switch
  <1>5. CASE SliceOver
    <2>1. /\ list' = IF none THEN l ELSE list_fifo_get(l, sched_list)
          /\ current' = IF none THEN idle ELSE list_fifo_first(l, sched_list)
          /\ flags' = flags
      BY <1>5 DEF sched_switch
    <2> HIDE DEF l
    <2>2. /\ none <=> queue = <<>>
          /\ ~none => /\ list_fifo_first(l, sched_list) = Head(queue)
                      /\ Walk(list_fifo_get(l, sched_list), ListNode, sched_list) = Tail(queue)
      <3>1. /\ none <=> Walk(l, ListNode, sched_list) = <<>>
            /\ ~none => /\ list_fifo_first(l, sched_list) = Head(Walk(l, ListNode, sched_list))
                        /\ Walk(list_fifo_get(l, sched_list), ListNode, sched_list)
                             = Tail(Walk(l, ListNode, sched_list))
        BY <1>1, <1>3, WalkGet
      <3> QED
        BY <1>3, <3>1
    <2> HIDE DEF none, queue
    <2>3. Queue' = IF queue = <<>> THEN <<>> ELSE Tail(queue)
      BY <1>3, <2>1, <2>2 DEF Queue
    <2>4. current' = IF queue = <<>> THEN idle ELSE Head(queue)
      BY <2>1, <2>2
    <2>5. Ready' = Ready
      BY <2>1 DEF Ready
    <2>6. RR!Switch
      BY <2>3, <2>4, <2>5 DEF RR!Switch, Queue, Ready, queue
    <2> QED
      BY <2>6 DEF RR!RRNext
  <1> QED
    BY <1>4, <1>5

LEMMA RoundRobinStep ==
  ASSUME ListInv, [Next]_vars
  PROVE  [RR!RRNext]_RR!rrVars
  <1>0. Sem \subseteq WaitObj /\ Mutex \subseteq WaitObj /\ Thread \subseteq Ctx /\ idle \in Ctx
    BY DEF WaitObj, Ctx
  <1> USE DEF cpuVars, listVars
  <1>1. CASE UNCHANGED vars
    BY <1>1, SameStep DEF vars
  <1>2. CASE snow_tick_handler
    BY <1>2, SameStep DEF snow_tick_handler
  <1>3. CASE SchedStep
    <2>1. CASE sched_fire_user
      BY <2>1, SameStep DEF sched_fire_user
    <2> QED
      BY <1>3, <2>1, FireWakeupStep, SwitchStep DEF SchedStep
  <1>4. ASSUME NEW c \in Ctx, spin(c)
        PROVE  UNCHANGED RR!rrVars
    BY <1>4, <1>1, SameStep DEF spin, vars
  <1>5. ASSUME NEW c \in Ctx, NEW new, snow_thread_create(c, new)
        PROVE  UNCHANGED RR!rrVars
    BY <1>5, SameStep DEF snow_thread_create
  <1>6. CASE Idle
    BY <1>0, <1>4, <1>5, <1>6, CreatePutStep DEF Idle
  <1>7. ASSUME NEW t \in Thread, Call(t)
        PROVE  [RR!RRNext]_RR!rrVars
    <2>1. CASE \E new \in Thread : snow_thread_create(t, new)
      BY <1>0, <1>5, <2>1
    <2>2. CASE \E us \in SleepUs : snow_usleep(t, us)
      BY <2>2, UsleepStep
    <2>3. CASE \E s \in Sem : snow_sem_up(t, s)
      BY <1>0, <2>3, PutWakesStep DEF snow_sem_up
    <2>4. CASE \E m \in Mutex : snow_mutex_unlock(t, m)
      BY <1>0, <2>4, PutWakesStep DEF snow_mutex_unlock
    <2>5. CASE thread_end(t) \/ \E us \in TimerUs : snow_udelay(t, us)
      BY <2>5, SameStep DEF thread_end, snow_udelay
    <2>6. CASE \E x \in UTimer : (\E us \in TimerUs : timer_add_us(t, x, us))
                                 \/ snow_timer_del(t, x)
      BY <2>6, SameStep DEF timer_add_us, snow_timer_del
    <2>7. CASE \E o \in WaitObj, us \in WaitUs : wait_get_timeout(t, o, us)
      BY <2>7, SameStep DEF wait_get_timeout
    <2> QED
      BY <1>7, <2>1, <2>2, <2>3, <2>4, <2>5, <2>6, <2>7 DEF Call
  <1>8. ASSUME NEW t \in Thread, KernelStep(t)
        PROVE  [RR!RRNext]_RR!rrVars
    <2>1. CASE wait_get_block(t)
      BY <2>1, WaitBlockStep
    <2>2. CASE snow_sched(t) \/ udelay_return(t) \/ timer_add_insert(t)
      BY <2>2, SameStep DEF snow_sched, udelay_return, timer_add_insert
    <2>3. CASE wait_get_success(t) \/ wait_get_fail(t)
      BY <2>3, SameStep DEF wait_get_success, wait_get_fail
    <2> QED
      BY <1>8, <2>1, <2>2, <2>3 DEF KernelStep
  <1>9. ASSUME NEW t \in Thread, thread_create_put(t) \/ spin(t)
        PROVE  [RR!RRNext]_RR!rrVars
    BY <1>0, <1>4, <1>9, CreatePutStep
  <1> QED
    BY <1>1, <1>2, <1>3, <1>6, <1>7, <1>8, <1>9 DEF Next

\* The kernel implements the round-robin scheduler, for any number of threads
\* and objects, in every execution in which no thread is woken while it is
\* current: sched_list is a queue from which nobody is dropped and in which
\* nobody is duplicated or overtaken.
THEOREM RoundRobinImplemented == TimelySpec => IsRoundRobin
  <1>1. Init => RR!RRInit
    <2> SUFFICES ASSUME Init PROVE RR!RRInit
      OBVIOUS
    <2>1. ListInv
      BY RingsInit
    <2>2. list_empty(list, sched_list)
      BY <2>1, SchedListNode DEF Init, Unlinked, list_empty
    <2>3. Queue = <<>>
      BY <2>1, <2>2, SchedListNode, WalkGet DEF Queue
    <2>4. Ready = {} /\ current = idle
      BY DEF Init, Ready
    <2> QED
      BY <2>3, <2>4 DEF RR!RRInit, Queue, Ready
  <1>2. ListInv /\ [Next /\ ~SelfWake']_vars => [RR!RRNext]_RR!rrVars
    BY RoundRobinStep
  <1> QED
    BY <1>1, <1>2, RingsInductive, PTL DEF TimelySpec, IsRoundRobin, RR!RRSpec

-----------------------------------------------------------------------------
(***************************************************************************)
(* What all this says of an application that keeps to SafeTimes.            *)
(***************************************************************************)

\* The restriction of TimelySpec costs such an application nothing: all its
\* executions are among those in which no thread is woken while it is current.
THEOREM SafeTimesTimely ==
  ASSUME SafeTimes
  PROVE  Spec => TimelySpec
  <1>1. NoSelfWake' /\ [Next]_vars => [Next /\ ~SelfWake']_vars
    BY DEF NoSelfWake
  <1> QED
    BY <1>1, SafeTimesSuffice, PTL DEF Spec, TimelySpec

\* So in every execution of an application whose sleeps are longer than a tick
\* and whose waits only try or wait forever, nothing excluded, the kernel keeps
\* its types, every thread is where its flags say, the timers are sorted, no
\* wakeup is lost and the CPU is handed out round robin.
THEOREM SafeTimesKernel ==
  ASSUME SafeTimes
  PROVE  /\ Spec => [](TypeOK /\ ThreadPlaced /\ TimersSorted /\ NoLostWakeup)
         /\ Spec => IsRoundRobin
  <1>1. Spec => [](TypeOK /\ ThreadPlaced /\ TimersSorted /\ NoLostWakeup)
    BY SafeTimesTimely, KernelTyped, ThreadsStayPlaced, TimersStaySorted, WakeupsNotLost, PTL
  <1>2. Spec => IsRoundRobin
    BY SafeTimesTimely, RoundRobinImplemented, PTL
  <1> QED
    BY <1>1, <1>2
=============================================================================
