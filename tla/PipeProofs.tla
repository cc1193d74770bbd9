----------------------------- MODULE PipeProofs -----------------------------
(***************************************************************************)
(* The pipeline of pipe.c is a FIFO queue, for any number of stages, values  *)
(* and collectors.  The stages that hold a value, the last one first, are a  *)
(* sequence which every step changes at one place.                           *)
(***************************************************************************)
EXTENDS Pipe, FiniteSetTheorems, SequenceTheorems, TLAPS

-----------------------------------------------------------------------------
(***************************************************************************)
(* Numbers in descending order.                                             *)
(***************************************************************************)

\* f enumerates S from the largest to the smallest number.
Sorts(n, f, S) ==
  /\ n \in Nat /\ f \in [1 .. n -> S]
  /\ \A i, j \in 1 .. n : i < j => f[i] > f[j]
  /\ \A k \in S : \E i \in 1 .. n : f[i] = k

LEMMA SortsInjective ==
  ASSUME NEW S \in SUBSET Int, NEW n, NEW f, Sorts(n, f, S)
  PROVE  /\ \A i, j \in 1 .. n : f[i] = f[j] => i = j
         /\ \A i, j \in 1 .. n : f[i] > f[j] => i < j
  <1>1. \A i \in 1 .. n : f[i] \in Int
    BY DEF Sorts
  <1>2. \A i, j \in 1 .. n : i < j => f[i] > f[j]
    BY DEF Sorts
  <1> SUFFICES ASSUME NEW i \in 1 .. n, NEW j \in 1 .. n
               PROVE  (f[i] = f[j] => i = j) /\ (f[i] > f[j] => i < j)
    OBVIOUS
  <1>3. i < j \/ i = j \/ j < i
    OBVIOUS
  <1>4. (i < j => f[i] > f[j]) /\ (j < i => f[j] > f[i])
    BY <1>2
  <1>5. f[i] \in Int /\ f[j] \in Int
    BY <1>1
  <1> QED
    BY <1>3, <1>4, <1>5

\* There is only one way.
LEMMA SortsOnce ==
  ASSUME NEW S \in SUBSET Int, NEW n, NEW f, NEW g, Sorts(n, f, S), Sorts(n, g, S)
  PROVE  f = g
  <1> DEFINE T == {i \in 1 .. n : f[i] # g[i]}
  <1>0. n \in Nat /\ f \in [1 .. n -> S] /\ g \in [1 .. n -> S]
    BY DEF Sorts
  <1> SUFFICES ASSUME T # {} PROVE FALSE
    BY <1>0
  <1>1. PICK i \in T : \A m \in T : i <= m
    <2>1. T \in SUBSET Nat
      BY <1>0
    <2>2. IsWellFoundedOn(OpToRel(<, Nat), Nat)
      BY NatLessThanWellFounded
    <2> HIDE DEF T
    <2>3. PICK m \in T : \A k \in T : ~(<<k, m>> \in OpToRel(<, Nat))
      BY <2>1, <2>2, WFMin
    <2>4. \A k \in T : ~(k < m)
      BY <2>1, <2>3 DEF OpToRel
    <2> QED
      BY <2>1, <2>4
  <1>2. ASSUME NEW e, NEW d, Sorts(n, e, S), Sorts(n, d, S), e[i] > d[i],
               \A j \in 1 .. n : j < i => e[j] = d[j]
        PROVE  FALSE
    <2>1. i \in 1 .. n /\ e[i] \in S /\ e[i] \in Int /\ d[i] \in Int
      BY <1>1, <1>2 DEF Sorts
    <2>2. PICK j \in 1 .. n : d[j] = e[i]
      BY <1>2, <2>1 DEF Sorts
    <2>3. j < i
      BY <1>2, <2>1, <2>2, SortsInjective
    <2>4. e[j] = e[i]
      BY <1>2, <2>2, <2>3
    <2>5. j = i
      BY <1>2, <2>1, <2>4, SortsInjective
    <2> QED
      BY <2>1, <2>3, <2>5
  <1>3. \A j \in 1 .. n : j < i => f[j] = g[j]
    BY <1>1
  <1>4. f[i] \in Int /\ g[i] \in Int /\ f[i] # g[i]
    BY <1>0, <1>1
  <1>5. f[i] > g[i] \/ g[i] > f[i]
    BY <1>4
  <1> QED
    BY <1>2, <1>3, <1>5

LEMMA DescendingIs ==
  ASSUME NEW S \in SUBSET Int, NEW n, NEW f, Sorts(n, f, S)
  PROVE  Descending(S) = f
  <1>1. n \in Nat /\ f \in [1 .. n -> S] /\ DOMAIN f = 1 .. n
    BY DEF Sorts
  <1>2. f \in Bijection(1 .. n, S)
    <2>1. IsInjective(f)
      BY <1>1, SortsInjective DEF IsInjective
    <2>2. \A k \in S : \E i \in 1 .. n : f[i] = k
      BY DEF Sorts
    <2> QED
      BY <1>1, <2>1, <2>2 DEF Bijection, Injection, Surjection
  <1>3. Cardinality(S) = n
    <2>1. IsFiniteSet(1 .. n) /\ Cardinality(1 .. n) = n
      BY <1>1, FS_Interval
    <2> QED
      BY <1>2, <2>1, FS_Bijection DEF ExistsBijection
  <1> DEFINE P(g) == \A i, j \in DOMAIN g : i < j => g[i] > g[j]
             d == CHOOSE g \in Bijection(1 .. n, S) : P(g)
  <1>4. P(f)
    BY <1>1 DEF Sorts
  <1>5. d \in Bijection(1 .. n, S) /\ P(d)
    <2> HIDE DEF P
    <2> QED
      BY <1>2, <1>4
  <1>6. Descending(S) = d
    BY <1>3 DEF Descending
  <1> HIDE DEF d
  <1>7. Sorts(n, d, S)
    BY <1>1, <1>5 DEF Sorts, Bijection, Injection, Surjection
  <1> QED
    BY <1>6, <1>7, SortsOnce

\* The three changes: a number moves up by one, the smallest is new, the
\* largest goes.
LEMMA SortsMove ==
  ASSUME NEW S \in SUBSET Int, NEW n, NEW f, Sorts(n, f, S),
         NEW m \in 1 .. n, f[m] + 1 \notin S
  PROVE  Sorts(n, [f EXCEPT ![m] = f[m] + 1], (S \ {f[m]}) \cup {f[m] + 1})
  <1> DEFINE k == f[m]
             R == (S \ {k}) \cup {k + 1}
             g == [f EXCEPT ![m] = k + 1]
  <1>1. n \in Nat /\ f \in [1 .. n -> S] /\ k \in Int /\ k \in S
    BY DEF Sorts
  <1>2. \A i \in 1 .. n : g[i] = IF i = m THEN k + 1 ELSE f[i]
    BY <1>1
  <1>3. \A i \in 1 .. n : f[i] \in Int /\ f[i] # k + 1 /\ (i # m => f[i] # k)
    <2>1. \A i \in 1 .. n : f[i] = f[m] => i = m
      BY SortsInjective
    <2>2. \A i \in 1 .. n : f[i] \in S /\ f[i] \in Int
      BY <1>1
    <2> QED
      BY <2>1, <2>2
  <1>4. g \in [1 .. n -> R]
    <2>1. \A i \in 1 .. n : g[i] \in R
      BY <1>1, <1>2, <1>3
    <2> QED
      BY <1>1, <2>1
  <1> HIDE DEF g
  <1>5. ASSUME NEW i \in 1 .. n, NEW j \in 1 .. n, i < j
        PROVE  g[i] > g[j]
    <2>1. f[i] > f[j]
      BY <1>5 DEF Sorts
    <2>2. CASE i = m
      BY <1>1, <1>2, <1>3, <1>5, <2>1, <2>2
    <2>3. CASE j = m
      <3>1. f[i] > k /\ f[i] # k + 1 /\ f[i] \in Int /\ i # m
        BY <1>3, <1>5, <2>1, <2>3
      <3> HIDE DEF k
      <3>2. f[i] > k + 1
        BY <1>1, <3>1
      <3> QED
        BY <1>2, <2>3, <3>1, <3>2
    <2>4. CASE i # m /\ j # m
      BY <1>2, <2>1, <2>4
    <2> QED
      BY <2>2, <2>3, <2>4
  <1>6. ASSUME NEW e \in R
        PROVE  \E i \in 1 .. n : g[i] = e
    <2>1. CASE e = k + 1
      BY <1>2, <2>1
    <2>2. CASE e \in S \ {k}
      <3>1. PICK i \in 1 .. n : f[i] = e
        BY <2>2 DEF Sorts
      <3> QED
        BY <1>2, <2>2, <3>1
    <2> QED
      BY <2>1, <2>2
  <1> QED
    BY <1>1, <1>4, <1>5, <1>6 DEF Sorts, g

LEMMA SortsAdd ==
  ASSUME NEW S \in SUBSET Int, NEW n, NEW f, Sorts(n, f, S),
         NEW e \in Int, \A k \in S : k > e, NEW g,
         g = [i \in 1 .. n + 1 |-> IF i = n + 1 THEN e ELSE f[i]]
  PROVE  Sorts(n + 1, g, S \cup {e})
  <1>1. n \in Nat /\ f \in [1 .. n -> S] /\ n + 1 \in Nat
    BY DEF Sorts
  <1>2. \A i \in 1 .. n + 1 : i = n + 1 \/ i \in 1 .. n
    BY <1>1
  <1>3. g \in [1 .. n + 1 -> S \cup {e}]
    BY <1>1, <1>2
  <1>4. ASSUME NEW i \in 1 .. n + 1, NEW j \in 1 .. n + 1, i < j
        PROVE  g[i] > g[j]
    <2>1. i \in 1 .. n /\ i # n + 1 /\ g[i] = f[i] /\ f[i] \in S
      BY <1>1, <1>4
    <2>2. CASE j = n + 1
      BY <2>1, <2>2
    <2>3. CASE j # n + 1
      <3>1. j \in 1 .. n /\ g[j] = f[j]
        BY <1>2, <2>3
      <3> QED
        BY <1>4, <2>1, <3>1 DEF Sorts
    <2> QED
      BY <2>2, <2>3
  <1>5. ASSUME NEW k \in S \cup {e}
        PROVE  \E i \in 1 .. n + 1 : g[i] = k
    <2>1. CASE k = e
      BY <1>1, <2>1
    <2>2. CASE k \in S
      <3>1. PICK i \in 1 .. n : f[i] = k
        BY <2>2 DEF Sorts
      <3>2. i \in 1 .. n + 1 /\ i # n + 1
        BY <1>1
      <3> QED
        BY <3>1, <3>2
    <2> QED
      BY <2>1, <2>2
  <1> QED
    BY <1>1, <1>3, <1>4, <1>5 DEF Sorts

LEMMA SortsDrop ==
  ASSUME NEW S \in SUBSET Int, NEW n, NEW f, Sorts(n, f, S),
         NEW e \in S, \A k \in S : k <= e, NEW g,
         g = [i \in 1 .. n - 1 |-> f[i + 1]]
  PROVE  n >= 1 /\ f[1] = e /\ Sorts(n - 1, g, S \ {e})
  <1>1. n \in Nat /\ f \in [1 .. n -> S]
    BY DEF Sorts
  <1>2. PICK m \in 1 .. n : f[m] = e
    BY DEF Sorts
  <1>3. m = 1 /\ n >= 1
    <2>0. 1 \in 1 .. n
      BY <1>1
    <2>1. 1 \in 1 .. n /\ f[1] \in S /\ f[1] \in Int /\ e \in Int /\ f[1] <= e
      BY <1>1, <2>0
    <2>2. 1 < m => f[1] > f[m]
      BY <2>1 DEF Sorts
    <2>3. ~(1 < m)
      BY <1>2, <2>1, <2>2
    <2> QED
      BY <1>1, <2>3
  <1>4. \A i \in 1 .. n - 1 : i + 1 \in 1 .. n /\ i + 1 # 1 /\ g[i] = f[i + 1]
    BY <1>1
  <1>5. \A i \in 1 .. n : i # 1 => f[i] # e
    BY <1>2, <1>3, SortsInjective
  <1>6. g \in [1 .. n - 1 -> S \ {e}]
    BY <1>1, <1>4, <1>5
  <1>7. ASSUME NEW i \in 1 .. n - 1, NEW j \in 1 .. n - 1, i < j
        PROVE  g[i] > g[j]
    <2>1. i + 1 < j + 1
      BY <1>1, <1>7
    <2> QED
      BY <1>4, <2>1 DEF Sorts
  <1>8. ASSUME NEW k \in S \ {e}
        PROVE  \E i \in 1 .. n - 1 : g[i] = k
    <2>1. PICK j \in 1 .. n : f[j] = k
      BY DEF Sorts
    <2>2. j # 1
      BY <1>2, <1>3, <2>1
    <2>3. j - 1 \in 1 .. n - 1 /\ (j - 1) + 1 = j
      BY <1>1, <2>2
    <2> QED
      BY <1>4, <2>1, <2>3
  <1> QED
    BY <1>1, <1>2, <1>3, <1>6, <1>7, <1>8 DEF Sorts

-----------------------------------------------------------------------------
(***************************************************************************)
(* The stages.                                                              *)
(***************************************************************************)

PipeTypes ==
  /\ data \in [Stage -> Int] /\ data_ready \in [Stage -> BOOLEAN]
  /\ pc \in [Thread -> {"new", "loop", "wait", "send", "sent"}]
  /\ start \in [Value -> {"no", "send", "in"}]
  /\ results \in Seq(Int)

\* A stage that is about to pass its value on, or has just done so, still has
\* it, so that nobody overwrites it.
ValueKept == \A k \in Thread : pc[k] \in {"send", "sent"} => data_ready[k]

PipeInv ==
  /\ PipeTypes
  /\ ValueKept
  /\ \E n, f : Sorts(n, f, Holding)

Fed == {v \in Value : start[v] = "in"}

LEMMA StageNumbers ==
  /\ stages \in Nat /\ stages \in Stage /\ stages \notin Thread /\ 0 \in Stage
  /\ Stage \subseteq Int /\ Thread \subseteq Stage /\ Holding \in SUBSET Int
  /\ \A k \in Thread : k \in Int /\ k < stages /\ k + 1 \in Stage
  /\ \A k \in Stage : k < stages <=> k \in Thread
  /\ \A k \in Stage : k <= stages /\ k >= 0
BY PipeConstants DEF Stage, Thread, Holding

\* What is in the pipe.
LEMMA ContentsAre ==
  ASSUME NEW n, NEW f, Sorts(n, f, Holding)
  PROVE  Contents = [i \in 1 .. n |-> data[f[i]] + (stages - f[i])]
  <1>1. Descending(Holding) = f
    BY StageNumbers, DescendingIs
  <1>2. DOMAIN f = 1 .. n
    BY DEF Sorts
  <1> QED
    BY <1>1, <1>2 DEF Contents

\* The same after a step.
LEMMA ContentsBecome ==
  ASSUME NEW n, NEW f, Sorts(n, f, Holding')
  PROVE  Contents' = [i \in 1 .. n |-> data'[f[i]] + (stages - f[i])]
  <1>1. Holding' \in SUBSET Int
    BY StageNumbers DEF Holding
  <1>2. Descending(Holding') = f
    BY <1>1, DescendingIs
  <1>3. DOMAIN f = 1 .. n
    BY DEF Sorts
  <1> QED
    BY <1>2, <1>3 DEF Contents

\* A step that only concerns who waits for whom.
LEMMA WaitStep ==
  ASSUME PipeInv, Holding' = Holding, data' = data, Fed' = Fed, results' = results
  PROVE  /\ UNCHANGED Fifo!fifoVars
         /\ \E n, f : Sorts(n, f, Holding')
  <1>1. PICK n, f : Sorts(n, f, Holding)
    BY DEF PipeInv
  <1>2. Sorts(n, f, Holding')
    BY <1>1
  <1>3. Contents' = Contents
    <2>1. Contents = [i \in 1 .. n |-> data[f[i]] + (stages - f[i])]
      BY <1>1, ContentsAre
    <2>2. Contents' = [i \in 1 .. n |-> data'[f[i]] + (stages - f[i])]
      BY <1>2, ContentsBecome
    <2> QED
      BY <2>1, <2>2
  <1> QED
    BY <1>2, <1>3 DEF Fifo!fifoVars, Fed

\* Which stages hold a value after a step, from what happens to the fields.
LEMMA HoldsAfter ==
  ASSUME UNCHANGED <<data_ready>>,
         \A k \in Thread : pc'[k] = "sent" <=> pc[k] = "sent"
  PROVE  Holding' = Holding
  <1>1. \A k \in Stage : Holds(k)' <=> Holds(k)
    BY StageNumbers DEF Holds
  <1> QED
    BY <1>1 DEF Holding

LEMMA LoopStep ==
  ASSUME PipeInv, NEW k \in Thread, stage_loop(k)
  PROVE  PipeInv' /\ UNCHANGED Fifo!fifoVars
  <1>1. /\ UNCHANGED <<data, data_ready, start, results>>
        /\ pc[k] \in {"new", "loop", "wait"}
        /\ pc' = [pc EXCEPT ![k] = IF data_ready[k] THEN "send" ELSE "wait"]
    BY DEF stage_loop, Goto
  <1>2. pc \in [Thread -> {"new", "loop", "wait", "send", "sent"}]
    BY DEF PipeInv, PipeTypes
  <1>3. Holding' = Holding
    <2>1. \A j \in Thread : pc'[j] = "sent" <=> pc[j] = "sent"
      BY <1>1, <1>2
    <2> QED
      BY <1>1, <2>1, HoldsAfter
  <1>4. UNCHANGED Fifo!fifoVars /\ \E n, f : Sorts(n, f, Holding')
    BY <1>1, <1>3, WaitStep DEF Fed
  <1>5. PipeTypes'
    BY <1>1 DEF PipeInv, PipeTypes
  <1>6. ValueKept'
    BY <1>1, <1>2 DEF PipeInv, ValueKept
  <1> QED
    BY <1>4, <1>5, <1>6 DEF PipeInv

\* stage_sent frees a place whose value has gone already.
LEMMA SentStep ==
  ASSUME PipeInv, NEW k \in Thread, stage_sent(k)
  PROVE  PipeInv' /\ UNCHANGED Fifo!fifoVars
  <1>1. /\ UNCHANGED <<data, start, results>>
        /\ pc[k] = "sent" /\ pc' = [pc EXCEPT ![k] = "loop"]
        /\ data_ready' = [data_ready EXCEPT ![k] = FALSE]
    BY DEF stage_sent, Goto
  <1>2. /\ pc \in [Thread -> {"new", "loop", "wait", "send", "sent"}]
        /\ data_ready \in [Stage -> BOOLEAN] /\ k \in Stage /\ k < stages
    BY StageNumbers DEF PipeInv, PipeTypes
  <1>3. Holding' = Holding
    <2>1. ASSUME NEW j \in Stage
          PROVE  Holds(j)' <=> Holds(j)
      <3>1. CASE j = k
        BY <1>1, <1>2, <3>1 DEF Holds
      <3>2. CASE j # k
        BY <1>1, <1>2, <3>2, StageNumbers DEF Holds
      <3> QED
        BY <3>1, <3>2
    <2> QED
      BY <2>1 DEF Holding
  <1>4. UNCHANGED Fifo!fifoVars /\ \E n, f : Sorts(n, f, Holding')
    BY <1>1, <1>3, WaitStep DEF Fed
  <1>5. PipeTypes'
    BY <1>1, <1>2 DEF PipeInv, PipeTypes
  <1>6. ValueKept'
    BY <1>1, <1>2, StageNumbers DEF PipeInv, ValueKept
  <1> QED
    BY <1>4, <1>5, <1>6 DEF PipeInv

\* A value moves from stage k to the next: the contents stay.
LEMMA SendStep ==
  ASSUME PipeInv, NEW k \in Thread, stage_send(k)
  PROVE  PipeInv' /\ UNCHANGED Fifo!fifoVars
  <1> DEFINE m == k + 1
  <1>0. /\ k \in Stage /\ m \in Stage /\ k \in Int /\ m \in Int /\ k < stages /\ m # k
        /\ stages \in Int /\ Stage \subseteq Int
    BY StageNumbers
  <1>1. UNCHANGED <<start, results>> /\ pc[k] = "send"
    BY DEF stage_send
  <1>2. CASE UNCHANGED stg
    <2>1. Holding' = Holding
      BY <1>2, HoldsAfter DEF stg
    <2>2. UNCHANGED Fifo!fifoVars /\ \E n, f : Sorts(n, f, Holding')
      BY <1>1, <1>2, <2>1, WaitStep DEF Fed, stg
    <2>3. PipeTypes' /\ ValueKept'
      BY <1>1, <1>2 DEF PipeInv, PipeTypes, ValueKept, stg
    <2> QED
      BY <2>2, <2>3 DEF PipeInv
  <1>3. CASE pipe_send(m, data[k] + 1) /\ Goto(k, "sent")
    <2>1. /\ m \in Thread => pc[m] \in {"new", "wait"}
          /\ ~data_ready[m]
          /\ data' = [data EXCEPT ![m] = data[k] + 1]
          /\ data_ready' = [data_ready EXCEPT ![m] = TRUE]
          /\ pc' = [pc EXCEPT ![k] = "sent"]
      BY <1>3 DEF pipe_send, Goto, Free, Room
    <2> HIDE DEF m
    <2>2. /\ data \in [Stage -> Int] /\ data_ready \in [Stage -> BOOLEAN]
          /\ pc \in [Thread -> {"new", "loop", "wait", "send", "sent"}]
          /\ data_ready[k]
      BY <1>1 DEF PipeInv, PipeTypes, ValueKept
    <2>3. k \in Holding /\ m \notin Holding
      BY <1>0, <1>1, <2>1, <2>2 DEF Holding, Holds
    <2>4. Holding' = (Holding \ {k}) \cup {m}
      <3>1. ASSUME NEW j \in Stage
            PROVE  Holds(j)' <=> (Holds(j) /\ j # k) \/ j = m
        <4>1. CASE j = k
          BY <1>0, <2>1, <2>2, <4>1 DEF Holds
        <4>2. CASE j = m
          BY <1>0, <2>1, <2>2, <4>2, StageNumbers DEF Holds
        <4>3. CASE j # k /\ j # m
          BY <1>0, <2>1, <2>2, <4>3, StageNumbers DEF Holds
        <4> QED
          BY <4>1, <4>2, <4>3
      <3> QED
        BY <1>0, <3>1 DEF Holding
    <2>5. PICK n, f : Sorts(n, f, Holding)
      BY DEF PipeInv
    <2>6. PICK p \in 1 .. n : f[p] = k
      BY <2>3, <2>5 DEF Sorts
    <2> DEFINE g == [f EXCEPT ![p] = m]
    <2>7. Sorts(n, g, Holding')
      <3>1. Holding \in SUBSET Int /\ f[p] + 1 = m
        BY <2>6, StageNumbers DEF m
      <3> QED
        BY <2>3, <2>4, <2>5, <2>6, <3>1, SortsMove
    <2>8. f \in [1 .. n -> Holding] /\ \A i \in 1 .. n : g[i] = IF i = p THEN m ELSE f[i]
      BY <2>5 DEF Sorts
    <2> HIDE DEF g
    <2>9. ASSUME NEW i \in 1 .. n
          PROVE  data'[g[i]] + (stages - g[i]) = data[f[i]] + (stages - f[i])
      <3>1. CASE i = p
        <4>1. g[i] = m /\ f[i] = k /\ data'[m] = data[k] + 1 /\ data[k] \in Int /\ m = k + 1
          BY <1>0, <2>1, <2>2, <2>6, <2>8, <3>1 DEF m
        <4>2. (data[k] + 1) + (stages - (k + 1)) = data[k] + (stages - k)
          BY <1>0, <4>1
        <4> QED
          BY <4>1, <4>2, Zenon
      <3>2. CASE i # p
        <4>1. g[i] = f[i] /\ f[i] \in Holding /\ f[i] # m
          BY <2>3, <2>8, <3>2
        <4>2. data'[f[i]] = data[f[i]]
          BY <2>1, <2>2, <4>1 DEF Holding
        <4> QED
          BY <4>1, <4>2
      <3> QED
        BY <3>1, <3>2
    <2>10. Contents' = Contents
      <3>1. Contents = [i \in 1 .. n |-> data[f[i]] + (stages - f[i])]
        BY <2>5, ContentsAre
      <3>2. Contents' = [i \in 1 .. n |-> data'[g[i]] + (stages - g[i])]
        BY <2>7, ContentsBecome
      <3> QED
        BY <2>9, <3>1, <3>2
    <2>11. UNCHANGED Fifo!fifoVars
      BY <1>1, <2>10 DEF Fifo!fifoVars
    <2>12. PipeTypes'
      BY <1>0, <1>1, <2>1, <2>2 DEF PipeInv, PipeTypes
    <2>13. ValueKept'
      BY <1>0, <1>1, <2>1, <2>2, StageNumbers DEF PipeInv, ValueKept
    <2> QED
      BY <2>7, <2>11, <2>12, <2>13 DEF PipeInv
  <1> QED
    BY <1>2, <1>3 DEF stage_send

\* pipe_start's value goes in at the end, and there is room for it.
LEMMA FeedStep ==
  ASSUME PipeInv, NEW v \in Value, start_send(v)
  PROVE  PipeInv' /\ (Fifo!Put(v) \/ UNCHANGED Fifo!fifoVars)
  <1>0. /\ 0 \in Stage /\ stages \in Nat /\ Stage \subseteq Int
        /\ \A k \in Stage : k <= stages /\ k >= 0
    BY StageNumbers
  <1>1. UNCHANGED results /\ pc' = pc /\ start[v] = "send"
    BY DEF start_send, stg
  <1>2. CASE UNCHANGED <<stg, start>>
    <2>1. Holding' = Holding
      BY <1>2, HoldsAfter DEF stg
    <2>2. UNCHANGED Fifo!fifoVars /\ \E n, f : Sorts(n, f, Holding')
      BY <1>1, <1>2, <2>1, WaitStep DEF Fed, stg
    <2>3. PipeTypes' /\ ValueKept'
      BY <1>1, <1>2 DEF PipeInv, PipeTypes, ValueKept, stg
    <2> QED
      BY <2>2, <2>3 DEF PipeInv
  <1>3. CASE pipe_send(0, v) /\ start' = [start EXCEPT ![v] = "in"]
    <2>1. /\ 0 \in Thread => pc[0] \in {"new", "wait"}
          /\ ~data_ready[0]
          /\ data' = [data EXCEPT ![0] = v]
          /\ data_ready' = [data_ready EXCEPT ![0] = TRUE]
          /\ start' = [start EXCEPT ![v] = "in"]
      BY <1>3 DEF pipe_send, Free, Room
    <2>2. /\ data \in [Stage -> Int] /\ data_ready \in [Stage -> BOOLEAN]
          /\ start \in [Value -> {"no", "send", "in"}] /\ v \in Int
      BY PipeConstants DEF PipeInv, PipeTypes
    <2>3. 0 \notin Holding
      BY <2>1 DEF Holding, Holds
    <2>4. Holding' = Holding \cup {0}
      <3>1. ASSUME NEW j \in Stage
            PROVE  Holds(j)' <=> Holds(j) \/ j = 0
        BY <1>0, <1>1, <2>1, <2>2, StageNumbers DEF Holds
      <3> QED
        BY <1>0, <3>1 DEF Holding
    <2>5. PICK n, f : Sorts(n, f, Holding)
      BY DEF PipeInv
    <2> DEFINE g == [i \in 1 .. n + 1 |-> IF i = n + 1 THEN 0 ELSE f[i]]
               c == [i \in 1 .. n |-> data[f[i]] + (stages - f[i])]
    <2>6. Holding \in SUBSET Int /\ \A k \in Holding : k > 0
      <3>1. Holding \subseteq Stage
        BY DEF Holding
      <3>2. \A k \in Holding : k \in Int /\ k >= 0 /\ k # 0
        BY <1>0, <2>3, <3>1
      <3> QED
        BY <3>2
    <2>7. Sorts(n + 1, g, Holding')
      BY <2>4, <2>5, <2>6, SortsAdd
    <2>8. n \in Nat /\ f \in [1 .. n -> Holding]
      BY <2>5 DEF Sorts
    <2>9. c \in Seq(Int) /\ Len(c) = n
      <3>0. \A i \in 1 .. n : f[i] \in Stage /\ f[i] \in Int /\ data[f[i]] \in Int
        <4>1. \A i \in 1 .. n : f[i] \in Stage
          BY <2>8 DEF Holding
        <4> QED
          BY <1>0, <2>2, <4>1
      <3>1. \A i \in 1 .. n : data[f[i]] + (stages - f[i]) \in Int
        BY <1>0, <3>0
      <3> QED
        BY <2>8, <3>1
    <2>10. n <= stages
      <3>1. f \in Injection(1 .. n, 1 .. stages)
        <4>1. \A i \in 1 .. n : f[i] \in 1 .. stages
          BY <1>0, <2>6, <2>8 DEF Holding
        <4>2. \A i, j \in 1 .. n : f[i] = f[j] => i = j
          BY <2>5, <2>6, SortsInjective
        <4>3. DOMAIN f = 1 .. n /\ f \in [1 .. n -> 1 .. stages]
          BY <2>8, <4>1
        <4> QED
          BY <4>2, <4>3 DEF Injection, IsInjective
      <3>2. Cardinality(1 .. n) = n /\ Cardinality(1 .. stages) = stages /\ IsFiniteSet(1 .. stages)
        BY <1>0, <2>8, FS_Interval
      <3>3. Cardinality(1 .. n) <= Cardinality(1 .. stages)
        BY <3>1, <3>2, FS_Injection
      <3> QED
        BY <3>2, <3>3
    <2>11. ASSUME NEW i \in 1 .. n + 1
           PROVE  data'[g[i]] + (stages - g[i]) = IF i = n + 1 THEN v + stages ELSE c[i]
      <3>1. CASE i = n + 1
        <4>1. g[i] = 0 /\ data'[0] = v
          BY <1>0, <2>1, <2>2, <3>1
        <4> QED
          BY <1>0, <2>2, <3>1, <4>1
      <3>2. CASE i # n + 1
        <4>1. i \in 1 .. n /\ g[i] = f[i] /\ f[i] \in Holding
          BY <2>8, <3>2
        <4>2. data'[f[i]] = data[f[i]]
          BY <2>1, <2>2, <2>3, <4>1 DEF Holding
        <4> QED
          BY <3>2, <4>1, <4>2
      <3> QED
        BY <3>1, <3>2
    <2>12. Contents = c
      BY <2>5, ContentsAre
    <2>13. Contents' = [i \in 1 .. n + 1 |-> data'[g[i]] + (stages - g[i])]
      BY <2>7, ContentsBecome
    <2> HIDE DEF g, c
    <2>14. Contents' = Append(c, v + stages)
      <3>1. Append(c, v + stages) = [i \in 1 .. n + 1 |-> IF i = n + 1 THEN v + stages ELSE c[i]]
        BY <1>0, <2>2, <2>8, <2>9
      <3> QED
        BY <2>11, <2>13, <3>1
    <2>15. Fed' = Fed \cup {v} /\ v \notin Fed
      BY <1>1, <2>1, <2>2 DEF Fed
    <2>16. Fifo!Put(v)
      BY <1>1, <2>9, <2>10, <2>12, <2>14, <2>15 DEF Fifo!Put, Fed
    <2>17. PipeTypes'
      BY <1>0, <1>1, <2>1, <2>2 DEF PipeInv, PipeTypes
    <2>18. ValueKept'
      BY <1>0, <1>1, <2>1, <2>2, StageNumbers DEF PipeInv, ValueKept
    <2> QED
      BY <2>7, <2>16, <2>17, <2>18 DEF PipeInv
  <1> QED
    BY <1>2, <1>3 DEF start_send

\* pipe_result takes the value that went in first.
LEMMA TakeStep ==
  ASSUME PipeInv, NEW c \in Collector, result_take(c)
  PROVE  PipeInv' /\ (Fifo!Get \/ UNCHANGED Fifo!fifoVars)
  <1>0. /\ stages \in Stage /\ stages \in Nat /\ stages \notin Thread /\ Stage \subseteq Int
        /\ \A k \in Stage : k <= stages
    BY StageNumbers
  <1>1. UNCHANGED <<data, pc, start>>
    BY DEF result_take
  <1>2. CASE ~data_ready[stages]
    <2>0. UNCHANGED <<data_ready, results>>
      BY <1>2 DEF result_take
    <2>1. Holding' = Holding
      BY <1>1, <2>0, HoldsAfter
    <2>2. UNCHANGED Fifo!fifoVars /\ \E n, f : Sorts(n, f, Holding')
      BY <1>1, <2>0, <2>1, WaitStep DEF Fed
    <2>3. PipeTypes' /\ ValueKept'
      BY <1>1, <2>0 DEF PipeInv, PipeTypes, ValueKept
    <2> QED
      BY <2>2, <2>3 DEF PipeInv
  <1>3. CASE data_ready[stages]
    <2>1. /\ results' = Append(results, data[stages])
          /\ data_ready' = [data_ready EXCEPT ![stages] = FALSE]
      BY <1>3 DEF result_take
    <2>2. /\ data \in [Stage -> Int] /\ data_ready \in [Stage -> BOOLEAN]
          /\ results \in Seq(Int)
      BY DEF PipeInv, PipeTypes
    <2>3. stages \in Holding
      BY <1>0, <1>3 DEF Holding, Holds
    <2>4. Holding' = Holding \ {stages}
      <3>1. ASSUME NEW j \in Stage
            PROVE  Holds(j)' <=> Holds(j) /\ j # stages
        BY <1>0, <1>1, <2>1, <2>2, StageNumbers DEF Holds
      <3> QED
        BY <3>1 DEF Holding
    <2>5. PICK n, f : Sorts(n, f, Holding)
      BY DEF PipeInv
    <2> DEFINE g == [i \in 1 .. n - 1 |-> f[i + 1]]
               q == [i \in 1 .. n |-> data[f[i]] + (stages - f[i])]
    <2>6. Holding \in SUBSET Int /\ \A k \in Holding : k <= stages
      BY <1>0 DEF Holding
    <2>7. n >= 1 /\ f[1] = stages /\ Sorts(n - 1, g, Holding')
      BY <2>3, <2>4, <2>5, <2>6, SortsDrop
    <2>8. n \in Nat /\ f \in [1 .. n -> Holding]
      BY <2>5 DEF Sorts
    <2>9. q \in Seq(Int) /\ Len(q) = n
      <3>0. \A i \in 1 .. n : f[i] \in Stage /\ f[i] \in Int /\ data[f[i]] \in Int
        <4>1. \A i \in 1 .. n : f[i] \in Stage
          BY <2>8 DEF Holding
        <4> QED
          BY <1>0, <2>2, <4>1
      <3>1. \A i \in 1 .. n : data[f[i]] + (stages - f[i]) \in Int
        BY <1>0, <3>0
      <3> QED
        BY <2>8, <3>1
    <2>10. q[1] = data[stages]
      <3>1. 1 \in 1 .. n /\ data[stages] \in Int /\ stages \in Int
        BY <1>0, <2>2, <2>7, <2>8
      <3>2. q[1] = data[f[1]] + (stages - f[1])
        BY <3>1
      <3>3. data[stages] + (stages - stages) = data[stages]
        BY <3>1
      <3> HIDE DEF q
      <3> QED
        BY <2>7, <3>2, <3>3, Zenon
    <2>11. Contents = q
      BY <2>5, ContentsAre
    <2>12. Contents' = [i \in 1 .. n - 1 |-> data[g[i]] + (stages - g[i])]
      <3>1. Contents' = [i \in 1 .. n - 1 |-> data'[g[i]] + (stages - g[i])]
        <4> HIDE DEF g
        <4> QED
          BY <2>7, ContentsBecome
      <3>2. data' = data
        BY <1>1
      <3> HIDE DEF g
      <3> QED
        BY <3>1, <3>2
    <2>13. \A i \in 1 .. n - 1 : data[g[i]] + (stages - g[i]) = q[i + 1]
      BY <2>8
    <2> HIDE DEF g, q
    <2>14. q # <<>> /\ Head(q) = q[1] /\ Tail(q) = [i \in 1 .. n - 1 |-> q[i + 1]]
      <3>1. q # <<>>
        BY <2>7, <2>8, <2>9, EmptySeq
      <3>2. Head(q) = q[1]
        BY <2>9, <3>1
      <3>3. Tail(q) = [i \in 1 .. n - 1 |-> q[i + 1]]
        <4>1. /\ Tail(q) \in Seq(Int) /\ Len(Tail(q)) = n - 1
              /\ \A i \in 1 .. Len(Tail(q)) : Tail(q)[i] = q[i + 1]
          BY <2>9, <3>1, HeadTailProperties
        <4> DEFINE r == Tail(q)
        <4> HIDE DEF r
        <4>2. r \in [1 .. Len(r) -> Int]
          BY <4>1, LenProperties DEF r
        <4>3. r = [i \in 1 .. n - 1 |-> q[i + 1]]
          BY <4>1, <4>2 DEF r
        <4> QED
          BY <4>3 DEF r
      <3> QED
        BY <3>1, <3>2, <3>3
    <2>15. Contents' = Tail(q)
      BY <2>12, <2>13, <2>14
    <2>16. Fed' = Fed
      BY <1>1 DEF Fed
    <2>17. results' = Append(results, Head(q))
      BY <2>1, <2>10, <2>14
    <2>18. Fifo!Get
      BY <2>11, <2>14, <2>15, <2>16, <2>17 DEF Fifo!Get, Fed
    <2>19. PipeTypes'
      <3>1. data[stages] \in Int
        BY <1>0, <2>2
      <3>2. results' \in Seq(Int)
        BY <2>1, <2>2, <3>1
      <3> QED
        BY <1>1, <2>1, <2>2, <3>2 DEF PipeInv, PipeTypes
    <2>20. ValueKept'
      BY <1>0, <1>1, <2>1, <2>2, StageNumbers DEF PipeInv, ValueKept
    <2> QED
      BY <2>7, <2>18, <2>19, <2>20 DEF PipeInv
  <1> QED
    BY <1>2, <1>3

\* A step that touches neither the stages nor what has gone in or come out.
LEMMA AsideStep ==
  ASSUME PipeInv, UNCHANGED <<stg, results>>,
         start' \in [Value -> {"no", "send", "in"}], Fed' = Fed
  PROVE  PipeInv' /\ UNCHANGED Fifo!fifoVars
  <1>1. Holding' = Holding
    BY HoldsAfter DEF stg
  <1>2. UNCHANGED Fifo!fifoVars /\ \E n, f : Sorts(n, f, Holding')
    BY <1>1, WaitStep DEF stg
  <1>3. PipeTypes' /\ ValueKept'
    BY DEF PipeInv, PipeTypes, ValueKept, stg
  <1> QED
    BY <1>2, <1>3 DEF PipeInv

LEMMA PipeStep ==
  ASSUME PipeInv, [Next]_vars
  PROVE  PipeInv' /\ [(\E v \in Value : Fifo!Put(v)) \/ Fifo!Get]_Fifo!fifoVars
  <1>0. start \in [Value -> {"no", "send", "in"}]
    BY DEF PipeInv, PipeTypes
  <1>1. CASE \E k \in Thread : pipe_stage(k)
    BY <1>1, LoopStep, SendStep, SentStep DEF pipe_stage
  <1>2. CASE \E v \in Value : pipe_start(v)
    <2>1. PICK v \in Value : pipe_start(v)
      BY <1>2
    <2>2. start' \in [Value -> {"no", "send", "in"}] /\ Fed' = Fed
      BY <1>0, <2>1 DEF pipe_start, Fed
    <2> QED
      BY <2>1, <2>2, AsideStep DEF pipe_start
  <1>3. CASE \E v \in Value : start_send(v)
    BY <1>3, FeedStep
  <1>4. CASE \E c \in Collector : pipe_result(c)
    BY <1>0, <1>4, AsideStep DEF pipe_result, Fed
  <1>5. CASE \E c \in Collector : result_take(c)
    BY <1>5, TakeStep
  <1>6. CASE Spurious
    BY <1>0, <1>6, AsideStep DEF Spurious, Fed
  <1>7. CASE UNCHANGED vars
    BY <1>0, <1>7, AsideStep DEF vars, Fed
  <1> QED
    BY <1>1, <1>2, <1>3, <1>4, <1>5, <1>6, <1>7 DEF Next

LEMMA PipeInit ==
  ASSUME Init
  PROVE  PipeInv /\ Fifo!FifoInit
  <1>1. PipeTypes /\ ValueKept
    BY DEF Init, PipeTypes, ValueKept
  <1>2. Holding = {}
    BY DEF Init, Holding, Holds
  <1> DEFINE f == [i \in 1 .. 0 |-> 0]
  <1>3. Sorts(0, f, Holding)
    BY <1>2 DEF Sorts
  <1>4. Contents = <<>>
    <2>1. Contents = [i \in 1 .. 0 |-> data[f[i]] + (stages - f[i])]
      BY <1>3, ContentsAre
    <2> HIDE DEF f
    <2>2. [i \in 1 .. 0 |-> data[f[i]] + (stages - f[i])] = <<>>
      OBVIOUS
    <2> QED
      BY <2>1, <2>2
  <1>5. Fed = {} /\ results = <<>>
    BY DEF Init, Fed
  <1> QED
    BY <1>1, <1>3, <1>4, <1>5 DEF PipeInv, Fifo!FifoInit, Fed

\* A value is never overwritten before the next stage has it: the pipeline of
\* pipe.c, with any number of stages and callers and under any spurious
\* wakeup, is a FIFO queue with room for one value in each stage, from which
\* every value comes out once, in the order it went in, with one added by
\* every stage.
THEOREM PipeImplementsFifo == Spec => IsPipeFifo
  <1>1. Init => PipeInv /\ Fifo!FifoInit
    BY PipeInit
  <1>2. PipeInv /\ [Next]_vars =>
          PipeInv' /\ [(\E v \in Value : Fifo!Put(v)) \/ Fifo!Get]_Fifo!fifoVars
    BY PipeStep
  <1> QED
    BY <1>1, <1>2, PTL DEF Spec, IsPipeFifo, Fifo!FifoSpec
=============================================================================
