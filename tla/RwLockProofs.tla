---------------------------- MODULE RwLockProofs ----------------------------
(***************************************************************************)
(* The read/write lock excludes, counts and wakes correctly for every finite *)
(* set of threads and every choice of those that may be cancelled.           *)
(***************************************************************************)
EXTENDS RwLock, FiniteSetTheorems, TLAPS

PcValues == {"out", "rwait", "reading", "wwait", "writing",
             "rcancel", "wcancel", "rgone", "wgone"}

\* What TypeOK says apart from the range of the counts, which follows from
\* what they count.
Shape ==
  /\ valid \in BOOLEAN /\ w_active \in BOOLEAN
  /\ pc \in [Thread -> PcValues]
  /\ read \subseteq In({"rwait"}) /\ write \subseteq In({"wwait"})

Counts ==
  /\ r_active = Cardinality(In({"reading"}))
  /\ r_wait = Cardinality(In({"rwait", "rcancel"}))
  /\ w_wait = Cardinality(In({"wwait", "wcancel"}))

Exclusion ==
  /\ w_active <=> \E t \in Thread : pc[t] = "writing"
  /\ w_active => \A t \in Thread : pc[t] # "reading"
  /\ \A t, u \in Thread : pc[t] = "writing" /\ pc[u] = "writing" => t = u
  /\ valid \/ \A t \in Thread : pc[t] \in {"out", "rgone", "wgone"}

-----------------------------------------------------------------------------
(***************************************************************************)
(* Counting threads.                                                        *)
(***************************************************************************)

\* The threads at certain places are a finite set.
LEMMA InFinite ==
  ASSUME NEW S
  PROVE  /\ IsFiniteSet(In(S)) /\ Cardinality(In(S)) \in Nat
         /\ Cardinality(In(S)) <= Cardinality(Thread)
         /\ Cardinality(Thread) \in Nat
<1>1. In(S) \subseteq Thread
  BY DEF In
<1> QED
  BY <1>1, ThreadsFinite, FS_Subset, FS_CardinalityType

\* Their number is 0 when there is none.
LEMMA CountZero ==
  ASSUME NEW S
  PROVE  Cardinality(In(S)) = 0 <=> \A t \in Thread : pc[t] \notin S
<1>1. Cardinality(In(S)) = 0 <=> In(S) = {}
  BY InFinite, FS_EmptySet
<1> QED
  BY <1>1 DEF In

At(S, p) == IF p \in S THEN 1 ELSE 0

\* When one thread moves, the number changes by its leaving and arriving.
LEMMA CountMove ==
  ASSUME Shape, NEW t \in Thread, NEW p, pc' = [pc EXCEPT ![t] = p], NEW S
  PROVE  Cardinality(In(S))' = Cardinality(In(S)) + At(S, p) - At(S, pc[t])
<1>1. In(S)' = IF p \in S THEN In(S) \cup {t} ELSE In(S) \ {t}
  BY DEF In, Shape
<1>2. t \in In(S) <=> pc[t] \in S
  BY DEF In
<1>3. /\ IsFiniteSet(In(S)) /\ Cardinality(In(S)) \in Nat
  BY InFinite
<1>4. CASE p \in S
  <2>1. Cardinality(In(S) \cup {t}) = IF t \in In(S) THEN Cardinality(In(S)) ELSE Cardinality(In(S)) + 1
    BY <1>3, FS_AddElement
  <2> QED
    BY <1>1, <1>2, <1>3, <1>4, <2>1 DEF At
<1>5. CASE p \notin S
  <2>1. Cardinality(In(S) \ {t}) = IF t \in In(S) THEN Cardinality(In(S)) - 1 ELSE Cardinality(In(S))
    BY <1>3, FS_RemoveElement
  <2> QED
    BY <1>1, <1>2, <1>3, <1>5, <2>1 DEF At
<1> QED
  BY <1>4, <1>5

\* What the three counts become when t moves to p.
Moved(t, p) ==
  /\ Cardinality(In({"reading"}))' = r_active
       + (IF p = "reading" THEN 1 ELSE 0) - (IF pc[t] = "reading" THEN 1 ELSE 0)
  /\ Cardinality(In({"rwait", "rcancel"}))' = r_wait
       + (IF p \in {"rwait", "rcancel"} THEN 1 ELSE 0)
       - (IF pc[t] \in {"rwait", "rcancel"} THEN 1 ELSE 0)
  /\ Cardinality(In({"wwait", "wcancel"}))' = w_wait
       + (IF p \in {"wwait", "wcancel"} THEN 1 ELSE 0)
       - (IF pc[t] \in {"wwait", "wcancel"} THEN 1 ELSE 0)
  /\ r_active \in Nat /\ r_wait \in Nat /\ w_wait \in Nat

LEMMA CountersMove ==
  ASSUME Shape, Counts, NEW t \in Thread, NEW p, Goto(t, p)
  PROVE  Moved(t, p)
<1> USE DEF At
<1>0. pc' = [pc EXCEPT ![t] = p]
  BY DEF Goto
<1>1. r_active \in Nat /\ r_wait \in Nat /\ w_wait \in Nat
  BY InFinite DEF Counts
<1>2. Cardinality(In({"reading"}))' = r_active
        + (IF p = "reading" THEN 1 ELSE 0) - (IF pc[t] = "reading" THEN 1 ELSE 0)
  BY <1>0, CountMove DEF Counts
<1>3. Cardinality(In({"rwait", "rcancel"}))' = r_wait
        + (IF p \in {"rwait", "rcancel"} THEN 1 ELSE 0)
        - (IF pc[t] \in {"rwait", "rcancel"} THEN 1 ELSE 0)
  BY <1>0, CountMove DEF Counts
<1>4. Cardinality(In({"wwait", "wcancel"}))' = w_wait
        + (IF p \in {"wwait", "wcancel"} THEN 1 ELSE 0)
        - (IF pc[t] \in {"wwait", "wcancel"} THEN 1 ELSE 0)
  BY <1>0, CountMove DEF Counts
<1> QED
  BY <1>1, <1>2, <1>3, <1>4 DEF Moved

-----------------------------------------------------------------------------
(***************************************************************************)
(* The steps: a thread takes one, or a sleeper is woken for no reason.       *)
(***************************************************************************)
Step(t) ==
  \/ rwl_readlock(t) \/ rwl_readtrylock(t) \/ rwl_writelock(t)
  \/ rwl_writetrylock(t) \/ rwl_destroy(t) \/ rwl_readunlock(t)
  \/ rwl_writeunlock(t) \/ readlock_woken(t) \/ writelock_woken(t)
  \/ pthread_cancel(t) \/ rwl_readcleanup(t) \/ rwl_writecleanup(t)

Idle ==
  /\ UNCHANGED <<lockVars, waitVars, pc>>
  /\ read' \subseteq read /\ write' \subseteq write

\* Every step of the specification is one of these.
LEMMA NextCases ==
  ASSUME [Next]_vars
  PROVE  (\E t \in Thread : Step(t)) \/ Idle
<1>1. CASE \E t \in Thread : Call(t) \/ Unlock(t) \/ Woken(t) \/ pthread_cancel(t) \/ Cleanup(t)
  BY <1>1 DEF Step, Call, Unlock, Woken, Cleanup
<1>2. CASE spurious_wakeup(read) /\ UNCHANGED <<lockVars, waitVars, write, pc>>
  BY <1>2 DEF Idle, spurious_wakeup
<1>3. CASE spurious_wakeup(write) /\ UNCHANGED <<lockVars, waitVars, read, pc>>
  BY <1>3 DEF Idle, spurious_wakeup
<1>4. CASE Finished \/ UNCHANGED vars
  BY <1>4 DEF Idle, Finished, vars
<1> QED
  BY <1>1, <1>2, <1>3, <1>4 DEF Next

\* Nothing is counted differently when no thread moves.
LEMMA StayPut ==
  ASSUME Counts, UNCHANGED <<pc, r_active, r_wait, w_wait>>
  PROVE  Counts'
  BY DEF Counts, In

\* The counters count the threads after every step.
LEMMA CountsStep ==
  ASSUME Shape, Counts, Exclusion, NEW t \in Thread, Step(t)
  PROVE  Counts'
<1>1. CASE rwl_readlock(t)
  <2>1. CASE w_active
    <3>1. Moved(t, "rwait")
      BY <1>1, <2>1, CountersMove DEF rwl_readlock
    <3> QED
      BY <1>1, <2>1, <3>1 DEF rwl_readlock, Moved, Counts, lockVars, waitVars
  <2>2. CASE ~w_active
    <3>1. Moved(t, "reading")
      BY <1>1, <2>2, CountersMove DEF rwl_readlock
    <3> QED
      BY <1>1, <2>2, <3>1 DEF rwl_readlock, Moved, Counts, lockVars, waitVars
  <2> QED
    BY <2>1, <2>2
<1>2. CASE rwl_readtrylock(t)
  <2>1. Moved(t, "reading")
    BY <1>2, CountersMove DEF rwl_readtrylock
  <2> QED
    BY <1>2, <2>1 DEF rwl_readtrylock, Moved, Counts, lockVars, waitVars
<1>3. CASE rwl_writelock(t)
  <2>1. CASE WriteBusy
    <3>1. Moved(t, "wwait")
      BY <1>3, <2>1, CountersMove DEF rwl_writelock
    <3> QED
      BY <1>3, <2>1, <3>1 DEF rwl_writelock, Moved, Counts, lockVars, waitVars
  <2>2. CASE ~WriteBusy
    <3>1. Moved(t, "writing")
      BY <1>3, <2>2, CountersMove DEF rwl_writelock
    <3> QED
      BY <1>3, <2>2, <3>1 DEF rwl_writelock, Moved, Counts, lockVars, waitVars
  <2> QED
    BY <2>1, <2>2
<1>4. CASE rwl_writetrylock(t)
  <2>1. Moved(t, "writing")
    BY <1>4, CountersMove DEF rwl_writetrylock
  <2> QED
    BY <1>4, <2>1 DEF rwl_writetrylock, Moved, Counts, lockVars, waitVars
<1>5. CASE rwl_destroy(t)
  BY <1>5, StayPut DEF rwl_destroy, waitVars
<1>6. CASE rwl_readunlock(t)
  <2>1. Moved(t, "out")
    BY <1>6, CountersMove DEF rwl_readunlock
  <2> QED
    BY <1>6, <2>1 DEF rwl_readunlock, Moved, Counts, lockVars, waitVars
<1>7. CASE rwl_writeunlock(t)
  <2>1. Moved(t, "out")
    BY <1>7, CountersMove DEF rwl_writeunlock
  <2> QED
    BY <1>7, <2>1 DEF rwl_writeunlock, Moved, Counts, lockVars, waitVars
<1>8. CASE readlock_woken(t)
  <2>1. CASE w_active
    BY <1>8, <2>1, StayPut DEF readlock_woken
  <2>2. CASE ~w_active
    <3>1. Moved(t, "reading")
      BY <1>8, <2>2, CountersMove DEF readlock_woken
    <3> QED
      BY <1>8, <2>2, <3>1 DEF readlock_woken, Moved, Counts, lockVars, waitVars
  <2> QED
    BY <2>1, <2>2
<1>9. CASE writelock_woken(t)
  <2>1. CASE WriteBusy
    BY <1>9, <2>1, StayPut DEF writelock_woken
  <2>2. CASE ~WriteBusy
    <3>1. Moved(t, "writing")
      BY <1>9, <2>2, CountersMove DEF writelock_woken
    <3> QED
      BY <1>9, <2>2, <3>1 DEF writelock_woken, Moved, Counts, lockVars, waitVars
  <2> QED
    BY <2>1, <2>2
<1>10. CASE pthread_cancel(t)
  <2>0. UNCHANGED <<r_active, r_wait, w_wait>>
    BY <1>10 DEF pthread_cancel, lockVars, waitVars
  <2>1. CASE t \in read /\ Goto(t, "rcancel")
    <3>1. Moved(t, "rcancel")
      BY <2>1, CountersMove
    <3>2. pc[t] = "rwait"
      BY <2>1 DEF Shape, In
    <3> QED
      BY <2>0, <3>1, <3>2 DEF Moved, Counts
  <2>2. CASE t \in write /\ Goto(t, "wcancel")
    <3>1. Moved(t, "wcancel")
      BY <2>2, CountersMove
    <3>2. pc[t] = "wwait"
      BY <2>2 DEF Shape, In
    <3> QED
      BY <2>0, <3>1, <3>2 DEF Moved, Counts
  <2> QED
    BY <1>10, <2>1, <2>2 DEF pthread_cancel
<1>11. CASE rwl_readcleanup(t)
  <2>1. Moved(t, "rgone")
    BY <1>11, CountersMove DEF rwl_readcleanup
  <2> QED
    BY <1>11, <2>1 DEF rwl_readcleanup, Moved, Counts, lockVars, waitVars
<1>12. CASE rwl_writecleanup(t)
  <2>1. Moved(t, "wgone")
    BY <1>12, CountersMove DEF rwl_writecleanup
  <2> QED
    BY <1>12, <2>1 DEF rwl_writecleanup, Moved, Counts, lockVars, waitVars
<1> QED
  BY <1>1, <1>2, <1>3, <1>4, <1>5, <1>6, <1>7, <1>8, <1>9, <1>10, <1>11, <1>12 DEF Step

\* The sets of sleepers and the places stay well formed.
LEMMA ShapeStep ==
  ASSUME Shape, NEW t \in Thread, Step(t)
  PROVE  Shape'
<1> USE DEF Shape, In, PcValues, Goto, lockVars, waitVars
<1>1. CASE rwl_readlock(t)
  BY <1>1 DEF rwl_readlock, pthread_cond_wait
<1>2. CASE rwl_readtrylock(t)
  BY <1>2 DEF rwl_readtrylock
<1>3. CASE rwl_writelock(t)
  BY <1>3 DEF rwl_writelock, pthread_cond_wait
<1>4. CASE rwl_writetrylock(t)
  BY <1>4 DEF rwl_writetrylock
<1>5. CASE rwl_destroy(t)
  BY <1>5 DEF rwl_destroy
<1>6. CASE rwl_readunlock(t)
  BY <1>6 DEF rwl_readunlock, pthread_cond_signal
<1>7. CASE rwl_writeunlock(t)
  <2>1. read' \subseteq read /\ write' \subseteq write
    BY <1>7 DEF rwl_writeunlock, pthread_cond_signal, pthread_cond_broadcast
  <2> QED
    BY <1>7, <2>1 DEF rwl_writeunlock
<1>8. CASE readlock_woken(t)
  BY <1>8 DEF readlock_woken, pthread_cond_wait
<1>9. CASE writelock_woken(t)
  <2>1. CASE WriteBusy
    BY <1>9, <2>1 DEF writelock_woken, pthread_cond_wait
  <2>2. CASE ~WriteBusy
    BY <1>9, <2>2 DEF writelock_woken
  <2> QED
    BY <2>1, <2>2
<1>10. CASE pthread_cancel(t)
  BY <1>10 DEF pthread_cancel
<1>11. CASE rwl_readcleanup(t)
  BY <1>11 DEF rwl_readcleanup
<1>12. CASE rwl_writecleanup(t)
  BY <1>12 DEF rwl_writecleanup
<1> QED
  BY <1>1, <1>2, <1>3, <1>4, <1>5, <1>6, <1>7, <1>8, <1>9, <1>10, <1>11, <1>12 DEF Step

\* The fields of rwlock_t are 0 when no thread is where they count.
LEMMA CountsZero ==
  ASSUME Counts
  PROVE  /\ r_active \in Nat /\ r_wait \in Nat /\ w_wait \in Nat
         /\ r_active = 0 <=> \A t \in Thread : pc[t] # "reading"
         /\ r_wait = 0 <=> \A t \in Thread : pc[t] \notin {"rwait", "rcancel"}
         /\ w_wait = 0 <=> \A t \in Thread : pc[t] \notin {"wwait", "wcancel"}
<1>1. r_active \in Nat /\ r_wait \in Nat /\ w_wait \in Nat
  BY InFinite DEF Counts
<1>2. r_active = 0 <=> \A t \in Thread : pc[t] \notin {"reading"}
  BY CountZero DEF Counts
<1>3. r_wait = 0 <=> \A t \in Thread : pc[t] \notin {"rwait", "rcancel"}
  BY CountZero DEF Counts
<1>4. w_wait = 0 <=> \A t \in Thread : pc[t] \notin {"wwait", "wcancel"}
  BY CountZero DEF Counts
<1> QED
  BY <1>1, <1>2, <1>3, <1>4

\* Exclusion is kept.
LEMMA ExclusionStep ==
  ASSUME Shape, Counts, Exclusion, NEW t \in Thread, Step(t)
  PROVE  Exclusion'
<1> USE DEF Shape, Exclusion, PcValues, Goto, lockVars, waitVars
<1>0. /\ r_active = 0 <=> \A u \in Thread : pc[u] # "reading"
      /\ r_wait = 0 <=> \A u \in Thread : pc[u] \notin {"rwait", "rcancel"}
      /\ w_wait = 0 <=> \A u \in Thread : pc[u] \notin {"wwait", "wcancel"}
      /\ r_active \in Nat
  BY CountsZero
<1>1. CASE rwl_readlock(t)
  BY <1>1 DEF rwl_readlock
<1>2. CASE rwl_readtrylock(t)
  BY <1>2 DEF rwl_readtrylock
<1>3. CASE rwl_writelock(t)
  BY <1>0, <1>3 DEF rwl_writelock, WriteBusy
<1>4. CASE rwl_writetrylock(t)
  BY <1>0, <1>4 DEF rwl_writetrylock, WriteBusy
<1>5. CASE rwl_destroy(t)
  BY <1>0, <1>5 DEF rwl_destroy
<1>6. CASE rwl_readunlock(t)
  BY <1>6 DEF rwl_readunlock
<1>7. CASE rwl_writeunlock(t)
  BY <1>7 DEF rwl_writeunlock
<1>8. CASE readlock_woken(t)
  BY <1>8 DEF readlock_woken
<1>9. CASE writelock_woken(t)
  BY <1>0, <1>9 DEF writelock_woken, WriteBusy
<1>10. CASE pthread_cancel(t)
  BY <1>10 DEF pthread_cancel, In
<1>11. CASE rwl_readcleanup(t)
  BY <1>11 DEF rwl_readcleanup
<1>12. CASE rwl_writecleanup(t)
  BY <1>12 DEF rwl_writecleanup
<1> QED
  BY <1>1, <1>2, <1>3, <1>4, <1>5, <1>6, <1>7, <1>8, <1>9, <1>10, <1>11, <1>12 DEF Step

-----------------------------------------------------------------------------
(***************************************************************************)
(* Waking.                                                                   *)
(***************************************************************************)

\* rwl_writeunlock, the one step that makes the lock free for readers, leaves
\* none of them asleep.
LEMMA ReadersStep ==
  ASSUME Shape, Counts, ReadersAwake, NEW t \in Thread, Step(t)
  PROVE  ReadersAwake'
<1> USE DEF ReadersAwake, lockVars, waitVars
<1>1. CASE rwl_readlock(t)
  BY <1>1 DEF rwl_readlock
<1>2. CASE rwl_readtrylock(t)
  BY <1>2 DEF rwl_readtrylock
<1>3. CASE rwl_writelock(t)
  BY <1>3 DEF rwl_writelock
<1>4. CASE rwl_writetrylock(t)
  BY <1>4 DEF rwl_writetrylock
<1>5. CASE rwl_destroy(t)
  BY <1>5 DEF rwl_destroy
<1>6. CASE rwl_readunlock(t)
  BY <1>6 DEF rwl_readunlock
<1>7. CASE rwl_writeunlock(t)
  <2>1. CASE r_wait > 0
    BY <1>7, <2>1 DEF rwl_writeunlock, pthread_cond_broadcast
  <2>2. CASE r_wait = 0
    <3>1. read = {}
      BY <2>2, CountsZero DEF Shape, In
    <3> QED
      BY <1>7, <2>2, <3>1 DEF rwl_writeunlock
  <2> QED
    BY <2>1, <2>2, CountsZero
<1>8. CASE readlock_woken(t)
  BY <1>8 DEF readlock_woken
<1>9. CASE writelock_woken(t)
  BY <1>9 DEF writelock_woken
<1>10. CASE pthread_cancel(t)
  BY <1>10 DEF pthread_cancel
<1>11. CASE rwl_readcleanup(t)
  BY <1>11 DEF rwl_readcleanup
<1>12. CASE rwl_writecleanup(t)
  BY <1>12 DEF rwl_writecleanup
<1> QED
  BY <1>1, <1>2, <1>3, <1>4, <1>5, <1>6, <1>7, <1>8, <1>9, <1>10, <1>11, <1>12 DEF Step

\* u waits for the lock and is not asleep.
Awake(u) == pc[u] \in {"rwait", "wwait"} /\ u \notin read /\ u \notin write

\* NoStranded, thread by thread.
Reached ==
  ~WriteBusy /\ write # {} /\ (\A u \in Thread : pc[u] \notin {"rcancel", "rgone"})
    => \E u \in Thread : Awake(u)

LEMMA ReachedIsNoStranded == Reached <=> NoStranded
<1>1. ReaderCancelled <=> \E u \in Thread : pc[u] \in {"rcancel", "rgone"}
  BY DEF ReaderCancelled, In
<1>2. In({"rwait", "wwait"}) \ (read \cup write) # {} <=> \E u \in Thread : Awake(u)
  BY DEF In, Awake
<1> QED
  BY <1>1, <1>2 DEF Reached, NoStranded

\* A signal of a condition variable writers sleep at wakes one of them.
LEMMA SignalWakes ==
  ASSUME Shape, NEW t \in Thread, pthread_cond_signal(write), write' # {},
         UNCHANGED read, Goto(t, "out"), pc[t] \in {"reading", "writing"}
  PROVE  \E u \in Thread : Awake(u)'
<1>1. PICK u \in write : write' = write \ {u}
  BY DEF pthread_cond_signal
<1>2. u \in Thread /\ pc[u] = "wwait" /\ u \notin read
  BY <1>1 DEF Shape, In
<1>3. pc'[u] = "wwait"
  BY <1>2 DEF Goto, Shape
<1>4. Awake(u)'
  BY <1>1, <1>2, <1>3 DEF Awake
<1> QED
  BY <1>2, <1>4

\* Whoever frees the lock wakes somebody that waits for it.
LEMMA ReachedStep ==
  ASSUME Shape, Counts, Exclusion, Reached, NEW t \in Thread, Step(t)
  PROVE  Reached'
<1> USE DEF lockVars, waitVars
<1>0. /\ r_active \in Nat /\ r_wait \in Nat /\ w_wait \in Nat
      /\ r_wait = 0 <=> \A u \in Thread : pc[u] \notin {"rwait", "rcancel"}
      /\ w_wait = 0 => write = {}
      /\ r_active = 0 <=> \A u \in Thread : pc[u] # "reading"
  BY CountsZero DEF Shape, In
<1>1. CASE rwl_readlock(t)
  BY <1>0, <1>1 DEF rwl_readlock, Reached, WriteBusy
<1>2. CASE rwl_readtrylock(t)
  BY <1>0, <1>2 DEF rwl_readtrylock, Reached, WriteBusy
<1>3. CASE rwl_writelock(t)
  BY <1>3 DEF rwl_writelock, Reached, WriteBusy
<1>4. CASE rwl_writetrylock(t)
  BY <1>4 DEF rwl_writetrylock, Reached, WriteBusy
<1>5. CASE rwl_destroy(t)
  BY <1>0, <1>5 DEF rwl_destroy, Reached
<1>6. CASE rwl_readunlock(t)
  <2>1. CASE r_active = 1 /\ w_wait > 0
    BY <1>6, <2>1, SignalWakes DEF rwl_readunlock, Reached
  <2>2. CASE r_active # 1
    <3>1. r_active > 0
      BY <1>0, <1>6 DEF rwl_readunlock
    <3> QED
      BY <1>0, <1>6, <2>2, <3>1 DEF rwl_readunlock, Reached, WriteBusy
  <2>3. CASE w_wait = 0
    BY <1>0, <1>6, <2>3 DEF rwl_readunlock, Reached
  <2> QED
    BY <1>0, <2>1, <2>2, <2>3
<1>7. CASE rwl_writeunlock(t)
  <2>1. CASE r_wait > 0
    <3> SUFFICES ASSUME \A u \in Thread : pc'[u] \notin {"rcancel", "rgone"}
                 PROVE  \E u \in Thread : Awake(u)'
      BY DEF Reached
    <3>1. PICK u \in Thread : pc[u] \in {"rwait", "rcancel"}
      BY <1>0, <2>1
    <3>2. pc'[u] = "rwait"
      BY <1>7, <3>1 DEF rwl_writeunlock, Goto, Shape
    <3>3. read' = {} /\ write' = write
      BY <1>7, <2>1 DEF rwl_writeunlock, pthread_cond_broadcast
    <3>4. u \notin write
      BY <3>1 DEF Shape, In
    <3> QED
      BY <3>2, <3>3, <3>4 DEF Awake
  <2>2. CASE r_wait = 0 /\ w_wait > 0
    BY <1>7, <2>2, SignalWakes DEF rwl_writeunlock, Reached
  <2>3. CASE r_wait = 0 /\ w_wait = 0
    BY <1>0, <1>7, <2>3 DEF rwl_writeunlock, Reached
  <2> QED
    BY <1>0, <2>1, <2>2, <2>3
<1>8. CASE readlock_woken(t)
  BY <1>0, <1>8 DEF readlock_woken, Reached, WriteBusy
<1>9. CASE writelock_woken(t)
  BY <1>9 DEF writelock_woken, Reached, WriteBusy
<1>10. CASE pthread_cancel(t)
  <2>1. CASE t \in read /\ Goto(t, "rcancel")
    BY <2>1 DEF Reached, Goto, Shape
  <2>2. CASE t \in write /\ Goto(t, "wcancel")
    <3> SUFFICES ASSUME ~WriteBusy', write' # {},
                        \A u \in Thread : pc'[u] \notin {"rcancel", "rgone"}
                 PROVE  \E u \in Thread : Awake(u)'
      BY DEF Reached
    <3>1. UNCHANGED WriteBusy /\ read' = read \ {t} /\ write' = write \ {t}
      BY <1>10 DEF pthread_cancel, WriteBusy
    <3>2. pc[t] = "wwait" /\ \A u \in Thread \ {t} : pc'[u] = pc[u]
      BY <2>2 DEF Shape, In, Goto
    <3>3. PICK u \in Thread : Awake(u)
      BY <3>1, <3>2 DEF Reached
    <3>4. Awake(u)'
      BY <2>2, <3>1, <3>2, <3>3 DEF Awake
    <3> QED
      BY <3>4
  <2> QED
    BY <1>10, <2>1, <2>2 DEF pthread_cancel
<1>11. CASE rwl_readcleanup(t)
  BY <1>11 DEF rwl_readcleanup, Reached, Goto, Shape
<1>12. CASE rwl_writecleanup(t)
  BY <1>12 DEF rwl_writecleanup, Reached, WriteBusy, Awake, Goto, Shape
<1> QED
  BY <1>1, <1>2, <1>3, <1>4, <1>5, <1>6, <1>7, <1>8, <1>9, <1>10, <1>11, <1>12 DEF Step

-----------------------------------------------------------------------------
(***************************************************************************)
(* The inductive invariant.                                                  *)
(***************************************************************************)
IInv == Shape /\ Counts /\ Exclusion /\ ReadersAwake /\ Reached

\* rwl_init establishes it.
LEMMA InitIInv == Init => IInv
<1> SUFFICES ASSUME Init PROVE IInv
  OBVIOUS
<1>1. Shape
  BY DEF Init, Shape, PcValues
<1>2. Counts
  <2>1. Cardinality(In({"reading"})) = 0
    BY CountZero DEF Init
  <2>2. Cardinality(In({"rwait", "rcancel"})) = 0
    BY CountZero DEF Init
  <2>3. Cardinality(In({"wwait", "wcancel"})) = 0
    BY CountZero DEF Init
  <2> QED
    BY <2>1, <2>2, <2>3 DEF Init, Counts
<1>3. Exclusion
  BY DEF Init, Exclusion
<1>4. ReadersAwake /\ Reached
  BY DEF Init, ReadersAwake, Reached
<1> QED
  BY <1>1, <1>2, <1>3, <1>4 DEF IInv

\* Waking a sleeper for no reason does not disturb it.
LEMMA IdleIInv ==
  ASSUME IInv, Idle
  PROVE  IInv'
<1> USE DEF IInv, Idle, lockVars, waitVars
<1>1. Shape'
  BY DEF Shape, In
<1>2. Counts'
  BY StayPut
<1>3. Exclusion'
  BY DEF Exclusion
<1>4. ReadersAwake'
  BY DEF ReadersAwake
<1>5. Reached'
  BY DEF Reached, Awake, WriteBusy
<1> QED
  BY <1>1, <1>2, <1>3, <1>4, <1>5

LEMMA NextIInv == IInv /\ [Next]_vars => IInv'
<1> SUFFICES ASSUME IInv, [Next]_vars PROVE IInv'
  OBVIOUS
<1>1. CASE \E t \in Thread : Step(t)
  <2>1. PICK t \in Thread : Step(t)
    BY <1>1
  <2> QED
    BY <2>1, ShapeStep, CountsStep, ExclusionStep, ReadersStep, ReachedStep DEF IInv
<1>2. CASE Idle
  BY <1>2, IdleIInv
<1> QED
  BY <1>1, <1>2, NextCases

LEMMA SpecIInv == Spec => []IInv
  BY InitIInv, NextIInv, PTL DEF Spec

\* In every execution of rwlock.c the fields have their types, and no count
\* passes the number of threads or drops below 0.
THEOREM LockTyped == Spec => []TypeOK
<1>1. IInv => TypeOK
  <2> SUFFICES ASSUME IInv PROVE TypeOK
    OBVIOUS
  <2>1. {r_active, r_wait, w_wait} \subseteq 0 .. Cardinality(Thread)
    BY InFinite DEF IInv, Counts
  <2> QED
    BY <2>1 DEF IInv, Shape, PcValues, TypeOK
<1> QED
  BY <1>1, SpecIInv, PTL

\* The lock of rwlock.c excludes, its fields count the threads that have it
\* and that wait for it, and rwl_destroy succeeds only when none is inside,
\* whichever waiters are cancelled.
THEOREM LockExcludes == Spec => []LockInv
<1>1. IInv => LockInv
  <2> SUFFICES ASSUME IInv PROVE LockInv
    OBVIOUS
  <2>1. w_active <=> In({"writing"}) # {}
    BY DEF IInv, Exclusion, In
  <2>2. w_active => r_active = 0
    BY CountsZero DEF IInv, Exclusion
  <2>3. \A t, u \in In({"writing"}) : t = u
    BY DEF IInv, Exclusion, In
  <2>4. valid \/ In({"out", "rgone", "wgone"}) = Thread
    BY DEF IInv, Exclusion, In
  <2> QED
    BY <2>1, <2>2, <2>3, <2>4 DEF IInv, Counts, LockInv
<1> QED
  BY <1>1, SpecIInv, PTL

\* rwl_writeunlock leaves no reader asleep, whichever waiters are cancelled.
THEOREM ReadersStayAwake == Spec => []ReadersAwake
<1>1. IInv => ReadersAwake
  BY DEF IInv
<1> QED
  BY <1>1, SpecIInv, PTL

\* As long as no reader is cancelled, a writer never sleeps by a free lock
\* with nobody awake to take it.
THEOREM NobodyStranded == Spec => []NoStranded
<1>1. IInv => NoStranded
  BY ReachedIsNoStranded DEF IInv
<1> QED
  BY <1>1, SpecIInv, PTL
=============================================================================
