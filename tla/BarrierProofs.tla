---------------------------- MODULE BarrierProofs ----------------------------
(***************************************************************************)
(* The barrier keeps its threads together for any number of them and of      *)
(* rounds, and the program of barrier_main.c built on it changes the shared  *)
(* increments only while no thread adds them.                                *)
(***************************************************************************)
EXTENDS BarrierMain, FiniteSetTheorems, TLAPS

\* The threads that have arrived in the round that is not over yet.
Cur == {t \in Thread : status[t] = "wait" /\ mine[t] = cycle}

\* The number of rounds that are over, as t counts them.
Over(t) == IF t \in Cur THEN arrived[t] - 1 ELSE arrived[t]

Shape ==
  /\ valid \in BOOLEAN /\ cycle \in BOOLEAN /\ counter \in Nat \ {0}
  /\ cv \subseteq Thread /\ \A t \in cv : status[t] = "wait"
  /\ mine \in [Thread -> BOOLEAN]
  /\ status \in [Thread -> {"none", "wait", "ok", "serial"}]
  /\ arrived \in [Thread -> 0 .. Rounds] /\ left \in [Thread -> 0 .. Rounds]
  /\ specials \in [1 .. Rounds -> Nat]

\* counter is what is missing of the round, the threads agree on the number
\* of rounds, and a thread is at most one call ahead of its returns.
Agreed ==
  /\ counter = threshold - Cardinality(Cur)
  /\ \A t, u \in Thread : Over(t) = Over(u)
  /\ \A t \in Thread : arrived[t] = IF status[t] = "wait" THEN left[t] + 1 ELSE left[t]

\* Who got -1 in the last round that is over.
Serial ==
  /\ \A t, u \in Thread \ Cur : status[t] = "serial" /\ status[u] = "serial" => t = u
  /\ Cur = {} /\ (\E t \in Thread : arrived[t] > 0)
       => \E s \in Thread : status[s] = "serial"

\* A round that is over has had one special thread, and somebody has left it.
Special ==
  /\ \A r \in 1 .. Rounds, t \in Thread : specials[r] = IF r <= Over(t) THEN 1 ELSE 0
  /\ \E s \in Thread : left[s] = Over(s)

IInv == Shape /\ Agreed /\ Serial /\ Special

-----------------------------------------------------------------------------
\* The threads of the current round are finitely many.
LEMMA CurFinite ==
  /\ IsFiniteSet(Cur) /\ Cardinality(Cur) \in Nat
  /\ threshold \in Nat \ {0}
<1>1. Cur \subseteq Thread
  BY DEF Cur
<1>2. IsFiniteSet(Cur)
  BY <1>1, BarrierThreads, FS_Subset
<1>3. threshold \in Nat /\ threshold # 0
  BY BarrierThreads, FS_CardinalityType, FS_EmptySet DEF threshold
<1> QED
  BY <1>2, <1>3, FS_CardinalityType

\* The barrier as barrier_init leaves it.
LEMMA InitIInv == Init => IInv
<1> SUFFICES ASSUME Init PROVE IInv
  OBVIOUS
<1>1. Cur = {}
  BY DEF Init, Cur
<1>2. Cardinality(Cur) = 0
  BY <1>1, FS_EmptySet
<1>3. Shape
  <2>1. 0 \in 0 .. Rounds
    BY BarrierThreads
  <2>2. counter \in Nat \ {0}
    BY CurFinite DEF Init
  <2> QED
    BY <2>1, <2>2 DEF Init, Shape
<1>4. Agreed
  BY <1>1, <1>2, CurFinite DEF Init, Agreed, Over
<1>5. Serial
  BY <1>1 DEF Init, Serial
<1>6. Special
  BY <1>1, BarrierThreads DEF Init, Special, Over
<1> QED
  BY <1>3, <1>4, <1>5, <1>6 DEF IInv

\* A thread that is not the last of its round joins those that wait.
LEMMA WaitIInv ==
  ASSUME IInv, NEW t \in Thread, barrier_wait(t)
  PROVE  IInv'
<1> USE DEF IInv, Shape, barrier_wait, Arrive, pthread_cond_wait
<1>1. t \notin Cur /\ Cur' = Cur \cup {t}
  BY DEF Cur
<1>2. Cardinality(Cur)' = Cardinality(Cur) + 1
  BY <1>1, CurFinite, FS_AddElement
<1>3. Shape'
  BY BarrierThreads
<1>4. \A u \in Thread : Over(u)' = Over(u)
  BY <1>1 DEF Over
<1>5. counter' = threshold - Cardinality(Cur)'
  BY <1>2, CurFinite DEF Agreed
<1>6. \A u \in Thread : arrived'[u] = IF status'[u] = "wait" THEN left'[u] + 1 ELSE left'[u]
  BY DEF Agreed
<1>7. Agreed'
  BY <1>4, <1>5, <1>6 DEF Agreed, threshold
<1>8. Serial'
  BY <1>1 DEF Serial
<1>9. Special'
  BY <1>4 DEF Special
<1> QED
  BY <1>3, <1>7, <1>8, <1>9

\* The last thread finds all others waiting for the same cycle.
LEMMA LastCur ==
  ASSUME IInv, NEW t \in Thread, barrier_wait_last(t)
  PROVE  Cur = Thread \ {t}
<1>1. Cur \subseteq Thread \ {t}
  BY DEF Cur, barrier_wait_last, Arrive
<1>2. /\ IsFiniteSet(Thread \ {t})
      /\ Cardinality(Thread \ {t}) = threshold - 1
  BY BarrierThreads, FS_RemoveElement DEF threshold
<1>3. counter = 1 /\ counter = threshold - Cardinality(Cur)
  BY DEF barrier_wait_last, IInv, Agreed
<1>4. Cardinality(Cur) = threshold - 1
  BY <1>3, CurFinite
<1> QED
  BY <1>1, <1>2, <1>4, FS_Subset

\* Turning cycle ends the round for all of them at once.
LEMMA LastIInv ==
  ASSUME IInv, NEW t \in Thread, barrier_wait_last(t)
  PROVE  IInv'
<1> USE DEF IInv, Shape, barrier_wait_last, Arrive, Return, pthread_cond_broadcast
<1>1. Cur = Thread \ {t}
  BY LastCur
<1>2. \A u \in Thread \ {t} : status[u] = "wait" /\ mine[u] = cycle
  BY <1>1 DEF Cur
<1>3. Cur' = {}
  BY <1>2 DEF Cur
<1>4. Cardinality(Cur)' = 0
  BY <1>3, FS_EmptySet
<1>5. Shape'
  BY CurFinite, BarrierThreads DEF threshold, Agreed
<1>6. \A u \in Thread : Over(u)' = Over(u) + 1
  BY <1>1, <1>3 DEF Over
<1>7. \A u \in Thread : arrived'[u] = IF status'[u] = "wait" THEN left'[u] + 1 ELSE left'[u]
  BY DEF Agreed
<1>8. Agreed'
  BY <1>4, <1>6, <1>7, CurFinite DEF Agreed, threshold
<1>9. Serial'
  BY <1>2, <1>3 DEF Serial
<1>10. Special'
  <2>1. Over(t) = left[t] /\ left[t] + 1 \in 1 .. Rounds /\ left'[t] = left[t] + 1
    BY <1>1, BarrierThreads DEF Over, Agreed
  <2>2. specials' = [specials EXCEPT ![left[t] + 1] = @ + 1]
    OBVIOUS
  <2>3. \A u \in Thread : Over(u) = left[t] /\ Over(u)' = left[t] + 1
    BY <1>6, <2>1 DEF Agreed
  <2>4. ASSUME NEW r \in 1 .. Rounds
        PROVE  specials'[r] = IF r <= left[t] + 1 THEN 1 ELSE 0
    <3>1. specials[r] = IF r <= left[t] THEN 1 ELSE 0
      BY <2>1 DEF Special
    <3> QED
      BY <2>1, <2>2, <3>1, BarrierThreads
  <2> QED
    BY <2>1, <2>3, <2>4 DEF Special
<1> QED
  BY <1>5, <1>8, <1>9, <1>10

\* A thread that is woken returns when the cycle it remembers is over.
LEMMA WokenIInv ==
  ASSUME IInv, NEW t \in Thread, barrier_wait_woken(t)
  PROVE  IInv'
<1> USE DEF IInv, Shape, barrier_wait_woken
<1>1. CASE CycleOver(t)
  <2>1. t \notin Cur /\ Cur' = Cur
    BY <1>1 DEF Cur, CycleOver, Return
  <2>2. Shape'
    <3>1. left[t] + 1 = arrived[t]
      BY DEF Agreed
    <3>2. left' = [left EXCEPT ![t] = arrived[t]] /\ specials' = specials
      BY <1>1, <3>1 DEF Return
    <3>3. left' \in [Thread -> 0 .. Rounds]
      BY <3>2
    <3>4. status' = [status EXCEPT ![t] = "ok"] /\ cv' = cv /\ t \notin cv
      BY <1>1 DEF Return
    <3>5. /\ status' \in [Thread -> {"none", "wait", "ok", "serial"}]
          /\ \A u \in cv' : status'[u] = "wait"
      BY <3>4
    <3> QED
      BY <3>2, <3>3, <3>4, <3>5
  <2>3. \A u \in Thread : Over(u)' = Over(u)
    BY <2>1 DEF Over
  <2>4. \A u \in Thread : arrived'[u] = IF status'[u] = "wait" THEN left'[u] + 1 ELSE left'[u]
    BY <1>1 DEF Agreed, Return
  <2>5. Agreed'
    BY <2>1, <2>3, <2>4 DEF Agreed, threshold
  <2>6. Serial'
    BY <1>1, <2>1 DEF Serial, Return
  <2>7. Special'
    <3>1. specials' = specials
      BY <1>1 DEF Return
    <3>2. PICK s \in Thread : left[s] = Over(s)
      BY DEF Special
    <3>3. s # t
      BY <2>1, <3>2 DEF Over, Agreed
    <3>4. left'[s] = left[s]
      BY <1>1, <3>3 DEF Return
    <3> QED
      BY <2>3, <3>1, <3>2, <3>4 DEF Special
  <2> QED
    BY <2>2, <2>5, <2>6, <2>7
<1>2. CASE ~CycleOver(t)
  <2>1. Shape'
    BY <1>2 DEF pthread_cond_wait
  <2>2. Cur' = Cur
    BY <1>2 DEF Cur
  <2>3. Agreed' /\ Serial' /\ Special'
    BY <1>2, <2>2 DEF Agreed, Serial, Special, Over, threshold
  <2> QED
    BY <2>1, <2>3
<1> QED
  BY <1>1, <1>2

\* Nothing that is left changes a count.
LEMMA OtherIInv ==
  ASSUME IInv, cv' \subseteq cv, valid' \in BOOLEAN,
         UNCHANGED <<counter, cycle, mine, status, arrived, left, specials>>
  PROVE  IInv'
<1>1. Cur' = Cur
  BY DEF Cur
<1> QED
  BY <1>1 DEF IInv, Shape, Agreed, Serial, Special, Over, threshold

LEMMA NextIInv == IInv /\ [Next]_vars => IInv'
<1> SUFFICES ASSUME IInv, [Next]_vars PROVE IInv'
  OBVIOUS
<1>1. CASE \E t \in Thread : Wait(t)
  BY <1>1, WaitIInv, LastIInv, WokenIInv DEF Wait
<1>2. CASE Spurious
  BY <1>2, OtherIInv DEF Spurious, spurious_wakeup, IInv, Shape
<1>3. CASE barrier_destroy
  BY <1>3, OtherIInv DEF barrier_destroy
<1>4. CASE UNCHANGED vars
  BY <1>4, OtherIInv DEF vars, IInv, Shape
<1> QED
  BY <1>1, <1>2, <1>3, <1>4 DEF Next

LEMMA SpecIInv == Spec => []IInv
  BY InitIInv, NextIInv, PTL DEF Spec

\* The fields of barrier_t have their types in every execution of barrier.c:
\* counter is never 0 and never more than threshold between two calls.
THEOREM BarrierTyped == Spec => []TypeOK
<1>1. IInv => TypeOK
  BY CurFinite DEF IInv, Shape, Agreed, TypeOK
<1> QED
  BY <1>1, SpecIInv, PTL

\* barrier_wait lets no thread out of a round before all have come in, with
\* one bit to tell the rounds apart.
THEOREM RoundsTogether == Spec => []Together
<1>1. IInv => Together
  <2> SUFFICES ASSUME IInv, NEW t \in Thread, NEW u \in Thread
               PROVE  left[t] <= arrived[u]
    BY DEF Together
  <2>1. /\ arrived[t] \in Nat /\ arrived[u] \in Nat /\ left[t] \in Nat
        /\ Over(t) = Over(u)
        /\ arrived[t] = IF status[t] = "wait" THEN left[t] + 1 ELSE left[t]
    BY BarrierThreads DEF IInv, Shape, Agreed
  <2>2. t \in Cur => status[t] = "wait"
    BY DEF Cur
  <2> QED
    BY <2>1, <2>2 DEF Over
<1> QED
  BY <1>1, SpecIInv, PTL

\* Of every round exactly one thread gets -1 from barrier_wait, from the first
\* return on and however the rounds overlap.
THEOREM OneReturnsSerial == Spec => []OneSerial
<1>1. IInv => OneSerial
  <2> SUFFICES ASSUME IInv, NEW r \in 1 .. Rounds
               PROVE  specials[r] = IF \E t \in Thread : left[t] >= r THEN 1 ELSE 0
    BY DEF OneSerial
  <2>1. PICK s \in Thread : left[s] = Over(s)
    BY DEF IInv, Special
  <2>2. specials[r] = IF r <= left[s] THEN 1 ELSE 0
    BY <2>1 DEF IInv, Special
  <2>3. \A t \in Thread : left[t] \in Nat /\ left[t] <= left[s]
    <3> TAKE t \in Thread
    <3>1. /\ left[t] \in Nat /\ arrived[t] \in Nat /\ Over(t) = left[s]
          /\ arrived[t] = IF status[t] = "wait" THEN left[t] + 1 ELSE left[t]
      BY <2>1, BarrierThreads DEF IInv, Shape, Agreed
    <3>2. t \in Cur => status[t] = "wait"
      BY DEF Cur
    <3> QED
      BY <3>1, <3>2 DEF Over
  <2>4. (\E t \in Thread : left[t] >= r) <=> r <= left[s]
    BY <2>3
  <2> QED
    BY <2>2, <2>4
<1> QED
  BY <1>1, SpecIInv, PTL

-----------------------------------------------------------------------------
(***************************************************************************)
(* The program of barrier_main.c.                                            *)
(***************************************************************************)

\* Every step of the program uses the barrier as barrier.c allows.
LEMMA MainUsesBarrier == [MainNext]_allVars => [Next]_vars
<1> SUFFICES ASSUME [MainNext]_allVars PROVE [Next]_vars
  OBVIOUS
<1>1. CASE main
  BY <1>1 DEF main, create, join, print, destroy, Next
<1>2. CASE \E t \in Thread : thread_routine(t)
  BY <1>2 DEF thread_routine, first_wait, inner_loop, second_wait, serial, Next
<1>3. CASE Spurious
  BY <1>3 DEF Next
<1>4. CASE Exited \/ UNCHANGED allVars
  BY <1>4 DEF Exited, allVars
<1> QED
  BY <1>1, <1>2, <1>3, <1>4 DEF MainNext

\* How far a thread is in thread_routine tells how often it has been through
\* barrier_wait: an even number of times outside the inner loop, an odd one
\* in it; and it changes the increments only after the call returned -1.
Place(t) ==
  /\ at[t] = "new" => arrived[t] = 0 /\ status[t] # "wait"
  /\ at[t] = "first" => left[t] % 2 = 0
  /\ at[t] = "inner" => left[t] % 2 = 1 /\ status[t] # "wait"
  /\ at[t] = "second" => left[t] % 2 = 1
  /\ at[t] = "serial" => left[t] % 2 = 0 /\ left[t] > 0 /\ status[t] = "serial"

Places ==
  /\ at \in [Thread -> {"new", "first", "inner", "second", "serial", "done"}]
  /\ \A t \in Thread : Place(t)

\* What a step of barrier_wait does to the calls and returns of t.
LEMMA WaitLeft ==
  ASSUME IInv, NEW t \in Thread, Wait(t)
  PROVE  /\ left[t] \in Nat
         /\ \/ left'[t] = left[t]
            \/ left'[t] = left[t] + 1 /\ status'[t] # "wait"
         /\ \A u \in Thread \ {t} : /\ arrived'[u] = arrived[u] /\ left'[u] = left[u]
                                     /\ status'[u] = status[u]
<1> USE DEF IInv, Shape
<1>1. CASE barrier_wait(t)
  BY <1>1 DEF barrier_wait, Arrive
<1>2. CASE barrier_wait_last(t)
  BY <1>2 DEF barrier_wait_last, Arrive, Return
<1>3. CASE barrier_wait_woken(t)
  BY <1>3 DEF barrier_wait_woken, Return
<1> QED
  BY <1>1, <1>2, <1>3 DEF Wait

LEMMA InitPlaces == MainInit => Places
  BY DEF MainInit, Init, Places, Place

LEMMA RoutinePlaces ==
  ASSUME IInv, Places, NEW t \in Thread, thread_routine(t)
  PROVE  Places'
<1> USE DEF Places, Goto, NextRound
<1>1. CASE first_wait(t)
  <2>1. Place(t)'
    BY <1>1, WaitLeft DEF first_wait, Place
  <2>2. \A u \in Thread \ {t} : Place(u)'
    BY <1>1, WaitLeft DEF first_wait, Place
  <2> QED
    BY <1>1, <2>1, <2>2 DEF first_wait
<1>2. CASE inner_loop(t)
  <2>1. \A u \in Thread : Place(u)'
    BY <1>2 DEF inner_loop, Place, vars
  <2> QED
    BY <1>2, <2>1 DEF inner_loop
<1>3. CASE second_wait(t)
  <2>1. Place(t)'
    BY <1>3, WaitLeft DEF second_wait, Place
  <2>2. \A u \in Thread \ {t} : Place(u)'
    BY <1>3, WaitLeft DEF second_wait, Place
  <2> QED
    BY <1>3, <2>1, <2>2 DEF second_wait
<1>4. CASE serial(t)
  <2>1. \A u \in Thread : Place(u)'
    BY <1>4 DEF serial, Place, vars
  <2> QED
    BY <1>4, <2>1 DEF serial
<1> QED
  BY <1>1, <1>2, <1>3, <1>4 DEF thread_routine

LEMMA NextPlaces == IInv /\ Places /\ [MainNext]_allVars => Places'
<1> SUFFICES ASSUME IInv, Places, [MainNext]_allVars PROVE Places'
  OBVIOUS
<1> USE DEF Places, Place, vars, mainVars, allVars
<1>1. CASE \E t \in Thread : create(t)
  <2>1. PICK t \in Thread : create(t)
    BY <1>1
  <2>2. left[t] = 0
    BY <2>1 DEF create, IInv, Agreed
  <2>3. 0 % 2 = 0
    OBVIOUS
  <2> QED
    BY <2>1, <2>2, <2>3 DEF create, Goto
<1>2. CASE join \/ print
  BY <1>2 DEF join, print
<1>3. CASE destroy
  BY <1>3 DEF destroy, barrier_destroy
<1>4. CASE \E t \in Thread : thread_routine(t)
  BY <1>4, RoutinePlaces
<1>5. CASE Spurious /\ UNCHANGED mainVars
  BY <1>5 DEF Spurious
<1>6. CASE Exited \/ UNCHANGED allVars
  BY <1>6 DEF Exited
<1> QED
  BY <1>1, <1>2, <1>3, <1>4, <1>5, <1>6 DEF MainNext, main

\* The thread that got -1 is alone: all the others are at a barrier or done.
Alone ==
  \A t, u \in Thread :
    at[t] = "serial" /\ t # u => at[u] \notin {"inner", "serial", "new"}

LEMMA AloneNow == IInv /\ Places => Alone
<1> SUFFICES ASSUME IInv, Places, NEW t \in Thread, NEW u \in Thread,
                    at[t] = "serial", t # u
             PROVE  at[u] \notin {"inner", "serial", "new"}
  BY DEF Alone
<1>1. /\ left[t] % 2 = 0 /\ left[t] > 0 /\ status[t] = "serial"
      /\ Place(u)
  BY DEF Places, Place
<1>2. t \notin Cur /\ Over(t) = left[t]
  BY <1>1 DEF IInv, Agreed, Over, Cur
<1>3. status[u] # "wait" => u \notin Cur /\ Over(u) = left[u]
  BY DEF IInv, Agreed, Over, Cur
<1>4. Over(t) = Over(u)
  BY DEF IInv, Agreed
<1>5. status[u] # "wait" => left[u] % 2 = 0 /\ left[u] > 0 /\ status[u] # "serial"
  BY <1>1, <1>2, <1>3, <1>4 DEF IInv, Serial
<1> QED
  BY <1>1, <1>5 DEF Place, IInv, Agreed

-----------------------------------------------------------------------------
\* The array of t after r rounds, which have added t, t + 1, and so on.
Filled(t, r) == 1 + INLOOPS * (r * t + SumTo(r - 1))

\* The rounds t has completed.
Rnd(t) == left[t] \div 2

\* How far the work of t is.
Worked(t) ==
  /\ loop[t] \in Nat
  /\ at[t] \in {"new", "first", "second", "done"} => loop[t] = 0
  /\ at[t] = "inner" => loop[t] <= INLOOPS
  /\ at[t] = "serial" => loop[t] <= THREADS
  /\ at[t] \in {"first", "serial", "done"} => array[t] = Filled(t, Rnd(t))
  /\ at[t] = "inner" => array[t] = Filled(t, Rnd(t)) + loop[t] * (t + Rnd(t))
  /\ at[t] = "second" => array[t] = Filled(t, Rnd(t) + 1)
  /\ at[t] = "done" => left[t] = 2 * OUTLOOPS /\ status[t] # "wait"

\* increment[u] follows the rounds that are over; the thread that got -1 has
\* brought it up to date below its loop counter.
Increments ==
  /\ \A t, u \in Thread : at[t] = "serial" =>
       increment[u] = u + Rnd(t) - (IF u < loop[t] THEN 0 ELSE 1)
  /\ (\A t \in Thread : at[t] # "serial") =>
       \A u \in Thread : at[u] # "new" => increment[u] = u + (Over(u) \div 2)

Values ==
  /\ loop \in [Thread -> Int] /\ array \in [Thread -> Int] /\ increment \in [Thread -> Int]
  /\ \A t \in Thread : Worked(t)
  /\ Increments

\* The threads and the bounds are numbers.
LEMMA Numbers ==
  /\ INLOOPS \in Nat /\ OUTLOOPS \in Nat /\ Rounds \in Nat /\ THREADS \in Nat
  /\ \A t : t \in Thread <=> t \in Nat /\ t < THREADS
  <1>1. INLOOPS \in Nat /\ Rounds \in Nat /\ OUTLOOPS \in Nat /\ THREADS \in Nat
    BY BarrierThreads, ThreadsNumbered DEF OUTLOOPS
  <1>2. \A t : t \in Thread <=> t \in Nat /\ t < THREADS
    BY ThreadsNumbered
  <1> QED
    BY <1>1, <1>2

\* Half the product of two neighbours.
LEMMA SumStep ==
  ASSUME NEW r \in Nat
  PROVE  /\ SumTo(r - 1) \in Int /\ SumTo(r) = SumTo(r - 1) + r
  <1>1. PICK k \in Int : (r - 1) * r = 2 * k
    <2>1. PICK h \in Int : r = 2 * h \/ r - 1 = 2 * h
      <3>1. r = 2 * (r \div 2) \/ r - 1 = 2 * (r \div 2)
        OBVIOUS
      <3> QED
        BY <3>1
    <2>2. CASE r = 2 * h
      <3>1. (r - 1) * (2 * h) = 2 * ((r - 1) * h) /\ (r - 1) * h \in Int
        OBVIOUS
      <3> QED
        BY <2>2, <3>1
    <2>3. CASE r - 1 = 2 * h
      <3>1. (2 * h) * r = 2 * (h * r) /\ h * r \in Int
        OBVIOUS
      <3> QED
        BY <2>3, <3>1
    <2> QED
      BY <2>1, <2>2, <2>3
  <1>2. r * (r + 1) = (r - 1) * r + 2 * r
    OBVIOUS
  <1>3. r * (r + 1) = 2 * (k + r)
    BY <1>1, <1>2
  <1>4. (2 * k) \div 2 = k /\ (2 * (k + r)) \div 2 = k + r
    OBVIOUS
  <1>5. (r - 1) + 1 = r
    OBVIOUS
  <1> QED
    BY <1>1, <1>3, <1>4, <1>5 DEF SumTo

\* A round adds t plus its number, INLOOPS times.
LEMMA FilledStep ==
  ASSUME NEW t \in Nat, NEW r \in Nat
  PROVE  /\ Filled(t, r) \in Int
         /\ Filled(t, r + 1) = Filled(t, r) + INLOOPS * (t + r)
  <1> DEFINE x == SumTo(r - 1)
  <1>1. x \in Int /\ SumTo((r + 1) - 1) = x + r
    <2>1. (r + 1) - 1 = r
      OBVIOUS
    <2> QED
      BY <2>1, SumStep
  <1> HIDE DEF x
  <1>2. r * t \in Int /\ (r + 1) * t = r * t + t
    OBVIOUS
  <1>3. (r + 1) * t + (x + r) = (r * t + x) + (t + r)
    BY <1>1, <1>2
  <1>4. INLOOPS * ((r * t + x) + (t + r)) = INLOOPS * (r * t + x) + INLOOPS * (t + r)
    <2>1. ASSUME NEW a \in Int, NEW b \in Int, NEW n \in Int
          PROVE  n * (a + b) = n * a + n * b
      OBVIOUS
    <2> QED
      BY <1>1, <1>2, <2>1, Numbers
  <1>5. INLOOPS * (r * t + x) \in Int /\ INLOOPS * (t + r) \in Int
    BY <1>1, <1>2, Numbers
  <1> QED
    BY <1>1, <1>3, <1>4, <1>5 DEF Filled, x

LEMMA FilledZero ==
  ASSUME NEW t \in Nat
  PROVE  Filled(t, 0) = 1
  <1>1. SumTo(0 - 1) = 0
    BY DEF SumTo
  <1>2. 0 * t + 0 = 0 /\ INLOOPS * 0 = 0
    BY Numbers
  <1> QED
    BY <1>1, <1>2 DEF Filled

\* What barrier_wait does to the rounds: the last thread to arrive ends one,
\* and it alone gets -1.
LEMMA WaitOver ==
  ASSUME IInv, NEW t \in Thread, Wait(t)
  PROVE  \/ /\ \A u \in Thread : Over(u)' = Over(u)
            /\ left' = left
         \/ /\ \A u \in Thread : Over(u)' = Over(u)
            /\ left'[t] = left[t] + 1 /\ status'[t] = "ok"
         \/ /\ \A u \in Thread : Over(u)' = Over(u) + 1
            /\ Over(t) = left[t] /\ left'[t] = left[t] + 1 /\ status'[t] = "serial"
<1> USE DEF IInv, Shape
<1>1. CASE barrier_wait(t)
  <2>1. t \notin Cur /\ Cur' = Cur \cup {t}
    BY <1>1 DEF barrier_wait, Arrive, Cur
  <2>2. \A u \in Thread : Over(u)' = Over(u)
    BY <1>1, <2>1 DEF Over, barrier_wait, Arrive
  <2> QED
    BY <1>1, <2>2 DEF barrier_wait
<1>2. CASE barrier_wait_last(t)
  <2>1. Cur = Thread \ {t}
    BY <1>2, LastCur
  <2>2. Cur' = {}
    BY <1>2, <2>1 DEF Cur, barrier_wait_last, Arrive, Return
  <2>3. \A u \in Thread : Over(u)' = Over(u) + 1
    BY <1>2, <2>1, <2>2 DEF Over, barrier_wait_last, Arrive, Return
  <2>4. Over(t) = left[t] /\ left'[t] = left[t] + 1 /\ status'[t] = "serial"
    BY <1>2, <2>1 DEF Over, Agreed, barrier_wait_last, Arrive, Return
  <2> QED
    BY <2>3, <2>4
<1>3. CASE barrier_wait_woken(t)
  <2>1. CASE CycleOver(t)
    <3>1. t \notin Cur /\ Cur' = Cur
      BY <1>3, <2>1 DEF Cur, CycleOver, Return, barrier_wait_woken
    <3>2. \A u \in Thread : Over(u)' = Over(u)
      BY <1>3, <3>1 DEF Over, barrier_wait_woken
    <3> QED
      BY <1>3, <2>1, <3>2 DEF barrier_wait_woken, Return
  <2>2. CASE ~CycleOver(t)
    <3>1. Cur' = Cur
      BY <1>3, <2>2 DEF Cur, barrier_wait_woken
    <3> QED
      BY <1>3, <2>2, <3>1 DEF Over, barrier_wait_woken
  <2> QED
    BY <2>1, <2>2
<1> QED
  BY <1>1, <1>2, <1>3 DEF Wait

\* The rounds of a thread that is not in barrier_wait.
LEMMA OutsideOver ==
  ASSUME IInv, NEW t \in Thread
  PROVE  /\ left[t] \in Nat /\ Over(t) \in Int
         /\ status[t] # "wait" => Over(t) = left[t]
         /\ \A u \in Thread : Over(u) = Over(t)
  BY DEF IInv, Shape, Agreed, Over, Cur

LEMMA InitValues == MainInit => Values
<1> SUFFICES ASSUME MainInit PROVE Values
  OBVIOUS
<1>1. \A t \in Thread : Worked(t)
  BY DEF MainInit, Worked
<1>2. Increments
  BY DEF MainInit, Increments
<1> QED
  BY <1>1, <1>2 DEF MainInit, Values

\* The threads a step does not concern.
LEMMA WorkedKept ==
  ASSUME NEW u \in Thread, Worked(u), at'[u] = at[u], loop'[u] = loop[u],
         array'[u] = array[u], left'[u] = left[u], status'[u] = status[u]
  PROVE  Worked(u)'
  BY DEF Worked, Rnd, Filled, SumTo, OUTLOOPS

\* main creates t: no round is over yet.
LEMMA CreateValues ==
  ASSUME IInv, Places, Values, NEW t \in Thread, create(t)
  PROVE  Values'
<1>1. /\ at[t] = "new" /\ increment' = [increment EXCEPT ![t] = t]
      /\ array' = [array EXCEPT ![t] = 1] /\ at' = [at EXCEPT ![t] = "first"]
      /\ loop' = loop /\ left' = left /\ status' = status /\ arrived' = arrived
      /\ mine' = mine /\ cycle' = cycle
  BY DEF create, Goto, vars
<1>2. /\ at'[t] = "first" /\ array'[t] = 1 /\ increment'[t] = t /\ t \in Nat
      /\ \A u \in Thread \ {t} : /\ at'[u] = at[u] /\ array'[u] = array[u]
                                 /\ increment'[u] = increment[u]
      /\ array' \in [Thread -> Int] /\ increment' \in [Thread -> Int]
  BY <1>1, Numbers DEF Places, Values
<1>3. left[t] = 0 /\ Over(t) = 0 /\ loop[t] = 0
  BY <1>1, OutsideOver DEF Places, Place, IInv, Agreed, Values, Worked
<1>4. Rnd(t)' = 0
  BY <1>1, <1>3 DEF Rnd
<1>5. Worked(t)'
  <2>1. array'[t] = Filled(t, 0)
    BY <1>2, FilledZero
  <2> QED
    BY <1>1, <1>2, <1>3, <1>4, <2>1 DEF Worked, Filled, SumTo
<1>6. \A u \in Thread \ {t} : Worked(u)'
  BY <1>1, <1>2, WorkedKept DEF Values
<1>7. \A u \in Thread : Over(u)' = Over(u)
  BY <1>1 DEF Over, Cur
<1>8. \A v \in Thread : at[v] # "serial" /\ at'[v] # "serial"
  BY <1>1, <1>2, AloneNow DEF Alone
<1>9. Increments'
  <2>1. \A u \in Thread : at'[u] # "new" => increment'[u] = u + (Over(u)' \div 2)
    BY <1>2, <1>3, <1>7, <1>8 DEF Values, Increments
  <2> QED
    BY <1>8, <2>1 DEF Increments
<1> QED
  BY <1>1, <1>2, <1>5, <1>6, <1>9 DEF Values

\* The inner loop adds the increment of the round, which nobody changes
\* meanwhile.
LEMMA InnerValues ==
  ASSUME IInv, Places, Values, NEW t \in Thread, inner_loop(t)
  PROVE  Values'
<1>1. /\ at[t] = "inner" /\ increment' = increment /\ left' = left /\ status' = status
      /\ arrived' = arrived /\ mine' = mine /\ cycle' = cycle
  BY DEF inner_loop, vars
<1>2. \A u \in Thread : Over(u)' = Over(u)
  BY <1>1 DEF Over, Cur
<1>3. \A v \in Thread : at[v] # "serial"
  BY <1>1, AloneNow DEF Alone
<1>4. Rnd(t) \in Nat /\ Over(t) \div 2 = Rnd(t) /\ Rnd(t)' = Rnd(t) /\ t \in Nat
  BY <1>1, OutsideOver, Numbers DEF Places, Place, Rnd
<1>5. increment[t] = t + Rnd(t)
  BY <1>1, <1>3, <1>4 DEF Values, Increments
<1>6. /\ loop[t] \in Nat /\ loop[t] <= INLOOPS
      /\ array[t] = Filled(t, Rnd(t)) + loop[t] * (t + Rnd(t))
  BY <1>1 DEF Values, Worked
<1>7. PICK r \in Nat : r = Rnd(t)
  BY <1>4
<1>8. Filled(t, r) \in Int /\ Filled(t, r + 1) = Filled(t, r) + INLOOPS * (t + r)
  BY <1>4, FilledStep
<1>9. Filled(t, Rnd(t))' = Filled(t, r) /\ Filled(t, Rnd(t) + 1)' = Filled(t, r + 1)
  BY <1>4, <1>7 DEF Filled, SumTo
<1>10. CASE loop[t] < INLOOPS
  <2>1. /\ array' = [array EXCEPT ![t] = @ + increment[t]]
        /\ loop' = [loop EXCEPT ![t] = @ + 1] /\ at' = at
    BY <1>10 DEF inner_loop
  <2>2. /\ loop' \in [Thread -> Int] /\ array' \in [Thread -> Int]
        /\ loop'[t] = loop[t] + 1 /\ array'[t] = array[t] + (t + r)
        /\ \A u \in Thread \ {t} : loop'[u] = loop[u] /\ array'[u] = array[u]
    BY <1>4, <1>5, <1>7, <2>1 DEF Values
  <2>3. array'[t] = Filled(t, r) + loop'[t] * (t + r)
    <3>1. (loop[t] + 1) * (t + r) = loop[t] * (t + r) + (t + r) /\ loop[t] * (t + r) \in Int
      BY <1>4, <1>6
    <3> QED
      BY <1>4, <1>6, <1>7, <1>8, <2>2, <3>1
  <2>4. Worked(t)'
    <3>1. loop'[t] \in Nat /\ loop'[t] <= INLOOPS
      BY <1>6, <1>10, <2>2, Numbers
    <3> QED
      BY <1>1, <1>4, <1>7, <1>9, <2>1, <2>3, <3>1 DEF Worked
  <2>5. \A u \in Thread \ {t} : Worked(u)'
    BY <1>1, <2>1, <2>2, WorkedKept DEF Values
  <2>6. Increments'
    BY <1>1, <1>2, <1>3, <2>1 DEF Values, Increments
  <2> QED
    BY <1>1, <2>2, <2>4, <2>5, <2>6 DEF Values
<1>11. CASE ~(loop[t] < INLOOPS)
  <2>1. /\ array' = array /\ loop' = [loop EXCEPT ![t] = 0]
        /\ at' = [at EXCEPT ![t] = "second"]
    BY <1>11 DEF inner_loop, Goto
  <2>2. /\ loop' \in [Thread -> Int] /\ loop'[t] = 0 /\ at'[t] = "second"
        /\ \A u \in Thread \ {t} : loop'[u] = loop[u] /\ at'[u] = at[u]
    BY <2>1 DEF Values, Places
  <2>3. array[t] = Filled(t, r + 1)
    <3>1. loop[t] = INLOOPS
      BY <1>6, <1>11, Numbers
    <3> QED
      BY <1>6, <1>7, <1>8, <3>1
  <2>4. Worked(t)'
    BY <1>9, <2>1, <2>2, <2>3 DEF Worked
  <2>5. \A u \in Thread \ {t} : Worked(u)'
    BY <1>1, <2>1, <2>2, WorkedKept DEF Values
  <2>6. Increments'
    <3>1. \A u \in Thread : at'[u] # "serial" /\ (at[u] = "new" <=> at'[u] = "new")
      BY <1>1, <1>3, <2>2
    <3> QED
      BY <1>1, <1>2, <1>3, <3>1 DEF Values, Increments
  <2> QED
    BY <1>1, <2>1, <2>2, <2>4, <2>5, <2>6 DEF Values
<1> QED
  BY <1>10, <1>11

\* The first barrier_wait of a round: t goes on to the inner loop.
LEMMA FirstValues ==
  ASSUME IInv, Places, Values, NEW t \in Thread, first_wait(t)
  PROVE  Values'
<1>1. /\ at[t] = "first" /\ Wait(t) /\ loop' = loop /\ increment' = increment
      /\ array' = array
  BY DEF first_wait
<1>2. /\ \A u \in Thread \ {t} : left'[u] = left[u] /\ status'[u] = status[u]
      /\ left[t] \in Nat /\ left[t] % 2 = 0
  BY <1>1, WaitLeft DEF Places, Place
<1>3. /\ \/ left'[t] = left[t] /\ at' = at
         \/ left'[t] = left[t] + 1 /\ at' = [at EXCEPT ![t] = "inner"]
      /\ at \in [Thread -> {"new", "first", "inner", "second", "serial", "done"}]
  BY <1>1, WaitLeft DEF first_wait, Goto, Places
<1>4. \A u \in Thread \ {t} : at'[u] = at[u]
  BY <1>3
<1>5. \A u \in Thread : at'[u] = "serial" <=> at[u] = "serial"
  BY <1>1, <1>3
<1>6. \A u \in Thread : at'[u] = "new" <=> at[u] = "new"
  BY <1>1, <1>3
<1>7. Rnd(t)' = Rnd(t)
  BY <1>2, <1>3 DEF Rnd
<1>8. \A u \in Thread : Rnd(u)' = Rnd(u)
  BY <1>2, <1>7 DEF Rnd
<1>9. \A u \in Thread : Over(u)' \div 2 = Over(u) \div 2
  <2> TAKE u \in Thread
  <2>1. CASE Over(u)' = Over(u)
    BY <2>1
  <2>2. CASE Over(u)' = Over(u) + 1 /\ Over(t) = left[t]
    <3>1. Over(u) = left[t]
      BY <2>2, OutsideOver
    <3> QED
      BY <1>2, <2>2, <3>1
  <2> QED
    BY <1>1, <2>1, <2>2, WaitOver
<1>10. Worked(t)'
  <2>1. /\ loop[t] = 0 /\ array[t] = Filled(t, Rnd(t))
    BY <1>1 DEF Values, Worked
  <2>2. Filled(t, Rnd(t))' = Filled(t, Rnd(t))
    BY <1>7 DEF Filled, SumTo
  <2>3. CASE at' = at
    BY <1>1, <2>1, <2>2, <2>3 DEF Worked
  <2>4. CASE at' = [at EXCEPT ![t] = "inner"]
    <3>1. at'[t] = "inner"
      BY <1>3, <2>4
    <3>2. PICK r \in Nat : r = Rnd(t)
      BY <1>2 DEF Rnd
    <3>3. Filled(t, r) \in Int /\ t \in Nat
      BY Numbers, FilledStep
    <3>4. 0 * (t + r) = 0
      BY <3>3
    <3>5. Filled(t, r) = Filled(t, r) + 0 * (t + r)
      BY <3>3, <3>4
    <3>6. array'[t] = Filled(t, Rnd(t))' + loop'[t] * (t + Rnd(t)')
      BY <1>1, <1>7, <2>1, <2>2, <3>2, <3>5
    <3>7. loop'[t] \in Nat /\ loop'[t] <= INLOOPS
      BY <1>1, <2>1, Numbers
    <3> QED
      BY <3>1, <3>6, <3>7 DEF Worked
  <2> QED
    BY <1>3, <2>3, <2>4
<1>11. \A u \in Thread \ {t} : Worked(u)'
  BY <1>1, <1>2, <1>4, WorkedKept DEF Values
<1>12. Increments'
  <2>1. \A v, u \in Thread : at'[v] = "serial" =>
          increment'[u] = u + Rnd(v)' - (IF u < loop'[v] THEN 0 ELSE 1)
    BY <1>1, <1>5, <1>8 DEF Values, Increments
  <2>2. (\A v \in Thread : at'[v] # "serial") =>
          \A u \in Thread : at'[u] # "new" => increment'[u] = u + (Over(u)' \div 2)
    BY <1>1, <1>5, <1>6, <1>9 DEF Values, Increments
  <2> QED
    BY <2>1, <2>2 DEF Increments
<1> QED
  BY <1>1, <1>10, <1>11, <1>12 DEF Values

\* The second barrier_wait: the round is complete when it returns, and the
\* thread that gets -1 finds the increments one round behind.
LEMMA SecondValues ==
  ASSUME IInv, Places, Values, NEW t \in Thread, second_wait(t)
  PROVE  Values'
<1>1. /\ at[t] = "second" /\ Wait(t) /\ loop' = loop /\ increment' = increment
      /\ array' = array
  BY DEF second_wait
<1>2. /\ \A u \in Thread \ {t} : left'[u] = left[u] /\ status'[u] = status[u]
      /\ left[t] \in Nat /\ left[t] % 2 = 1
  BY <1>1, WaitLeft DEF Places, Place
<1>3. /\ loop[t] = 0 /\ array[t] = Filled(t, Rnd(t) + 1)
      /\ at \in [Thread -> {"new", "first", "inner", "second", "serial", "done"}]
  BY <1>1 DEF Values, Worked, Places
<1>4. left'[t] = left[t] => at' = at
  BY DEF second_wait
<1>5. left'[t] = left[t] + 1 /\ status'[t] = "ok"
        => at' = [at EXCEPT ![t] = IF left'[t] = 2 * OUTLOOPS THEN "done" ELSE "first"]
  <2>1. left[t] + 1 # left[t]
    BY <1>2
  <2> QED
    BY <2>1 DEF second_wait, NextRound, Goto
<1>6. left'[t] = left[t] + 1 /\ status'[t] = "serial" => at' = [at EXCEPT ![t] = "serial"]
  <2>1. left[t] + 1 # left[t]
    BY <1>2
  <2> QED
    BY <2>1 DEF second_wait, Goto
<1>7. left'[t] = left[t] + 1 => Rnd(t)' = Rnd(t) + 1 /\ Rnd(t) \in Nat
  BY <1>2 DEF Rnd
<1>8. left'[t] = left[t] + 1 => array'[t] = Filled(t, Rnd(t))'
  BY <1>1, <1>3, <1>7 DEF Filled, SumTo
<1>9. CASE left' = left /\ \A u \in Thread : Over(u)' = Over(u)
  <2>1. at' = at
    BY <1>4, <1>9
  <2>2. Rnd(t)' = Rnd(t) /\ Filled(t, Rnd(t) + 1)' = Filled(t, Rnd(t) + 1)
    BY <1>9 DEF Rnd, Filled, SumTo
  <2>3. Worked(t)'
    BY <1>1, <1>3, <2>1, <2>2 DEF Worked
  <2>4. \A u \in Thread \ {t} : Worked(u)'
    BY <1>1, <1>2, <2>1, WorkedKept DEF Values
  <2>5. Increments'
    BY <1>1, <1>9, <2>1 DEF Values, Increments, Rnd
  <2> QED
    BY <1>1, <2>3, <2>4, <2>5 DEF Values
<1>10. CASE /\ left'[t] = left[t] + 1 /\ status'[t] = "ok"
            /\ \A u \in Thread : Over(u)' = Over(u)
  <2>1. /\ at'[t] \in {"first", "done"} /\ (at'[t] = "done" => left'[t] = 2 * OUTLOOPS)
        /\ \A u \in Thread \ {t} : at'[u] = at[u]
    BY <1>3, <1>5, <1>10
  <2>2. Worked(t)'
    BY <1>1, <1>3, <1>8, <1>10, <2>1 DEF Worked, OUTLOOPS
  <2>3. \A u \in Thread \ {t} : Worked(u)'
    BY <1>1, <1>2, <2>1, WorkedKept DEF Values
  <2>4. \A u \in Thread : /\ at'[u] = "serial" <=> at[u] = "serial"
                          /\ at'[u] = "new" <=> at[u] = "new"
    BY <1>1, <2>1
  <2>5. \A u \in Thread : at[u] = "serial" => Rnd(u)' = Rnd(u)
    BY <1>1, <1>2 DEF Rnd
  <2>6. \A v, u \in Thread : at'[v] = "serial" =>
          increment'[u] = u + Rnd(v)' - (IF u < loop'[v] THEN 0 ELSE 1)
    BY <1>1, <2>4, <2>5 DEF Values, Increments
  <2>7. (\A v \in Thread : at'[v] # "serial") =>
          \A u \in Thread : at'[u] # "new" => increment'[u] = u + (Over(u)' \div 2)
    BY <1>1, <1>10, <2>4 DEF Values, Increments
  <2>8. Increments'
    BY <2>6, <2>7 DEF Increments
  <2> QED
    BY <1>1, <2>2, <2>3, <2>8 DEF Values
<1>11. CASE /\ left'[t] = left[t] + 1 /\ status'[t] = "serial" /\ Over(t) = left[t]
  <2>1. /\ at'[t] = "serial" /\ \A u \in Thread \ {t} : at'[u] = at[u]
    BY <1>3, <1>6, <1>11
  <2>2. \A u \in Thread : Over(u) = left[t]
    BY <1>11, OutsideOver
  <2>3. ASSUME NEW u \in Thread
        PROVE  at[u] # "serial" /\ at[u] # "new"
    <3>1. CASE at[u] = "serial" \/ at[u] = "new"
      <4>1. left[u] % 2 = 0 /\ status[u] # "wait"
        <5>1. CASE at[u] = "serial"
          BY <5>1 DEF Places, Place
        <5>2. CASE at[u] = "new"
          <6>1. left[u] = 0 /\ status[u] # "wait"
            BY <5>2 DEF Places, Place, IInv, Agreed
          <6>2. 0 % 2 = 0
            OBVIOUS
          <6> QED
            BY <6>1, <6>2
        <5> QED
          BY <3>1, <5>1, <5>2
      <4>2. Over(u) = left[u]
        BY <4>1, OutsideOver
      <4> QED
        BY <1>2, <2>2, <4>1, <4>2
    <3> QED
      BY <3>1
  <2>4. \A u \in Thread : increment[u] = u + Rnd(t)
    BY <2>2, <2>3 DEF Values, Increments, Rnd
  <2>5. \A v \in Thread : at'[v] = "serial" => v = t
    BY <2>1, <2>3
  <2>6. \A u \in Thread : increment'[u] = u + Rnd(t)' - (IF u < loop'[t] THEN 0 ELSE 1)
    <3> TAKE u \in Thread
    <3>1. u \in Nat /\ ~(u < loop'[t])
      BY <1>1, <1>3, Numbers
    <3> QED
      BY <1>1, <1>7, <1>11, <2>4, <3>1
  <2>7. Increments'
    BY <2>1, <2>5, <2>6 DEF Increments
  <2>8. Worked(t)'
    <3>1. loop'[t] = 0 /\ 0 <= THREADS /\ 0 \in Nat
      BY <1>1, <1>3, Numbers
    <3> QED
      BY <1>8, <1>11, <2>1, <3>1 DEF Worked
  <2>9. \A u \in Thread \ {t} : Worked(u)'
    BY <1>1, <1>2, <2>1, WorkedKept DEF Values
  <2> QED
    BY <1>1, <2>7, <2>8, <2>9 DEF Values
<1> QED
  BY <1>1, <1>9, <1>10, <1>11, WaitOver

\* The thread that got -1 adds one to every increment, one after the other.
LEMMA SerialValues ==
  ASSUME IInv, Places, Values, NEW t \in Thread, serial(t)
  PROVE  Values'
<1>1. /\ at[t] = "serial" /\ array' = array /\ left' = left /\ status' = status
      /\ arrived' = arrived /\ mine' = mine /\ cycle' = cycle
  BY DEF serial, vars
<1>2. /\ loop[t] \in Nat /\ loop[t] <= THREADS /\ array[t] = Filled(t, Rnd(t))
      /\ \A u \in Thread : increment[u] = u + Rnd(t) - (IF u < loop[t] THEN 0 ELSE 1)
  BY <1>1 DEF Values, Worked, Increments
<1>3. \A v \in Thread : at[v] = "serial" => v = t
  BY <1>1, AloneNow DEF Alone
<1>4. \A u \in Thread : Rnd(u)' = Rnd(u)
  BY <1>1 DEF Rnd
<1>5. Filled(t, Rnd(t))' = Filled(t, Rnd(t))
  BY <1>1 DEF Rnd, Filled, SumTo
<1>6. PICK r \in Nat : r = Rnd(t)
  BY OutsideOver DEF Rnd
<1>7. PICK l \in Nat : l = loop[t] /\ l <= THREADS
  BY <1>2
<1>8. CASE loop[t] < THREADS
  <2>1. /\ increment' = [increment EXCEPT ![loop[t]] = @ + 1]
        /\ loop' = [loop EXCEPT ![t] = @ + 1] /\ at' = at
    BY <1>8 DEF serial
  <2>2. l \in Thread
    BY <1>7, <1>8, Numbers
  <2>3. /\ loop' \in [Thread -> Int] /\ loop'[t] = l + 1
        /\ \A u \in Thread \ {t} : loop'[u] = loop[u]
    BY <1>7, <2>1 DEF Values
  <2>4. /\ increment' \in [Thread -> Int] /\ increment'[l] = increment[l] + 1
        /\ \A u \in Thread \ {l} : increment'[u] = increment[u]
    BY <1>7, <2>1, <2>2 DEF Values
  <2>5. \A u \in Thread : increment'[u] = u + r - (IF u < l + 1 THEN 0 ELSE 1)
    <3> TAKE u \in Thread
    <3>1. u \in Nat /\ increment[u] = u + r - (IF u < l THEN 0 ELSE 1)
      BY <1>2, <1>6, <1>7, Numbers
    <3>2. CASE u = l
      BY <2>4, <3>1, <3>2
    <3>3. CASE u # l
      <4>1. u < l + 1 <=> u < l
        BY <3>1, <3>3
      <4> QED
        BY <2>4, <3>1, <3>3, <4>1
    <3> QED
      BY <3>2, <3>3
  <2>6. Increments'
    BY <1>1, <1>3, <1>4, <1>6, <2>1, <2>3, <2>5 DEF Increments
  <2>7. Worked(t)'
    <3>1. loop'[t] \in Nat /\ loop'[t] <= THREADS
      BY <1>7, <1>8, <2>3, Numbers
    <3> QED
      BY <1>1, <1>2, <1>5, <2>1, <3>1 DEF Worked
  <2>8. \A u \in Thread \ {t} : Worked(u)'
    BY <1>1, <2>1, <2>3, WorkedKept DEF Values
  <2> QED
    BY <1>1, <2>3, <2>4, <2>6, <2>7, <2>8 DEF Values
<1>9. CASE ~(loop[t] < THREADS)
  <2>1. /\ increment' = increment /\ loop' = [loop EXCEPT ![t] = 0]
        /\ at' = [at EXCEPT ![t] = IF left'[t] = 2 * OUTLOOPS THEN "done" ELSE "first"]
    BY <1>9 DEF serial, NextRound, Goto
  <2>2. /\ loop' \in [Thread -> Int] /\ loop'[t] = 0
        /\ \A u \in Thread \ {t} : loop'[u] = loop[u]
    BY <2>1 DEF Values
  <2>3. /\ at'[t] \in {"first", "done"} /\ (at'[t] = "done" => left'[t] = 2 * OUTLOOPS)
        /\ \A u \in Thread \ {t} : at'[u] = at[u]
    BY <2>1 DEF Places
  <2>4. status[t] = "serial"
    BY <1>1 DEF Places, Place
  <2>5. Worked(t)'
    BY <1>1, <1>2, <1>5, <2>2, <2>3, <2>4 DEF Worked, OUTLOOPS
  <2>6. \A u \in Thread \ {t} : Worked(u)'
    BY <1>1, <2>2, <2>3, WorkedKept DEF Values
  <2>7. \A u \in Thread : at'[u] # "serial"
    BY <1>3, <2>3
  <2>8. \A u \in Thread : increment'[u] = u + (Over(u)' \div 2)
    <3> TAKE u \in Thread
    <3>1. Over(u)' = Over(u)
      BY <1>1 DEF Over, Cur
    <3>2. Over(u) = left[t]
      BY <2>4, OutsideOver
    <3>3. u < loop[t] /\ u \in Nat
      BY <1>2, <1>9, Numbers
    <3>4. increment[u] = u + r
      BY <1>2, <1>6, <3>3
    <3> QED
      BY <1>6, <2>1, <3>1, <3>2, <3>4 DEF Rnd
  <2>9. Increments'
    BY <2>7, <2>8 DEF Increments
  <2> QED
    BY <1>1, <2>1, <2>2, <2>5, <2>6, <2>9 DEF Values
<1> QED
  BY <1>8, <1>9

\* main and the condition variable leave the work of the threads alone.
LEMMA IdleValues ==
  ASSUME Values, UNCHANGED <<at, loop, increment, array, cycle, mine, status, arrived, left>>
  PROVE  Values'
<1>1. \A u \in Thread : Worked(u)'
  BY WorkedKept DEF Values
<1>2. \A u \in Thread : Over(u)' = Over(u) /\ Rnd(u)' = Rnd(u)
  BY DEF Over, Cur, Rnd
<1>3. Increments'
  BY <1>2 DEF Values, Increments
<1> QED
  BY <1>1, <1>3 DEF Values

LEMMA NextValues == IInv /\ Places /\ Values /\ [MainNext]_allVars => Values'
<1> SUFFICES ASSUME IInv, Places, Values, [MainNext]_allVars PROVE Values'
  OBVIOUS
<1>1. CASE \E t \in Thread : create(t)
  BY <1>1, CreateValues
<1>2. CASE join \/ print
  BY <1>2, IdleValues DEF join, print, vars
<1>3. CASE destroy
  BY <1>3, IdleValues DEF destroy, barrier_destroy, mainVars
<1>4. CASE \E t \in Thread : thread_routine(t)
  BY <1>4, FirstValues, InnerValues, SecondValues, SerialValues DEF thread_routine
<1>5. CASE Spurious /\ UNCHANGED mainVars
  BY <1>5, IdleValues DEF Spurious, mainVars
<1>6. CASE Exited \/ UNCHANGED allVars
  BY <1>6, IdleValues DEF Exited, allVars, mainVars, vars
<1> QED
  BY <1>1, <1>2, <1>3, <1>4, <1>5, <1>6 DEF MainNext, main

-----------------------------------------------------------------------------
\* main has joined the threads below joined, and prints each increment when it
\* has joined the thread.
Joined ==
  /\ joined \in Nat /\ joined <= THREADS /\ printed \in Seq(Int)
  /\ Len(printed) = joined \/ Len(printed) = joined - 1
  /\ \A u \in Thread : u < joined => at[u] = "done"
  /\ \A k \in 1 .. Len(printed) :
       printed[k] = (k - 1) + OUTLOOPS - 1 \/ printed[k] = (k - 1) + OUTLOOPS

\* A thread that has ended has left the last round: all rounds are over.
LEMMA EndedOver ==
  ASSUME IInv, Values, NEW t \in Thread, at[t] = "done"
  PROVE  /\ Rnd(t) = OUTLOOPS /\ array[t] = Filled(t, OUTLOOPS)
         /\ \A u \in Thread : Over(u) = 2 * OUTLOOPS
<1>1. left[t] = 2 * OUTLOOPS /\ status[t] # "wait" /\ array[t] = Filled(t, Rnd(t))
  BY DEF Values, Worked
<1>2. Rnd(t) = OUTLOOPS
  BY <1>1, Numbers DEF Rnd
<1> QED
  BY <1>1, <1>2, OutsideOver

\* Then the thread that got -1 is in its last round.
LEMMA LastSerial ==
  ASSUME IInv, Places, Values, NEW u \in Thread, at[u] = "done",
         NEW t \in Thread, at[t] = "serial"
  PROVE  left[t] = 2 * OUTLOOPS /\ Rnd(t) = OUTLOOPS
<1>1. status[t] # "wait"
  BY DEF Places, Place
<1>2. left[t] = 2 * OUTLOOPS
  BY <1>1, EndedOver, OutsideOver
<1> QED
  BY <1>2, Numbers DEF Rnd

\* So what main reads of an increment is at most one behind.
LEMMA ReadNearly ==
  ASSUME IInv, Places, Values, NEW u \in Thread, at[u] = "done"
  PROVE  increment[u] = u + OUTLOOPS - 1 \/ increment[u] = u + OUTLOOPS
<1>0. u \in Nat /\ OUTLOOPS \in Nat
  BY Numbers
<1>1. CASE \E t \in Thread : at[t] = "serial"
  <2>1. PICK t \in Thread : at[t] = "serial"
    BY <1>1
  <2>2. Rnd(t) = OUTLOOPS
    BY <2>1, LastSerial
  <2>3. increment[u] = u + Rnd(t) - (IF u < loop[t] THEN 0 ELSE 1)
    BY <2>1 DEF Values, Increments
  <2> QED
    BY <1>0, <2>2, <2>3
<1>2. CASE \A t \in Thread : at[t] # "serial"
  <2>1. increment[u] = u + (Over(u) \div 2)
    BY <1>2 DEF Values, Increments
  <2>2. Over(u) = 2 * OUTLOOPS
    BY EndedOver
  <2> QED
    BY <1>0, <2>1, <2>2
<1> QED
  BY <1>1, <1>2

\* A thread that has ended does nothing more.
LEMMA EndedStays ==
  ASSUME Places, [MainNext]_allVars, NEW u \in Thread, at[u] = "done"
  PROVE  at'[u] = "done"
<1> USE DEF Places
<1>1. CASE main
  BY <1>1 DEF main, create, Goto, join, print, destroy, mainVars
<1>2. CASE \E t \in Thread : thread_routine(t)
  <2>1. PICK t \in Thread : thread_routine(t)
    BY <1>2
  <2>2. t # u /\ (at' = at \/ \E p : at' = [at EXCEPT ![t] = p])
    BY <2>1 DEF thread_routine, first_wait, inner_loop, second_wait, serial,
                Goto, NextRound
  <2> QED
    BY <2>2
<1>3. CASE Spurious /\ UNCHANGED mainVars
  BY <1>3 DEF mainVars
<1>4. CASE Exited \/ UNCHANGED allVars
  BY <1>4 DEF Exited, allVars, mainVars
<1> QED
  BY <1>1, <1>2, <1>3, <1>4 DEF MainNext

LEMMA NextJoined ==
  IInv /\ Places /\ Values /\ Joined /\ [MainNext]_allVars => Joined'
<1> SUFFICES ASSUME IInv, Places, Values, Joined, [MainNext]_allVars PROVE Joined'
  OBVIOUS
<1>1. \A u \in Thread : at[u] = "done" => at'[u] = "done"
  BY EndedStays
<1>2. CASE join
  <2>1. /\ joined' = joined + 1 /\ printed' = printed /\ joined < THREADS
        /\ at[joined] = "done" /\ at' = at /\ ~(Len(printed) < joined)
    BY <1>2 DEF join, Printing
  <2>2. \A u \in Thread : u < joined + 1 => u < joined \/ u = joined
    BY Numbers DEF Joined
  <2> QED
    BY <2>1, <2>2, Numbers DEF Joined, OUTLOOPS
<1>3. CASE print
  <2>1. /\ printed' = Append(printed, increment[joined - 1]) /\ joined' = joined
        /\ at' = at /\ Len(printed) < joined
    BY <1>3 DEF print, Printing
  <2>2. /\ Len(printed) \in Nat /\ Len(printed) = joined - 1
        /\ joined - 1 \in Thread /\ at[joined - 1] = "done"
    BY <2>1, Numbers DEF Joined
  <2>3. /\ increment[joined - 1] \in Int
        /\ \/ increment[joined - 1] = (joined - 1) + OUTLOOPS - 1
           \/ increment[joined - 1] = (joined - 1) + OUTLOOPS
    BY <2>2, ReadNearly DEF Values
  <2>4. /\ printed' \in Seq(Int) /\ Len(printed') = joined
        /\ printed'[joined] = increment[joined - 1]
        /\ \A k \in 1 .. joined - 1 : printed'[k] = printed[k]
    BY <2>1, <2>2, <2>3 DEF Joined
  <2>5. \A k \in 1 .. joined :
          \/ printed'[k] = (k - 1) + OUTLOOPS - 1
          \/ printed'[k] = (k - 1) + OUTLOOPS
    <3> TAKE k \in 1 .. joined
    <3>1. CASE k = joined
      BY <2>3, <2>4, <3>1
    <3>2. CASE k # joined
      BY <2>2, <2>4, <3>2 DEF Joined
    <3> QED
      BY <3>1, <3>2
  <2> QED
    BY <2>1, <2>4, <2>5 DEF Joined, OUTLOOPS
<1>4. CASE joined' = joined /\ printed' = printed
  BY <1>1, <1>4 DEF Joined, OUTLOOPS
<1> QED
  <2>1. CASE \E t \in Thread : create(t)
    BY <1>4, <2>1 DEF create
  <2>2. CASE destroy
    BY <1>4, <2>2 DEF destroy, mainVars
  <2>3. CASE \E t \in Thread : thread_routine(t)
    BY <1>4, <2>3 DEF thread_routine, first_wait, inner_loop, second_wait, serial
  <2>4. CASE Spurious /\ UNCHANGED mainVars
    BY <1>4, <2>4 DEF mainVars
  <2>5. CASE Exited \/ UNCHANGED allVars
    BY <1>4, <2>5 DEF Exited, allVars, mainVars
  <2> QED
    BY <1>2, <1>3, <2>1, <2>2, <2>3, <2>4, <2>5 DEF MainNext, main

MainIInv == IInv /\ Places /\ Values /\ Joined

LEMMA MainSpecIInv == MainSpec => []MainIInv
<1>1. MainInit => Joined
  <2> SUFFICES ASSUME MainInit PROVE Joined
    OBVIOUS
  <2>1. joined = 0 /\ printed = <<>>
    BY DEF MainInit
  <2>2. printed \in Seq(Int) /\ Len(printed) = 0
    BY <2>1
  <2> QED
    BY <2>1, <2>2, Numbers DEF Joined
<1>2. MainInit => MainIInv
  BY <1>1, InitIInv, InitPlaces, InitValues DEF MainInit, MainIInv
<1>3. MainIInv /\ [MainNext]_allVars => MainIInv'
  BY NextIInv, NextPlaces, NextValues, NextJoined, MainUsesBarrier DEF MainIInv
<1> QED
  BY <1>2, <1>3, PTL DEF MainSpec

\* In barrier_main.c no thread adds or changes an increment, and none is
\* created, while another is between the second barrier_wait that returned -1
\* and the end of its loop: nothing else protects increment.  main, which does
\* not use the barrier, reads one meanwhile only if this is the last round.
THEOREM SerialRunsAlone == MainSpec => []SerialAlone
<1>1. MainIInv => SerialAlone
  <2> SUFFICES ASSUME MainIInv, NEW t \in Thread, at[t] = "serial"
               PROVE  /\ \A u \in Thread \ {t} : at[u] \notin {"inner", "serial", "new"}
                      /\ Printing => left[t] = 2 * OUTLOOPS
    BY DEF SerialAlone
  <2> USE DEF MainIInv
  <2>1. \A u \in Thread \ {t} : at[u] \notin {"inner", "serial", "new"}
    BY AloneNow DEF Alone
  <2>2. ASSUME Printing
        PROVE  left[t] = 2 * OUTLOOPS
    <3>1. joined - 1 \in Thread /\ at[joined - 1] = "done"
      <4>1. Len(printed) \in Nat /\ Len(printed) < joined
        BY <2>2 DEF Joined, Printing
      <4> QED
        BY <4>1, Numbers DEF Joined
    <3> QED
      BY <3>1, LastSerial
  <2> QED
    BY <2>1, <2>2
<1> QED
  BY <1>1, MainSpecIInv, PTL

\* A thread of barrier_main.c that has ended has added, in round r of its
\* OUTLOOPS rounds, its number plus r INLOOPS times, whatever the order in
\* which the threads ran; and once all have ended, each round has raised every
\* increment by one, no round twice and none not at all.  An increment main has
\* printed before may lack the last round, and no other.
THEOREM FinalValuesReached == MainSpec => []FinalValues
<1>1. MainIInv => FinalValues
  <2> SUFFICES ASSUME MainIInv PROVE FinalValues
    OBVIOUS
  <2> USE DEF MainIInv
  <2>1. \A t \in Thread : at[t] = "done" => array[t] = Filled(t, OUTLOOPS)
    BY EndedOver
  <2>2. ASSUME \A t \in Thread : at[t] = "done"
        PROVE  \A t \in Thread : increment[t] = t + OUTLOOPS
    <3> TAKE t \in Thread
    <3>1. increment[t] = t + (Over(t) \div 2)
      BY <2>2 DEF Values, Increments
    <3>2. Over(t) \div 2 = OUTLOOPS
      BY <2>2, EndedOver, Numbers
    <3> QED
      BY <3>1, <3>2
  <2>3. \A k \in DOMAIN printed :
          printed[k] \in {(k - 1) + OUTLOOPS - 1, (k - 1) + OUTLOOPS}
    BY DEF Joined
  <2> QED
    BY <2>1, <2>2, <2>3 DEF FinalValues, Filled
<1> QED
  BY <1>1, MainSpecIInv, PTL
==============================================================================
