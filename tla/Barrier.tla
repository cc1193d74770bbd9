------------------------------- MODULE Barrier -------------------------------
(***************************************************************************)
(* The barrier of posix_multithread/programs_src/barrier.c, used again and   *)
(* again by as many threads as barrier_init was told of.  The locked part of *)
(* barrier_wait is one step up to the end of the call or the wait for the    *)
(* condition variable, and one step each time a waiting thread has the mutex *)
(* again.                                                                    *)
(***************************************************************************)
EXTENDS Integers, FiniteSets, PthreadCond

CONSTANTS
  Thread,
  Rounds        \* bound: how often a thread calls barrier_wait

threshold == Cardinality(Thread)

ASSUME BarrierThreads == IsFiniteSet(Thread) /\ Thread # {} /\ Rounds \in Nat

VARIABLES
  valid, counter, cycle,
  cv,           \* the threads asleep
  mine,         \* the cycle a thread remembers
  status,       \* "wait" in barrier_wait, else what the last call returned
  arrived, left,  \* history: the calls a thread has made, and returned from
  specials        \*   how many threads got -1 from their r-th call

vars == <<valid, counter, cycle, cv, mine, status, arrived, left, specials>>

Init ==
  /\ valid = TRUE /\ counter = threshold /\ cycle = FALSE /\ cv = {}
  /\ mine = [t \in Thread |-> FALSE]
  /\ status = [t \in Thread |-> "none"]
  /\ arrived = [t \in Thread |-> 0]
  /\ left = [t \in Thread |-> 0]
  /\ specials = [r \in 1 .. Rounds |-> 0]

Arrive(t) ==
  /\ valid /\ status[t] # "wait" /\ arrived[t] < Rounds
  /\ arrived' = [arrived EXCEPT ![t] = @ + 1]
  /\ mine' = [mine EXCEPT ![t] = cycle]
  /\ UNCHANGED valid

Return(t, result) ==
  /\ status' = [status EXCEPT ![t] = result]
  /\ left' = [left EXCEPT ![t] = @ + 1]
  /\ specials' = IF result # "serial" THEN specials
                 ELSE [specials EXCEPT ![left[t] + 1] = @ + 1]

\* A mistake: one sleeper is woken instead of all.
barrier_wait_last_signal(t) ==
  /\ Arrive(t) /\ counter = 1
  /\ cycle' = ~cycle /\ counter' = threshold
  /\ pthread_cond_signal(cv)
  /\ Return(t, "serial")

\* A mistake: the waker does not count itself as the special thread.
barrier_wait_last_plain(t) ==
  /\ Arrive(t) /\ counter = 1
  /\ cycle' = ~cycle /\ counter' = threshold
  /\ pthread_cond_broadcast(cv)
  /\ Return(t, "ok")

\* The last thread to arrive returns -1.
barrier_wait_last(t) ==
  /\ Arrive(t) /\ counter = 1
  /\ cycle' = ~cycle /\ counter' = threshold
  /\ pthread_cond_broadcast(cv)
  /\ Return(t, "serial")

\* The others sleep.  Cancellation is disabled meanwhile.
barrier_wait(t) ==
  /\ Arrive(t) /\ counter # 1
  /\ counter' = counter - 1
  /\ pthread_cond_wait(cv, t)
  /\ status' = [status EXCEPT ![t] = "wait"]
  /\ UNCHANGED <<cycle, left, specials>>

\* A mistake: what the thread was woken for is not looked at.
CycleOver_any(t) == TRUE

\* The condition of the loop in barrier_wait is false.
CycleOver(t) == mine[t] # cycle

\* The thread has the mutex again.  (In a barrier that has been destroyed
\* meanwhile what happens is undefined; it is left out.)
barrier_wait_woken(t) ==
  /\ valid /\ status[t] = "wait" /\ t \notin cv
  /\ IF CycleOver(t) THEN Return(t, "ok") /\ UNCHANGED cv
                     ELSE /\ pthread_cond_wait(cv, t)
                          /\ UNCHANGED <<status, left, specials>>
  /\ UNCHANGED <<valid, counter, cycle, mine, arrived>>

\* When counter differs from threshold it returns EBUSY.
barrier_destroy ==
  /\ valid /\ counter = threshold
  /\ valid' = FALSE
  /\ UNCHANGED <<counter, cycle, cv, mine, status, arrived, left, specials>>

-----------------------------------------------------------------------------
Spurious ==
  /\ spurious_wakeup(cv)
  /\ UNCHANGED <<valid, counter, cycle, mine, status, arrived, left, specials>>

Wait(t) == barrier_wait(t) \/ barrier_wait_last(t) \/ barrier_wait_woken(t)

Next == (\E t \in Thread : Wait(t)) \/ Spurious \/ barrier_destroy

Spec == Init /\ [][Next]_vars

-----------------------------------------------------------------------------
\* The fields have their types; counter never reaches 0 between two calls.
TypeOK ==
  /\ valid \in BOOLEAN /\ cycle \in BOOLEAN /\ counter \in 1 .. threshold
  /\ cv \subseteq {t \in Thread : status[t] = "wait"}
  /\ mine \in [Thread -> BOOLEAN]
  /\ status \in [Thread -> {"none", "wait", "ok", "serial"}]
  /\ arrived \in [Thread -> 0 .. Rounds] /\ left \in [Thread -> 0 .. Rounds]
  /\ specials \in [1 .. Rounds -> Nat]

\* No thread returns from its k-th barrier_wait before every thread has made
\* its k-th call, however late the woken threads run and however soon the
\* others come back: the one flag cycle is enough to tell two rounds apart.
Together == \A t, u \in Thread : left[t] <= arrived[u]

\* Of every round exactly one thread gets -1, and it is there as soon as any
\* thread has left the round, also while some are late in leaving it and others
\* wait in the next.
OneSerial ==
  \A r \in 1 .. Rounds :
    specials[r] = IF \E t \in Thread : left[t] >= r THEN 1 ELSE 0
=============================================================================
