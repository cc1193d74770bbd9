----------------------------- MODULE BarrierMain -----------------------------
(***************************************************************************)
(* The program of barrier_main.c: threads that pass two barriers in each of  *)
(* OUTLOOPS rounds, work on their own array in between, and let the thread   *)
(* that gets -1 from the second one change the increment of all.  Nothing    *)
(* but the barrier protects increment.  The elements of an array are treated *)
(* alike, so one stands for all.                                             *)
(***************************************************************************)
EXTENDS Barrier, Sequences

CONSTANTS THREADS, INLOOPS

ASSUME ThreadsNumbered ==
  THREADS \in Nat /\ Thread = 0 .. THREADS - 1 /\ INLOOPS \in Nat

OUTLOOPS == Rounds \div 2

VARIABLES
  at,               \* where a thread is in thread_routine
  loop,             \* its in_loop or thread_num
  increment, array,
  joined,           \* main: threads joined so far
  printed           \*   and the increments it has printed

mainVars == <<at, loop, increment, array, joined, printed>>
allVars == <<vars, mainVars>>

MainInit ==
  /\ Init
  /\ at = [t \in Thread |-> "new"]
  /\ loop = [t \in Thread |-> 0]
  /\ increment = [t \in Thread |-> 0]
  /\ array = [t \in Thread |-> 0]
  /\ joined = 0 /\ printed = <<>>

Goto(t, p) == at' = [at EXCEPT ![t] = p]

\* The round is over for t: the next one, or the end of thread_routine.
NextRound(t) == Goto(t, IF left'[t] = 2 * OUTLOOPS THEN "done" ELSE "first")

\* main creates the threads one by one; the first run before the last exists.
create(t) ==
  /\ at[t] = "new" /\ \A u \in 0 .. t - 1 : at[u] # "new"
  /\ increment' = [increment EXCEPT ![t] = t]
  /\ array' = [array EXCEPT ![t] = 1]
  /\ Goto(t, "first")
  /\ UNCHANGED <<vars, loop, joined, printed>>

\* A mistake: there is no barrier in front of the loop.
first_wait_missing(t) ==
  /\ at[t] = "first"
  /\ Goto(t, "inner")
  /\ left' = [left EXCEPT ![t] = @ + 1]
  /\ arrived' = [arrived EXCEPT ![t] = @ + 1]
  /\ UNCHANGED <<valid, counter, cycle, cv, mine, status, specials,
                 loop, increment, array, joined, printed>>

first_wait(t) ==
  /\ at[t] = "first" /\ Wait(t)
  /\ IF left'[t] # left[t] THEN Goto(t, "inner") ELSE UNCHANGED at
  /\ UNCHANGED <<loop, increment, array, joined, printed>>

inner_loop(t) ==
  /\ at[t] = "inner"
  /\ IF loop[t] < INLOOPS
     THEN /\ array' = [array EXCEPT ![t] = @ + increment[t]]
          /\ loop' = [loop EXCEPT ![t] = @ + 1]
          /\ UNCHANGED at
     ELSE /\ loop' = [loop EXCEPT ![t] = 0]
          /\ Goto(t, "second")
          /\ UNCHANGED array
  /\ UNCHANGED <<vars, increment, joined, printed>>

\* A mistake: every thread takes itself for the special one.
second_wait_all(t) ==
  /\ at[t] = "second" /\ Wait(t)
  /\ IF left'[t] # left[t] THEN Goto(t, "serial") ELSE UNCHANGED at
  /\ UNCHANGED <<loop, increment, array, joined, printed>>

second_wait(t) ==
  /\ at[t] = "second" /\ Wait(t)
  /\ CASE left'[t] = left[t] -> UNCHANGED at
       [] left'[t] # left[t] /\ status'[t] = "serial" -> Goto(t, "serial")
       [] OTHER -> NextRound(t)
  /\ UNCHANGED <<loop, increment, array, joined, printed>>

serial(t) ==
  /\ at[t] = "serial"
  /\ IF loop[t] < THREADS
     THEN /\ increment' = [increment EXCEPT ![loop[t]] = @ + 1]
          /\ loop' = [loop EXCEPT ![t] = @ + 1]
          /\ UNCHANGED <<at, vars>>
     ELSE /\ loop' = [loop EXCEPT ![t] = 0]
          /\ UNCHANGED <<increment, vars>>
          /\ NextRound(t)
  /\ UNCHANGED <<array, joined, printed>>

\* main has joined a thread and not yet printed its increment and its array.
Printing == Len(printed) < joined

\* main joins the threads in order, and destroys the barrier in the end.
join ==
  /\ ~Printing /\ joined < THREADS /\ at[joined] = "done"
  /\ joined' = joined + 1
  /\ UNCHANGED <<vars, at, loop, increment, array, printed>>

\* The read of increment is protected by nothing: the thread that got -1 in the
\* last round may be at its loop.  The array is the joined thread's own.
print ==
  /\ Printing
  /\ printed' = Append(printed, increment[joined - 1])
  /\ UNCHANGED <<vars, at, loop, increment, array, joined>>

MainDone == joined = THREADS /\ ~Printing

destroy == MainDone /\ barrier_destroy /\ UNCHANGED mainVars

Exited == MainDone /\ ~valid /\ UNCHANGED allVars

thread_routine(t) ==
  first_wait(t) \/ inner_loop(t) \/ second_wait(t) \/ serial(t)

main == (\E t \in Thread : create(t)) \/ join \/ print \/ destroy

MainNext ==
  \/ main \/ (\E t \in Thread : thread_routine(t))
  \/ Spurious /\ UNCHANGED mainVars
  \/ Exited

\* Every thread that can run does.
MainSpec ==
  /\ MainInit /\ [][MainNext]_allVars
  /\ WF_allVars(main) /\ \A t \in Thread : WF_allVars(thread_routine(t))

-----------------------------------------------------------------------------
SumTo(n) == (n * (n + 1)) \div 2

\* The increments are changed by one thread at a time, while no other adds them
\* and all have been created.  Only main, which does not use the barrier, may
\* read one meanwhile, and only in the last round, when nobody adds it any more.
SerialAlone ==
  \A t \in Thread : at[t] = "serial" =>
    /\ \A u \in Thread \ {t} : at[u] \notin {"inner", "serial", "new"}
    /\ Printing => left[t] = 2 * OUTLOOPS

\* A thread that has ended has added, in round r, its number plus r, INLOOPS
\* times; when all have ended their increments have grown by OUTLOOPS.  What
\* main prints of an increment may be one less, since it does not wait for the
\* thread that got -1.
FinalValues ==
  /\ \A t \in Thread : at[t] = "done" =>
       array[t] = 1 + INLOOPS * (OUTLOOPS * t + SumTo(OUTLOOPS - 1))
  /\ (\A t \in Thread : at[t] = "done") =>
       \A t \in Thread : increment[t] = t + OUTLOOPS
  /\ \A k \in DOMAIN printed :
       printed[k] \in {(k - 1) + OUTLOOPS - 1, (k - 1) + OUTLOOPS}

\* The program ends, and barrier_destroy does not report EBUSY.
Terminates == <>(MainDone /\ ~valid)
=============================================================================
