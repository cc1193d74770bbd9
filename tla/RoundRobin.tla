----------------------------- MODULE RoundRobin -----------------------------
(***************************************************************************)
(* What the snow_os scheduler promises: one CPU, handed in FIFO order to the *)
(* threads that are ready.  A thread that becomes ready, or loses the CPU    *)
(* while it is ready, goes to the end of the queue; the CPU is idle only     *)
(* when nobody is ready.                                                     *)
(***************************************************************************)
EXTENDS Sequences

CONSTANTS Thread, idle

VARIABLES
  cur,          \* who has the CPU
  ready,        \* the queue of the others that are ready
  runnable      \* the threads that are ready

rrVars == <<cur, ready, runnable>>

RRInit == cur = idle /\ ready = <<>> /\ runnable = {}

\* A new, sleeping or waiting thread becomes ready; it does not have the CPU.
MakeReady(t) ==
  /\ t \notin runnable /\ t # cur
  /\ runnable' = runnable \cup {t}
  /\ ready' = Append(ready, t)
  /\ UNCHANGED cur

\* The running thread sleeps or waits; it keeps the CPU until it is switched.
Block ==
  /\ cur \in runnable
  /\ runnable' = runnable \ {cur}
  /\ UNCHANGED <<cur, ready>>

Switch ==
  LET queue == IF cur \in runnable THEN Append(ready, cur) ELSE ready
  IN  /\ cur'   = IF queue = <<>> THEN idle ELSE Head(queue)
      /\ ready' = IF queue = <<>> THEN <<>> ELSE Tail(queue)
      /\ UNCHANGED runnable

RRNext == (\E t \in Thread : MakeReady(t)) \/ Block \/ Switch

RRSpec == RRInit /\ [][RRNext]_rrVars
=============================================================================
