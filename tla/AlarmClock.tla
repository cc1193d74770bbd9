----------------------------- MODULE AlarmClock -----------------------------
(***************************************************************************)
(* What the alarm manager of alarm_cond.c promises: an alarm that is set     *)
(* rings at most once, not before its time, and not while an earlier one is  *)
(* pending.  That it does ring is AllPrinted in Alarm.                       *)
(***************************************************************************)
EXTENDS Integers

CONSTANTS Alarm, Seconds

VARIABLES
  clock,
  pending,      \* the alarms set and not rung
  due           \* when they are to ring

clockVars == <<clock, pending, due>>

ClockInit == pending = {} /\ clock \in Nat /\ due \in [Alarm -> Int]

Set(a) ==
  /\ a \notin pending
  /\ pending' = pending \cup {a}
  /\ \E s \in Seconds : due' = [due EXCEPT ![a] = clock + s]
  /\ UNCHANGED clock

Ring(a) ==
  /\ a \in pending /\ due[a] <= clock
  /\ \A b \in pending : due[a] <= due[b]
  /\ pending' = pending \ {a}
  /\ UNCHANGED <<clock, due>>

Tick == clock' = clock + 1 /\ UNCHANGED <<pending, due>>

ClockSpec ==
  ClockInit /\ [][(\E a \in Alarm : Set(a) \/ Ring(a)) \/ Tick]_clockVars
=============================================================================
