------------------------------- MODULE SnowInv -------------------------------
(***************************************************************************)
(* The inductive invariant of the snow_os kernel: why its lists stay intact  *)
(* as long as no thread is woken while it is current.  All conditions are    *)
(* about single nodes and their neighbours, so that they can be checked for  *)
(* one step at a time.                                                       *)
(***************************************************************************)
EXTENDS SnowProps

\* The list a node belongs on, by the flags of its thread; a node that
\* belongs on none is its own home.
Home == [n \in ListNode |->
           IF n \notin Thread THEN n
           ELSE CASE flags[n] = "RUN"  -> sched_list
                  [] flags[n] = "WAIT" -> obj[n]
                  [] OTHER             -> n]

\* Neighbours belong on the same list.
ListsApart == Respects(list, ListNode, Home)

\* A running thread is on no list: __snow_sched and wait_get_timeout may put
\* it on one.
CurrentOffList == thread_is_run(current) => Detached(list, current)

\* A thread that executes application code or is about to queue itself is
\* ready; only between interrupt_enable() and snow_sched() is it not.
CurrentReady ==
  current \in Thread =>
    /\ flags[current] # "NEW"
    /\ handler = "none" /\ pc[current] \notin {"usleep_sched", "wait_sched"}
         => flags[current] = "RUN"

\* A ready or new thread's wakeup timer is off: snow_timer_add may insert it.
TimerOff == \A t \in Thread : flags[t] \in {"NEW", "RUN"} => Detached(timer, t)

\* What a context in the middle of a call works on.
CallObject ==
  /\ pc[idle] \in {"boot", "create_put", "loop"}
  /\ \A t \in Thread : /\ pc[t] \notin {"boot", "loop"}
                       /\ flags[t] = "WAIT" => obj[t] \in WaitObj
  /\ \A c \in Ctx :
       /\ pc[c] \in {"again", "wait_sched"} => obj[c] \in WaitObj
       /\ pc[c] = "create_put" => obj[c] \in Thread /\ flags[obj[c]] = "NEW"
       /\ pc[c] = "timer_add" => obj[c] \in UTimer /\ Detached(timer, obj[c])
       /\ obj[c] \in Timer => \A d \in Ctx : obj[d] = obj[c] => d = c

\* The inductive invariant of TimelySpec: together these keep every list
\* helper of snow.c within the conditions under which it preserves the rings.
ListInv ==
  /\ TypeOK
  /\ MutexOwnership
  /\ ListsConsistent
  /\ ListsApart
  /\ CurrentOffList
  /\ CurrentReady
  /\ TimerOff
  /\ CallObject
  /\ NoSelfWake
-----------------------------------------------------------------------------
(***************************************************************************)
(* When no thread is woken while it is current.                             *)
(***************************************************************************)

\* The application sleeps longer than a tick, and tries or waits forever.
SafeTimes ==
  /\ \A us \in SleepUs : us > TickUs
  /\ WaitUs \subseteq {0, UINT_MAX}

\* The time of a current thread that has armed its timer is more than one tick
\* away, or not yet reached in the exception that takes the CPU from it.
SleepInv ==
  /\ \A c \in Ctx : ~need_wakeup[c]
  /\ current \in Thread /\ ~Detached(timer, current) =>
       /\ ~(timer_us[current] <= sys_time_us)
       /\ handler = "none" => ~(timer_us[current] <= sys_time_us + TickUs)
=============================================================================
