------------------------------ MODULE SnowProps ------------------------------
(***************************************************************************)
(* The correctness properties of the snow_os kernel.                        *)
(***************************************************************************)
EXTENDS Snow

PcValues == {"boot", "loop", "user", "ended", "create_put", "usleep_sched",
             "udelay", "timer_add", "again", "wait_sched", "put_sched"}

\* The values the kernel's variables take: every link field points to a node
\* of its kind and every counter is a natural number.
TypeOK ==
  /\ list \in LinkStates(ListNode)
  /\ timer \in LinkStates(TimerNode)
  /\ timer_us \in [Timer -> Nat]
  /\ flags \in [Thread -> {"NEW", "RUN", "SLEEPING", "WAIT"}]
  /\ timeout \in [Ctx -> Nat]
  /\ current \in Ctx
  /\ sys_time_us \in Nat
  /\ handler \in {"none", "sched"}
  /\ pc \in [Ctx -> PcValues]
  /\ obj \in [Ctx -> Thread \cup WaitObj \cup UTimer \cup {NULL}]
  /\ deadline \in [Ctx -> Nat]
  /\ need_wakeup \in [Ctx -> BOOLEAN]
  /\ sem \in [Sem -> Nat]
  /\ mutex \in [Mutex -> [thread : Thread \cup {NULL}, count : Nat]]
  /\ held \in [Thread -> [Mutex -> Nat]]

-----------------------------------------------------------------------------
(***************************************************************************)
(* snow_usleep and wait_get_timeout arm the running thread's wakeup timer,   *)
(* enable interrupts and only then call snow_sched().  If the timer is due   *)
(* when the next exception is taken, __snow_sched wakes a thread that is     *)
(* still current: snow_wakeup puts it on sched_list, and sched_switch then   *)
(* puts it there a second time.                                              *)
(***************************************************************************)
SelfWake ==
  /\ handler = "sched"
  /\ current \in Thread
  /\ ~Detached(timer, current)
  /\ timer_us[current] <= sys_time_us

\* The executions in which that does not happen.
TimelySpec == Init /\ [][Next /\ ~SelfWake']_vars

NoSelfWake == ~SelfWake

-----------------------------------------------------------------------------
(***************************************************************************)
(* Lists and threads.                                                       *)
(***************************************************************************)

\* Both link structures are made of intact doubly linked rings, whatever was
\* put, removed or woken in whatever order: list_insert is never applied to a
\* node that is on a list.
ListsConsistent == Consistent(list, ListNode) /\ Consistent(timer, TimerNode)

\* No thread is ever lost or in two places: a ready thread is current or can
\* be reached from sched_list, a sleeping one is behind timer_list, a waiting
\* one is on the wait list of its object and, if it gave a timeout, behind
\* timer_list too.
ThreadPlaced ==
  \A t \in Thread :
    LET ready == OnList(list, ListNode, sched_list)
        timed == OnList(timer, TimerNode, timer_list)
    IN  CASE flags[t] = "RUN" ->
               /\ t \in ready <=> t # current
               /\ t \notin timed
          [] flags[t] = "SLEEPING" -> t \in timed /\ Detached(list, t)
          [] flags[t] = "WAIT" ->
               /\ obj[t] \in WaitObj
               /\ t \in OnList(list, ListNode, obj[t])
               /\ need_wakeup[t] => t \in timed
          [] OTHER -> Detached(list, t) /\ Detached(timer, t)

Sorted(tm, us) ==
  \A x \in Timer : tm.next[x] \in Timer => us[x] <= us[tm.next[x]]

\* The pending timers are in the order of their times, so the loop of
\* __snow_sched, which stops at the first timer that is not due, misses none.
TimersSorted == Sorted(timer, timer_us)

-----------------------------------------------------------------------------
(***************************************************************************)
(* Semaphores and mutexes.                                                  *)
(***************************************************************************)

\* The kernel's idea of a mutex agrees with what its users did: the owner is
\* the one thread that has locked it more often than unlocked it, and count
\* is the difference.
MutexOwnership ==
  \A m \in Mutex :
    /\ mutex[m].thread = NULL <=> mutex[m].count = 0
    /\ \A t \in Thread :
         held[t][m] = IF mutex[m].thread = t THEN mutex[m].count ELSE 0

Waiters(o) == {t \in Thread : flags[t] = "WAIT" /\ obj[t] = o}

\* Threads that will execute o's get function when they next run.
Retrying(o) == {t \in Thread : /\ pc[t] \in {"again", "wait_sched"}
                               /\ flags[t] = "RUN" /\ obj[t] = o}

Available(o) == IF o \in Sem THEN sem[o]
                ELSE IF mutex[o].thread = NULL THEN 1 ELSE 0

\* No wakeup is lost: while threads wait for an object, every unit of it that
\* is free has a thread on its way to take it.
NoLostWakeup ==
  \A o \in WaitObj :
    Waiters(o) # {} => Available(o) <= Cardinality(Retrying(o))

\* What the arch_assert in mutex_put says must hold whenever a mutex is
\* unlocked.
MutexPutAssert ==
  [][\A t \in Thread, m \in Mutex :
       held'[t][m] < held[t][m]
         => mutex[m].thread # current \/ mutex[m].count - 1 < 0]_vars

-----------------------------------------------------------------------------
(***************************************************************************)
(* Progress.  The timer hardware keeps ticking: a pending SysTick is taken   *)
(* at the latest when the current exception returns, however often threads   *)
(* enter the kernel.  An exception handler runs to its end.  Nothing is      *)
(* assumed of the threads.                                                   *)
(***************************************************************************)
FairSpec == Spec /\ SF_vars(snow_tick_handler) /\ WF_vars(SchedStep)

\* n ticks after us the clock still runs: bounded clocks make every promise
\* expire at ULLONG_MAX.
ClockRuns(us, n) == us + n * TickUs < ULLONG_MAX

\* Every ready thread gets the CPU within a round of the others' time slices,
\* even if they never give it up.
ReadyRuns ==
  \A t \in Thread :
    (flags[t] = "RUN" /\ ClockRuns(sys_time_us, Cardinality(Thread) + 1))
      ~> (current = t)

\* Every sleeping thread has the CPU again after its time.
SleeperRuns ==
  \A t \in Thread :
    (flags[t] = "SLEEPING" /\ ClockRuns(timer_us[t], Cardinality(Thread) + 1))
      ~> (current = t /\ flags[t] = "RUN")
=============================================================================
