-------------------------------- MODULE Snow --------------------------------
(***************************************************************************)
(* The snow_os kernel (snow_os/snow.c on the Cortex-M3 port cm3.c): one CPU, *)
(* threads, wakeup and user timers, the round-robin scheduler, sleeping,     *)
(* counting semaphores and recursive mutexes.                                *)
(*                                                                           *)
(* Granularity.  Code between interrupt_disable() and interrupt_enable() is  *)
(* one step.  While interrupts are enabled the SysTick exception may be      *)
(* taken between any two steps.  An exception (SysTick or SVC) runs its      *)
(* handler and then __snow_sched() with interrupts disabled: handler is      *)
(* "sched" from its entry to the return of __snow_sched, the timer loop      *)
(* takes one step per timer, and no thread moves in between.                 *)
(*                                                                           *)
(* pc[t] is the point at which thread t resumes when it next has the CPU     *)
(* (its saved context); "user" is application code, which may call any       *)
(* function of snow_os.h.                                                    *)
(***************************************************************************)
EXTENDS SnowList

CONSTANTS
  Thread,       \* the memory blocks that may become threads
  main,         \* the thread snow_start creates
  idle,         \* the context snow_start itself runs in
  Sem, Mutex,   \* the semaphores and mutexes
  UTimer,       \* the application's own struct snow_timer_t objects
  sched_list,   \* list head: threads ready to run
  timer_list,   \* list head: pending timers
  NULL,
  TickUs,       \* 1000000/SNOW_HZ
  SchedUs,      \* SNOW_THREAD_SCHED_US
  UINT_MAX,     \* the us argument -1, as an unsigned int
  ULLONG_MAX,   \* the largest time; the clock is stopped before it (bound)
  SleepUs,      \* arguments of snow_usleep
  WaitUs,       \* arguments of snow_{sem_down,mutex_lock}_timeout
  TimerUs,      \* arguments of snow_timer_add and snow_udelay
  SemInit,      \* the count every semaphore starts with
  MaxCount,     \* bound on a semaphore's count
  MaxDepth      \* bound on the nesting of one thread's locks of a mutex

WaitObj   == Sem \cup Mutex
Ctx       == Thread \cup {idle}
ListNode  == Thread \cup WaitObj \cup {sched_list}
Timer     == Thread \cup UTimer
TimerNode == Timer \cup {timer_list}

ASSUME ObjectsDistinct ==
  /\ main \in Thread
  /\ idle \notin Thread
  /\ sched_list \notin Thread \cup WaitObj
  /\ Thread \cap WaitObj = {}
  /\ Sem \cap Mutex = {}
  /\ UTimer \cap (Thread \cup WaitObj) = {}
  /\ timer_list \notin Timer
  /\ NULL \notin Ctx \cup WaitObj \cup UTimer

\* They are all in the memory of one machine.
ASSUME ObjectsFinite == IsFiniteSet(Thread \cup WaitObj \cup UTimer)

ASSUME TimesAreNaturals ==
  /\ TickUs \in Nat \ {0} /\ SchedUs \in Nat
  /\ UINT_MAX \in Nat \ {0} /\ ULLONG_MAX \in Nat \ {0}
  /\ SleepUs \subseteq 0 .. UINT_MAX
  /\ WaitUs \subseteq 0 .. UINT_MAX
  /\ TimerUs \subseteq 1 .. UINT_MAX
  /\ SemInit \in Nat /\ MaxCount \in Nat /\ MaxDepth \in Nat

VARIABLES
  list,         \* links of thread->list, the wait lists and sched_list
  timer,        \* links of the timers and timer_list
  timer_us,     \* timer->us
  flags,        \* thread->flags; "NEW" until snow_thread_create sets it
  timeout,      \* thread->timeout: the end of the thread's time slice
  current,
  sys_time_us,
  handler,      \* "none", or "sched" while an exception is being handled
  pc,
  obj,          \* the object of the call a context is executing, or NULL
  deadline,     \* the local timeout of wait_get_timeout; snow_udelay's end
  need_wakeup,  \* the local need_wakeup of wait_get_timeout
  sem,          \* sem->count
  mutex,        \* mutex->thread and mutex->count
  held          \* how often a thread has locked, and not unlocked, a mutex

listVars == <<list, timer, timer_us>>
cpuVars  == <<timeout, current, sys_time_us, handler>>
callVars == <<pc, obj, deadline, need_wakeup>>
syncVars == <<sem, mutex, held>>
vars == <<listVars, flags, cpuVars, callVars, syncVars>>

-----------------------------------------------------------------------------
(***************************************************************************)
(* Helpers.                                                                 *)
(***************************************************************************)

thread_is_run(t) == t # idle /\ flags[t] = "RUN"

\* Context t has the CPU and is at one of the points in P.
At(t, P) == handler = "none" /\ current = t /\ pc[t] \in P

Goto(t, p) == pc' = [pc EXCEPT ![t] = p]

\* A kernel call returns: its locals are gone.
Return(t) ==
  /\ pc' = [pc EXCEPT ![t] = "user"]
  /\ obj' = [obj EXCEPT ![t] = NULL]
  /\ deadline' = [deadline EXCEPT ![t] = 0]
  /\ need_wakeup' = [need_wakeup EXCEPT ![t] = FALSE]

\* Where the loop of snow_timer_add stops: us goes behind every timer that is
\* due earlier and in front of every other.
IsSlot(tm, s, us) ==
  /\ s = timer_list \/ (~Detached(tm, s) /\ timer_us[s] < us)
  /\ tm.next[s] = timer_list \/ timer_us[tm.next[s]] >= us

\* A mistake: the timer is put in front of all others.
TimerInsert_front(tm, x, us) ==
  timer' = list_insert(tm, x, timer_list, tm.next[timer_list])

\* list_insert into the timer list tm; us is the absolute time.
TimerInsert(tm, x, us) ==
  \E s \in {n \in TimerNode \ {x} : IsSlot(tm, n, us)} :
     timer' = list_insert(tm, x, s, tm.next[s])

snow_timer_add(tm, x, us) ==
  /\ TimerInsert(tm, x, us)
  /\ timer_us' = [timer_us EXCEPT ![x] = us]

\* A mistake: the wakeup timer stays armed.
snow_wakeup_keep(l, tm, t) ==
  /\ IF thread_is_run(t)
     THEN list' = l /\ UNCHANGED flags
     ELSE /\ flags' = [flags EXCEPT ![t] = "RUN"]
          /\ list' = list_fifo_put(list_remove(l, t), t, sched_list)
  /\ timer' = tm

\* l and tm are the links when snow_wakeup is entered.
snow_wakeup(l, tm, t) ==
  /\ IF thread_is_run(t)
     THEN list' = l /\ UNCHANGED flags
     ELSE /\ flags' = [flags EXCEPT ![t] = "RUN"]
          /\ list' = list_fifo_put(list_remove(l, t), t, sched_list)
  /\ timer' = list_remove(tm, t)

-----------------------------------------------------------------------------
(***************************************************************************)
(* Exceptions: entry_handler runs the handler, then __snow_sched.           *)
(***************************************************************************)

\* The exception saves the running context and will return to the one
\* __snow_sched leaves in current.
entry_handler == handler = "none" /\ handler' = "sched"

\* __snow_syscall_handler, SNOW_SYSCALL_SCHED: the time slice is over.
syscall_sched == timeout' = [timeout EXCEPT ![current] = 0]

\* SNOW_SYSCALL_FORKIDLE: new gets a copy of idle's saved stack frame, with
\* init_thread, which calls the thread's function, as the pc.
syscall_forkidle(new) == [pc EXCEPT ![new] = "user"]

\* SysTick: __snow_tick_handler.
snow_tick_handler ==
  /\ entry_handler
  /\ sys_time_us + TickUs < ULLONG_MAX
  /\ sys_time_us' = sys_time_us + TickUs
  /\ UNCHANGED <<listVars, flags, timeout, current, callVars, syncVars>>

\* SVC, SNOW_SYSCALL_SCHED: snow_sched() called by the application, or as the
\* last statement of snow_usleep, wait_put's callers and wait_get_timeout's
\* loop, which then goes to again.
snow_sched(t) ==
  /\ At(t, {"user", "usleep_sched", "put_sched", "wait_sched"})
  /\ entry_handler /\ syscall_sched
  /\ Goto(t, IF pc[t] = "wait_sched" THEN "again" ELSE "user")
  /\ UNCHANGED <<listVars, flags, current, sys_time_us,
                 obj, deadline, need_wakeup, syncVars>>

TimerDue == /\ ~list_empty(timer, timer_list)
            /\ timer_us[timer.next[timer_list]] <= sys_time_us

\* One round of __snow_sched's timer loop for a thread's wakeup_timer, whose
\* timer_fn is snow_wakeup.
sched_fire_wakeup ==
  /\ handler = "sched" /\ TimerDue
  /\ LET t == timer.next[timer_list]
     IN  t \in Thread /\ snow_wakeup(list, list_remove(timer, t), t)
  /\ UNCHANGED <<timer_us, cpuVars, callVars, syncVars>>

\* The same for an application timer.  The callback is external code: it
\* returns, or arms the timer again (a periodic timer).
sched_fire_user ==
  /\ handler = "sched" /\ TimerDue
  /\ LET x  == timer.next[timer_list]
         tm == list_remove(timer, x)
     IN  /\ x \in UTimer
         /\ \/ timer' = tm /\ UNCHANGED timer_us
            \/ \E us \in TimerUs : snow_timer_add(tm, x, sys_time_us + us)
  /\ UNCHANGED <<list, flags, cpuVars, callVars, syncVars>>

\* A mistake: the time slice is not looked at.
SliceOver_never == ~thread_is_run(current)

\* Whether __snow_sched takes the CPU from current; idle is never "run".
SliceOver == timeout[current] < sys_time_us \/ ~thread_is_run(current)

\* The rest of __snow_sched: keep current, or hand the CPU to the first ready
\* thread, or to idle.
sched_switch ==
  /\ handler = "sched" /\ ~TimerDue
  /\ handler' = "none"
  /\ LET l == IF thread_is_run(current)
              THEN list_fifo_put(list, current, sched_list) ELSE list
         none == list_empty(l, sched_list)
         next == IF none THEN idle ELSE list_fifo_first(l, sched_list)
     IN  IF SliceOver
         THEN /\ list' = IF none THEN l ELSE list_fifo_get(l, sched_list)
              /\ current' = next
              /\ timeout' = [timeout EXCEPT ![next] =
                    sys_time_us + (IF next = idle THEN 0 ELSE SchedUs)]
         ELSE UNCHANGED <<list, current, timeout>>
  /\ UNCHANGED <<timer, timer_us, flags, sys_time_us, callVars, syncVars>>

-----------------------------------------------------------------------------
(***************************************************************************)
(* Threads.                                                                 *)
(***************************************************************************)

\* snow_thread_create up to and including SVC SNOW_SYSCALL_FORKIDLE, by
\* snow_start (context idle, thread main) or by a thread.  The block is one
\* nobody has used yet.  A stack below SNOW_SYS_STACK makes the call return
\* NULL with nothing changed: a stuttering step.
snow_thread_create(t, new) ==
  /\ \/ At(t, {"boot"}) /\ new = main
     \/ At(t, {"user"})
  /\ flags[new] = "NEW" /\ \A c \in Ctx : obj[c] # new
  /\ timer' = list_init(timer, new)
  /\ obj' = [obj EXCEPT ![t] = new]
  /\ entry_handler
  /\ pc' = [syscall_forkidle(new) EXCEPT ![t] = "create_put"]
  /\ UNCHANGED <<list, timer_us, flags, timeout, current, sys_time_us,
                 deadline, need_wakeup, syncVars>>

\* Its second half, with interrupts disabled.
thread_create_put(t) ==
  /\ At(t, {"create_put"})
  /\ flags' = [flags EXCEPT ![obj[t]] = "RUN"]
  /\ list' = list_fifo_put(list, obj[t], sched_list)
  /\ obj' = [obj EXCEPT ![t] = NULL]
  /\ Goto(t, IF t = idle THEN "loop" ELSE "user")
  /\ UNCHANGED <<timer, timer_us, cpuVars, deadline, need_wakeup, syncVars>>

\* thread_fn returned: init_thread prints "thread end" and spins.
thread_end(t) ==
  /\ At(t, {"user"})
  /\ Goto(t, "ended")
  /\ UNCHANGED <<listVars, flags, cpuVars, obj, deadline, need_wakeup, syncVars>>

\* The loops that leave the state as it is: idle's, an ended thread's, and
\* snow_udelay's before its time.
spin(t) ==
  /\ \/ At(t, {"loop", "ended"})
     \/ At(t, {"udelay"}) /\ sys_time_us < deadline[t]
  /\ UNCHANGED vars

\* Mistakes: the timer is armed with the relative time; it is not armed.
snow_usleep_relative(t, us) ==
  /\ At(t, {"user"})
  /\ flags' = [flags EXCEPT ![t] = "SLEEPING"]
  /\ snow_timer_add(timer, t, us)
  /\ Goto(t, "usleep_sched")
  /\ UNCHANGED <<list, cpuVars, obj, deadline, need_wakeup, syncVars>>

snow_usleep_unarmed(t, us) ==
  /\ At(t, {"user"})
  /\ flags' = [flags EXCEPT ![t] = "SLEEPING"]
  /\ Goto(t, "usleep_sched")
  /\ UNCHANGED <<listVars, cpuVars, obj, deadline, need_wakeup, syncVars>>

\* snow_usleep up to interrupt_enable(); only idle is refused, and idle
\* never calls it.
snow_usleep(t, us) ==
  /\ At(t, {"user"})
  /\ flags' = [flags EXCEPT ![t] = "SLEEPING"]
  /\ snow_timer_add(timer, t, sys_time_us + us)
  /\ Goto(t, "usleep_sched")
  /\ UNCHANGED <<list, cpuVars, obj, deadline, need_wakeup, syncVars>>

snow_udelay(t, us) ==
  /\ At(t, {"user"})
  /\ deadline' = [deadline EXCEPT ![t] = sys_time_us + us]
  /\ Goto(t, "udelay")
  /\ UNCHANGED <<listVars, flags, cpuVars, obj, need_wakeup, syncVars>>

udelay_return(t) ==
  /\ At(t, {"udelay"})
  /\ sys_time_us >= deadline[t]
  /\ Return(t)
  /\ UNCHANGED <<listVars, flags, cpuVars, syncVars>>

-----------------------------------------------------------------------------
(***************************************************************************)
(* Application timers.  The caller does not add a timer that is pending.    *)
(***************************************************************************)

\* timer->us is computed and stored while interrupts are still enabled.
timer_add_us(t, x, us) ==
  /\ At(t, {"user"})
  /\ Detached(timer, x) /\ \A c \in Ctx : obj[c] # x
  /\ timer_us' = [timer_us EXCEPT ![x] = sys_time_us + us]
  /\ obj' = [obj EXCEPT ![t] = x]
  /\ Goto(t, "timer_add")
  /\ UNCHANGED <<list, timer, flags, cpuVars, deadline, need_wakeup, syncVars>>

timer_add_insert(t) ==
  /\ At(t, {"timer_add"})
  /\ TimerInsert(timer, obj[t], timer_us[obj[t]])
  /\ Return(t)
  /\ UNCHANGED <<list, timer_us, flags, cpuVars, syncVars>>

snow_timer_del(t, x) ==
  /\ At(t, {"user"})
  /\ timer' = list_remove(timer, x)
  /\ UNCHANGED <<list, timer_us, flags, cpuVars, callVars, syncVars>>

-----------------------------------------------------------------------------
(***************************************************************************)
(* Semaphores and mutexes.                                                  *)
(***************************************************************************)

\* sem_get and mutex_get as guard and effect.
sem_get(s) == sem' = [sem EXCEPT ![s] = @ - 1] /\ UNCHANGED <<mutex, held>>

mutex_get(m, t) ==
  /\ mutex' = [mutex EXCEPT ![m] = [thread |-> t, count |-> @.count + 1]]
  /\ held' = [held EXCEPT ![t][m] = @ + 1]
  /\ UNCHANGED sem

\* A mistake: a count of 0 is taken for a free semaphore.
CanGet_zero(o, t) == IF o \in Sem THEN sem[o] >= 0
                     ELSE mutex[o].thread \in {NULL, t}

CanGet(o, t) == IF o \in Sem THEN sem[o] > 0
                ELSE mutex[o].thread \in {NULL, t}

\* snow_sem_down_timeout and snow_mutex_lock_timeout, that is
\* wait_get_timeout up to the label again.  0 is a try, UINT_MAX waits forever.
wait_get_timeout(t, o, us) ==
  /\ At(t, {"user"})
  /\ o \in Mutex => held[t][o] < MaxDepth
  /\ deadline' = [deadline EXCEPT ![t] =
        CASE us = 0        -> 0
          [] us = UINT_MAX -> ULLONG_MAX
          [] OTHER         -> sys_time_us + us]
  /\ need_wakeup' = [need_wakeup EXCEPT ![t] = us \notin {0, UINT_MAX}]
  /\ obj' = [obj EXCEPT ![t] = o]
  /\ Goto(t, "again")
  /\ UNCHANGED <<listVars, flags, cpuVars, syncVars>>

wait_get_success(t) ==
  /\ At(t, {"again"})
  /\ CanGet(obj[t], t)
  /\ IF obj[t] \in Sem THEN sem_get(obj[t]) ELSE mutex_get(obj[t], t)
  /\ Return(t)
  /\ UNCHANGED <<listVars, flags, cpuVars>>

wait_get_fail(t) ==
  /\ At(t, {"again"})
  /\ ~CanGet(obj[t], t)
  /\ deadline[t] <= sys_time_us
  /\ Return(t)
  /\ UNCHANGED <<listVars, flags, cpuVars, syncVars>>

\* Queue up and arm the wakeup timer; interrupts are enabled again before
\* snow_sched() is called.
wait_get_block(t) ==
  /\ At(t, {"again"})
  /\ ~CanGet(obj[t], t)
  /\ deadline[t] > sys_time_us
  /\ flags' = [flags EXCEPT ![t] = "WAIT"]
  /\ list' = list_fifo_put(list, t, obj[t])
  /\ IF need_wakeup[t] THEN snow_timer_add(timer, t, deadline[t])
     ELSE UNCHANGED <<timer, timer_us>>
  /\ Goto(t, "wait_sched")
  /\ UNCHANGED <<cpuVars, obj, deadline, need_wakeup, syncVars>>

\* wait_put: put is what the object's put function returned.
wait_put(t, o, put) ==
  IF put /\ ~list_empty(list, o)
  THEN /\ snow_wakeup(list_fifo_get(list, o), timer, list_fifo_first(list, o))
       /\ Goto(t, "put_sched")
  ELSE UNCHANGED <<list, timer, flags, pc>>

\* A mistake: only the first unit wakes a waiter.
snow_sem_up_edge(t, s) ==
  /\ At(t, {"user"})
  /\ sem[s] < MaxCount
  /\ sem' = [sem EXCEPT ![s] = @ + 1]
  /\ wait_put(t, s, sem[s] = 0)
  /\ UNCHANGED <<timer_us, cpuVars, obj, deadline, need_wakeup, mutex, held>>

snow_sem_up(t, s) ==
  /\ At(t, {"user"})
  /\ sem[s] < MaxCount
  /\ sem' = [sem EXCEPT ![s] = @ + 1]
  /\ wait_put(t, s, TRUE)
  /\ UNCHANGED <<timer_us, cpuVars, obj, deadline, need_wakeup, mutex, held>>

\* A mistake: an inner unlock releases the mutex.
mutex_put_inner(m) == [thread |-> NULL, count |-> mutex[m].count - 1]

\* The effect of mutex_put.
mutex_put(m) ==
  LET c == mutex[m].count - 1
  IN  [thread |-> IF c = 0 THEN NULL ELSE mutex[m].thread, count |-> c]

\* An application unlocks only what it has locked.
snow_mutex_unlock(t, m) ==
  /\ At(t, {"user"})
  /\ held[t][m] > 0
  /\ held' = [held EXCEPT ![t][m] = @ - 1]
  /\ mutex' = [mutex EXCEPT ![m] = mutex_put(m)]
  /\ wait_put(t, m, mutex_put(m).count = 0)
  /\ UNCHANGED <<timer_us, cpuVars, obj, deadline, need_wakeup, sem>>

-----------------------------------------------------------------------------
\* snow_start up to interrupt_enable(): every object initialised, idle running.
Init ==
  /\ list = Unlinked(ListNode)
  /\ timer = Unlinked(TimerNode)
  /\ timer_us = [x \in Timer |-> 0]
  /\ flags = [t \in Thread |-> "NEW"]
  /\ timeout = [c \in Ctx |-> 0]
  /\ current = idle
  /\ sys_time_us = 0
  /\ handler = "none"
  /\ pc = [c \in Ctx |-> IF c = idle THEN "boot" ELSE "user"]
  /\ obj = [c \in Ctx |-> NULL]
  /\ deadline = [c \in Ctx |-> 0]
  /\ need_wakeup = [c \in Ctx |-> FALSE]
  /\ sem = [s \in Sem |-> SemInit]
  /\ mutex = [m \in Mutex |-> [thread |-> NULL, count |-> 0]]
  /\ held = [t \in Thread |-> [m \in Mutex |-> 0]]

SchedStep == sched_fire_wakeup \/ sched_fire_user \/ sched_switch

\* Steps of a thread inside a kernel function.
KernelStep(t) ==
  \/ snow_sched(t)
  \/ udelay_return(t)
  \/ timer_add_insert(t)
  \/ wait_get_success(t)
  \/ wait_get_fail(t)
  \/ wait_get_block(t)

\* Application code calls a kernel function.
Call(t) ==
  \/ \E new \in Thread : snow_thread_create(t, new)
  \/ thread_end(t)
  \/ \E us \in SleepUs : snow_usleep(t, us)
  \/ \E us \in TimerUs : snow_udelay(t, us)
  \/ \E x \in UTimer : (\E us \in TimerUs : timer_add_us(t, x, us))
                       \/ snow_timer_del(t, x)
  \/ \E o \in WaitObj, us \in WaitUs : wait_get_timeout(t, o, us)
  \/ \E s \in Sem : snow_sem_up(t, s)
  \/ \E m \in Mutex : snow_mutex_unlock(t, m)

Idle == \/ snow_thread_create(idle, main)
        \/ thread_create_put(idle)
        \/ spin(idle)

Next ==
  \/ snow_tick_handler
  \/ SchedStep
  \/ Idle
  \/ \E t \in Thread : Call(t) \/ KernelStep(t) \/ thread_create_put(t) \/ spin(t)

Spec == Init /\ [][Next]_vars
=============================================================================
