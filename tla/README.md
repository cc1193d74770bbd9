# TLA+ for snow_os and the POSIX thread programs of code_practice

The repository `code_practice` is a collection of practice code. Two parts of it
have behaviour worth a model:

* `src/snow_os`, a small real-time kernel for the Cortex-M3 with threads, a
  round-robin scheduler, timers, counting semaphores and recursive mutexes;
* `src/posix_multithread/programs_src`, concurrent programs and packages on POSIX
  threads: a barrier, read/write locks, a work queue, an alarm manager, a work crew,
  a client/server program and a pipeline.

This directory holds TLA+ models of both, the TLC runs that check them on small
instances, and TLAPS proofs for all instances.

## 1. Inventory

### snow_os (modelled)

| part | code | state | operations |
|---|---|---|---|
| lists | `snow.c:12-79` | `next`, `prev` of every node | `list_init`, `list_insert`, `list_remove`, `list_empty`, `list_fifo_put`, `list_fifo_get`, `list_foreach` |
| clock and exceptions | `snow.c:100-127, 383-415`, `cm3.c:70-120` | `sys_time_us`, interrupt mask, saved contexts | SysTick and SVC through `entry_handler` |
| scheduler | `snow.c:417-448` | `current`, `idle`, `sched_list`, `thread->timeout` | `__snow_sched`, `snow_sched` |
| threads | `snow.c:136-167, 334-381` | `thread->flags`, `thread->list` | `snow_start`, `snow_thread_create`, `snow_usleep`, `snow_udelay`, end of a thread |
| timers | `snow.c:296-332, 423-434` | `timer_list`, `timer->us` | `snow_timer_add`, `snow_timer_del`, the loop of `__snow_sched` |
| semaphores, mutexes | `snow.c:169-294` | `count`, `thread`, the wait list | `*_timeout` (0 is a try, -1 waits forever), `snow_sem_up`, `snow_mutex_unlock` |

How the parts interact: there is one CPU. Threads call kernel functions, which
run with interrupts disabled for stretches and otherwise can be interrupted by
SysTick anywhere. Every exception ends in `__snow_sched`, which fires the timers
that are due (a thread's wakeup timer calls `snow_wakeup`, an application timer
calls the application) and then may switch `current`. A thread that blocks puts
itself on a list, enables interrupts, and only then enters the kernel by SVC.

What is hard here: what a tick may do between `interrupt_enable()` and
`snow_sched()`; a waiter that is on a wait list and on the timer list at once; a
wakeup that does not hand over what was waited for; list helpers that are correct
only for nodes that are on no list; fairness among threads that never yield.

What makes it correct:

* lists: rings stay intact, and what `list_foreach` visits changes as a sequence;
* scheduler: FIFO order, nobody lost, duplicated or overtaken, everybody runs;
* threads: each is where its flags say it is;
* timers: the list is sorted, since the loop stops at the first that is not due;
* mutexes: one owner, nesting counted; both objects: no wakeup is lost.

### POSIX programs (modelled)

| part | code | state | operations | what is hard, and what makes it correct |
|---|---|---|---|---|
| barrier | `barrier.c`, `barrier_main.c` | `counter`, `cycle`, one condition variable | `barrier_init`, `barrier_wait`, `barrier_destroy`; the threads and `main` of the program | a woken thread may run only when others wait again: rounds stay apart, one thread per round is special, and the barrier alone protects the shared increments from the threads, and nothing protects them from `main` |
| read/write lock | `rwlock.c` | `r_active`, `w_active`, `r_wait`, `w_wait`, two condition variables | all `rwl_` functions, the cleanup handlers | woken threads are overtaken, waiters are cancelled: exclusion, exact counts, nobody asleep by a free lock |
| work queue | `workq.c` | `queue`, `counter`, `quit`, `valid`, one condition variable | `workq_init`, `workq_add`, `workq_destroy`, `workq_server` | timeouts race new work and the rundown; `pthread_create` and `pthread_cond_timedwait` fail: servers counted, no work without a server, nothing left behind |
| alarm manager | `alarm_cond.c` | `alarm_list`, `current_alarm` | `alarm_insert`, `alarm_thread` | a new alarm races the timeout of the one waited for: it is an alarm clock |
| work crew | `crew.c` | the queue, `work_count`, two condition variables | `crew_create`, `crew_start`, `worker_routine` | work that creates work; errors of `lstat`, `opendir` and `readdir_r`: done exactly when the count is 0 |
| prompt server | `server.c` | the request queue, `client_threads` | `tty_server_routine`, `tty_server_request`, `client_routine`, `main` | requests freed by their callers; the order of asynchronous writes and the quit request |
| pipeline | `pipe.c` | per stage `data`, `data_ready`, two condition variables; `active` | `pipe_create`, `pipe_send`, `pipe_stage`, `pipe_start`, `pipe_result` | stages hold their mutex while they wait for the next: a FIFO queue that does not stall |

The programs do not interact with each other; within each, threads share one
structure under a mutex. `barrier_main.c` is the one program that builds on a
package, and `BarrierMain` composes the two.

### Other code (not modelled)

See section 7.

## 2. Modules

| module | content |
|---|---|
| `SnowList` | the list helpers as operators on a *link state* (a record of the `next` and `prev` fields of all nodes), and the vocabulary to talk about link states |
| `SnowListOps` | a state machine that calls the helpers in every order the kernel may |
| `FifoLists` | abstract: disjoint sequences, one per list head |
| `Snow` | the kernel: state, `Init`, one action per kernel step, `Next`, `Spec` |
| `SnowProps` | `TypeOK` and the properties; `TimelySpec`, `FairSpec` |
| `SnowInv` | the inductive invariant `ListInv`, and `SafeTimes`, `SleepInv` |
| `RoundRobin` | abstract: one CPU handed out in FIFO order |
| `SnowRefinement` | the mapping from `Snow` to `RoundRobin` |
| `SnowProofs` | theorems, Part I about the lists (`SnowListOps`), Part II about the kernel (`Snow`) |
| `MCSnow`, `MCSnowList` | instances for TLC |
| `PthreadCond` | POSIX condition variables as sets of sleepers (external) |
| `RwLock`, `RwLockProofs` | `rwlock.c` and its theorems |
| `Barrier` | `barrier.c` |
| `BarrierMain` | extends `Barrier` by the program of `barrier_main.c` |
| `BarrierProofs` | theorems about both |
| `WorkQueue`, `WorkQueueProofs` | `workq.c` and its theorems |
| `Alarm`, `AlarmProofs` | `alarm_cond.c` and its theorems |
| `AlarmClock` | abstract: an alarm rings once at most, in order, not early |
| `Crew`, `CrewProofs`, `MCCrew` | `crew.c`, its theorems, and a small file tree for TLC |
| `TtyServer`, `TtyServerProofs` | `server.c` and its theorems |
| `Pipe`, `PipeProofs` | `pipe.c` and its theorem |
| `PipeFifo` | abstract: a bounded FIFO queue that adds one per stage |

Definitions carry the names of the C functions they translate. Definitions whose
comment calls them a mistake (`list_remove_half`, `snow_sem_up_edge`, ...) are
wrong variants of the definition that follows; a property is of use only if it
fails when the variant is put in the place of the original.

### How `Snow` corresponds to the code

*Granularity.* The code between `interrupt_disable()` and `interrupt_enable()` is
one action. Where a function runs with interrupts enabled between two such
stretches, it is split: `wait_get_timeout` (compute the deadline), then at the
label `again` one of `wait_get_success`, `wait_get_fail`, `wait_get_block`, then
`snow_sched`; `snow_usleep`, then `snow_sched`; `timer_add_us`, which stores
`timer->us` too early, then `timer_add_insert`; `snow_thread_create` up to its SVC,
then `thread_create_put`. `pc[t]` is where `t` resumes. The nested calls of
`snow_timer_add`, `snow_timer_del` and `snow_wakeup` inside disabled stretches are
operators, part of the calling action.

*Exceptions.* `snow_tick_handler` and `snow_sched` enter an exception
(`handler = "sched"`); the loop of `__snow_sched` takes one step per timer
(`sched_fire_wakeup`, `sched_fire_user`), and `sched_switch` is the rest of it. No
thread moves in between: interrupts are disabled throughout.

*Applications* are the environment: a context at `"user"` may call any function of
`snow_os.h` with arguments from `SleepUs`, `WaitUs`, `TimerUs`. They do not unlock
what they have not locked, do not add a timer that is pending, and give a fresh
memory block to each new thread. A timer callback returns or arms its own timer
again; callbacks that add or delete other timers, or wake threads, are not modelled. `held` is a history variable: how often each
thread has locked and not unlocked each mutex.

*Data.* Names, stacks and register frames are left out; copying the idle stack
frame to a new thread appears as `pc[new] = "user"`. Semaphore, mutex and timer
objects are initialised in `Init`. `mutex->thread`, which `snow_mutex_init` does
not set, is taken to be NULL, as it is in zeroed static storage.

*Approximations.* `IsSlot` says where the loop of `snow_timer_add` stops as a
condition on neighbours. On intact lists, which are what the proofs are about,
exactly one node satisfies it on a sorted list; after the list damage described
below it may differ from what the loop would do. `snow_udelay` reads the clock and
checks it in two kinds of steps, as its loop does.

*Bounds.* `ULLONG_MAX` stops the clock (TLC only; the proofs hold for every value),
`MaxCount` bounds a semaphore and `MaxDepth` the nesting of locks. `TickUs = 2` and
`SchedUs = 1` keep the ratio of the real constants that matters: a slice (1000 us)
is shorter than a tick (10000 us). `UINT_MAX` is only a marker for the argument -1.

### How the POSIX models correspond to the code

*Granularity.* What a thread does from the moment it has the mutex until it unlocks
it or waits is one action, named after the function; what it does when it has the
mutex again after a wait is a second action (`..._woken`). Mutexes themselves do not
appear: no other thread can see the data in between. Where the code reads shared data
*without* the mutex there is an action for the read: `workq_add_check` (`valid`),
`main_check` (`client_threads` in `server.c`), the inner loop and the increments of
`barrier_main.c` (`inner_loop`, `serial`), and there also what `main` reads when it has
joined a thread (`print`). In `pipe.c` a stage keeps its mutex while it waits for the next
stage; there `Free(k)` says whether the mutex of stage `k` can be had. The alarm
thread keeps its mutex except while it waits; `pc` tells.

*Condition variables* are sets of sleepers. `pthread_cond_signal` wakes any one of
them, a wakeup for no reason is possible wherever the code waits in a loop, and a
woken thread competes for the mutex with all others, in any order. A timed wait may
time out at any moment (`server_timeout`) or when the clock has come so far (`Alarm`).

*Cancellation* (`RwLock`): a sleeper leaves `pthread_cond_wait` for its cleanup
handler, which it runs when it has the mutex. The barrier disables cancellation.

*Failures.* Modelled: `pthread_create` in `workq_add` (`add_create_fails`),
`pthread_cond_timedwait` in `workq_server` (`server_wait_fails`), `opendir` and
`readdir_r` in `crew.c`, and there also `lstat`, whose status nobody looks at: the path
then passes for what the worker's last one was (`worker_lstat_fails`, or
`worker_opendir_fails` for a file that passes for a directory; that a *link* passes for
one and is followed is left out). Errors on which the programs abort are left out.
Otherwise it is assumed that the mutex and condition calls do not fail on initialised
objects. The places where the code would go on after such a failure, and which the
models therefore do not have, are: `pipe_send`, which returns the error (`pipe.c:50-51,
58-61, 70-73`) to `pipe_stage`, which ignores it (line 99) and would lose the value;
`workq_server`, which returns and remains counted (`workq.c:47-49, 98-106`);
`workq_destroy` (line 233); the loop of `barrier_wait` (`barrier.c:129`), which a failed
wait leaves before the round is over; and the early returns of `rwlock.c`.

*Data.* Of an engine's work, a file's contents and a prompt's text nothing remains
but that they end (and, in `server.c`, whether the line is empty). The array of
`barrier_main.c` is one element, since all are treated alike. Directory trees are a
function from paths to sets of entries; `PathsForest` says that they are trees and that
those of two jobs have nothing in common (two searches of one directory are two sets of
work items, so two names for each path). The values in the pipe (`Contents`) are those
of the stages that hold one, the last stage first.

*History variables*: `arrived`, `left`, `specials` (barrier), `deserted` (work queue),
`printed` (alarm), `visited`, `lost`, `cut` (crew), `results` (pipe). No guard reads them, except
that `arrived` carries the bound on rounds and `left` the loop counter of
`barrier_main.c`, which is half of it. In `BarrierMain` `printed` also tells where `main`
is: between the join and the output of a thread (`Printing`) or not.

*Undefined calls* are left out and named where they would occur: a `workq_add` that
locks the mutex of a destroyed queue, a `barrier_wait` returning into a destroyed
barrier, `rwl_destroy` at the same time as another call.

## 3. The self-wake window

`snow_usleep` (snow.c:163-166) and `wait_get_timeout` (snow.c:191-196) arm the
wakeup timer of the *running* thread, enable interrupts, and call `snow_sched()`.
If the timer is due at the next exception (a tick in that window, or the SVC
itself for `snow_usleep(0)`), `__snow_sched` calls `snow_wakeup(current)`, which
puts `current` on `sched_list`; `__snow_sched` then finds `current` ready and puts
it there again (snow.c:438). `list_insert` of a node that is on the list breaks
the ring. With `SleepUs = {1}` TLC reaches this under `Spec` in a few steps
(`ListsConsistent` fails). Nothing in the repository states the contrary, so it is
recorded here and under the hazards rather than as a finding. The model names the
situation `SelfWake` and treats it in two ways:

* `TimelySpec` is `Spec` restricted to the executions without it. What holds of
  `TimelySpec` shows that this window is the *only* way the lists break.
* `SafeTimes` describes applications that cannot meet it: sleeps longer than a tick
  and waits that only try or wait forever. For them `Spec` itself is proved safe.
  A timed wait is not in the safe range however long it is: after a wakeup that
  found the object taken, it re-arms the timer with the rest of its time.

## 4. Weaknesses the properties name

Where the code does not do what one would want, the property states the exception,
so that it holds exactly because nothing else goes wrong:

* `rwlock.c:261`: `r_wait` still counts a cancelled reader that has not run its
  handler. `rwl_writeunlock` then wakes readers, of which there is none, instead of a
  writer, and `rwl_readcleanup` (line 110) wakes nobody: a writer sleeps by a free lock.
  `NoStranded` and `LockProgress` except executions in which a *reader* was cancelled;
  cancelling writers is harmless.
* `barrier.c:66`: `counter = threshold` also while woken threads have yet to leave, so
  `barrier_destroy` can succeed under them. `barrier_main.c` joins first.
* `barrier_main.c:103`: `main` prints the increment of a thread as soon as it has joined
  that one, while the special thread of the last round may be at its loop (lines 65-66).
  What is printed may be one less than the final value (TLC reaches this), and the read
  is a data race. `SerialAlone` shows that no other round is concerned, `FinalValues`
  that the value is at most one short.
* `workq.c:285`: `idle` is never changed, so `workq_add` wakes no waiting server.
  `Served` holds all the same, thanks to the servers' timeouts.
* `workq.c:297`: when `pthread_create` fails the element stays queued although the
  caller is told of an error. `workq.c:68-89`: when `pthread_cond_timedwait` fails, the
  server ends without a look at the queue and without waking `workq_destroy`. As the comment
  there says of the queue, this matters if it was the only server, until a new one is
  created. `NoOrphan`, `DestroyedClean`, `Served` and `DestroyReturns` except exactly that:
  `deserted` is true from the failure of the last server's wait, or of the creation of
  the first, to the next creation. A failure while other servers live is harmless.
* `crew.c:166`: after a failed `opendir` the path is never taken off `work_count`, and
  `crew_start` does not return; `CountExact` counts these in `lost`, `StartReturns`
  excepts them. An `lstat` that fails (line 145) may send a file down that path, or leave a
  directory unread; `StartComplete` excepts the latter (`cut`). Also, the worker that finishes a job ends (line 308), so a crew serves
  only as many jobs as it has workers.
* `server.c:308`: the loop that creates clients compares with `client_threads`, which
  ending clients decrement; with a short input fewer clients are created and `main`
  waits for the rest for ever. `MainReturns` excepts it (`TooFew`).

One comment of the repository is contradicted by a property that holds; this is recorded as
a finding with the run `pipe`. The head of
`pipe.c` (line 8) says "Notice that too many '=' commands will hang". They do not:
`pipe_result` returns 0 at once when `active` is 0 (lines 213-222), so nobody waits for a
value that was never sent, and `ResultReturns` says so. It would hang, as the comment has
it, if `pipe_result` did not count (`pipe_result_keep` is that variant).

## 5. Runs

| run | specification | checks | states |
|---|---|---|---|
| `sync` | `Spec`, 3 threads, a semaphore, a mutex, tries and waits without timeout, counts to 2, nesting to 2 | `TypeOK`, `MutexOwnership`, `NoLostWakeup` | 436 000 |
| `timed` | `TimelySpec`, 2 threads, a semaphore, a mutex, an application timer, waits with and without timeout, sleeps shorter than a tick | `ListInv`, `ThreadPlaced`, `TimersSorted`, `IsRoundRobin` | 568 000 |
| `fair` | `FairSpec`, 2 threads that sleep longer than a tick, yield, end or spin, an application timer shorter or longer than a tick, possibly periodic | `NoSelfWake`, `ReadyRuns`, `SleeperRuns` | 179 000 |
| `lists` | `ListSpec`, 2 lists, 5 items | `LinkedIsReachable`, `IsFifoLists`, `OpsAgree` | 1 600 |
| `mutex_assert` | `Spec`, 2 threads, a mutex | `MutexPutAssert` is violated | |
| `rwlock` | `FairSpec`, 4 threads, all cancellable | `LockInv`, `ReadersAwake`, `NoStranded`, `LockProgress` | 7 000 |
| `barrier_main` | `MainSpec`, 4 threads, 3 rounds of 2 barriers, 2 inner iterations | `Together`, `OneSerial`, `SerialAlone`, `FinalValues`, `Terminates` | 26 000 |
| `workq` | `FairSpec`, 3 elements, parallelism 2, 3 names for servers | `CounterExact`, `ItemsOnce`, `NoOrphan`, `DestroyedClean`, `Served`, `DestroyReturns` | 15 000 |
| `alarm` | `FairSpec`, 3 alarms of 0 to 3 seconds, clock to 5 | `SleepsUntilEarliest`, `IsAlarmClock`, `AllPrinted` | 16 000 |
| `crew` | `FairSpec`, 3 workers, 2 jobs (a tree of 4 paths, a file) | `CountExact`, `StartComplete`, `StartReturns` | 313 000 |
| `server` | `FairSpec`, 3 clients, 2 writes per line, 2 lines | `RequestLives`, `AllWritten`, `MainReturns` | 411 000 |
| `pipe` | `FairSpec`, 2 stages, 4 values, a collector | `IsPipeFifo`, `ResultReturns`, `StartReturns` | 65 000 |

*Why the bounds suffice.* Kernel: three threads are the least for one to barge in
between a waker and the woken; a count of 2 lets a second unit arrive before the first
woken thread has run; nesting 2 separates inner from outer unlocks; a clock of three
ticks lets a slice end, a timeout expire and a thread go round again (six ticks for
the promises of `fair`). With two threads a timeout still races a put. In `fair` a ready
thread has one that never yields before it and a periodic timer that keeps every
exception busy. Five items
give lists of every shape around the place of an insertion. Threads other than
`main` are interchangeable, so `sync` uses symmetry; the runs with temporal properties do
not. Read/write lock: with four threads one holds it while a reader and a writer wait
and a fourth comes or is cancelled. Barrier: three rounds let a thread be late by one
round twice; what it remembers is one bit. Work queue: three elements for two servers
keep one queued while a server times out. Alarm: a third alarm arrives while one waits
and one is set aside. Crew: three workers and two jobs, so that one worker ends with
the first job and a second client waits. Pipe: four values exceed the three places of
two stages, so that senders wait.

*`NoLostWakeup`* counts: while someone waits, each free unit has a thread that has
been woken, or has just arrived, and will try to get it. It is what remains true
although a woken thread can be overtaken.

*`IsRoundRobin`* maps the queue of `RoundRobin` to the nodes that `list_foreach`
would visit from `sched_list`: every step of the kernel appends to that queue,
rotates it or leaves it alone.

*Finding.* `mutex_assert`: the condition of the `arch_assert` in `mutex_put`
(snow.c:244), `mutex->thread != current || mutex->count < 0`, is the condition of an
*unbalanced* unlock, while `arch_assert` reports when its condition is false. TLC
finds it false at the first correct unlock.

*Fairness.* `SF_vars(snow_tick_handler)`: the SysTick counter runs independently of
the program; a tick that becomes due during an exception or while interrupts are
disabled stays pending and is taken as soon as they are enabled, so it is not put
off by threads that keep entering the kernel, although each of their SVCs disables
the action for a while. `WF_vars(SchedStep)`: a handler runs to its end. Nothing is
assumed of threads. Because the clock is bounded, the liveness properties speak of
states from which enough ticks remain (`ClockRuns`).

The POSIX programs assume that a thread that can run does (weak fairness of each
thread's steps, which take the mutex when it is free): threads are scheduled by the
system and none of the programs changes priorities. In particular a thread back from
a wait gets the mutex, an engine or a holder of a read/write lock comes to its end, and
the two seconds of an idle server pass. Nothing is assumed of those that *call*: of
`rwlock.c` only that holders unlock and woken waiters retry, of `workq.c` nothing of the
clients and of the call of `workq_destroy`. No fairness decides who gets a mutex first, which sleeper a signal wakes, or
makes an error or a cancellation happen.

## 6. Theorems

Every invariant, refinement and action property the passing runs check is proved, for
every value of the constants the assumptions allow. Only the liveness properties
rest on TLC alone.

### snow_os (`SnowProofs`)

From `ObjectsDistinct` (objects of different kinds are different), `ObjectsFinite`
and `TimesAreNaturals` for the kernel, `ListNodes` for the lists. `ObjectsFinite` is
needed where a list is walked to its end and where threads are counted. The module
carries the constants of `SnowListOps` as well; no theorem of Part II uses them.

Lists:

* `ListsAlwaysHeld`: `ListSpec => []ListsHeld`, the inductive invariant: there *is* a
  family of sequences, disjoint and one per head, such that the links chain each head to
  its items in order and back (`Chain`), and nothing else is linked. With the sequence
  named, each helper changes it at one place, and that place is all the links tell.
* `LinkedReachable`, `ListsImplemented`, `HelpersAgree`: `ListSpec` implies
  `[]LinkedIsReachable`, `IsFifoLists`, `OpsAgree`. The chained sequence is what `Walk`
  (the nodes `list_foreach` visits) returns, by `HeldIsWalk`.

Kernel:

* `MutexSafe`: `Spec => []MutexOwnership`. The invariant is inductive with the
  shape of `mutex` and `held` alone; no fact about lists is needed, so it holds
  even with self-wakes.
* `RingsInductive`: `TimelySpec => []ListInv`, with the corollaries `RingsIntact`
  and `KernelTyped`. That rings stay intact is not inductive by itself: `list_insert` keeps
  them only for a detached node. So `ListInv` adds when a node is detached
  (`CurrentOffList`, `TimerOff`, parts of `CallObject`), which thread can be at such
  a call (`CurrentReady`), and that neighbours belong on the same list
  (`ListsApart`), stated by a function `Home` from nodes to list heads that is
  constant along links. `NoSelfWake` is a part, since this is where the argument fails
  in the code.
* `SafeTimesSuffice`, `SafeTimesRings`: under `SafeTimes`, `Spec => []NoSelfWake` and
  `Spec => []ListsConsistent`, by `ListInv` and `SleepInv`: the time of a current
  thread that has armed its timer is more than one tick away until it is switched.
* `TimersStaySorted`: `TimelySpec => []TimersSorted`, on top of `ListInv`.
* `ThreadsStayPlaced`: `TimelySpec => []ThreadPlaced`, by `ListInv` and `PlaceInv`. `Home`
  says on which list a thread would be, not that it can be reached from its head: a ring
  of threads cut off from every head would satisfy `ListInv`. `PlaceInv` says that queued
  threads and armed timers are on the ring (`Ring`) of the head itself.
* `WakeupsNotLost`: `TimelySpec => []NoLostWakeup`, by `PlaceInv` and `WakeInv`. A step of
  `snow_sem_up` adds a free unit and moves the first waiter to those that will retry; a
  thread that takes a unit was one of those. That a waiter tries again when it wakes
  (`WaitersRetry`) makes the count inductive, and that `list_empty` is true only if nobody
  waits comes from `PlaceInv`.
* `RoundRobinImplemented`: `TimelySpec => IsRoundRobin`, on top of `ListInv`. `WalkPut`,
  `WalkGet` and their like say what a helper does to `Walk`; every step of the kernel then
  is a step of `RoundRobin` or leaves its variables alone.
* `SafeTimesTimely`, `SafeTimesKernel`: under `SafeTimes`, `Spec => TimelySpec`. So for
  such an application types, places, timer order, wakeups and round robin hold in *every*
  execution, with nothing excluded.

*No induction over lists.* The provers cannot instantiate the library's induction
theorems. Where a walk must reach its end, the proofs take a least counterexample
instead (`WFMin`, which has no operator parameter): the first place at which two walks
differ, the least number of steps that leads back to the head. That a walk does come
back follows from finiteness, since `next` is injective on an intact list.

### POSIX programs

For every finite set of threads and all bounds.

* `LockTyped`, `LockExcludes`, `ReadersStayAwake`, `NobodyStranded`: `Spec` implies
  `[]TypeOK`, `[]LockInv`, `[]ReadersAwake`, `[]NoStranded` for `rwlock.c`, from
  `ThreadsFinite`. The invariant is their conjunction: exclusion needs the counts
  (`rwl_writelock` sees readers only through `r_active`), `rwl_destroy` needs all three
  to be 0, and a wakeup reaches somebody because the counts it is chosen by are exact.
  `CountersMove` says once how the counts change when a thread moves.
* `BarrierTyped`, `RoundsTogether`, `OneReturnsSerial`: `Spec` implies `[]TypeOK`,
  `[]Together`, `[]OneSerial` for `barrier.c`, from `BarrierThreads`. `Together` alone is
  not inductive. The invariant names `Cur`, the threads waiting for the current value of
  `cycle`: `counter` is what is missing of them, and all threads agree on the number of
  rounds that are over (`Over`). So the last to arrive finds *all* others in `Cur`, no
  straggler of an earlier round is left, and one bit is enough. `Special` ties `specials` to
  the rounds that are over, and says that one thread has already left the last of them;
  hence exactly one -1 per round also while rounds overlap.
* `SerialRunsAlone`: `MainSpec => []SerialAlone`. Every step of the program is a step of
  the barrier (`MainUsesBarrier`); a thread in the inner loop has passed an odd number
  of barriers and the special one an even number (`Place`), which `Over` forbids at
  the same time. That `main` reads an increment meanwhile only in the last round comes
  from `Joined`: a joined thread has left its last barrier, so all rounds are over.
* `FinalValuesReached`: `MainSpec => []FinalValues`, from `ThreadsNumbered` too. The
  invariant `Values` says what the array of a thread is at each point of each round and
  which round `increment` stands for; it needs `SerialAlone`, for the increments must not
  change under a thread that adds them. What `main` reads is, by `Joined`, an increment of
  the last round, which the special thread has or has not yet raised (`ReadNearly`).
* `ServersCounted`, `WorkHasServer`, `DestroyLeavesNothing`: `Spec` implies
  `[]CounterExact`, `[]NoOrphan`, `[]DestroyedClean` for `workq.c`, from
  `WorkQueueConstants`. Work without a server cannot arise since `parallelism > 0` and
  a server ends only when it sees the queue empty, or, after a failed wait, with a note in
  `deserted` if it was the last (`ExitIInv`); `counter = 0` then means no work.
* `ElementsOnce`: `Spec => []ItemsOnce`. `Placed` replaces the two cardinalities: no
  element is in the queue twice or with two servers, and the state of an element says
  which of the two has it.
* `NeverOversleeps`, `AlarmClockImplemented`: `FairSpec` implies `[]SleepsUntilEarliest` and
  `IsAlarmClock` for `alarm_cond.c`, from `AlarmConstants`. The invariant says that the list
  is sorted and has every pending alarm but the one in the thread's hands (`Kept`), and
  that `current_alarm` is that one's time unless an earlier alarm has come (`Waits`).
* `WorkCounted`, `JobsComplete`: `FairSpec` implies `[]CountExact` and `[]StartComplete` for
  `crew.c`, from `CrewConstants` and `PathsForest`. `Places` says that a path is queued, in
  a worker's hands or processed, at most once; `Kept` that an entry of a processed
  directory has been queued or is still to be read. With `work_count = 0` nobody holds
  anything, so the processed paths are closed under entries and contain all below the
  root (`Below` is the least such set).
* `RequestsLive`, `WritesDone`: `FairSpec` implies `[]RequestLives` and `[]AllWritten` for
  `server.c`, from `TtyConstants`. A caller is in its call exactly while the server has
  its request (`Calls`), and the quit request is the last (`QuitLast`), because `main`
  sends it only when `client_threads` says that all clients have left (`Counts`).
* `PipeImplementsFifo`: `Spec => IsPipeFifo` for `pipe.c`, from `PipeConstants`. `PipeInv`: a
  stage that is about to send, or has just sent, still has its value (`ValueKept`), and
  the stages that hold one can be enumerated in descending order. A value that moves up
  passes no other, so the enumeration keeps its places; one that enters or leaves does so
  at the ends.

*Out of reach of the provers*, so only model-checked: the liveness properties (`ReadyRuns`,
`SleeperRuns`, `LockProgress`, `Terminates`, `Served`, `DestroyReturns`, `AllPrinted`,
`StartReturns` of the crew and of the pipe, `MainReturns`, `ResultReturns`), which need
fairness and ENABLED. The invariants proved under a `FairSpec` do not use its fairness.

## 7. Not modelled

In snow_os:

* The register frame and the assembly of `ENTRY`; stack sizes and overflow.
* `snow_sem_up` and the like called from a timer callback: its SVC would be taken
  inside an exception with interrupts masked, which the hardware turns into a fault.
* A callback that re-arms its timer with 0, which never leaves `__snow_sched`.
* Wrap-around of `sem->count`; the 64-bit microsecond clock does not wrap in practice.
* An ended thread's block used again: an ended thread stays ready and spins.
* `arch_print`, which is empty in this build.
* `nano.c`: an unfinished rewrite that does not compile and whose blocking function is
  empty. There is no behaviour to translate.

In posix_multithread:

* `susp.c` (suspension by signals) and `backoff.c` (lock hierarchy with backoff): the
  next candidates. Both rest on behaviour POSIX leaves open: a signal that arrives
  between `sentinel = 1` and `sigsuspend`, and the unlocking of a mutex another thread
  has locked (`backoff.c:56`).
* `workq_main.c`, `rwlock_main.c`, `rwlock_try_main.c`: drivers of modelled packages.
* The programs of a page that show one call each; `alarm_mutex.c`, the earlier version
  of `alarm_cond.c`.
* In `alarm_cond.c` negative seconds, which `sscanf` accepts (line 179). With them an alarm
  can be due before those already there: inserted between the timeout of the one waited
  for and the alarm thread's return with the mutex, it is printed after a later one, so
  the order of `IsAlarmClock` does not hold for them.

Elsewhere: `cpp/multithreading` and `programming_pearls` (small samples and sequential
algorithms), `kernel` (driver exercises, nearly all of it Linux API use), and
`apue`, `rtos`, `csapp`, `backupcode`, `patches`, `python`, `shell`, `tools`, ... (book
sources, vendored code, backups of vendor trees and one-file exercises). These make up
nearly all of the repository's lines: `backupcode` alone holds copies of the Linux
graphics and video drivers and of Android's graphics libraries. They are not this
repository's own logic, so a model of them would say nothing about it.

## 8. Plan

1. Kernel core: lists, scheduler, timers, semaphores, mutexes (done).
2. The POSIX packages and programs: barrier, read/write lock, work queue, alarm manager,
   crew, prompt server, pipeline (done).
3. Proofs for the packages: lock, barrier, work queue (done).
4. Proofs of all other safety properties: lists, thread places, wakeups and round robin of
   the kernel; final values, elements, alarms, crew, prompt server, pipeline (done).
5. Proofs of facts the liveness arguments rest on: what bounds the wait of a ready thread
   (its place in the queue never grows) and of a queued element.
6. `susp.c` and `backoff.c`.
