------------------------------- MODULE RwLock -------------------------------
(***************************************************************************)
(* The read/write lock of posix_multithread/programs_src/rwlock.c, used by   *)
(* any number of threads, each of which holds it at most once.  A thread     *)
(* that waits for the lock may be cancelled; the cleanup handlers then run.  *)
(*                                                                           *)
(* The functions look at rwl->valid before they lock the mutex.  As no       *)
(* application may call one at the same time as rwl_destroy, check and       *)
(* locked section are one step here, and a call that finds the lock          *)
(* destroyed returns EINVAL: it changes nothing.                             *)
(***************************************************************************)
EXTENDS Naturals, FiniteSets, PthreadCond

CONSTANTS
  Thread,
  Cancellable   \* the threads somebody may cancel

ASSUME ThreadsFinite == IsFiniteSet(Thread) /\ Cancellable \subseteq Thread

VARIABLES
  valid, r_active, w_active, r_wait, w_wait,
  read, write,  \* the condition variables
  pc            \* what a thread is doing

waitVars == <<r_wait, w_wait>>
lockVars == <<valid, r_active, w_active>>
vars == <<lockVars, waitVars, read, write, pc>>

Goto(t, p) == pc' = [pc EXCEPT ![t] = p]

-----------------------------------------------------------------------------
rwl_readlock(t) ==
  /\ valid /\ pc[t] = "out"
  /\ IF w_active
     THEN /\ r_wait' = r_wait + 1
          /\ pthread_cond_wait(read, t)
          /\ Goto(t, "rwait")
          /\ UNCHANGED r_active
     ELSE /\ r_active' = r_active + 1
          /\ Goto(t, "reading")
          /\ UNCHANGED <<r_wait, read>>
  /\ UNCHANGED <<valid, w_active, w_wait, write>>

\* A waiting reader is back from pthread_cond_wait.
readlock_woken(t) ==
  /\ pc[t] = "rwait" /\ t \notin read
  /\ IF w_active
     THEN pthread_cond_wait(read, t) /\ UNCHANGED <<r_wait, r_active, pc>>
     ELSE /\ r_wait' = r_wait - 1
          /\ r_active' = r_active + 1
          /\ Goto(t, "reading")
          /\ UNCHANGED read
  /\ UNCHANGED <<valid, w_active, w_wait, write>>

\* When it fails, with EBUSY, nothing changes.
rwl_readtrylock(t) ==
  /\ valid /\ pc[t] = "out" /\ ~w_active
  /\ r_active' = r_active + 1
  /\ Goto(t, "reading")
  /\ UNCHANGED <<valid, w_active, waitVars, read, write>>

\* A mistake: the last reader does not wake a writer.
rwl_readunlock_quiet(t) ==
  /\ valid /\ pc[t] = "reading"
  /\ r_active' = r_active - 1
  /\ Goto(t, "out")
  /\ UNCHANGED <<valid, w_active, waitVars, read, write>>

rwl_readunlock(t) ==
  /\ valid /\ pc[t] = "reading"
  /\ r_active' = r_active - 1
  /\ IF r_active = 1 /\ w_wait > 0 THEN pthread_cond_signal(write)
                                   ELSE UNCHANGED write
  /\ Goto(t, "out")
  /\ UNCHANGED <<valid, w_active, waitVars, read>>

\* A mistake: active readers are overlooked.
WriteBusy_writer == w_active

WriteBusy == w_active \/ r_active > 0

rwl_writelock(t) ==
  /\ valid /\ pc[t] = "out"
  /\ IF WriteBusy
     THEN /\ w_wait' = w_wait + 1
          /\ pthread_cond_wait(write, t)
          /\ Goto(t, "wwait")
          /\ UNCHANGED w_active
     ELSE /\ w_active' = TRUE
          /\ Goto(t, "writing")
          /\ UNCHANGED <<w_wait, write>>
  /\ UNCHANGED <<valid, r_active, r_wait, read>>

writelock_woken(t) ==
  /\ pc[t] = "wwait" /\ t \notin write
  /\ IF WriteBusy
     THEN pthread_cond_wait(write, t) /\ UNCHANGED <<w_wait, w_active, pc>>
     ELSE /\ w_wait' = w_wait - 1
          /\ w_active' = TRUE
          /\ Goto(t, "writing")
          /\ UNCHANGED write
  /\ UNCHANGED <<valid, r_active, r_wait, read>>

rwl_writetrylock(t) ==
  /\ valid /\ pc[t] = "out" /\ ~WriteBusy
  /\ w_active' = TRUE
  /\ Goto(t, "writing")
  /\ UNCHANGED <<valid, r_active, waitVars, read, write>>

\* A mistake: only one of the waiting readers is woken.
rwl_writeunlock_one(t) ==
  /\ valid /\ pc[t] = "writing"
  /\ w_active' = FALSE
  /\ CASE r_wait > 0 -> pthread_cond_signal(read) /\ UNCHANGED write
       [] r_wait = 0 /\ w_wait > 0 -> pthread_cond_signal(write) /\ UNCHANGED read
       [] OTHER -> UNCHANGED <<read, write>>
  /\ Goto(t, "out")
  /\ UNCHANGED <<valid, r_active, waitVars>>

\* Waiting readers go before waiting writers.
rwl_writeunlock(t) ==
  /\ valid /\ pc[t] = "writing"
  /\ w_active' = FALSE
  /\ CASE r_wait > 0 -> pthread_cond_broadcast(read) /\ UNCHANGED write
       [] r_wait = 0 /\ w_wait > 0 -> pthread_cond_signal(write) /\ UNCHANGED read
       [] OTHER -> UNCHANGED <<read, write>>
  /\ Goto(t, "out")
  /\ UNCHANGED <<valid, r_active, waitVars>>

\* EBUSY, which changes nothing, while somebody has the lock or waits for it.
rwl_destroy(t) ==
  /\ valid /\ pc[t] = "out"
  /\ r_active = 0 /\ ~w_active /\ r_wait = 0 /\ w_wait = 0
  /\ valid' = FALSE
  /\ UNCHANGED <<r_active, w_active, waitVars, read, write, pc>>

-----------------------------------------------------------------------------
\* pthread_cancel of a sleeper: pthread_cond_wait does not return, and the
\* cleanup handler runs as soon as the thread has the mutex again.
pthread_cancel(t) ==
  /\ t \in Cancellable
  /\ \/ t \in read /\ Goto(t, "rcancel")
     \/ t \in write /\ Goto(t, "wcancel")
  /\ read' = read \ {t} /\ write' = write \ {t}
  /\ UNCHANGED <<lockVars, waitVars>>

rwl_readcleanup(t) ==
  /\ pc[t] = "rcancel"
  /\ r_wait' = r_wait - 1
  /\ Goto(t, "rgone")
  /\ UNCHANGED <<lockVars, w_wait, read, write>>

rwl_writecleanup(t) ==
  /\ pc[t] = "wcancel"
  /\ w_wait' = w_wait - 1
  /\ Goto(t, "wgone")
  /\ UNCHANGED <<lockVars, r_wait, read, write>>

-----------------------------------------------------------------------------
\* rwl_init, or RWL_INITIALIZER.
Init ==
  /\ valid = TRUE /\ r_active = 0 /\ w_active = FALSE
  /\ r_wait = 0 /\ w_wait = 0
  /\ read = {} /\ write = {}
  /\ pc = [t \in Thread |-> "out"]

\* Steps a thread takes once it has called a function that waits.
Woken(t) == readlock_woken(t) \/ writelock_woken(t)
Unlock(t) == rwl_readunlock(t) \/ rwl_writeunlock(t)
Cleanup(t) == rwl_readcleanup(t) \/ rwl_writecleanup(t)

Call(t) ==
  \/ rwl_readlock(t) \/ rwl_readtrylock(t)
  \/ rwl_writelock(t) \/ rwl_writetrylock(t)
  \/ rwl_destroy(t)

\* All threads have been cancelled, or are out of a lock that is destroyed.
Finished ==
  /\ \A t \in Thread : pc[t] \in {"rgone", "wgone"} \/ (pc[t] = "out" /\ ~valid)
  /\ UNCHANGED vars

Next ==
  \/ \E t \in Thread :
       Call(t) \/ Unlock(t) \/ Woken(t) \/ pthread_cancel(t) \/ Cleanup(t)
  \/ spurious_wakeup(read) /\ UNCHANGED <<lockVars, waitVars, write, pc>>
  \/ spurious_wakeup(write) /\ UNCHANGED <<lockVars, waitVars, read, pc>>
  \/ Finished

Spec == Init /\ [][Next]_vars

\* A thread that has the lock gives it back, and one that was woken gets the
\* mutex in the end.  Nobody has to call, and nothing has to be fair between
\* those that call and those that were woken.
FairSpec == Spec /\ \A t \in Thread : WF_vars(Unlock(t)) /\ WF_vars(Woken(t))

-----------------------------------------------------------------------------
In(S) == {t \in Thread : pc[t] \in S}

\* The fields have their types; the counts do not pass the number of threads.
TypeOK ==
  /\ valid \in BOOLEAN /\ w_active \in BOOLEAN
  /\ {r_active, r_wait, w_wait} \subseteq 0 .. Cardinality(Thread)
  /\ read \subseteq In({"rwait"}) /\ write \subseteq In({"wwait"})
  /\ pc \in [Thread -> {"out", "rwait", "reading", "wwait", "writing",
                        "rcancel", "wcancel", "rgone", "wgone"}]

\* The lock excludes: one writer and no reader, or any number of readers; the
\* four fields of rwlock_t count the threads that have the lock and that wait
\* for it, the cancelled ones included until their cleanup handler has run;
\* rwl_destroy succeeds only when no thread is inside.
LockInv ==
  /\ r_active = Cardinality(In({"reading"}))
  /\ w_active <=> In({"writing"}) # {}
  /\ w_active => r_active = 0
  /\ \A t, u \in In({"writing"}) : t = u
  /\ r_wait = Cardinality(In({"rwait", "rcancel"}))
  /\ w_wait = Cardinality(In({"wwait", "wcancel"}))
  /\ valid \/ In({"out", "rgone", "wgone"}) = Thread

\* No reader sleeps unless a writer has the lock (rwl_writeunlock wakes all
\* of them), even when waiters are cancelled.
ReadersAwake == read # {} => w_active

\* rwl_writeunlock wakes readers, and no writer, when r_wait counts a reader
\* that has been cancelled and has not run its handler yet; rwl_readcleanup
\* then wakes nobody, and a writer sleeps by a free lock.
ReaderCancelled == In({"rcancel", "rgone"}) # {}

\* That is the only way to be left behind: as long as no reader is cancelled,
\* when nobody has the lock and a writer sleeps, another waiter is awake that
\* will take it, whoever else comes, tries, or is cancelled.
NoStranded ==
  ~WriteBusy /\ write # {} /\ ~ReaderCancelled
    => In({"rwait", "wwait"}) \ (read \cup write) # {}

\* A lock that is free while threads wait for it is taken again, unless they
\* are cancelled.
LockProgress ==
  (In({"rwait", "wwait"}) # {} /\ ~WriteBusy)
    ~> (WriteBusy \/ In({"rwait", "wwait"}) = {} \/ ReaderCancelled)
=============================================================================
