------------------------------ MODULE WorkQueue ------------------------------
(***************************************************************************)
(* The work queue manager of posix_multithread/programs_src/workq.c: clients *)
(* add items, server threads are created on demand, serve the queue, end     *)
(* after two idle seconds, and are run down by workq_destroy.  Servers and   *)
(* workq_destroy wait on the same condition variable.                        *)
(*                                                                           *)
(* The field idle of workq_t is 0 from workq_init on: no statement changes   *)
(* it.  So the branches of workq_add and workq_destroy that wake idle        *)
(* servers are never taken, and are not part of the model.                   *)
(***************************************************************************)
EXTENDS Integers, Sequences, FiniteSets, PthreadCond

CONSTANTS
  Item,          \* the elements clients add, each once
  Server,        \* names for server threads, used again when one has ended
  destroyer,     \* the thread that calls workq_destroy
  NULL,          \* no element
  parallelism

ASSUME WorkQueueConstants ==
  /\ IsFiniteSet(Server) /\ destroyer \notin Server /\ NULL \notin Item
  /\ parallelism \in 1 .. Cardinality(Server)

VARIABLES
  valid, quit, counter,
  queue,        \* the list from first to last
  cv,           \* the threads asleep
  item,         \* where an element is on its way
  pc, job,      \* where a server is, and the element it has
  timedout,     \* its local variable
  destroy,      \* where workq_destroy is
  deserted      \* history: an error took the last server or kept the first
                \*   from starting, and none has been created since

srvVars == <<pc, job, timedout>>
vars == <<valid, quit, counter, queue, cv, item, srvVars, destroy, deserted>>

Init ==
  /\ valid = TRUE /\ quit = FALSE /\ counter = 0 /\ queue = <<>> /\ cv = {}
  /\ item = [i \in Item |-> "new"]
  /\ pc = [s \in Server |-> "none"]
  /\ job = [s \in Server |-> NULL]
  /\ timedout = [s \in Server |-> FALSE]
  /\ destroy = "no" /\ deserted = FALSE

Move(i, where) == item' = [item EXCEPT ![i] = where]

-----------------------------------------------------------------------------
\* workq_add looks at valid before it locks the mutex.
workq_add_check(i) ==
  /\ item[i] = "new"
  /\ Move(i, IF valid THEN "checked" ELSE "refused")
  /\ UNCHANGED <<valid, quit, counter, queue, cv, srvVars, destroy, deserted>>

\* The call goes on with the mutex.  (When workq_destroy has returned there
\* is no mutex; what happens then is undefined and left out.)
Enqueue(i) ==
  /\ item[i] = "checked" /\ destroy # "done"
  /\ queue' = Append(queue, i) /\ Move(i, "queued")
  /\ UNCHANGED <<valid, quit, cv, destroy>>

MayCreate == counter < parallelism

workq_add(i) ==
  /\ Enqueue(i)
  /\ IF MayCreate
     THEN /\ counter' = counter + 1
          /\ \E s \in Server :
               /\ pc[s] = "none"
               /\ pc' = [pc EXCEPT ![s] = "start"]
               /\ timedout' = [timedout EXCEPT ![s] = FALSE]
               /\ UNCHANGED job
          /\ deserted' = FALSE
     ELSE UNCHANGED <<counter, srvVars, deserted>>

\* The error is returned to the caller, but the element stays in the queue.
add_create_fails(i) ==
  /\ MayCreate /\ deserted' = (deserted \/ counter = 0)
  /\ Enqueue(i)
  /\ UNCHANGED <<counter, srvVars>>

-----------------------------------------------------------------------------
\* s has the mutex: it starts, is back from pthread_cond_timedwait, or is
\* back from the engine.
At(s) == pc[s] \in {"start", "wait", "back"} /\ s \notin cv

server_wait(s) ==
  /\ At(s) /\ queue = <<>> /\ ~quit /\ ~timedout[s]
  /\ pthread_cond_wait(cv, s)
  /\ pc' = [pc EXCEPT ![s] = "wait"]
  /\ UNCHANGED <<valid, quit, counter, queue, item, job, timedout, destroy, deserted>>

\* pthread_cond_timedwait returns ETIMEDOUT.
server_timeout(s) ==
  /\ s \in cv
  /\ cv' = cv \ {s}
  /\ timedout' = [timedout EXCEPT ![s] = TRUE]
  /\ UNCHANGED <<valid, quit, counter, queue, item, pc, job, destroy, deserted>>

\* pthread_cond_timedwait returns another error: the server ends without a
\* look at the queue, and wakes nobody.
server_wait_fails(s) ==
  /\ s \in cv
  /\ cv' = cv \ {s}
  /\ counter' = counter - 1
  /\ pc' = [pc EXCEPT ![s] = "none"]
  /\ timedout' = [timedout EXCEPT ![s] = FALSE]
  /\ deserted' = (deserted \/ counter = 1)
  /\ UNCHANGED <<valid, quit, queue, item, job, destroy>>

\* A mistake: the last element stays in the list.
server_take_last(s) ==
  /\ At(s) /\ queue # <<>>
  /\ queue' = IF Len(queue) = 1 THEN queue ELSE Tail(queue)
  /\ job' = [job EXCEPT ![s] = Head(queue)] /\ Move(Head(queue), "running")
  /\ timedout' = [timedout EXCEPT ![s] = @ /\ pc[s] = "wait"]
  /\ pc' = [pc EXCEPT ![s] = "engine"]
  /\ UNCHANGED <<valid, quit, counter, cv, destroy, deserted>>

\* A server back from the engine starts the outer loop again, which resets
\* timedout; one whose wait timed out while work arrived keeps it set.
server_take(s) ==
  /\ At(s) /\ queue # <<>>
  /\ queue' = Tail(queue)
  /\ job' = [job EXCEPT ![s] = Head(queue)] /\ Move(Head(queue), "running")
  /\ timedout' = [timedout EXCEPT ![s] = @ /\ pc[s] = "wait"]
  /\ pc' = [pc EXCEPT ![s] = "engine"]
  /\ UNCHANGED <<valid, quit, counter, cv, destroy, deserted>>

server_engine(s) ==
  /\ pc[s] = "engine"
  /\ pc' = [pc EXCEPT ![s] = "back"] /\ Move(job[s], "done")
  /\ job' = [job EXCEPT ![s] = NULL]
  /\ UNCHANGED <<valid, quit, counter, queue, cv, timedout, destroy, deserted>>

Exit(s) ==
  /\ pc' = [pc EXCEPT ![s] = "none"]
  /\ timedout' = [timedout EXCEPT ![s] = FALSE]
  /\ UNCHANGED <<valid, quit, queue, item, job, destroy, deserted>>

\* A mistake: a server asked to quit leaves the queue to the others.
server_quit_early(s) ==
  /\ At(s) /\ quit
  /\ counter' = counter - 1
  /\ IF counter = 1 THEN pthread_cond_broadcast(cv) ELSE UNCHANGED cv
  /\ Exit(s)

\* A mistake: the last server does not wake workq_destroy.
server_quit_silent(s) ==
  /\ At(s) /\ queue = <<>> /\ quit
  /\ counter' = counter - 1
  /\ UNCHANGED cv
  /\ Exit(s)

server_quit(s) ==
  /\ At(s) /\ queue = <<>> /\ quit
  /\ counter' = counter - 1
  /\ IF counter = 1 THEN pthread_cond_broadcast(cv) ELSE UNCHANGED cv
  /\ Exit(s)

\* A mistake: the queue is not looked at after a timeout.
server_expire_blind(s) ==
  /\ At(s) /\ ~quit /\ timedout[s]
  /\ counter' = counter - 1 /\ UNCHANGED cv
  /\ Exit(s)

\* A mistake: the server still counts after it has ended.
server_expire_counted(s) ==
  /\ At(s) /\ queue = <<>> /\ ~quit /\ timedout[s]
  /\ UNCHANGED <<counter, cv>>
  /\ Exit(s)

\* No work for two seconds.
server_expire(s) ==
  /\ At(s) /\ queue = <<>> /\ ~quit /\ timedout[s]
  /\ counter' = counter - 1 /\ UNCHANGED cv
  /\ Exit(s)

-----------------------------------------------------------------------------
workq_destroy ==
  /\ valid /\ destroy = "no"
  /\ valid' = FALSE
  /\ IF counter > 0
     THEN quit' = TRUE /\ pthread_cond_wait(cv, destroyer) /\ destroy' = "wait"
     ELSE destroy' = "done" /\ UNCHANGED <<quit, cv>>
  /\ UNCHANGED <<counter, queue, item, srvVars, deserted>>

destroy_woken ==
  /\ destroy = "wait" /\ destroyer \notin cv
  /\ IF counter > 0 THEN pthread_cond_wait(cv, destroyer) /\ UNCHANGED destroy
                    ELSE destroy' = "done" /\ UNCHANGED cv
  /\ UNCHANGED <<valid, quit, counter, queue, item, srvVars, deserted>>

-----------------------------------------------------------------------------
Spurious ==
  /\ spurious_wakeup(cv)
  /\ UNCHANGED <<valid, quit, counter, queue, item, srvVars, destroy, deserted>>

server(s) ==
  \/ server_wait(s) \/ server_take(s) \/ server_engine(s)
  \/ server_quit(s) \/ server_expire(s)
  \/ server_timeout(s) \/ server_wait_fails(s)

Add(i) == workq_add_check(i) \/ workq_add(i) \/ add_create_fails(i)

\* workq_destroy has returned; calls that passed the check too late remain.
Finished == destroy = "done" /\ UNCHANGED vars

Next ==
  \/ (\E i \in Item : Add(i)) \/ (\E s \in Server : server(s))
  \/ workq_destroy \/ destroy_woken \/ Spurious \/ Finished

Spec == Init /\ [][Next]_vars

\* Servers run, engines return, two seconds pass, and a woken workq_destroy
\* gets the mutex.  Clients owe nothing.
FairSpec ==
  Spec /\ (\A s \in Server : WF_vars(server(s))) /\ WF_vars(destroy_woken)

-----------------------------------------------------------------------------
Live == {s \in Server : pc[s] # "none"}

\* counter is the number of server threads there are, although they end on
\* three paths and a failed pthread_create adds none; it stays within the limit.
CounterExact == counter = Cardinality(Live) /\ counter <= parallelism

\* An element is in one place: waiting in the queue, or with one server.
ItemsOnce ==
  \A i \in Item :
    Cardinality({n \in DOMAIN queue : queue[n] = i})
      + Cardinality({s \in Server : job[s] = i})
      = IF item[i] \in {"queued", "running"} THEN 1 ELSE 0

\* While there is work there is a server, however a timeout or the rundown
\* races with workq_add.  Work is left to nobody only when the wait of the last
\* server, or the creation of the first, has failed, and, as the comment in
\* workq_server says, only until an element is added and a server created.
NoOrphan == queue # <<>> => Live # {} \/ deserted

\* When workq_destroy returns no server is left and, but for that, everything
\* is done.
DestroyedClean == destroy = "done" => Live = {} /\ (queue = <<>> \/ deserted)

\* Every element that was added is processed unless such an error has left the
\* queue to nobody.  Nobody wakes an idle server: its timeout does.
Served == \A i \in Item : item[i] = "queued" ~> (item[i] = "done" \/ deserted)

\* workq_destroy returns, although idle servers and their destroyer sleep on
\* one condition variable and workq_destroy wakes nobody.  The last server does
\* not wake it when its own wait fails.
DestroyReturns == destroy = "wait" ~> (destroy = "done" \/ deserted)
=============================================================================
