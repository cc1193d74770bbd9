-------------------------------- MODULE Crew --------------------------------
(***************************************************************************)
(* The work crew of posix_multithread/programs_src/crew.c: a job is a path;  *)
(* workers take paths from a queue, search files, and queue the entries of   *)
(* directories as new work.  work_count tells crew_start when all is done.   *)
(***************************************************************************)
EXTENDS Integers, Sequences, FiniteSets, PthreadCond

CONSTANTS
  Worker, Client,
  Root,         \* Root[c]: the path client c calls crew_start with
  Entries,      \* Entries[p]: the directory p without "." and ".."; {} for
                \*   what is not a directory
  Dir           \* the paths that are directories

ASSUME CrewConstants ==
  /\ IsFiniteSet(Worker) /\ Worker \cap Client = {}
  /\ Dir \subseteq DOMAIN Entries
  /\ \A p \in DOMAIN Entries :
       Entries[p] \subseteq DOMAIN Entries /\ (p \notin Dir => Entries[p] = {})

Path == DOMAIN Entries

\* A path leads to one place, since links are not followed, and no job starts
\* inside another.
ASSUME PathsForest ==
  /\ Root \in [Client -> Path]
  /\ \A p, q \in Path : p # q => Entries[p] \cap Entries[q] = {}
  /\ \A c \in Client, p \in Path : Root[c] \notin Entries[p]
  /\ \A c, d \in Client : c # d => Root[c] # Root[d]

VARIABLES
  work_count,
  queue,        \* the list from first to last
  go, done,     \* the condition variables
  pc, work,     \* where a worker is, and the path it has
  todo,         \* the entries it has still to read
  start,        \* where crew_start is for a client
  visited,      \* history: how often a path was processed
  lost,         \*   how often opendir failed
  cut           \*   a directory was not read to its end, or a path taken
                \*   for what it is not

history == <<visited, lost, cut>>
wrkVars == <<pc, work, todo, history>>
vars == <<work_count, queue, go, done, wrkVars, start>>

Init ==
  /\ work_count = 0 /\ queue = <<>> /\ go = {} /\ done = {}
  /\ pc = [w \in Worker |-> "begin"]
  /\ work = [w \in Worker |-> "none"]
  /\ todo = [w \in Worker |-> {}]
  /\ start = [c \in Client |-> "no"]
  /\ visited = [p \in Path |-> 0] /\ lost = 0 /\ cut = FALSE

Goto(w, p) == pc' = [pc EXCEPT ![w] = p]

-----------------------------------------------------------------------------
\* The worker waits for the first job ...
worker_begin(w) ==
  /\ pc[w] = "begin" /\ w \notin go
  /\ IF work_count = 0 THEN pthread_cond_wait(go, w) /\ UNCHANGED pc
                       ELSE Goto(w, "top") /\ UNCHANGED go
  /\ UNCHANGED <<work_count, queue, done, work, todo, history, start>>

\* ... and then for a path.
worker_take(w) ==
  /\ pc[w] = "top" /\ w \notin go
  /\ IF queue = <<>>
     THEN pthread_cond_wait(go, w) /\ UNCHANGED <<queue, pc, work>>
     ELSE /\ queue' = Tail(queue) /\ work' = [work EXCEPT ![w] = Head(queue)]
          /\ Goto(w, "item")
          /\ UNCHANGED go
  /\ UNCHANGED <<work_count, done, todo, history, start>>

\* A directory is opened ...
worker_opendir(w) ==
  /\ pc[w] = "item" /\ work[w] \in Dir
  /\ Goto(w, "reading")
  /\ todo' = [todo EXCEPT ![w] = Entries[work[w]]]
  /\ visited' = [visited EXCEPT ![work[w]] = @ + 1]
  /\ UNCHANGED <<work_count, queue, go, done, work, lost, cut, start>>

\* ... and anything else is searched or skipped.
Pass(w) ==
  /\ pc[w] = "item"
  /\ Goto(w, "finish")
  /\ visited' = [visited EXCEPT ![work[w]] = @ + 1]
  /\ UNCHANGED <<work_count, queue, go, done, work, todo, lost, start>>

worker_search(w) == work[w] \notin Dir /\ Pass(w) /\ UNCHANGED cut

\* lstat fails.  Its status is not looked at, and the path passes for what the
\* worker's last path was.
worker_lstat_fails(w) == Pass(w) /\ cut' = TRUE

\* opendir fails, for a directory or for what passes for one; the worker turns
\* to the next path at once.
worker_opendir_fails(w) ==
  /\ pc[w] = "item"
  /\ Goto(w, "top")
  /\ lost' = lost + 1
  /\ UNCHANGED <<work_count, queue, go, done, work, todo, visited, cut, start>>

\* A mistake: an entry is queued but not counted.
worker_readdir_uncounted(w) ==
  /\ pc[w] = "reading"
  /\ \E p \in todo[w] :
       /\ queue' = Append(queue, p)
       /\ todo' = [todo EXCEPT ![w] = @ \ {p}]
  /\ UNCHANGED work_count
  /\ pthread_cond_signal(go)
  /\ UNCHANGED <<done, pc, work, history, start>>

worker_readdir(w) ==
  /\ pc[w] = "reading"
  /\ \E p \in todo[w] :
       /\ queue' = Append(queue, p)
       /\ todo' = [todo EXCEPT ![w] = @ \ {p}]
  /\ work_count' = work_count + 1
  /\ pthread_cond_signal(go)
  /\ UNCHANGED <<done, pc, work, history, start>>

\* A mistake: after an error the worker turns to the next path at once.
worker_enddir_continue(w) ==
  /\ pc[w] = "reading"
  /\ cut' = (cut \/ todo[w] # {})
  /\ Goto(w, IF todo[w] = {} THEN "finish" ELSE "top")
  /\ UNCHANGED <<work_count, queue, go, done, work, todo, visited, lost, start>>

\* The end of the directory, or before that an error of readdir_r.
worker_enddir(w) ==
  /\ pc[w] = "reading"
  /\ cut' = (cut \/ todo[w] # {})
  /\ Goto(w, "finish")
  /\ UNCHANGED <<work_count, queue, go, done, work, todo, visited, lost, start>>

\* A mistake: one of those that wait for the crew is woken.
worker_finish_signal(w) ==
  /\ pc[w] = "finish"
  /\ work_count' = work_count - 1
  /\ IF work_count <= 1 THEN pthread_cond_signal(done) /\ Goto(w, "ended")
                        ELSE UNCHANGED done /\ Goto(w, "top")
  /\ UNCHANGED <<queue, go, work, todo, history, start>>

\* The worker that finishes the last path of a job ends.
worker_finish(w) ==
  /\ pc[w] = "finish"
  /\ work_count' = work_count - 1
  /\ IF work_count <= 1 THEN pthread_cond_broadcast(done) /\ Goto(w, "ended")
                        ELSE UNCHANGED done /\ Goto(w, "top")
  /\ UNCHANGED <<queue, go, work, todo, history, start>>

-----------------------------------------------------------------------------
\* crew_start waits while the crew is busy, queues the path, and waits until
\* the crew is idle.
Submit(c) ==
  /\ queue' = Append(queue, Root[c])
  /\ work_count' = work_count + 1
  /\ pthread_cond_signal(go)
  /\ pthread_cond_wait(done, c)
  /\ start' = [start EXCEPT ![c] = "running"]

crew_start(c) ==
  /\ start[c] = "no" \/ (start[c] = "busy" /\ c \notin done)
  /\ IF work_count > 0
     THEN /\ pthread_cond_wait(done, c)
          /\ start' = [start EXCEPT ![c] = "busy"]
          /\ UNCHANGED <<work_count, queue, go>>
     ELSE Submit(c)
  /\ UNCHANGED wrkVars

start_woken(c) ==
  /\ start[c] = "running" /\ c \notin done
  /\ IF work_count > 0
     THEN pthread_cond_wait(done, c) /\ UNCHANGED start
     ELSE start' = [start EXCEPT ![c] = "returned"] /\ UNCHANGED done
  /\ UNCHANGED <<work_count, queue, go, wrkVars>>

-----------------------------------------------------------------------------
worker_routine(w) ==
  \/ worker_begin(w) \/ worker_take(w)
  \/ worker_opendir(w) \/ worker_search(w)
  \/ worker_lstat_fails(w) \/ worker_opendir_fails(w)
  \/ worker_readdir(w) \/ worker_enddir(w) \/ worker_finish(w)

Spurious ==
  \/ spurious_wakeup(go) /\ UNCHANGED <<work_count, queue, done, wrkVars, start>>
  \/ spurious_wakeup(done) /\ UNCHANGED <<work_count, queue, go, wrkVars, start>>

client(c) == crew_start(c) \/ start_woken(c)

\* main has returned, which ends the workers too.
Finished == (\A c \in Client : start[c] = "returned") /\ UNCHANGED vars

Next ==
  \/ (\E w \in Worker : worker_routine(w)) \/ (\E c \in Client : client(c))
  \/ Spurious \/ Finished

\* Threads run when they can.
FairSpec ==
  /\ Init /\ [][Next]_vars
  /\ \A w \in Worker : WF_vars(worker_routine(w))
  /\ \A c \in Client : WF_vars(client(c))

-----------------------------------------------------------------------------
\* A set of paths with all that is in its directories.
Closed(S) == \A p \in S : Entries[p] \subseteq S

\* p and the tree under it.
Below(p) ==
  {q \in Path : \A S \in SUBSET Path : p \in S /\ Closed(S) => q \in S}

Busy == {w \in Worker : pc[w] \in {"item", "reading", "finish"}}

\* work_count is the number of paths queued and in the hands of workers, and
\* of those opendir failed for, which nobody takes back.
CountExact == work_count = Len(queue) + Cardinality(Busy) + lost

\* When crew_start returns, every path of its job has been processed, once,
\* unless the reading of a directory was cut short or lstat failed.
StartComplete ==
  \A c \in Client : start[c] = "returned" /\ ~cut =>
    \A p \in Below(Root[c]) : visited[p] = 1

\* crew_start returns as long as opendir does not fail, and there are no more
\* jobs than workers.
StartReturns == \A c \in Client : <>(start[c] = "returned" \/ lost > 0)
=============================================================================
