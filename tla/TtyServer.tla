----------------------------- MODULE TtyServer -----------------------------
(***************************************************************************)
(* The client/server program of posix_multithread/programs_src/server.c:     *)
(* clients ask one server thread to read a line (and wait for it) and to     *)
(* write lines (and do not wait); main creates the clients, waits until they *)
(* are done and tells the server to quit.  Of a text only matters whether it *)
(* is empty.                                                                 *)
(***************************************************************************)
EXTENDS Integers, Sequences

CONSTANTS
  CLIENT_THREADS,
  WRITES,       \* the writes a client makes of each line; 4 in the source
  LINES         \* bound: the lines on stdin before its end

ASSUME TtyConstants ==
  CLIENT_THREADS \in Nat \ {0} /\ WRITES \in Nat /\ LINES \in Nat

Client == 0 .. CLIENT_THREADS - 1
Main == -1
Caller == Client \cup {Main}

VARIABLES
  queue,          \* the requests from first to last: [op, sync, owner]
  running,        \* tty_server.running
  spc, request,   \* where the server is, and the request it has
  idle,           \* it sleeps in pthread_cond_wait (request)
  done_flag,      \* of the synchronous request of a caller
  done,           \* the callers asleep on the condition of their request
  cpc, loops,     \* where a client is, and its writes so far
  string,         \* whether the line it has read is not empty
  mpc, count,     \* where main is, and its loop counter
  client_threads,
  asleep,         \* main sleeps in pthread_cond_wait (clients_done)
  lines           \* lines left on stdin

srv == <<queue, running, spc, request, idle, done_flag, done>>
cli == <<cpc, loops, string>>
mai == <<mpc, count, client_threads, asleep>>
vars == <<srv, cli, mai, lines>>

None == [op |-> "none", sync |-> FALSE, owner |-> Main]

Init ==
  /\ queue = <<>> /\ running = FALSE /\ spc = "none" /\ request = None
  /\ idle = FALSE /\ done_flag = [o \in Caller |-> FALSE] /\ done = {}
  /\ cpc = [c \in Client |-> "none"] /\ loops = [c \in Client |-> 0]
  /\ string = [c \in Client |-> FALSE]
  /\ mpc = "check" /\ count = 0 /\ client_threads = CLIENT_THREADS
  /\ asleep = FALSE /\ lines = LINES

-----------------------------------------------------------------------------
\* The first request creates the server.
tty_server_request(o, op, sync) ==
  /\ running' = TRUE
  /\ spc' = IF running THEN spc ELSE "top"
  /\ queue' = Append(queue, [op |-> op, sync |-> sync, owner |-> o])
  /\ idle' = FALSE
  /\ done' = IF sync THEN done \cup {o} ELSE done
  /\ done_flag' = IF sync THEN [done_flag EXCEPT ![o] = FALSE] ELSE done_flag
  /\ UNCHANGED request

\* A mistake: a caller that was woken does not look at done_flag.
Answered_any(o) == o \notin done

\* The end of a synchronous call: the caller was woken and finds done_flag.
Answered(o) == o \notin done /\ done_flag[o]

\* It was woken for nothing.
wait_again(o) ==
  /\ \/ o \in Client /\ cpc[o] = "reading"
     \/ o = Main /\ mpc = "quitting"
  /\ o \notin done /\ ~done_flag[o]
  /\ done' = done \cup {o}
  /\ UNCHANGED <<queue, running, spc, request, idle, done_flag, cli, mai, lines>>

server_take ==
  /\ spc = "top" /\ ~idle
  /\ IF queue = <<>>
     THEN idle' = TRUE /\ UNCHANGED <<queue, spc, request>>
     ELSE /\ request' = Head(queue) /\ queue' = Tail(queue)
          /\ spc' = "process"
          /\ UNCHANGED idle
  /\ UNCHANGED <<running, done_flag, done, cli, mai, lines>>

\* fgets has a line, or an empty one, or nothing: it stands at the end.
ReadLine(c) ==
  \/ lines > 0 /\ lines' = lines - 1 /\ string' = [string EXCEPT ![c] = TRUE]
  \/ string' = [string EXCEPT ![c] = FALSE] /\ UNCHANGED lines

\* The next place of the server after a request that is not synchronous, and
\* after the reply to one that is.
AfterReply == IF request.op = "quit" THEN "ended" ELSE "top"

server_process ==
  /\ spc = "process"
  /\ IF request.op = "read" THEN ReadLine(request.owner)
                            ELSE UNCHANGED <<lines, string>>
  /\ spc' = IF request.sync THEN "reply" ELSE AfterReply
  /\ UNCHANGED <<queue, running, request, idle, done_flag, done, cpc, loops, mai>>

server_reply ==
  /\ spc = "reply"
  /\ done_flag' = [done_flag EXCEPT ![request.owner] = TRUE]
  /\ done' = done \ {request.owner}
  /\ spc' = AfterReply
  /\ UNCHANGED <<queue, running, request, idle, cli, mai, lines>>

-----------------------------------------------------------------------------
Goto(c, p) == cpc' = [cpc EXCEPT ![c] = p]

client_read(c) ==
  /\ cpc[c] = "read"
  /\ tty_server_request(c, "read", TRUE) /\ Goto(c, "reading")
  /\ UNCHANGED <<loops, string, mai, lines>>

\* The line is there; an empty one ends the client.
client_line(c) ==
  /\ cpc[c] = "reading" /\ Answered(c)
  /\ Goto(c, IF string[c] THEN "write" ELSE "leave")
  /\ loops' = [loops EXCEPT ![c] = 0]
  /\ UNCHANGED <<srv, string, mai, lines>>

client_write(c) ==
  /\ cpc[c] = "write"
  /\ IF loops[c] < WRITES
     THEN /\ tty_server_request(c, "write", FALSE)
          /\ loops' = [loops EXCEPT ![c] = @ + 1] /\ UNCHANGED cpc
     ELSE Goto(c, "read") /\ UNCHANGED <<srv, loops>>
  /\ UNCHANGED <<string, mai, lines>>

\* A mistake: the last client does not take itself for the last.
client_leave_late(c) ==
  /\ cpc[c] = "leave" /\ Goto(c, "gone")
  /\ client_threads' = client_threads - 1
  /\ asleep' = (asleep /\ client_threads > 0)
  /\ UNCHANGED <<srv, loops, string, mpc, count, lines>>

client_leave(c) ==
  /\ cpc[c] = "leave" /\ Goto(c, "gone")
  /\ client_threads' = client_threads - 1
  /\ asleep' = (asleep /\ client_threads > 1)
  /\ UNCHANGED <<srv, loops, string, mpc, count, lines>>

-----------------------------------------------------------------------------
\* main compares count with client_threads, and holds no mutex.
main_check ==
  /\ mpc = "check"
  /\ mpc' = IF count < client_threads THEN "create" ELSE "join"
  /\ UNCHANGED <<srv, cli, count, client_threads, asleep, lines>>

main_create ==
  /\ mpc = "create" /\ mpc' = "check"
  /\ Goto(count, "read") /\ count' = count + 1
  /\ UNCHANGED <<srv, loops, string, client_threads, asleep, lines>>

main_join ==
  /\ mpc = "join" /\ ~asleep
  /\ IF client_threads > 0 THEN asleep' = TRUE /\ UNCHANGED mpc
                           ELSE mpc' = "quit" /\ UNCHANGED asleep
  /\ UNCHANGED <<srv, cli, count, client_threads, lines>>

\* A mistake: main does not wait for the server.
main_quit_async ==
  /\ mpc = "quit" /\ mpc' = "returned"
  /\ tty_server_request(Main, "quit", FALSE)
  /\ UNCHANGED <<cli, count, client_threads, asleep, lines>>

main_quit ==
  /\ mpc = "quit" /\ mpc' = "quitting"
  /\ tty_server_request(Main, "quit", TRUE)
  /\ UNCHANGED <<cli, count, client_threads, asleep, lines>>

main_return ==
  /\ mpc = "quitting" /\ Answered(Main) /\ mpc' = "returned"
  /\ UNCHANGED <<srv, cli, count, client_threads, asleep, lines>>

-----------------------------------------------------------------------------
tty_server_routine == server_take \/ server_process \/ server_reply

client_routine(c) ==
  client_read(c) \/ client_line(c) \/ client_write(c) \/ client_leave(c)

main ==
  main_check \/ main_create \/ main_join \/ main_quit \/ main_return

Spurious ==
  \/ \E o \in done :
       /\ done' = done \ {o}
       /\ UNCHANGED <<queue, running, spc, request, idle, done_flag, cli, mai, lines>>
  \/ /\ idle /\ idle' = FALSE
     /\ UNCHANGED <<queue, running, spc, request, done_flag, done, cli, mai, lines>>
  \/ /\ asleep /\ asleep' = FALSE
     /\ UNCHANGED <<srv, cli, mpc, count, client_threads, lines>>

\* main has returned, which ends the process.
Exited == mpc = "returned" /\ UNCHANGED vars

Next ==
  \/ mpc # "returned" /\ \/ tty_server_routine \/ main \/ Spurious
                         \/ \E c \in Client : client_routine(c)
                         \/ \E o \in Caller : wait_again(o)
  \/ Exited

\* Threads run when they can.
FairSpec ==
  /\ Init /\ [][Next]_vars
  /\ WF_vars(tty_server_routine) /\ WF_vars(main)
  /\ \A c \in Client : WF_vars(client_routine(c))

-----------------------------------------------------------------------------
InCall(o) == IF o = Main THEN mpc = "quitting" ELSE cpc[o] = "reading"

\* The requests the server will still touch.
Pending(o) ==
  \/ \E n \in DOMAIN queue : queue[n].sync /\ queue[n].owner = o
  \/ spc \in {"process", "reply"} /\ request.sync /\ request.owner = o

\* A synchronous request lives from the call to the reply: while the server
\* may touch it its caller has not freed it, and a caller asleep has one the
\* server will answer.
RequestLives ==
  \A o \in Caller :
    /\ Pending(o) => InCall(o) /\ ~done_flag[o]
    /\ o \in done => Pending(o)

\* When main returns, and ends the process, every write has been done.
AllWritten == mpc = "returned" => queue = <<>> /\ spc = "ended"

\* main compares its loop counter with client_threads, which clients that end
\* decrement: when one ends early fewer are created, and main waits for the
\* others in vain.
TooFew == mpc \notin {"check", "create"} /\ count < CLIENT_THREADS

\* main returns, unless that happens.
MainReturns == <>(mpc = "returned" \/ TooFew)
=============================================================================
