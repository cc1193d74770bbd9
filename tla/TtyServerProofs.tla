--------------------------- MODULE TtyServerProofs ---------------------------
(***************************************************************************)
(* The prompt server answers every synchronous request while its caller      *)
(* waits, and has done every write when main returns, for every number of    *)
(* clients, lines and writes.                                                *)
(***************************************************************************)
EXTENDS TtyServer, TLAPS, FiniteSetTheorems, SequenceTheorems

\* A write is the only request that is not waited for, and quit is main's.
Request ==
  {r \in [op : {"read", "write", "quit"}, sync : BOOLEAN, owner : Caller] :
     (r.sync <=> r.op # "write") /\ (r.owner = Main <=> r.op = "quit")}

Types ==
  /\ queue \in Seq(Request)
  /\ running \in BOOLEAN
  /\ spc \in {"none", "top", "process", "reply", "ended"}
  /\ request \in Request \cup {None}
  /\ done_flag \in [Caller -> BOOLEAN]
  /\ done \in SUBSET Caller
  /\ cpc \in [Client -> {"none", "read", "reading", "write", "leave", "gone"}]
  /\ mpc \in {"check", "create", "join", "quit", "quitting", "returned"}
  /\ count \in Nat

-----------------------------------------------------------------------------
SyncIn(q, o) == \E n \in DOMAIN q : q[n].sync /\ q[n].owner = o

\* No caller has two synchronous requests in the queue.
Distinct(q) ==
  \A m, n \in DOMAIN q : m # n /\ q[m].sync /\ q[n].sync => q[m].owner # q[n].owner

QuitLast(q) == \A n \in DOMAIN q : q[n].op = "quit" => n = Len(q)

\* What the server has before it.
Served ==
  /\ Distinct(queue) /\ QuitLast(queue)
  /\ spc \in {"process", "reply"} =>
       /\ request \in Request
       /\ request.sync => ~SyncIn(queue, request.owner)
       /\ request.op = "quit" => queue = <<>>
  /\ spc = "reply" => request.sync
  /\ spc = "ended" => queue = <<>> /\ mpc \in {"quitting", "returned"}
  /\ spc = "none" <=> ~running
  /\ spc = "none" => queue = <<>>

\* A caller waits exactly as long as the server has its request.
Calls ==
  \A o \in Caller :
    /\ Pending(o) <=> InCall(o) /\ ~done_flag[o]
    /\ o \in done => Pending(o)

Gone == {c \in Client : cpc[c] = "gone"}

\* client_threads counts the clients that have not left, the ones main has not
\* created included; main asks the server to quit when all have left.
Counts ==
  /\ client_threads = CLIENT_THREADS - Cardinality(Gone)
  /\ mpc = "create" => count < CLIENT_THREADS
  /\ \A c \in Client : c >= count => cpc[c] = "none"
  /\ mpc \in {"quit", "quitting", "returned"} => Gone = Client

Answer ==
  /\ mpc = "quitting" /\ done_flag[Main] => spc = "ended"
  /\ mpc = "returned" => spc = "ended"

IInv == Types /\ Served /\ Calls /\ Counts /\ Answer

-----------------------------------------------------------------------------
\* Sequences of requests.
LEMMA AppendKeeps ==
  ASSUME NEW q \in Seq(Request), NEW r \in Request,
         Distinct(q), r.sync => ~SyncIn(q, r.owner), ~SyncIn(q, Main)
  PROVE  /\ Append(q, r) \in Seq(Request)
         /\ Distinct(Append(q, r)) /\ QuitLast(Append(q, r))
         /\ \A o : SyncIn(Append(q, r), o) <=> SyncIn(q, o) \/ (r.sync /\ r.owner = o)
  <1> DEFINE k == Append(q, r)
             n == Len(q)
  <1>1. /\ k \in Seq(Request) /\ n \in Nat
        /\ DOMAIN q = 1 .. n /\ DOMAIN k = 1 .. n + 1 /\ Len(k) = n + 1
        /\ \A i \in 1 .. n : k[i] = q[i] /\ q[i] \in Request
        /\ k[n + 1] = r
    <2>1. n \in Nat /\ DOMAIN q = 1 .. n
      BY LenProperties
    <2>2. /\ k \in Seq(Request) /\ Len(k) = n + 1 /\ k[n + 1] = r
          /\ \A i \in 1 .. n : k[i] = q[i]
      BY AppendProperties
    <2>3. DOMAIN k = 1 .. n + 1
      BY <2>2, LenProperties
    <2> QED
      BY <2>1, <2>2, <2>3, ElementOfSeq
  <1> HIDE DEF k, n
  <1>2. \A i \in 1 .. n + 1 : i \in 1 .. n \/ i = n + 1
    BY <1>1
  <1>3. \A i \in 1 .. n : i \in 1 .. n + 1
    BY <1>1
  <1>4. n + 1 \in 1 .. n + 1
    BY <1>1
  <1>5. \A o : SyncIn(k, o) <=> SyncIn(q, o) \/ (r.sync /\ r.owner = o)
    BY <1>1, <1>2, <1>3, <1>4 DEF SyncIn
  <1>6. Distinct(k)
    BY <1>1, <1>2 DEF Distinct, SyncIn
  <1>7. QuitLast(k)
    <2>1. \A i \in 1 .. n : q[i].op # "quit"
      BY <1>1 DEF SyncIn, Request
    <2> QED
      BY <1>1, <1>2, <2>1 DEF QuitLast
  <1> QED
    BY <1>1, <1>5, <1>6, <1>7 DEF k

LEMMA TailKeeps ==
  ASSUME NEW q \in Seq(Request), q # <<>>, Distinct(q), QuitLast(q)
  PROVE  /\ Head(q) \in Request /\ Tail(q) \in Seq(Request)
         /\ Distinct(Tail(q)) /\ QuitLast(Tail(q))
         /\ Head(q).sync => ~SyncIn(Tail(q), Head(q).owner)
         /\ Head(q).op = "quit" => Tail(q) = <<>>
         /\ \A o : SyncIn(q, o) <=> SyncIn(Tail(q), o) \/ (Head(q).sync /\ Head(q).owner = o)
  <1> DEFINE t == Tail(q)
             n == Len(q)
  <1>1. /\ Head(q) = q[1] /\ q[1] \in Request /\ t \in Seq(Request)
        /\ n \in Nat /\ 1 <= n /\ Len(t) = n - 1
        /\ DOMAIN q = 1 .. n /\ DOMAIN t = 1 .. n - 1
    <2>1. n \in Nat /\ 1 <= n /\ DOMAIN q = 1 .. n
      BY LenProperties, EmptySeq
    <2>2. t \in Seq(Request) /\ Len(t) = n - 1
      BY HeadTailProperties
    <2>3. DOMAIN t = 1 .. n - 1
      BY <2>2, LenProperties
    <2>4. Head(q) = q[1] /\ q[1] \in Request
      BY <2>1
    <2> QED
      BY <2>1, <2>2, <2>3, <2>4
  <1>2. \A i \in 1 .. n - 1 : t[i] = q[i + 1]
    BY <1>1, HeadTailProperties
  <1> HIDE DEF t, n
  <1>3. /\ \A i \in 1 .. n - 1 : i + 1 \in 1 .. n /\ i + 1 # 1
        /\ \A i, j \in 1 .. n - 1 : i # j => i + 1 # j + 1
        /\ \A i \in 1 .. n : i = 1 \/ (i - 1 \in 1 .. n - 1 /\ (i - 1) + 1 = i)
        /\ \A i \in 1 .. n - 1 : i + 1 = n => i = n - 1
        /\ 1 \in 1 .. n
    BY <1>1
  <1>4. \A x, y \in 1 .. n : x # y /\ q[x].sync /\ q[y].sync => q[x].owner # q[y].owner
    BY <1>1 DEF Distinct
  <1>5. Distinct(t)
    <2>1. \A i, j \in 1 .. n - 1 : i # j /\ t[i].sync /\ t[j].sync => t[i].owner # t[j].owner
      BY <1>2, <1>3, <1>4
    <2> QED
      BY <1>1, <2>1 DEF Distinct
  <1>6. QuitLast(t)
    <2>1. \A i \in 1 .. n - 1 : t[i].op = "quit" => i + 1 = n
      BY <1>1, <1>2, <1>3 DEF QuitLast, n
    <2> QED
      BY <1>1, <1>3, <2>1 DEF QuitLast
  <1>7. \A o : SyncIn(t, o) <=> \E i \in 1 .. n - 1 : q[i + 1].sync /\ q[i + 1].owner = o
    BY <1>1, <1>2 DEF SyncIn
  <1>8. q[1].sync => ~SyncIn(t, q[1].owner)
    BY <1>3, <1>4, <1>7
  <1>9. q[1].op = "quit" => t = <<>>
    <2>1. q[1].op = "quit" => n = 1
      BY <1>1, <1>3 DEF QuitLast, n
    <2> QED
      BY <1>1, <2>1, EmptySeq
  <1>10. ASSUME NEW o
         PROVE  SyncIn(q, o) <=> SyncIn(t, o) \/ (q[1].sync /\ q[1].owner = o)
    <2>1. SyncIn(q, o) => SyncIn(t, o) \/ (q[1].sync /\ q[1].owner = o)
      <3> SUFFICES ASSUME NEW i \in 1 .. n, q[i].sync, q[i].owner = o, i # 1
                   PROVE  SyncIn(t, o)
        BY <1>1 DEF SyncIn
      <3>1. i - 1 \in 1 .. n - 1 /\ q[(i - 1) + 1] = q[i]
        BY <1>3
      <3> QED
        BY <1>7, <3>1
    <2>2. SyncIn(t, o) \/ (q[1].sync /\ q[1].owner = o) => SyncIn(q, o)
      BY <1>1, <1>3, <1>7 DEF SyncIn
    <2> QED
      BY <2>1, <2>2
  <1> QED
    BY <1>1, <1>5, <1>6, <1>8, <1>9, <1>10 DEF t

\* The callers: main is none of the clients.
LEMMA Callers ==
  /\ Main \in Caller /\ Main \notin Client /\ Client \subseteq Caller
  /\ \A o \in Caller : o = Main \/ o \in Client
  BY TtyConstants DEF Main, Caller, Client

\* Pending in terms of the queue.
LEMMA PendingIs ==
  ASSUME NEW o
  PROVE  Pending(o) <=> \/ SyncIn(queue, o)
                        \/ spc \in {"process", "reply"} /\ request.sync /\ request.owner = o
  BY DEF Pending, SyncIn

LEMMA PendingIsPrimed ==
  ASSUME NEW o
  PROVE  Pending(o)' <=> \/ SyncIn(queue', o)
                         \/ spc' \in {"process", "reply"} /\ request'.sync /\ request'.owner = o
  BY DEF Pending, SyncIn

-----------------------------------------------------------------------------
\* A caller that is not in a call adds a request; main's comes last.
LEMMA RequestKeeps ==
  ASSUME IInv, NEW o \in Caller, NEW op, NEW sync,
         [op |-> op, sync |-> sync, owner |-> o] \in Request,
         ~InCall(o), ~InCall(Main), mpc # "returned", spc # "ended",
         tty_server_request(o, op, sync),
         op = "quit" => mpc' = "quitting",
         mpc' \in {"check", "create", "join", "quit", "quitting", "returned"}
  PROVE  /\ queue' \in Seq(Request) /\ running' = TRUE
         /\ spc' \in {"top", "process", "reply"} /\ request' = request
         /\ done_flag' \in [Caller -> BOOLEAN] /\ done' \in SUBSET Caller
         /\ Served'
         /\ \A k \in Caller : k # o \/ ~sync =>
              /\ Pending(k)' <=> Pending(k)
              /\ done_flag'[k] = done_flag[k]
              /\ k \in done' <=> k \in done
         /\ sync => Pending(o)' /\ ~done_flag'[o]
  <1> DEFINE r == [op |-> op, sync |-> sync, owner |-> o]
  <1>1. r \in Request /\ r.op = op /\ r.sync = sync /\ r.owner = o /\ sync \in BOOLEAN
    BY DEF Request
  <1> HIDE DEF r
  <1>2. /\ running' = TRUE /\ spc' = IF running THEN spc ELSE "top"
        /\ queue' = Append(queue, r) /\ request' = request
        /\ done' = IF sync THEN done \cup {o} ELSE done
        /\ done_flag' = IF sync THEN [done_flag EXCEPT ![o] = FALSE] ELSE done_flag
    BY DEF tty_server_request, r
  <1>3. ~Pending(o) /\ ~Pending(Main)
    BY Callers DEF IInv, Calls
  <1>4. /\ queue' \in Seq(Request) /\ Distinct(queue') /\ QuitLast(queue')
        /\ \A k : SyncIn(queue', k) <=> SyncIn(queue, k) \/ (sync /\ o = k)
    <2>1. queue \in Seq(Request) /\ Distinct(queue) /\ ~SyncIn(queue, o) /\ ~SyncIn(queue, Main)
      BY <1>3, PendingIs DEF IInv, Types, Served
    <2> QED
      BY <1>1, <1>2, <2>1, AppendKeeps
  <1>5. /\ spc' \in {"top", "process", "reply"}
        /\ spc' \in {"process", "reply"} => spc' = spc
        /\ spc \in {"process", "reply"} => spc' = spc
    BY <1>2 DEF IInv, Types, Served
  <1>6. done_flag' \in [Caller -> BOOLEAN] /\ done' \in SUBSET Caller
    BY <1>2 DEF IInv, Types
  <1>7. \A k : Pending(k)' <=> Pending(k) \/ (sync /\ o = k)
    BY <1>2, <1>4, <1>5, PendingIs, PendingIsPrimed
  <1>8. \A k \in Caller : k # o \/ ~sync =>
              /\ done_flag'[k] = done_flag[k]
              /\ k \in done' <=> k \in done
    BY <1>2 DEF IInv, Types
  <1>9. sync => ~done_flag'[o]
    BY <1>2 DEF IInv, Types
  <1>10. Served'
    <2>1. spc' \in {"process", "reply"} =>
            /\ request \in Request
            /\ request.sync => ~SyncIn(queue', request.owner)
            /\ request.op # "quit"
      <3> SUFFICES ASSUME spc' \in {"process", "reply"}
                   PROVE  /\ request \in Request
                          /\ request.sync => ~SyncIn(queue', request.owner)
                          /\ request.op # "quit"
        OBVIOUS
      <3>1. request \in Request /\ (request.sync => ~SyncIn(queue, request.owner))
        BY <1>5 DEF IInv, Served
      <3>2. request.sync => request.owner # o /\ request.owner # Main
        BY <1>3, <1>5, PendingIs
      <3>3. request.op # "quit"
        BY <3>1, <3>2 DEF Request
      <3> QED
        BY <1>4, <3>1, <3>2, <3>3
    <2>2. spc' = "reply" => request.sync
      BY <1>5 DEF IInv, Served
    <2> QED
      BY <1>2, <1>4, <1>5, <2>1, <2>2 DEF Served, Distinct, QuitLast, SyncIn
  <1> QED
    BY <1>2, <1>4, <1>5, <1>6, <1>7, <1>8, <1>9, <1>10

\* What only moves clients and main, and none into a call or out of the count.
LEMMA CountsKept ==
  ASSUME IInv, NEW c \in Client, NEW p \in {"read", "reading", "write", "leave"},
         cpc[c] \in {"read", "reading", "write", "leave"},
         cpc' = [cpc EXCEPT ![c] = p] \/ cpc' = cpc,
         client_threads' = client_threads, mpc' = mpc, count' = count
  PROVE  /\ Gone' = Gone /\ Counts'
         /\ cpc' \in [Client -> {"none", "read", "reading", "write", "leave", "gone"}]
         /\ mpc \notin {"quit", "quitting", "returned"}
         /\ spc # "ended"
  <1>1. cpc' \in [Client -> {"none", "read", "reading", "write", "leave", "gone"}]
    BY DEF IInv, Types
  <1>2. Gone' = Gone
    BY DEF Gone, IInv, Types
  <1>3. c \notin Gone
    BY DEF Gone
  <1>4. mpc \notin {"quit", "quitting", "returned"} /\ spc # "ended"
    BY <1>3 DEF IInv, Counts, Served
  <1>5. \A d \in Client : d >= count => cpc'[d] = "none"
    BY DEF IInv, Types, Counts
  <1>6. Counts'
    BY <1>2, <1>5 DEF IInv, Counts
  <1> QED
    BY <1>1, <1>2, <1>4, <1>6

\* InCall of the others.
LEMMA InCallKept ==
  ASSUME IInv, NEW c \in Client, NEW p,
         cpc' = [cpc EXCEPT ![c] = p] \/ cpc' = cpc, mpc' = mpc
  PROVE  \A o \in Caller : o # c => (InCall(o)' <=> InCall(o))
  BY Callers DEF InCall, IInv, Types

-----------------------------------------------------------------------------
\* A client asks for a line.
LEMMA StepRead ==
  ASSUME IInv, NEW c \in Client, client_read(c)
  PROVE  IInv'
  <1>1. /\ cpc[c] = "read" /\ tty_server_request(c, "read", TRUE)
        /\ cpc' = [cpc EXCEPT ![c] = "reading"]
        /\ mpc' = mpc /\ count' = count /\ client_threads' = client_threads
    BY DEF client_read, Goto, mai
  <1>2. /\ Counts' /\ mpc \notin {"quit", "quitting", "returned"} /\ spc # "ended"
        /\ cpc' \in [Client -> {"none", "read", "reading", "write", "leave", "gone"}]
    BY <1>1, CountsKept
  <1>3. [op |-> "read", sync |-> TRUE, owner |-> c] \in Request
    BY Callers DEF Request
  <1>4. ~InCall(c) /\ ~InCall(Main) /\ c \in Caller
    BY <1>1, <1>2, Callers DEF InCall
  <1>5. /\ queue' \in Seq(Request) /\ running' = TRUE
        /\ spc' \in {"top", "process", "reply"} /\ request' = request
        /\ done_flag' \in [Caller -> BOOLEAN] /\ done' \in SUBSET Caller
        /\ Served'
        /\ \A k \in Caller : k # c =>
             /\ Pending(k)' <=> Pending(k)
             /\ done_flag'[k] = done_flag[k]
             /\ k \in done' <=> k \in done
        /\ Pending(c)' /\ ~done_flag'[c]
    BY <1>1, <1>2, <1>3, <1>4, RequestKeeps DEF IInv, Types
  <1>6. Types'
    BY <1>1, <1>2, <1>5 DEF IInv, Types
  <1>7. Calls'
    <2>1. InCall(c)'
      BY <1>1, Callers DEF InCall, IInv, Types
    <2>2. \A o \in Caller : o # c => (InCall(o)' <=> InCall(o))
      BY <1>1, InCallKept
    <2> QED
      BY <1>5, <2>1, <2>2 DEF IInv, Calls
  <1> QED
    BY <1>1, <1>2, <1>5, <1>6, <1>7 DEF IInv, Answer

\* A client has its line.
LEMMA StepLine ==
  ASSUME IInv, NEW c \in Client, client_line(c)
  PROVE  IInv'
  <1>1. PICK p \in {"write", "leave"} : cpc' = [cpc EXCEPT ![c] = p]
    BY DEF client_line, Goto
  <1>2. /\ cpc[c] = "reading" /\ c \notin done /\ done_flag[c]
        /\ queue' = queue /\ running' = running /\ spc' = spc /\ request' = request
        /\ done_flag' = done_flag /\ done' = done
        /\ mpc' = mpc /\ count' = count /\ client_threads' = client_threads
    BY DEF client_line, Answered, srv, mai
  <1>3. /\ Counts' /\ mpc \notin {"quit", "quitting", "returned"}
        /\ cpc' \in [Client -> {"none", "read", "reading", "write", "leave", "gone"}]
    BY <1>1, <1>2, CountsKept
  <1>4. \A o : Pending(o)' <=> Pending(o)
    BY <1>2 DEF Pending
  <1>5. Types' /\ Served'
    BY <1>2, <1>3 DEF IInv, Types, Served
  <1>6. Calls'
    <2>1. ~InCall(c)'
      BY <1>1, Callers DEF InCall, IInv, Types
    <2>2. \A o \in Caller : o # c => (InCall(o)' <=> InCall(o))
      BY <1>1, <1>2, InCallKept
    <2>3. ~Pending(c)
      BY <1>2, Callers DEF IInv, Calls
    <2> QED
      BY <1>2, <1>4, <2>1, <2>2, <2>3 DEF IInv, Calls
  <1> QED
    BY <1>2, <1>3, <1>5, <1>6 DEF IInv, Answer

\* A client writes a line, and does not wait, or turns to the next one.
LEMMA StepWrite ==
  ASSUME IInv, NEW c \in Client, client_write(c)
  PROVE  IInv'
  <1>1. /\ cpc[c] = "write"
        /\ cpc' = cpc \/ cpc' = [cpc EXCEPT ![c] = "read"]
        /\ mpc' = mpc /\ count' = count /\ client_threads' = client_threads
    BY DEF client_write, Goto, mai
  <1>2. /\ Counts' /\ mpc \notin {"quit", "quitting", "returned"} /\ spc # "ended"
        /\ cpc' \in [Client -> {"none", "read", "reading", "write", "leave", "gone"}]
    BY <1>1, CountsKept
  <1>3. \A o \in Caller : InCall(o)' <=> InCall(o)
    <2>1. ~InCall(c)' /\ ~InCall(c)
      BY <1>1, Callers DEF InCall, IInv, Types
    <2>2. \A o \in Caller : o # c => (InCall(o)' <=> InCall(o))
      BY <1>1, InCallKept
    <2> QED
      BY <2>1, <2>2
  <1>4. CASE tty_server_request(c, "write", FALSE)
    <2>1. [op |-> "write", sync |-> FALSE, owner |-> c] \in Request
      BY Callers DEF Request
    <2>2. ~InCall(c) /\ ~InCall(Main) /\ c \in Caller
      BY <1>1, <1>2, Callers DEF InCall
    <2>3. /\ queue' \in Seq(Request) /\ running' = TRUE
          /\ spc' \in {"top", "process", "reply"} /\ request' = request
          /\ done_flag' \in [Caller -> BOOLEAN] /\ done' \in SUBSET Caller
          /\ Served'
          /\ \A k \in Caller :
               /\ Pending(k)' <=> Pending(k)
               /\ done_flag'[k] = done_flag[k]
               /\ k \in done' <=> k \in done
      BY <1>1, <1>2, <1>4, <2>1, <2>2, RequestKeeps DEF IInv, Types
    <2>4. Types'
      BY <1>1, <1>2, <2>3 DEF IInv, Types
    <2>5. Calls'
      BY <1>3, <2>3 DEF IInv, Calls
    <2> QED
      BY <1>1, <1>2, <2>3, <2>4, <2>5 DEF IInv, Answer
  <1>5. CASE UNCHANGED srv
    <2>1. /\ queue' = queue /\ running' = running /\ spc' = spc /\ request' = request
          /\ done_flag' = done_flag /\ done' = done
      BY <1>5 DEF srv
    <2>2. \A o : Pending(o)' <=> Pending(o)
      BY <2>1 DEF Pending
    <2>3. Types' /\ Served'
      BY <1>1, <1>2, <2>1 DEF IInv, Types, Served
    <2>4. Calls'
      BY <1>3, <2>1, <2>2 DEF IInv, Calls
    <2> QED
      BY <1>1, <1>2, <2>3, <2>4 DEF IInv, Answer
  <1> QED
    BY <1>4, <1>5 DEF client_write

LEMMA ClientsFinite ==
  /\ IsFiniteSet(Client) /\ Cardinality(Client) = CLIENT_THREADS
  <1>1. CLIENT_THREADS - 1 \in Int /\ CLIENT_THREADS \in Nat \ {0}
    BY TtyConstants
  <1>2. IsFiniteSet(Client)
    BY <1>1, FS_Interval DEF Client
  <1>3. Cardinality(0 .. CLIENT_THREADS - 1) =
          IF 0 > CLIENT_THREADS - 1 THEN 0 ELSE (CLIENT_THREADS - 1) - 0 + 1
    BY <1>1, FS_Interval
  <1> QED
    BY <1>1, <1>2, <1>3 DEF Client

LEMMA GoneFinite ==
  /\ IsFiniteSet(Gone) /\ Cardinality(Gone) \in Nat
  /\ Cardinality(Gone) >= CLIENT_THREADS => Gone = Client
  <1>1. Gone \in SUBSET Client
    BY DEF Gone
  <1>2. /\ IsFiniteSet(Gone) /\ Cardinality(Gone) <= Cardinality(Client)
        /\ Cardinality(Gone) = Cardinality(Client) => Gone = Client
    BY <1>1, ClientsFinite, FS_Subset
  <1>3. Cardinality(Gone) \in Nat
    BY <1>2, FS_CardinalityType
  <1> QED
    BY <1>2, <1>3, ClientsFinite, TtyConstants

\* A client leaves.
LEMMA StepLeave ==
  ASSUME IInv, NEW c \in Client, client_leave(c)
  PROVE  IInv'
  <1>1. /\ cpc[c] = "leave" /\ cpc' = [cpc EXCEPT ![c] = "gone"]
        /\ client_threads' = client_threads - 1
        /\ queue' = queue /\ running' = running /\ spc' = spc /\ request' = request
        /\ done_flag' = done_flag /\ done' = done
        /\ mpc' = mpc /\ count' = count
    BY DEF client_leave, Goto, srv
  <1>2. Gone' = Gone \cup {c} /\ c \notin Gone
    BY <1>1 DEF Gone, IInv, Types
  <1>3. Cardinality(Gone') = Cardinality(Gone) + 1
    BY <1>2, GoneFinite, FS_AddElement
  <1>4. mpc \notin {"quit", "quitting", "returned"}
    BY <1>2 DEF IInv, Counts
  <1>5. \A d \in Client : d >= count => cpc'[d] = "none"
    BY <1>1 DEF IInv, Types, Counts
  <1>6. Counts'
    BY <1>1, <1>3, <1>4, <1>5, GoneFinite, TtyConstants DEF IInv, Counts
  <1>7. Types' /\ Served'
    BY <1>1 DEF IInv, Types, Served
  <1>8. Calls'
    <2>1. ~InCall(c)' /\ ~InCall(c)
      BY <1>1, Callers DEF InCall, IInv, Types
    <2>2. \A o \in Caller : o # c => (InCall(o)' <=> InCall(o))
      BY <1>1, InCallKept
    <2>3. \A o : Pending(o)' <=> Pending(o)
      BY <1>1 DEF Pending
    <2> QED
      BY <1>1, <2>1, <2>2, <2>3 DEF IInv, Calls
  <1> QED
    BY <1>1, <1>4, <1>6, <1>7, <1>8 DEF IInv, Answer

-----------------------------------------------------------------------------
\* main looks at its counter, creates a client, or waits for the last.
LEMMA StepCreate ==
  ASSUME IInv, main_check \/ main_create \/ main_join
  PROVE  IInv'
  <1>1. /\ queue' = queue /\ running' = running /\ spc' = spc /\ request' = request
        /\ done_flag' = done_flag /\ done' = done /\ client_threads' = client_threads
        /\ mpc \in {"check", "create", "join"} /\ mpc' \in {"check", "create", "join", "quit"}
    BY DEF main_check, main_create, main_join, srv
  <1>2. CASE main_check
    <2>1. cpc' = cpc /\ count' = count /\ (mpc' = "create" => count < client_threads) /\ mpc' # "quit"
      BY <1>2 DEF main_check, cli
    <2>2. Gone' = Gone
      BY <2>1 DEF Gone
    <2>3. count < client_threads => count < CLIENT_THREADS
      BY GoneFinite, TtyConstants DEF IInv, Types, Counts
    <2>4. Counts'
      BY <1>1, <2>1, <2>2, <2>3 DEF IInv, Counts
    <2>5. Types' /\ Served'
      BY <1>1, <2>1 DEF IInv, Types, Served
    <2>6. Calls'
      BY <1>1, <2>1 DEF IInv, Calls, Pending, InCall
    <2> QED
      BY <1>1, <2>4, <2>5, <2>6 DEF IInv, Answer
  <1>3. CASE main_create
    <2>1. /\ cpc' = [cpc EXCEPT ![count] = "read"] /\ count' = count + 1
          /\ mpc = "create" /\ mpc' = "check"
      BY <1>3 DEF main_create, Goto
    <2>2. PICK c \in Client : c = count
      BY <2>1, TtyConstants DEF IInv, Types, Counts, Client
    <2>3. c \in Nat /\ cpc[c] = "none"
      BY <2>2 DEF IInv, Types, Counts
    <2>4. Gone' = Gone
      BY <2>1, <2>2, <2>3 DEF Gone, IInv, Types
    <2>5. cpc' \in [Client -> {"none", "read", "reading", "write", "leave", "gone"}]
      BY <2>1, <2>2 DEF IInv, Types
    <2>6. \A d \in Client : d >= count + 1 => cpc'[d] = "none"
      <3> SUFFICES ASSUME NEW d \in Client, d >= count + 1
                   PROVE  cpc'[d] = "none"
        OBVIOUS
      <3>1. d # count /\ d >= count
        BY TtyConstants DEF IInv, Types, Client
      <3> QED
        BY <2>1, <2>2, <3>1 DEF IInv, Types, Counts
    <2>7. Counts'
      BY <1>1, <2>1, <2>4, <2>6 DEF IInv, Counts
    <2>8. Types' /\ Served'
      BY <1>1, <2>1, <2>5 DEF IInv, Types, Served
    <2>9. \A o \in Caller : InCall(o)' <=> InCall(o)
      BY <2>1, <2>2, <2>3, Callers DEF InCall, IInv, Types
    <2>10. Calls'
      BY <1>1, <2>9 DEF IInv, Calls, Pending
    <2> QED
      BY <2>1, <2>7, <2>8, <2>10 DEF IInv, Answer
  <1>4. CASE main_join
    <2>1. /\ cpc' = cpc /\ count' = count /\ mpc = "join"
          /\ mpc' = "join" \/ (mpc' = "quit" /\ ~(client_threads > 0))
      BY <1>4 DEF main_join, cli
    <2>2. Gone' = Gone
      BY <2>1 DEF Gone
    <2>3. ~(client_threads > 0) => Gone = Client
      BY GoneFinite, TtyConstants DEF IInv, Counts
    <2>4. Counts'
      BY <1>1, <2>1, <2>2, <2>3 DEF IInv, Counts
    <2>5. Types' /\ Served'
      BY <1>1, <2>1 DEF IInv, Types, Served
    <2>6. \A o \in Caller : InCall(o)' <=> InCall(o)
      BY <2>1 DEF InCall
    <2>7. Calls'
      BY <1>1, <2>6 DEF IInv, Calls, Pending
    <2> QED
      BY <2>1, <2>4, <2>5, <2>7 DEF IInv, Answer
  <1> QED
    BY <1>2, <1>3, <1>4

\* main tells the server to quit.
LEMMA StepQuit ==
  ASSUME IInv, main_quit
  PROVE  IInv'
  <1>1. /\ mpc = "quit" /\ mpc' = "quitting"
        /\ tty_server_request(Main, "quit", TRUE)
        /\ cpc' = cpc /\ count' = count /\ client_threads' = client_threads
    BY DEF main_quit, cli
  <1>2. [op |-> "quit", sync |-> TRUE, owner |-> Main] \in Request
    BY Callers DEF Request
  <1>3. ~InCall(Main) /\ spc # "ended"
    BY <1>1 DEF InCall, IInv, Served
  <1>4. /\ queue' \in Seq(Request) /\ running' = TRUE
        /\ spc' \in {"top", "process", "reply"} /\ request' = request
        /\ done_flag' \in [Caller -> BOOLEAN] /\ done' \in SUBSET Caller
        /\ Served'
        /\ \A k \in Caller : k # Main =>
             /\ Pending(k)' <=> Pending(k)
             /\ done_flag'[k] = done_flag[k]
             /\ k \in done' <=> k \in done
        /\ Pending(Main)' /\ ~done_flag'[Main]
    BY <1>1, <1>2, <1>3, Callers, RequestKeeps
  <1>5. Types'
    BY <1>1, <1>4 DEF IInv, Types
  <1>6. Calls'
    <2>1. InCall(Main)' /\ \A k \in Caller : k # Main => (InCall(k)' <=> InCall(k))
      BY <1>1 DEF InCall
    <2> QED
      BY <1>4, <2>1 DEF IInv, Calls
  <1>7. Counts'
    BY <1>1 DEF IInv, Counts, Gone
  <1>8. Answer'
    BY <1>1, <1>4 DEF Answer
  <1> QED
    BY <1>4, <1>5, <1>6, <1>7, <1>8 DEF IInv

\* main has its answer and returns.
LEMMA StepReturn ==
  ASSUME IInv, main_return
  PROVE  IInv'
  <1>1. /\ mpc = "quitting" /\ Main \notin done /\ done_flag[Main] /\ mpc' = "returned"
        /\ queue' = queue /\ running' = running /\ spc' = spc /\ request' = request
        /\ done_flag' = done_flag /\ done' = done
        /\ cpc' = cpc /\ count' = count /\ client_threads' = client_threads
    BY DEF main_return, Answered, srv, cli
  <1>2. Types' /\ Counts' /\ Answer'
    BY <1>1 DEF IInv, Types, Counts, Gone, Answer
  <1>3. Served'
    BY <1>1 DEF IInv, Served
  <1>4. Calls'
    <2>1. ~Pending(Main) /\ ~InCall(Main)'
      BY <1>1, Callers DEF IInv, Calls, InCall
    <2>2. \A k \in Caller : k # Main => (InCall(k)' <=> InCall(k))
      BY <1>1 DEF InCall
    <2>3. \A k : Pending(k)' <=> Pending(k)
      BY <1>1 DEF Pending
    <2> QED
      BY <1>1, <2>1, <2>2, <2>3 DEF IInv, Calls
  <1> QED
    BY <1>2, <1>3, <1>4 DEF IInv

-----------------------------------------------------------------------------
\* The server takes a request, or sleeps.
LEMMA StepTake ==
  ASSUME IInv, server_take
  PROVE  IInv'
  <1>1. /\ running' = running /\ done_flag' = done_flag /\ done' = done
        /\ cpc' = cpc /\ mpc' = mpc /\ count' = count /\ client_threads' = client_threads
        /\ spc = "top"
    BY DEF server_take, cli, mai
  <1>2. \A o \in Caller : InCall(o)' <=> InCall(o)
    BY <1>1 DEF InCall
  <1>3. Counts'
    BY <1>1 DEF IInv, Counts, Gone
  <1>4. CASE queue = <<>>
    <2>1. queue' = queue /\ spc' = spc /\ request' = request
      BY <1>4 DEF server_take
    <2>2. Types' /\ Served' /\ Answer'
      BY <1>1, <2>1 DEF IInv, Types, Served, Answer
    <2>3. Calls'
      BY <1>1, <1>2, <2>1 DEF IInv, Calls, Pending
    <2> QED
      BY <1>3, <2>2, <2>3 DEF IInv
  <1>5. CASE queue # <<>>
    <2>1. request' = Head(queue) /\ queue' = Tail(queue) /\ spc' = "process"
      BY <1>5 DEF server_take
    <2>2. /\ request' \in Request /\ queue' \in Seq(Request)
          /\ Distinct(queue') /\ QuitLast(queue')
          /\ request'.sync => ~SyncIn(queue', request'.owner)
          /\ request'.op = "quit" => queue' = <<>>
          /\ \A o : SyncIn(queue, o) <=> SyncIn(queue', o) \/ (request'.sync /\ request'.owner = o)
      BY <1>5, <2>1, TailKeeps DEF IInv, Types, Served
    <2>3. Types'
      BY <1>1, <2>1, <2>2 DEF IInv, Types
    <2>4. Served'
      BY <1>1, <2>1, <2>2 DEF IInv, Served, Distinct, QuitLast, SyncIn
    <2>5. \A o : Pending(o)' <=> Pending(o)
      BY <1>1, <2>1, <2>2, PendingIs, PendingIsPrimed
    <2>6. Calls'
      BY <1>1, <1>2, <2>5 DEF IInv, Calls
    <2>7. Answer'
      BY <1>1, <2>1 DEF IInv, Answer
    <2> QED
      BY <1>3, <2>3, <2>4, <2>6, <2>7 DEF IInv
  <1> QED
    BY <1>4, <1>5

\* It does what is asked.
LEMMA StepProcess ==
  ASSUME IInv, server_process
  PROVE  IInv'
  <1>1. /\ queue' = queue /\ running' = running /\ request' = request
        /\ done_flag' = done_flag /\ done' = done
        /\ cpc' = cpc /\ mpc' = mpc /\ count' = count /\ client_threads' = client_threads
        /\ spc = "process" /\ spc' = IF request.sync THEN "reply" ELSE AfterReply
    BY DEF server_process, mai
  <1>2. request \in Request /\ (request.sync \/ request.op = "write")
    BY <1>1 DEF IInv, Served, Request
  <1>3. spc' = IF request.sync THEN "reply" ELSE "top"
    BY <1>1, <1>2 DEF AfterReply
  <1>4. Types' /\ Counts' /\ Answer'
    BY <1>1, <1>3 DEF IInv, Types, Counts, Gone, Answer
  <1>5. Served'
    BY <1>1, <1>2, <1>3 DEF IInv, Served
  <1>6. \A o : Pending(o)' <=> Pending(o)
    BY <1>1, <1>2, <1>3 DEF Pending
  <1>7. Calls'
    BY <1>1, <1>6 DEF IInv, Calls, InCall
  <1> QED
    BY <1>4, <1>5, <1>7 DEF IInv

\* It answers.
LEMMA StepReply ==
  ASSUME IInv, server_reply
  PROVE  IInv'
  <1>1. PICK o \in Caller : o = request.owner /\ request \in Request /\ request.sync
    BY DEF server_reply, IInv, Served, Request
  <1>2. /\ queue' = queue /\ running' = running /\ request' = request
        /\ done_flag' = [done_flag EXCEPT ![o] = TRUE] /\ done' = done \ {o}
        /\ cpc' = cpc /\ mpc' = mpc /\ count' = count /\ client_threads' = client_threads
        /\ spc = "reply" /\ spc' = AfterReply
    BY <1>1 DEF server_reply, cli, mai
  <1>3. /\ o = Main => spc' = "ended" /\ queue = <<>>
        /\ o # Main => spc' = "top"
    BY <1>1, <1>2 DEF AfterReply, Request, IInv, Served
  <1>4. Pending(o) /\ ~SyncIn(queue, o)
    BY <1>1, <1>2, PendingIs DEF IInv, Served
  <1>5. InCall(o) /\ \A k \in Caller : InCall(k)' <=> InCall(k)
    BY <1>2, <1>4 DEF IInv, Calls, InCall
  <1>6. o = Main => mpc = "quitting"
    BY <1>5 DEF InCall
  <1>7. Types'
    BY <1>2, <1>3 DEF IInv, Types
  <1>8. Counts'
    BY <1>2 DEF IInv, Counts, Gone
  <1>9. Served'
    BY <1>2, <1>3, <1>6 DEF IInv, Served
  <1>10. Answer'
    <2>1. o # Main => done_flag'[Main] = done_flag[Main] /\ spc # "ended"
      BY <1>2, Callers DEF IInv, Types
    <2> QED
      BY <1>2, <1>3, <1>6, <2>1 DEF IInv, Answer
  <1>11. ~Pending(o)' /\ \A k : k # o => (Pending(k)' <=> Pending(k))
    BY <1>1, <1>2, <1>3, <1>4, PendingIs, PendingIsPrimed
  <1>12. Calls'
    <2>1. done_flag'[o] /\ o \notin done'
      BY <1>2 DEF IInv, Types
    <2>2. \A k \in Caller : k # o => done_flag'[k] = done_flag[k] /\ (k \in done' <=> k \in done)
      BY <1>2 DEF IInv, Types
    <2> QED
      BY <1>5, <1>11, <2>1, <2>2 DEF IInv, Calls
  <1> QED
    BY <1>7, <1>8, <1>9, <1>10, <1>12 DEF IInv

\* Somebody is woken for nothing, and sleeps again.
LEMMA StepWakeup ==
  ASSUME IInv, Spurious \/ \E o \in Caller : wait_again(o)
  PROVE  IInv'
  <1>1. /\ queue' = queue /\ running' = running /\ spc' = spc /\ request' = request
        /\ done_flag' = done_flag
        /\ cpc' = cpc /\ mpc' = mpc /\ count' = count /\ client_threads' = client_threads
    BY DEF Spurious, wait_again, srv, cli, mai
  <1>2. \A o \in done' : o \in done \/ (o \in Caller /\ InCall(o) /\ ~done_flag[o])
    BY Callers DEF Spurious, wait_again, srv, InCall
  <1>3. done' \in SUBSET Caller
    BY <1>2 DEF IInv, Types
  <1>4. Types' /\ Served' /\ Counts' /\ Answer'
    BY <1>1, <1>3 DEF IInv, Types, Served, Counts, Gone, Answer
  <1>5. Calls'
    BY <1>1, <1>2 DEF IInv, Calls, Pending, InCall
  <1> QED
    BY <1>4, <1>5 DEF IInv

-----------------------------------------------------------------------------
LEMMA TtyInit ==
  ASSUME Init
  PROVE  IInv
  <1>1. Types
    <2>1. queue \in Seq(Request)
      BY EmptySeq DEF Init
    <2>2. running \in BOOLEAN
      BY DEF Init
    <2> QED
      BY <2>1, <2>2 DEF Init, Types
  <1>2. Served
    BY DEF Init, Served, Distinct, QuitLast
  <1>3. Calls
    BY Callers DEF Init, Calls, Pending, InCall
  <1>4. Gone = {}
    BY DEF Init, Gone
  <1>5. Counts
    BY <1>4, FS_EmptySet, TtyConstants DEF Init, Counts
  <1>6. Answer
    BY DEF Init, Answer
  <1> QED
    BY <1>1, <1>2, <1>3, <1>5, <1>6 DEF IInv

LEMMA TtyNext ==
  ASSUME IInv, [Next]_vars
  PROVE  IInv'
  <1>1. CASE UNCHANGED vars
    <2>1. /\ queue' = queue /\ running' = running /\ spc' = spc /\ request' = request
          /\ done_flag' = done_flag /\ done' = done
          /\ cpc' = cpc /\ mpc' = mpc /\ count' = count /\ client_threads' = client_threads
      BY <1>1 DEF vars, srv, cli, mai
    <2>2. Types' /\ Served' /\ Counts' /\ Answer'
      BY <2>1 DEF IInv, Types, Served, Counts, Gone, Answer
    <2>3. Calls'
      BY <2>1 DEF IInv, Calls, Pending, InCall
    <2> QED
      BY <2>2, <2>3 DEF IInv
  <1>2. CASE tty_server_routine
    BY <1>2, StepTake, StepProcess, StepReply DEF tty_server_routine
  <1>3. CASE main
    BY <1>3, StepCreate, StepQuit, StepReturn DEF main
  <1>4. CASE \E c \in Client : client_routine(c)
    BY <1>4, StepRead, StepLine, StepWrite, StepLeave DEF client_routine
  <1>5. CASE Spurious \/ \E o \in Caller : wait_again(o)
    BY <1>5, StepWakeup
  <1> QED
    BY <1>1, <1>2, <1>3, <1>4, <1>5 DEF Next, Exited

LEMMA TtyInductive == FairSpec => []IInv
  <1>1. Init => IInv
    BY TtyInit
  <1>2. IInv /\ [Next]_vars => IInv'
    BY TtyNext
  <1> QED
    BY <1>1, <1>2, PTL DEF FairSpec

\* The server never touches a request whose caller may have freed it, and a
\* caller asleep has a request the server will answer, however many clients
\* there are.
THEOREM RequestsLive == FairSpec => []RequestLives
  <1>1. IInv => RequestLives
    BY DEF IInv, Calls, RequestLives
  <1> QED
    BY <1>1, TtyInductive, PTL

\* When main returns no request is left and the server has ended.
THEOREM WritesDone == FairSpec => []AllWritten
  <1>1. IInv => AllWritten
    BY DEF IInv, Served, Answer, AllWritten
  <1> QED
    BY <1>1, TtyInductive, PTL
=============================================================================
