--------------------------- MODULE WorkQueueProofs ---------------------------
(***************************************************************************)
(* The work queue counts its servers, leaves no work without one and is      *)
(* destroyed only when all is done, for any number of servers, elements and  *)
(* any parallelism.                                                          *)
(***************************************************************************)
EXTENDS WorkQueue, FiniteSetTheorems, SequenceTheorems, TLAPS

Shape ==
  /\ queue \in Seq(Item)
  /\ pc \in [Server -> {"none", "start", "wait", "back", "engine"}]
  /\ deserted \in BOOLEAN
  /\ destroy \in {"no", "wait", "done"}
  /\ \A s \in Server : s \in cv => pc[s] = "wait"

\* NoOrphan carries DestroyedClean: when workq_destroy finds counter = 0 there
\* is no server, so there is no work either.
IInv == Shape /\ CounterExact /\ NoOrphan /\ DestroyedClean

-----------------------------------------------------------------------------
\* The servers are finitely many; there is none when their number is 0.
LEMMA LiveFinite ==
  /\ IsFiniteSet(Live) /\ Cardinality(Live) \in Nat
  /\ Cardinality(Live) = 0 <=> Live = {}
<1>1. Live \subseteq Server
  BY DEF Live
<1>2. IsFiniteSet(Live)
  BY <1>1, WorkQueueConstants, FS_Subset
<1> QED
  BY <1>2, FS_CardinalityType, FS_EmptySet

\* parallelism lets at least one server be created.
LEMMA ParallelismPositive == parallelism \in Nat \ {0}
  BY WorkQueueConstants, FS_CardinalityType

\* A step in which no server starts or ends and no work is added.
LEMMA QuietIInv ==
  ASSUME IInv, Shape', UNCHANGED <<counter, deserted>>, Live' = Live,
         queue = <<>> => queue' = <<>>, destroy' = destroy
  PROVE  IInv'
  BY DEF IInv, CounterExact, NoOrphan, DestroyedClean

\* workq_add: either a server is created, or there are as many as allowed, or
\* pthread_create fails.
LEMMA AddIInv ==
  ASSUME IInv, NEW i \in Item, Add(i)
  PROVE  IInv'
<1> USE DEF IInv, Shape
<1>1. CASE workq_add_check(i)
  BY <1>1, QuietIInv DEF workq_add_check, srvVars, Live
<1>2. CASE workq_add(i)
  <2>1. /\ destroy # "done" /\ destroy' = destroy /\ cv' = cv
        /\ queue' \in Seq(Item)
    BY <1>2 DEF workq_add, Enqueue
  <2>2. CASE MayCreate
    <3>1. PICK s \in Server : pc[s] = "none" /\ pc' = [pc EXCEPT ![s] = "start"]
      BY <1>2, <2>2 DEF workq_add
    <3>2. s \notin Live /\ Live' = Live \cup {s}
      BY <3>1 DEF Live
    <3>3. Cardinality(Live') = Cardinality(Live) + 1
      BY <3>2, LiveFinite, FS_AddElement
    <3>4. counter' = counter + 1 /\ deserted' = FALSE
      BY <1>2, <2>2 DEF workq_add
    <3>5. CounterExact'
      BY <2>2, <3>3, <3>4, LiveFinite, ParallelismPositive DEF CounterExact, MayCreate
    <3>6. Shape' /\ NoOrphan' /\ DestroyedClean'
      BY <2>1, <3>1, <3>2, <3>4 DEF NoOrphan, DestroyedClean
    <3> QED
      BY <3>5, <3>6
  <2>3. CASE ~MayCreate
    <3>1. counter' = counter /\ Live' = Live /\ pc' = pc /\ deserted' = deserted
      BY <1>2, <2>3 DEF workq_add, srvVars, Live
    <3>2. Live # {}
      BY <2>3, LiveFinite, ParallelismPositive DEF MayCreate, CounterExact
    <3> QED
      BY <2>1, <3>1, <3>2 DEF CounterExact, NoOrphan, DestroyedClean
  <2> QED
    BY <2>2, <2>3
<1>3. CASE add_create_fails(i)
  <2>1. /\ deserted' = (deserted \/ counter = 0) /\ destroy # "done" /\ destroy' = destroy
        /\ counter' = counter /\ pc' = pc /\ queue' \in Seq(Item) /\ cv' = cv
    BY <1>3 DEF add_create_fails, Enqueue, srvVars
  <2>2. Live' = Live /\ (counter # 0 => Live # {})
    BY <2>1, LiveFinite DEF CounterExact, Live
  <2>3. NoOrphan'
    BY <2>1, <2>2 DEF NoOrphan
  <2> QED
    BY <2>1, <2>2, <2>3 DEF CounterExact, DestroyedClean
<1> QED
  BY <1>1, <1>2, <1>3 DEF Add

\* A server that ends is uncounted, and has seen the queue empty, unless its
\* wait has failed and there is a note of it.
LEMMA ExitIInv ==
  ASSUME IInv, NEW s \in Server, pc[s] # "none", pc' = [pc EXCEPT ![s] = "none"],
         s \notin cv', cv' \subseteq cv, counter' = counter - 1,
         \/ queue = <<>> /\ deserted' = deserted
         \/ deserted' = (deserted \/ counter = 1),
         UNCHANGED <<queue, destroy>>
  PROVE  IInv'
<1> USE DEF IInv, Shape
<1>1. s \in Live /\ Live' = Live \ {s}
  BY DEF Live
<1>2. Cardinality(Live') = Cardinality(Live) - 1
  BY <1>1, LiveFinite, FS_RemoveElement
<1>3. CounterExact'
  BY <1>2, LiveFinite, ParallelismPositive DEF CounterExact
<1>4. counter # 1 => Live' # {}
  <2>1. counter # 1 => Cardinality(Live') # 0
    BY <1>2, LiveFinite DEF CounterExact
  <2> QED
    BY <2>1, FS_EmptySet
<1>5. NoOrphan'
  BY <1>4 DEF NoOrphan
<1>6. Shape' /\ DestroyedClean'
  BY <1>1 DEF DestroyedClean
<1> QED
  BY <1>3, <1>5, <1>6

LEMMA ServerIInv ==
  ASSUME IInv, NEW s \in Server, server(s)
  PROVE  IInv'
<1>1. CASE server_wait(s)
  BY <1>1, QuietIInv DEF server_wait, pthread_cond_wait, At, IInv, Shape, Live
<1>2. CASE server_take(s)
  <2>1. Live' = Live
    BY <1>2 DEF server_take, At, IInv, Shape, Live
  <2>2. Shape'
    <3>1. /\ pc' = [pc EXCEPT ![s] = "engine"] /\ queue' = Tail(queue) /\ queue # <<>>
          /\ UNCHANGED <<cv, destroy, deserted>> /\ s \notin cv
      BY <1>2 DEF server_take, At
    <3> QED
      BY <3>1 DEF IInv, Shape
  <2> QED
    BY <1>2, <2>1, <2>2, QuietIInv DEF server_take
<1>3. CASE server_engine(s)
  BY <1>3, QuietIInv DEF server_engine, IInv, Shape, Live
<1>4. CASE server_timeout(s)
  BY <1>4, QuietIInv DEF server_timeout, IInv, Shape, Live
<1>5. CASE server_quit(s)
  BY <1>5, ExitIInv DEF server_quit, At, Exit, pthread_cond_broadcast
<1>6. CASE server_expire(s)
  BY <1>6, ExitIInv DEF server_expire, At, Exit
<1>7. CASE server_wait_fails(s)
  <2>1. pc[s] # "none"
    BY <1>7 DEF server_wait_fails, IInv, Shape
  <2> QED
    BY <1>7, <2>1, ExitIInv DEF server_wait_fails
<1> QED
  BY <1>1, <1>2, <1>3, <1>4, <1>5, <1>6, <1>7 DEF server

\* workq_destroy is done only when it has seen counter = 0.
LEMMA DestroyIInv ==
  ASSUME IInv, UNCHANGED <<counter, queue, pc, deserted>>,
         destroy' \in {"no", "wait", "done"},
         destroy' = "done" => counter <= 0 \/ destroy = "done",
         cv' \subseteq cv \cup {destroyer}
  PROVE  IInv'
<1>1. Live' = Live
  BY DEF Live
<1>2. counter <= 0 => Live = {}
  BY LiveFinite DEF IInv, CounterExact
<1>3. Shape' /\ CounterExact' /\ NoOrphan'
  BY <1>1, WorkQueueConstants DEF IInv, Shape, CounterExact, NoOrphan
<1>4. DestroyedClean'
  BY <1>1, <1>2 DEF IInv, NoOrphan, DestroyedClean
<1> QED
  BY <1>3, <1>4 DEF IInv

LEMMA InitIInv == Init => IInv
<1> SUFFICES ASSUME Init PROVE IInv
  OBVIOUS
<1>1. Live = {}
  BY DEF Init, Live
<1>2. counter = 0 /\ queue = <<>> /\ destroy = "no"
  BY DEF Init
<1>3. Shape
  <2>1. pc \in [Server -> {"none", "start", "wait", "back", "engine"}]
    BY DEF Init
  <2>2. queue \in Seq(Item)
    BY <1>2
  <2>3. deserted \in BOOLEAN /\ cv = {}
    BY DEF Init
  <2> QED
    BY <1>2, <2>1, <2>2, <2>3 DEF Shape
<1> QED
  BY <1>1, <1>2, <1>3, LiveFinite, ParallelismPositive DEF IInv, CounterExact, NoOrphan, DestroyedClean

LEMMA NextIInv == IInv /\ [Next]_vars => IInv'
<1> SUFFICES ASSUME IInv, [Next]_vars PROVE IInv'
  OBVIOUS
<1>0. /\ counter \in Nat /\ destroy \in {"no", "wait", "done"}
  BY LiveFinite DEF IInv, CounterExact, Shape
<1>1. CASE \E i \in Item : Add(i)
  BY <1>1, AddIInv
<1>2. CASE \E s \in Server : server(s)
  BY <1>2, ServerIInv
<1>3. CASE workq_destroy
  BY <1>0, <1>3, DestroyIInv DEF workq_destroy, pthread_cond_wait, srvVars
<1>4. CASE destroy_woken
  BY <1>0, <1>4, DestroyIInv DEF destroy_woken, pthread_cond_wait, srvVars
<1>5. CASE Spurious
  BY <1>0, <1>5, DestroyIInv DEF Spurious, spurious_wakeup, srvVars
<1>6. CASE Finished \/ UNCHANGED vars
  BY <1>0, <1>6, DestroyIInv DEF Finished, vars, srvVars
<1> QED
  BY <1>1, <1>2, <1>3, <1>4, <1>5, <1>6 DEF Next

LEMMA SpecIInv == Spec => []IInv
  BY InitIInv, NextIInv, PTL DEF Spec

\* In every execution of workq.c counter is the number of server threads, and
\* there are never more than parallelism.
THEOREM ServersCounted == Spec => []CounterExact
<1>1. IInv => CounterExact
  BY DEF IInv
<1> QED
  BY <1>1, SpecIInv, PTL

\* There is a server whenever there is work: no timeout and no rundown lets the
\* last one slip away.  Only an error can: the wait of the last server fails
\* (workq_server then returns without a look at the queue), or the creation of
\* the first does; and then only until workq_add creates a server.
THEOREM WorkHasServer == Spec => []NoOrphan
<1>1. IInv => NoOrphan
  BY DEF IInv
<1> QED
  BY <1>1, SpecIInv, PTL

\* When workq_destroy returns, no server is left, and no work unless such an
\* error has left it to nobody.
THEOREM DestroyLeavesNothing == Spec => []DestroyedClean
<1>1. IInv => DestroyedClean
  BY DEF IInv
<1> QED
  BY <1>1, SpecIInv, PTL

-----------------------------------------------------------------------------
\* Where the elements are.
In(q, i) == \E n \in DOMAIN q : q[n] = i

Once(q) == \A m, n \in DOMAIN q : m # n => q[m] # q[n]

\* An element is in the queue while it is queued and with a server while it
\* runs; a server has one exactly while it is in the engine.
Placed ==
  /\ item \in [Item -> {"new", "checked", "refused", "queued", "running", "done"}]
  /\ job \in [Server -> Item \cup {NULL}]
  /\ Once(queue)
  /\ \A i \in Item : In(queue, i) <=> item[i] = "queued"
  /\ \A s \in Server : /\ pc[s] = "engine" <=> job[s] # NULL
                       /\ job[s] # NULL => item[job[s]] = "running"
  /\ \A s, t \in Server : s # t /\ job[s] = job[t] => job[s] = NULL
  /\ \A i \in Item : item[i] = "running" => \E s \in Server : job[s] = i

\* Sequences of elements.
LEMMA AppendKeeps ==
  ASSUME NEW q \in Seq(Item), NEW r \in Item
  PROVE  /\ Append(q, r) \in Seq(Item) 
         /\ \A p : In(Append(q, r), p) <=> In(q, p) \/ p = r
         /\ Once(q) /\ ~In(q, r) => Once(Append(q, r))
  <1> DEFINE k == Append(q, r)
             n == Len(q)
  <1>1. /\ k \in Seq(Item) /\ n \in Nat
        /\ DOMAIN q = 1 .. n /\ DOMAIN k = 1 .. n + 1 /\ Len(k) = n + 1
        /\ \A i \in 1 .. n : k[i] = q[i]
        /\ k[n + 1] = r
    <2>1. n \in Nat /\ DOMAIN q = 1 .. n
      BY LenProperties
    <2>2. /\ k \in Seq(Item) /\ Len(k) = n + 1 /\ k[n + 1] = r
          /\ \A i \in 1 .. n : k[i] = q[i]
      BY AppendProperties
    <2>3. DOMAIN k = 1 .. n + 1
      BY <2>2, LenProperties
    <2> QED
      BY <2>1, <2>2, <2>3
  <1> HIDE DEF k, n
  <1>2. /\ \A i \in 1 .. n + 1 : i \in 1 .. n \/ i = n + 1
        /\ \A i \in 1 .. n : i \in 1 .. n + 1
        /\ n + 1 \in 1 .. n + 1
    BY <1>1
  <1>3. \A p : In(k, p) <=> In(q, p) \/ p = r
    BY <1>1, <1>2 DEF In
  <1>4. Once(q) /\ ~In(q, r) => Once(k)
    BY <1>1, <1>2 DEF Once, In
  <1> QED
    BY <1>1, <1>3, <1>4 DEF k, n

LEMMA TailKeeps ==
  ASSUME NEW q \in Seq(Item), q # <<>>
  PROVE  /\ Head(q) \in Item /\ Tail(q) \in Seq(Item)
         /\ In(q, Head(q))
         /\ Once(q) => /\ Once(Tail(q))
                       /\ \A p : In(Tail(q), p) <=> In(q, p) /\ p # Head(q)
  <1> DEFINE t == Tail(q)
             n == Len(q)
  <1>1. /\ Head(q) = q[1] /\ q[1] \in Item /\ t \in Seq(Item)
        /\ n \in Nat /\ 1 <= n /\ Len(t) = n - 1
        /\ DOMAIN q = 1 .. n /\ DOMAIN t = 1 .. n - 1
    <2>1. n \in Nat /\ 1 <= n /\ DOMAIN q = 1 .. n
      BY LenProperties, EmptySeq
    <2>2. t \in Seq(Item) /\ Len(t) = n - 1
      BY HeadTailProperties
    <2>3. DOMAIN t = 1 .. n - 1
      BY <2>2, LenProperties
    <2>4. Head(q) = q[1] /\ q[1] \in Item
      BY <2>1
    <2> QED
      BY <2>1, <2>2, <2>3, <2>4
  <1>2. \A i \in 1 .. n - 1 : t[i] = q[i + 1]
    BY <1>1, HeadTailProperties
  <1> HIDE DEF t, n
  <1>3. /\ \A i \in 1 .. n - 1 : i + 1 \in 1 .. n /\ i + 1 # 1
        /\ \A i, j \in 1 .. n - 1 : i # j => i + 1 # j + 1
        /\ \A i \in 1 .. n : i = 1 \/ (i - 1 \in 1 .. n - 1 /\ (i - 1) + 1 = i)
        /\ 1 \in 1 .. n /\ n >= 1
    BY <1>1
  <1>4. ASSUME Once(q)
        PROVE  Once(t) /\ \A p : In(t, p) <=> In(q, p) /\ p # q[1]
    <2>1. \A x, y \in 1 .. n : x # y => q[x] # q[y]
      BY <1>1, <1>4 DEF Once
    <2>2. \A i, j \in 1 .. n - 1 : i # j => t[i] # t[j]
      BY <1>2, <1>3, <2>1
    <2>3. Once(t)
      BY <1>1, <2>2 DEF Once
    <2>4. \A p : In(t, p) <=> \E i \in 1 .. n - 1 : q[i + 1] = p
      BY <1>1, <1>2 DEF In
    <2>5. \A p : In(t, p) => In(q, p) /\ p # q[1]
      BY <1>1, <1>3, <2>1, <2>4 DEF In
    <2>6. ASSUME NEW p, In(q, p), p # q[1]
          PROVE  In(t, p)
      <3>1. PICK i \in 1 .. n : q[i] = p
        BY <1>1, <2>6 DEF In
      <3>2. i - 1 \in 1 .. n - 1 /\ q[(i - 1) + 1] = p
        BY <1>3, <2>6, <3>1
      <3> QED
        BY <2>4, <3>2
    <2> QED
      BY <2>3, <2>5, <2>6
  <1>5. In(q, q[1])
    BY <1>1, <1>3 DEF In
  <1> QED
    BY <1>1, <1>3, <1>4, <1>5 DEF t, n


LEMMA InitPlaced == Init => Placed
  BY WorkQueueConstants DEF Init, Placed, In, Once

\* An element that is neither queued nor running stays so.
LEMMA CheckPlaced ==
  ASSUME IInv, Placed, NEW i \in Item, workq_add_check(i)
  PROVE  Placed'
  <1>1. /\ item[i] = "new" /\ queue' = queue /\ pc' = pc /\ job' = job
        /\ \E w \in {"checked", "refused"} : item' = [item EXCEPT ![i] = w]
    BY DEF workq_add_check, srvVars, Move
  <1>2. \A j : In(queue, j)' <=> In(queue, j)
    BY <1>1 DEF In
  <1>3. Once(queue)'
    BY <1>1 DEF Placed, Once
  <1>4. /\ item' \in [Item -> {"new", "checked", "refused", "queued", "running", "done"}]
        /\ \A j \in Item : (item'[j] = "queued" <=> item[j] = "queued")
                           /\ (item'[j] = "running" <=> item[j] = "running")
    BY <1>1 DEF Placed
  <1>5. \A s \in Server : job[s] # NULL => job[s] \in Item
    BY DEF Placed
  <1> QED
    BY <1>1, <1>2, <1>3, <1>4, <1>5 DEF Placed

\* It goes to the end of the queue.
LEMMA AddPlaced ==
  ASSUME IInv, Placed, NEW i \in Item, workq_add(i) \/ add_create_fails(i)
  PROVE  Placed'
  <1>1. /\ item[i] = "checked" /\ queue' = Append(queue, i)
        /\ item' = [item EXCEPT ![i] = "queued"] /\ job' = job
    BY DEF workq_add, add_create_fails, Enqueue, Move, srvVars
  <1>2. \A s \in Server : pc'[s] = "engine" <=> pc[s] = "engine"
    BY DEF workq_add, add_create_fails, srvVars, IInv, Shape
  <1>3. Once(queue') /\ \A j : In(queue', j) <=> In(queue, j) \/ j = i
    BY <1>1, AppendKeeps DEF IInv, Shape, Placed
  <1>4. Once(queue)' /\ \A j : In(queue, j)' <=> In(queue, j) \/ j = i
    BY <1>3 DEF Once, In
  <1>5. /\ item' \in [Item -> {"new", "checked", "refused", "queued", "running", "done"}]
        /\ item'[i] = "queued" /\ \A j \in Item : j # i => item'[j] = item[j]
    BY <1>1 DEF Placed
  <1>6. \A s \in Server : job[s] # NULL => job[s] \in Item
    BY DEF Placed
  <1> QED
    BY <1>1, <1>2, <1>4, <1>5, <1>6 DEF Placed

\* A server takes the first.
LEMMA TakePlaced ==
  ASSUME IInv, Placed, NEW s \in Server, server_take(s)
  PROVE  Placed'
  <1>1. PICK i \in Item : i = Head(queue)
    BY TailKeeps DEF server_take, IInv, Shape
  <1>2. /\ pc[s] \in {"start", "wait", "back"} /\ queue # <<>> /\ queue' = Tail(queue)
        /\ job' = [job EXCEPT ![s] = i] /\ item' = [item EXCEPT ![i] = "running"]
        /\ pc' = [pc EXCEPT ![s] = "engine"]
    BY <1>1 DEF server_take, At, Move
  <1>3. Once(queue') /\ In(queue, i) /\ \A j : In(queue', j) <=> In(queue, j) /\ j # i
    BY <1>1, <1>2, TailKeeps DEF IInv, Shape, Placed
  <1>4. Once(queue)' /\ \A j : In(queue, j)' <=> In(queue, j) /\ j # i
    BY <1>3 DEF Once, In
  <1>5. job[s] = NULL /\ item[i] = "queued"
    BY <1>2, <1>3 DEF Placed
  <1>6. /\ item' \in [Item -> {"new", "checked", "refused", "queued", "running", "done"}]
        /\ item'[i] = "running" /\ \A j \in Item : j # i => item'[j] = item[j]
    BY <1>2 DEF Placed
  <1>7. /\ job' \in [Server -> Item \cup {NULL}]
        /\ job'[s] = i /\ pc'[s] = "engine"
        /\ \A t \in Server : t # s => job'[t] = job[t] /\ pc'[t] = pc[t]
    BY <1>2 DEF Placed, IInv, Shape
  <1>8. i # NULL /\ \A t \in Server : job[t] # i /\ (job[t] # NULL => job[t] \in Item)
    BY <1>5, WorkQueueConstants DEF Placed
  <1>9. \A t \in Server : /\ pc'[t] = "engine" <=> job'[t] # NULL
                          /\ job'[t] # NULL => item'[job'[t]] = "running"
    BY <1>6, <1>7, <1>8 DEF Placed
  <1>10. \A t, u \in Server : t # u /\ job'[t] = job'[u] => job'[t] = NULL
    BY <1>7, <1>8 DEF Placed
  <1>11. \A j \in Item : item'[j] = "running" => \E t \in Server : job'[t] = j
    <2> SUFFICES ASSUME NEW j \in Item, item'[j] = "running", j # i
                 PROVE  \E t \in Server : job'[t] = j
      BY <1>7
    <2>1. PICK t \in Server : job[t] = j
      BY <1>6 DEF Placed
    <2>2. t # s
      BY <1>5, <2>1, WorkQueueConstants
    <2> QED
      BY <1>7, <2>1, <2>2
  <1>12. \A j \in Item : In(queue, j)' <=> item'[j] = "queued"
    BY <1>4, <1>6 DEF Placed
  <1> QED
    BY <1>4, <1>6, <1>7, <1>9, <1>10, <1>11, <1>12 DEF Placed

\* The engine has done it.
LEMMA EnginePlaced ==
  ASSUME IInv, Placed, NEW s \in Server, server_engine(s)
  PROVE  Placed'
  <1>1. PICK i \in Item : i = job[s]
    BY DEF server_engine, Placed
  <1>2. /\ pc[s] = "engine" /\ queue' = queue
        /\ job' = [job EXCEPT ![s] = NULL] /\ item' = [item EXCEPT ![i] = "done"]
        /\ pc' = [pc EXCEPT ![s] = "back"]
    BY <1>1 DEF server_engine, Move
  <1>3. Once(queue)' /\ \A j : In(queue, j)' <=> In(queue, j)
    BY <1>2 DEF Placed, Once, In
  <1>4. item[i] = "running" /\ i # NULL
    BY <1>1, WorkQueueConstants DEF Placed
  <1>5. /\ item' \in [Item -> {"new", "checked", "refused", "queued", "running", "done"}]
        /\ item'[i] = "done" /\ \A j \in Item : j # i => item'[j] = item[j]
    BY <1>2 DEF Placed
  <1>6. /\ job' \in [Server -> Item \cup {NULL}]
        /\ job'[s] = NULL /\ pc'[s] = "back"
        /\ \A t \in Server : t # s => job'[t] = job[t] /\ pc'[t] = pc[t]
    BY <1>2 DEF Placed, IInv, Shape
  <1>7. \A t \in Server : (t # s => job[t] # i) /\ (job[t] # NULL => job[t] \in Item)
    BY <1>1, <1>4 DEF Placed
  <1>8. \A t \in Server : /\ pc'[t] = "engine" <=> job'[t] # NULL
                          /\ job'[t] # NULL => item'[job'[t]] = "running"
    BY <1>5, <1>6, <1>7 DEF Placed
  <1>9. \A t, u \in Server : t # u /\ job'[t] = job'[u] => job'[t] = NULL
    BY <1>6 DEF Placed
  <1>10. \A j \in Item : item'[j] = "running" => \E t \in Server : job'[t] = j
    BY <1>1, <1>5, <1>6 DEF Placed
  <1>11. \A j \in Item : In(queue, j)' <=> item'[j] = "queued"
    BY <1>3, <1>4, <1>5 DEF Placed
  <1> QED
    BY <1>3, <1>5, <1>6, <1>8, <1>9, <1>10, <1>11 DEF Placed

\* The other steps move no element.
LEMMA OtherPlaced ==
  ASSUME IInv, Placed, queue' = queue, item' = item, job' = job,
         \A s \in Server : pc'[s] = "engine" <=> pc[s] = "engine"
  PROVE  Placed'
  <1>1. Once(queue)' /\ \A j : In(queue, j)' <=> In(queue, j)
    BY DEF Placed, Once, In
  <1> QED
    BY <1>1 DEF Placed

LEMMA NextPlaced == IInv /\ Placed /\ [Next]_vars => Placed'
  <1> SUFFICES ASSUME IInv, Placed, [Next]_vars
               PROVE  Placed'
    OBVIOUS
  <1>1. ASSUME NEW i \in Item, Add(i) PROVE Placed'
    BY <1>1, CheckPlaced, AddPlaced DEF Add
  <1>2. ASSUME NEW s \in Server,
               \/ server_wait(s) \/ server_quit(s) \/ server_expire(s)
               \/ server_wait_fails(s)
        PROVE  Placed'
    <2>1. /\ queue' = queue /\ item' = item /\ job' = job
          /\ pc[s] \in {"start", "wait", "back"}
          /\ \E w \in {"wait", "none"} : pc' = [pc EXCEPT ![s] = w]
      BY <1>2 DEF server_wait, server_quit, server_expire, server_wait_fails, Exit, At,
                  IInv, Shape
    <2>2. \A t \in Server : pc'[t] = "engine" <=> pc[t] = "engine"
      BY <2>1 DEF IInv, Shape
    <2> QED
      BY <2>1, <2>2, OtherPlaced
  <1>3. ASSUME NEW s \in Server, server_timeout(s) PROVE Placed'
    BY <1>3, OtherPlaced DEF server_timeout
  <1>4. ASSUME workq_destroy \/ destroy_woken \/ Spurious \/ Finished \/ UNCHANGED vars
        PROVE  Placed'
    <2>1. queue' = queue /\ item' = item /\ job' = job /\ pc' = pc
      BY <1>4 DEF workq_destroy, destroy_woken, Spurious, Finished, vars, srvVars
    <2> QED
      BY <2>1, OtherPlaced
  <1> QED
    BY <1>1, <1>2, <1>3, <1>4, TakePlaced, EnginePlaced DEF Next, server

\* A set with all of one element, or none.
LEMMA CountOne ==
  ASSUME NEW T, \A x, y \in T : x = y
  PROVE  Cardinality(T) = IF T = {} THEN 0 ELSE 1
  <1>1. CASE T = {}
    BY <1>1, FS_EmptySet
  <1>2. CASE T # {}
    <2>1. PICK x \in T : T = {x}
      BY <1>2
    <2> QED
      BY <1>2, <2>1, FS_Singleton
  <1> QED
    BY <1>1, <1>2

\* No element is lost or served twice: it is in the queue once or with one
\* server, from workq_add to the return of the engine.
THEOREM ElementsOnce == Spec => []ItemsOnce
  <1>1. IInv /\ Placed => ItemsOnce
    <2> SUFFICES ASSUME IInv, Placed, NEW i \in Item
                 PROVE  Cardinality({n \in DOMAIN queue : queue[n] = i})
                          + Cardinality({s \in Server : job[s] = i})
                          = IF item[i] \in {"queued", "running"} THEN 1 ELSE 0
      BY DEF ItemsOnce
    <2> DEFINE Q == {n \in DOMAIN queue : queue[n] = i}
               J == {s \in Server : job[s] = i}
    <2>1. (\A x, y \in Q : x = y) /\ (Q # {} <=> item[i] = "queued")
      BY DEF Placed, Once, In
    <2>2. (\A x, y \in J : x = y) /\ (J # {} <=> item[i] = "running")
      BY WorkQueueConstants DEF Placed
    <2>3. Cardinality(Q) = IF item[i] = "queued" THEN 1 ELSE 0
      BY <2>1, CountOne
    <2>4. Cardinality(J) = IF item[i] = "running" THEN 1 ELSE 0
      BY <2>2, CountOne
    <2> HIDE DEF Q, J
    <2>5. Cardinality(Q) + Cardinality(J) = IF item[i] \in {"queued", "running"} THEN 1 ELSE 0
      BY <2>3, <2>4
    <2> QED
      BY <2>5 DEF Q, J
  <1> QED
    BY <1>1, SpecIInv, InitPlaced, NextPlaced, PTL DEF Spec
==============================================================================
