------------------------------ MODULE CrewProofs ------------------------------
(***************************************************************************)
(* The work crew counts its work exactly, and crew_start returns when every  *)
(* path of its job has been processed once, for every number of workers and  *)
(* clients and every forest of paths.                                        *)
(***************************************************************************)
EXTENDS Crew, TLAPS, FiniteSetTheorems, SequenceTheorems

Types ==
  /\ work_count \in Int
  /\ queue \in Seq(Path)
  /\ pc \in [Worker -> {"begin", "top", "item", "reading", "finish", "ended"}]
  /\ work \in [Worker -> Path \cup {"none"}]
  /\ \A w \in Busy : work[w] \in Path
  /\ todo \in [Worker -> SUBSET Path]
  /\ start \in [Client -> {"no", "busy", "running", "returned"}]
  /\ visited \in [Path -> Nat]
  /\ lost \in Nat
  /\ cut \in BOOLEAN

CInv == Types /\ CountExact

-----------------------------------------------------------------------------
In(q, p) == \E n \in DOMAIN q : q[n] = p

Once(q) == \A m, n \in DOMAIN q : m # n => q[m] # q[n]

\* A worker has the path and has not processed it.
Held(p) == \E w \in Worker : pc[w] = "item" /\ work[w] = p

\* It is in no one's hands and was never processed.
Fresh(p) == ~In(queue, p) /\ ~Held(p) /\ visited[p] = 0

\* A path is in one place at most, and entries wait until their directory has
\* been opened.
Places ==
  /\ Once(queue)
  /\ \A p \in Path :
       /\ In(queue, p) => ~Held(p) /\ visited[p] = 0
       /\ Held(p) => visited[p] = 0
       /\ visited[p] \in {0, 1}
       /\ visited[p] = 0 => \A q \in Entries[p] : Fresh(q)
  /\ \A v, w \in Worker :
       v # w /\ pc[v] \in {"item", "reading"} /\ pc[w] \in {"item", "reading"}
         => work[v] # work[w]
  /\ \A w \in Worker : pc[w] = "reading" =>
       /\ visited[work[w]] = 1
       /\ todo[w] \subseteq Entries[work[w]]
       /\ \A q \in todo[w] : Fresh(q)
  /\ \A c \in Client : start[c] \in {"no", "busy"} => Fresh(Root[c])

\* Nothing has been left out: an entry of a directory that was opened is
\* queued, in a worker's hands, processed, or still to be read.
Kept ==
  lost = 0 /\ ~cut =>
    /\ \A c \in Client : start[c] \in {"running", "returned"} => ~Fresh(Root[c])
    /\ \A p \in Path : visited[p] = 1 =>
         \A q \in Entries[p] :
           \/ ~Fresh(q)
           \/ \E w \in Worker : pc[w] = "reading" /\ work[w] = p /\ q \in todo[w]

IInv == CInv /\ Places /\ Kept /\ StartComplete

-----------------------------------------------------------------------------
\* The constants.
LEMMA PathFacts ==
  /\ IsFiniteSet(Worker) /\ Dir \subseteq Path
  /\ \A p \in Path : Entries[p] \in SUBSET Path /\ (p \notin Dir => Entries[p] = {})
  /\ Root \in [Client -> Path]
  /\ \A p, q \in Path : p # q => Entries[p] \cap Entries[q] = {}
  /\ \A c \in Client, p \in Path : Root[c] \notin Entries[p]
  /\ \A c, d \in Client : c # d => Root[c] # Root[d]
  BY CrewConstants, PathsForest DEF Path

\* Sequences of paths.
LEMMA AppendKeeps ==
  ASSUME NEW q \in Seq(Path), NEW r \in Path
  PROVE  /\ Append(q, r) \in Seq(Path) /\ Len(Append(q, r)) = Len(q) + 1
         /\ \A p : In(Append(q, r), p) <=> In(q, p) \/ p = r
         /\ Once(q) /\ ~In(q, r) => Once(Append(q, r))
  <1> DEFINE k == Append(q, r)
             n == Len(q)
  <1>1. /\ k \in Seq(Path) /\ n \in Nat
        /\ DOMAIN q = 1 .. n /\ DOMAIN k = 1 .. n + 1 /\ Len(k) = n + 1
        /\ \A i \in 1 .. n : k[i] = q[i]
        /\ k[n + 1] = r
    <2>1. n \in Nat /\ DOMAIN q = 1 .. n
      BY LenProperties
    <2>2. /\ k \in Seq(Path) /\ Len(k) = n + 1 /\ k[n + 1] = r
          /\ \A i \in 1 .. n : k[i] = q[i]
      BY AppendProperties
    <2>3. DOMAIN k = 1 .. n + 1
      BY <2>2, LenProperties
    <2> QED
      BY <2>1, <2>2, <2>3
  <1> HIDE DEF k, n
  <1>2. /\ \A i \in 1 .. n + 1 : i \in 1 .. n \/ i = n + 1
        /\ \A i \in 1 .. n : i \in 1 .. n + 1
        /\ n + 1 \in 1 .. n + 1
    BY <1>1
  <1>3. \A p : In(k, p) <=> In(q, p) \/ p = r
    BY <1>1, <1>2 DEF In
  <1>4. Once(q) /\ ~In(q, r) => Once(k)
    BY <1>1, <1>2 DEF Once, In
  <1> QED
    BY <1>1, <1>3, <1>4 DEF k, n

LEMMA TailKeeps ==
  ASSUME NEW q \in Seq(Path), q # <<>>
  PROVE  /\ Head(q) \in Path /\ Tail(q) \in Seq(Path)
         /\ Len(q) \in Nat /\ Len(q) >= 1 /\ Len(Tail(q)) = Len(q) - 1
         /\ In(q, Head(q))
         /\ Once(q) => /\ Once(Tail(q))
                       /\ \A p : In(Tail(q), p) <=> In(q, p) /\ p # Head(q)
  <1> DEFINE t == Tail(q)
             n == Len(q)
  <1>1. /\ Head(q) = q[1] /\ q[1] \in Path /\ t \in Seq(Path)
        /\ n \in Nat /\ 1 <= n /\ Len(t) = n - 1
        /\ DOMAIN q = 1 .. n /\ DOMAIN t = 1 .. n - 1
    <2>1. n \in Nat /\ 1 <= n /\ DOMAIN q = 1 .. n
      BY LenProperties, EmptySeq
    <2>2. t \in Seq(Path) /\ Len(t) = n - 1
      BY HeadTailProperties
    <2>3. DOMAIN t = 1 .. n - 1
      BY <2>2, LenProperties
    <2>4. Head(q) = q[1] /\ q[1] \in Path
      BY <2>1
    <2> QED
      BY <2>1, <2>2, <2>3, <2>4
  <1>2. \A i \in 1 .. n - 1 : t[i] = q[i + 1]
    BY <1>1, HeadTailProperties
  <1> HIDE DEF t, n
  <1>3. /\ \A i \in 1 .. n - 1 : i + 1 \in 1 .. n /\ i + 1 # 1
        /\ \A i, j \in 1 .. n - 1 : i # j => i + 1 # j + 1
        /\ \A i \in 1 .. n : i = 1 \/ (i - 1 \in 1 .. n - 1 /\ (i - 1) + 1 = i)
        /\ 1 \in 1 .. n /\ n >= 1
    BY <1>1
  <1>4. ASSUME Once(q)
        PROVE  Once(t) /\ \A p : In(t, p) <=> In(q, p) /\ p # q[1]
    <2>1. \A x, y \in 1 .. n : x # y => q[x] # q[y]
      BY <1>1, <1>4 DEF Once
    <2>2. \A i, j \in 1 .. n - 1 : i # j => t[i] # t[j]
      BY <1>2, <1>3, <2>1
    <2>3. Once(t)
      BY <1>1, <2>2 DEF Once
    <2>4. \A p : In(t, p) <=> \E i \in 1 .. n - 1 : q[i + 1] = p
      BY <1>1, <1>2 DEF In
    <2>5. \A p : In(t, p) => In(q, p) /\ p # q[1]
      BY <1>1, <1>3, <2>1, <2>4 DEF In
    <2>6. ASSUME NEW p, In(q, p), p # q[1]
          PROVE  In(t, p)
      <3>1. PICK i \in 1 .. n : q[i] = p
        BY <1>1, <2>6 DEF In
      <3>2. i - 1 \in 1 .. n - 1 /\ q[(i - 1) + 1] = p
        BY <1>3, <2>6, <3>1
      <3> QED
        BY <2>4, <3>2
    <2> QED
      BY <2>3, <2>5, <2>6
  <1>5. In(q, q[1])
    BY <1>1, <1>3 DEF In
  <1> QED
    BY <1>1, <1>3, <1>4, <1>5 DEF t, n

LEMMA BusyFinite ==
  IsFiniteSet(Busy) /\ Cardinality(Busy) \in Nat
  <1>1. Busy \in SUBSET Worker
    BY DEF Busy
  <1>2. IsFiniteSet(Busy)
    BY <1>1, PathFacts, FS_Subset
  <1> QED
    BY <1>2, FS_CardinalityType

-----------------------------------------------------------------------------
\* The number of paths queued, held and lost follows work_count.
LEMMA CountTake ==
  ASSUME CInv, NEW w \in Worker, worker_take(w)
  PROVE  CInv'
  <1>1. /\ pc[w] = "top" /\ work_count' = work_count /\ todo' = todo
        /\ start' = start /\ visited' = visited /\ lost' = lost /\ cut' = cut
    BY DEF worker_take, history
  <1>2. CASE queue = <<>>
    <2>1. queue' = queue /\ pc' = pc /\ work' = work
      BY <1>2 DEF worker_take
    <2> QED
      BY <1>1, <2>1 DEF CInv, Types, CountExact, Busy
  <1>3. CASE queue # <<>>
    <2>1. PICK p \in Path : p = Head(queue)
      BY <1>3, TailKeeps DEF CInv, Types
    <2>2. /\ queue' = Tail(queue) /\ work' = [work EXCEPT ![w] = p]
          /\ pc' = [pc EXCEPT ![w] = "item"]
      BY <1>3, <2>1 DEF worker_take, Goto
    <2>3. /\ queue' \in Seq(Path) /\ Len(queue') = Len(queue) - 1 /\ Len(queue) \in Nat
      BY <1>3, <2>2, TailKeeps DEF CInv, Types
    <2>4. Busy' = Busy \cup {w} /\ w \notin Busy
      BY <1>1, <2>2 DEF Busy, CInv, Types
    <2>5. Cardinality(Busy') = Cardinality(Busy) + 1
      BY <2>4, BusyFinite, FS_AddElement
    <2>6. \A v \in Busy' : work'[v] \in Path
      BY <2>2, <2>4 DEF CInv, Types, Busy
    <2>7. Types'
      BY <1>1, <2>2, <2>3, <2>6 DEF CInv, Types
    <2>8. CountExact'
      BY <1>1, <2>3, <2>5, BusyFinite DEF CInv, Types, CountExact
    <2> QED
      BY <2>7, <2>8 DEF CInv
  <1> QED
    BY <1>2, <1>3

\* A worker that has a path opens it as a directory, or passes it.
worker_process(w) == worker_opendir(w) \/ worker_search(w) \/ worker_lstat_fails(w)

LEMMA ProcessStep ==
  ASSUME CInv, NEW w \in Worker, worker_process(w)
  PROVE  /\ pc[w] = "item" /\ work[w] \in Path
         /\ \/ /\ pc' = [pc EXCEPT ![w] = "reading"]
               /\ todo' = [todo EXCEPT ![w] = Entries[work[w]]]
            \/ /\ pc' = [pc EXCEPT ![w] = "finish"] /\ todo' = todo
               /\ work[w] \in Dir => cut'
         /\ visited' = [visited EXCEPT ![work[w]] = @ + 1]
         /\ cut' \in BOOLEAN /\ (cut => cut')
         /\ UNCHANGED <<work_count, queue, work, lost, start>>
  <1>1. pc[w] = "item" /\ work[w] \in Path
    BY DEF worker_process, worker_opendir, worker_search, worker_lstat_fails, Pass,
           CInv, Types, Busy
  <1> QED
    BY <1>1 DEF worker_process, worker_opendir, worker_search, worker_lstat_fails, Pass,
                Goto, CInv, Types

\* A worker that stays with its path.
LEMMA CountWork ==
  ASSUME CInv, NEW w \in Worker,
         worker_process(w) \/ worker_readdir(w) \/ worker_enddir(w)
  PROVE  CInv'
  <1>1. /\ w \in Busy /\ work[w] \in Path /\ work' = work
        /\ start' = start /\ lost' = lost
    BY ProcessStep DEF worker_readdir, worker_enddir, history, Busy, CInv, Types
  <1>2. Busy' = Busy
    BY ProcessStep DEF worker_readdir, worker_enddir, Goto, Busy, CInv, Types
  <1>3. pc' \in [Worker -> {"begin", "top", "item", "reading", "finish", "ended"}]
    BY ProcessStep DEF worker_readdir, worker_enddir, Goto, CInv, Types
  <1>4. visited' \in [Path -> Nat]
    BY <1>1, ProcessStep DEF worker_readdir, worker_enddir, history, CInv, Types
  <1>5. todo' \in [Worker -> SUBSET Path]
    <2>1. Entries[work[w]] \in SUBSET Path
      BY <1>1, PathFacts
    <2> QED
      BY <2>1, ProcessStep DEF worker_readdir, worker_enddir, CInv, Types
  <1>6. cut' \in BOOLEAN
    BY ProcessStep DEF worker_readdir, worker_enddir, history, CInv, Types
  <1>7. /\ queue' \in Seq(Path) /\ work_count' \in Int
        /\ \E k \in {0, 1} : Len(queue') = Len(queue) + k /\ work_count' = work_count + k
    <2>1. CASE worker_readdir(w)
      <3>1. PICK p \in todo[w] : queue' = Append(queue, p)
        BY <2>1 DEF worker_readdir
      <3>2. p \in Path
        BY DEF CInv, Types
      <3>3. queue' \in Seq(Path) /\ Len(queue') = Len(queue) + 1 /\ Len(queue) \in Nat
        BY <3>1, <3>2, AppendKeeps, LenProperties DEF CInv, Types
      <3> QED
        BY <2>1, <3>3 DEF worker_readdir, CInv, Types
    <2>2. CASE worker_process(w) \/ worker_enddir(w)
      BY <2>2, ProcessStep, LenProperties DEF worker_enddir, CInv, Types
    <2> QED
      BY <2>1, <2>2
  <1>8. Types'
    BY <1>1, <1>2, <1>3, <1>4, <1>5, <1>6, <1>7 DEF CInv, Types
  <1>9. CountExact'
    <2>1. Len(queue) \in Nat
      BY LenProperties DEF CInv, Types
    <2>2. /\ work_count = Len(queue) + Cardinality(Busy) + lost
          /\ work_count \in Int /\ lost \in Nat
      BY DEF CInv, Types, CountExact
    <2>3. Cardinality(Busy') = Cardinality(Busy) /\ Cardinality(Busy) \in Nat /\ lost' = lost
      BY <1>1, <1>2, BusyFinite
    <2>4. PICK k \in Nat : Len(queue') = Len(queue) + k /\ work_count' = work_count + k
      BY <1>7
    <2>5. work_count' = Len(queue') + Cardinality(Busy') + lost'
      BY <2>1, <2>2, <2>3, <2>4
    <2> QED
      BY <2>5 DEF CountExact
  <1> QED
    BY <1>8, <1>9 DEF CInv

\* A worker that is done with its path, or has lost it.
LEMMA CountLeave ==
  ASSUME CInv, NEW w \in Worker, worker_finish(w) \/ worker_opendir_fails(w)
  PROVE  CInv'
  <1>1. /\ w \in Busy /\ queue' = queue /\ work' = work /\ todo' = todo
        /\ start' = start /\ visited' = visited /\ cut' = cut
    BY DEF worker_finish, worker_opendir_fails, history, Busy
  <1>2. PICK p \in {"top", "ended"} : pc' = [pc EXCEPT ![w] = p]
    BY DEF worker_finish, worker_opendir_fails, Goto
  <1>3. Busy' = Busy \ {w}
    BY <1>2 DEF Busy, CInv, Types
  <1>4. Cardinality(Busy') = Cardinality(Busy) - 1
    BY <1>1, <1>3, BusyFinite, FS_RemoveElement
  <1>5. /\ work_count' \in Int /\ lost' \in Nat
        /\ work_count' - lost' = work_count - lost - 1
    <2>1. work_count \in Int /\ lost \in Nat
      BY DEF CInv, Types
    <2>2. CASE worker_finish(w)
      BY <2>1, <2>2 DEF worker_finish, history
    <2>3. CASE worker_opendir_fails(w)
      BY <2>1, <2>3 DEF worker_opendir_fails
    <2> QED
      BY <2>2, <2>3
  <1>6. Types'
    BY <1>1, <1>2, <1>3, <1>5 DEF CInv, Types
  <1>7. CountExact'
    <2>1. Len(queue) \in Nat
      BY LenProperties DEF CInv, Types
    <2>2. /\ work_count = Len(queue) + Cardinality(Busy) + lost
          /\ work_count \in Int /\ lost \in Nat
      BY DEF CInv, Types, CountExact
    <2>3. work_count' = Len(queue') + Cardinality(Busy') + lost'
      BY <1>1, <1>4, <1>5, <2>1, <2>2, BusyFinite
    <2> QED
      BY <2>3 DEF CountExact
  <1> QED
    BY <1>6, <1>7 DEF CInv

\* crew_start.
LEMMA CountStart ==
  ASSUME CInv, NEW c \in Client, client(c)
  PROVE  CInv'
  <1>1. /\ pc' = pc /\ work' = work /\ todo' = todo
        /\ visited' = visited /\ lost' = lost /\ cut' = cut
    BY DEF client, crew_start, start_woken, wrkVars, history
  <1>2. start' \in [Client -> {"no", "busy", "running", "returned"}]
    BY DEF client, crew_start, start_woken, Submit, CInv, Types
  <1>3. Busy' = Busy
    BY <1>1 DEF Busy
  <1>4. /\ queue' \in Seq(Path) /\ work_count' \in Int
        /\ \E k \in {0, 1} : Len(queue') = Len(queue) + k /\ work_count' = work_count + k
    <2>1. CASE Submit(c)
      <3>1. queue' \in Seq(Path) /\ Len(queue') = Len(queue) + 1 /\ Len(queue) \in Nat
        BY <2>1, PathFacts, AppendKeeps, LenProperties DEF Submit, CInv, Types
      <3> QED
        BY <2>1, <3>1 DEF Submit, CInv, Types
    <2>2. CASE queue' = queue /\ work_count' = work_count
      BY <2>2, LenProperties DEF CInv, Types
    <2> QED
      BY <2>1, <2>2 DEF client, crew_start, start_woken
  <1>5. Types'
    BY <1>1, <1>2, <1>3, <1>4 DEF CInv, Types
  <1>6. CountExact'
    <2>1. Len(queue) \in Nat
      BY LenProperties DEF CInv, Types
    <2>2. /\ work_count = Len(queue) + Cardinality(Busy) + lost
          /\ work_count \in Int /\ lost \in Nat
      BY DEF CInv, Types, CountExact
    <2>3. Cardinality(Busy') = Cardinality(Busy) /\ Cardinality(Busy) \in Nat /\ lost' = lost
      BY <1>1, <1>3, BusyFinite
    <2>4. PICK k \in Nat : Len(queue') = Len(queue) + k /\ work_count' = work_count + k
      BY <1>4
    <2>5. work_count' = Len(queue') + Cardinality(Busy') + lost'
      BY <2>1, <2>2, <2>3, <2>4
    <2> QED
      BY <2>5 DEF CountExact
  <1> QED
    BY <1>5, <1>6 DEF CInv

LEMMA CrewInit ==
  ASSUME Init
  PROVE  CInv /\ Places /\ Kept /\ StartComplete
  <1>1. Busy = {}
    BY DEF Init, Busy
  <1>2. CInv
    <2>1. queue \in Seq(Path) /\ Len(queue) = 0
      BY EmptySeq DEF Init
    <2>2. cut \in BOOLEAN
      BY DEF Init
    <2>3. Types
      BY <1>1, <2>1, <2>2 DEF Init, Types
    <2>4. CountExact
      BY <1>1, <2>1, FS_EmptySet DEF Init, CountExact
    <2> QED
      BY <2>3, <2>4 DEF CInv
  <1>3. \A p \in Path : Fresh(p)
    BY DEF Init, Fresh, In, Held
  <1>4. Places
    BY <1>3, PathFacts DEF Init, Places, Fresh, Once
  <1>5. Kept
    BY PathFacts DEF Init, Kept
  <1>6. StartComplete
    BY DEF Init, StartComplete
  <1> QED
    BY <1>2, <1>4, <1>5, <1>6

\* What changes the condition variables only, or nothing.
Quiet ==
  /\ work_count' = work_count /\ queue' = queue /\ work' = work /\ todo' = todo
  /\ start' = start /\ visited' = visited /\ lost' = lost /\ cut' = cut
  /\ pc' = pc \/ \E w \in Worker : pc[w] = "begin" /\ pc' = [pc EXCEPT ![w] = "top"]

LEMMA CountNext ==
  ASSUME CInv, [Next]_vars
  PROVE  CInv'
  <1>1. ASSUME Quiet PROVE CInv'
    <2>1. Busy' = Busy
      BY <1>1 DEF Quiet, Busy, CInv, Types
    <2>2. pc' \in [Worker -> {"begin", "top", "item", "reading", "finish", "ended"}]
      BY <1>1 DEF Quiet, CInv, Types
    <2> QED
      BY <1>1, <2>1, <2>2 DEF Quiet, CInv, Types, CountExact
  <1>2. ASSUME NEW w \in Worker, worker_begin(w) PROVE Quiet
    BY <1>2 DEF worker_begin, Quiet, Goto, history
  <1>3. ASSUME Spurious \/ Finished \/ UNCHANGED vars PROVE Quiet
    BY <1>3 DEF Spurious, Finished, vars, Quiet, wrkVars, history
  <1> QED
    BY <1>1, <1>2, <1>3, CountTake, CountWork, CountLeave, CountStart
    DEF Next, worker_routine, worker_process

\* work_count is exact in every execution of crew.c, whatever the number of
\* workers and clients: it is 0 only when nothing is queued or in hand.
THEOREM WorkCounted == FairSpec => []CountExact
  <1>1. Init => CInv
    BY CrewInit
  <1>2. CInv /\ [Next]_vars => CInv'
    BY CountNext
  <1>3. CInv => CountExact
    BY DEF CInv
  <1> QED
    BY <1>1, <1>2, <1>3, PTL DEF FairSpec

-----------------------------------------------------------------------------
\* Whom the invariants speak of.
LEMMA Typed ==
  ASSUME IInv
  PROVE  /\ queue \in Seq(Path) /\ visited \in [Path -> Nat] /\ todo \in [Worker -> SUBSET Path]
         /\ pc \in [Worker -> {"begin", "top", "item", "reading", "finish", "ended"}]
         /\ work \in [Worker -> Path \cup {"none"}]
         /\ \A w \in Worker : pc[w] \in {"item", "reading"} => work[w] \in Path
         /\ start \in [Client -> {"no", "busy", "running", "returned"}]
         /\ lost \in Nat /\ cut \in BOOLEAN
  BY DEF IInv, CInv, Types, Busy

\* What crew_start has returned for stays processed.
LEMMA CompleteKept ==
  ASSUME IInv, cut => cut',
         \A c \in Client : start'[c] = "returned" => start[c] = "returned",
         \A p \in Path : visited[p] = 1 => visited'[p] = 1
  PROVE  StartComplete'
  <1>1. \A c \in Client : Below(Root[c]) \subseteq Path
    BY DEF Below
  <1> QED
    BY <1>1 DEF IInv, StartComplete

\* Paths stay where they are.
LEMMA StepStill ==
  ASSUME IInv, queue' = queue, work' = work, todo' = todo, visited' = visited,
         lost' = lost, cut => cut', start' = start,
         \A v \in Worker :
           /\ pc'[v] = "item" <=> pc[v] = "item"
           /\ pc'[v] = "reading" => pc[v] = "reading"
           /\ ~cut' /\ pc[v] = "reading" /\ todo[v] # {} => pc'[v] = "reading"
  PROVE  Places' /\ Kept' /\ StartComplete'
  <1>1. \A p : (Held(p)' <=> Held(p)) /\ (In(queue, p)' <=> In(queue, p))
    BY DEF Held, In
  <1>2. \A p : Fresh(p)' <=> Fresh(p)
    BY <1>1 DEF Fresh
  <1>3. Once(queue)'
    BY DEF IInv, Places, Once
  <1>4. Places'
    BY <1>1, <1>2, <1>3 DEF IInv, Places
  <1>5. Kept'
    <2> SUFFICES ASSUME lost' = 0, ~cut'
                 PROVE  /\ \A c \in Client : start[c] \in {"running", "returned"} => ~Fresh(Root[c])
                        /\ \A p \in Path : visited[p] = 1 =>
                             \A q \in Entries[p] :
                               \/ ~Fresh(q)
                               \/ \E w \in Worker : pc'[w] = "reading" /\ work[w] = p /\ q \in todo[w]
      BY <1>2 DEF Kept
    <2> QED
      BY DEF IInv, Kept
  <1>6. StartComplete'
    BY CompleteKept
  <1> QED
    BY <1>4, <1>5, <1>6

\* A worker takes the first path.
LEMMA StepTake ==
  ASSUME IInv, NEW w \in Worker, worker_take(w), queue # <<>>
  PROVE  Places' /\ Kept' /\ StartComplete'
  <1>1. PICK p \in Path : p = Head(queue)
    BY Typed, TailKeeps
  <1>2. /\ queue' = Tail(queue) /\ work' = [work EXCEPT ![w] = p]
        /\ pc' = [pc EXCEPT ![w] = "item"] /\ pc[w] = "top"
        /\ todo' = todo /\ start' = start /\ visited' = visited /\ lost' = lost /\ cut' = cut
    BY <1>1 DEF worker_take, Goto, history
  <1>3. Once(queue') /\ In(queue, p) /\ \A x : In(queue', x) <=> In(queue, x) /\ x # p
    BY <1>1, <1>2, Typed, TailKeeps DEF IInv, Places
  <1>4. ~Held(p) /\ visited[p] = 0
    BY <1>3 DEF IInv, Places
  <1>5. /\ pc'[w] = "item" /\ work'[w] = p
        /\ \A v \in Worker : v # w => pc'[v] = pc[v] /\ work'[v] = work[v]
    BY <1>2, Typed
  <1>6. \A x : Held(x)' <=> Held(x) \/ x = p
    BY <1>2, <1>5 DEF Held
  <1>7. \A x : In(queue, x)' <=> In(queue, x) /\ x # p
    BY <1>3 DEF In
  <1>8. \A x : Fresh(x)' <=> Fresh(x)
    BY <1>2, <1>3, <1>6, <1>7 DEF Fresh
  <1>9. Places'
    <2>1. Once(queue)'
      BY <1>3 DEF Once
    <2>2. \A x \in Path :
            /\ In(queue, x)' => ~Held(x)' /\ visited'[x] = 0
            /\ Held(x)' => visited'[x] = 0
            /\ visited'[x] \in {0, 1}
            /\ visited'[x] = 0 => \A y \in Entries[x] : Fresh(y)'
      BY <1>2, <1>4, <1>6, <1>7, <1>8 DEF IInv, Places
    <2>3. \A v \in Worker : v # w /\ pc[v] \in {"item", "reading"} => work[v] # p
      BY <1>4 DEF IInv, Places, Held
    <2>4. \A u, v \in Worker :
            u # v /\ pc'[u] \in {"item", "reading"} /\ pc'[v] \in {"item", "reading"}
              => work'[u] # work'[v]
      BY <1>5, <2>3 DEF IInv, Places
    <2>5. \A v \in Worker : pc'[v] = "reading" =>
            /\ visited'[work'[v]] = 1
            /\ todo'[v] \subseteq Entries[work'[v]]
            /\ \A y \in todo'[v] : Fresh(y)'
      BY <1>2, <1>5, <1>8 DEF IInv, Places
    <2>6. \A c \in Client : start'[c] \in {"no", "busy"} => Fresh(Root[c])'
      BY <1>2, <1>8 DEF IInv, Places
    <2> QED
      BY <2>1, <2>2, <2>4, <2>5, <2>6 DEF Places
  <1>10. Kept'
    <2>1. \A v \in Worker : pc[v] = "reading" =>
            pc'[v] = "reading" /\ work'[v] = work[v] /\ todo'[v] = todo[v]
      BY <1>2, <1>5
    <2> QED
      BY <1>2, <1>8, <2>1 DEF IInv, Kept
  <1>11. StartComplete'
    BY <1>2, CompleteKept
  <1> QED
    BY <1>9, <1>10, <1>11

\* It processes it.
LEMMA StepProcess ==
  ASSUME IInv, NEW w \in Worker, worker_process(w)
  PROVE  Places' /\ Kept' /\ StartComplete'
  <1>1. PICK p \in Path : p = work[w]
    BY ProcessStep DEF IInv
  <1>2. /\ pc[w] = "item" /\ visited' = [visited EXCEPT ![p] = @ + 1]
        /\ queue' = queue /\ work' = work /\ lost' = lost /\ start' = start
        /\ cut => cut'
    BY <1>1, ProcessStep DEF IInv
  <1>3. Held(p)
    BY <1>1, <1>2 DEF Held
  <1>4. visited[p] = 0 /\ ~In(queue, p)
    BY <1>3 DEF IInv, Places
  <1>5. visited'[p] = 1 /\ \A x \in Path : x # p => visited'[x] = visited[x]
    BY <1>2, <1>4, Typed
  <1>6. /\ pc'[w] \in {"reading", "finish"}
        /\ pc'[w] = "reading" => todo'[w] = Entries[p]
        /\ p \in Dir /\ ~cut' => pc'[w] = "reading"
        /\ \A v \in Worker : v # w => pc'[v] = pc[v] /\ todo'[v] = todo[v]
    BY <1>1, ProcessStep, Typed DEF IInv
  <1>7. \A x : Held(x)' <=> Held(x) /\ x # p
    <2>1. \A v \in Worker : v # w /\ pc[v] = "item" => work[v] # p
      BY <1>1, <1>2 DEF IInv, Places
    <2>2. pc'[w] # "item"
      BY <1>6
    <2> QED
      BY <1>1, <1>2, <1>6, <2>1, <2>2 DEF Held
  <1>8. \A x : In(queue, x)' <=> In(queue, x)
    BY <1>2 DEF In
  <1>9. \A x \in Path : Fresh(x)' <=> Fresh(x)
    BY <1>3, <1>5, <1>7, <1>8 DEF Fresh
  <1>10. \A x \in Path : \A y \in Entries[x] : y \in Path
    BY PathFacts
  <1>11. \A v \in Worker : v # w /\ pc[v] = "reading" => work[v] \in Path /\ work[v] # p
    BY <1>1, <1>2, Typed DEF IInv, Places
  <1>12. Places'
    <2>1. Once(queue)'
      BY <1>2 DEF IInv, Places, Once
    <2>2. \A x \in Path :
            /\ In(queue, x)' => ~Held(x)' /\ visited'[x] = 0
            /\ Held(x)' => visited'[x] = 0
            /\ visited'[x] \in {0, 1}
            /\ visited'[x] = 0 => \A y \in Entries[x] : Fresh(y)'
      BY <1>4, <1>5, <1>7, <1>8, <1>9, <1>10 DEF IInv, Places
    <2>3. \A u, v \in Worker :
            u # v /\ pc'[u] \in {"item", "reading"} /\ pc'[v] \in {"item", "reading"}
              => work'[u] # work'[v]
      BY <1>2, <1>6 DEF IInv, Places
    <2>4. \A v \in Worker : pc'[v] = "reading" =>
            /\ visited'[work'[v]] = 1
            /\ todo'[v] \subseteq Entries[work'[v]]
            /\ \A y \in todo'[v] : Fresh(y)'
      <3> SUFFICES ASSUME NEW v \in Worker, pc'[v] = "reading"
                   PROVE  /\ visited'[work'[v]] = 1
                          /\ todo'[v] \subseteq Entries[work'[v]]
                          /\ \A y \in todo'[v] : Fresh(y)'
        OBVIOUS
      <3>1. CASE v = w
        <4>1. \A y \in Entries[p] : Fresh(y)
          BY <1>4 DEF IInv, Places
        <4> QED
          BY <1>1, <1>2, <1>5, <1>6, <1>9, <1>10, <3>1, <4>1
      <3>2. CASE v # w
        <4>1. /\ pc[v] = "reading" /\ todo'[v] = todo[v] /\ work'[v] = work[v]
              /\ work[v] \in Path /\ work[v] # p
          BY <1>2, <1>6, <1>11, <3>2
        <4>2. /\ visited[work[v]] = 1 /\ todo[v] \subseteq Entries[work[v]]
              /\ \A y \in todo[v] : Fresh(y)
          BY <4>1 DEF IInv, Places
        <4> QED
          BY <1>5, <1>9, <1>10, <4>1, <4>2
      <3> QED
        BY <3>1, <3>2
    <2>5. \A c \in Client : start'[c] \in {"no", "busy"} => Fresh(Root[c])'
      BY <1>2, <1>9, PathFacts DEF IInv, Places
    <2> QED
      BY <2>1, <2>2, <2>3, <2>4, <2>5 DEF Places
  <1>13. Kept'
    <2> SUFFICES ASSUME lost' = 0, ~cut'
                 PROVE  /\ \A c \in Client : start'[c] \in {"running", "returned"} => ~Fresh(Root[c])'
                        /\ \A x \in Path : visited'[x] = 1 =>
                             \A y \in Entries[x] :
                               \/ ~Fresh(y)'
                               \/ \E v \in Worker : pc'[v] = "reading" /\ work'[v] = x /\ y \in todo'[v]
      BY DEF Kept
    <2>1. \A c \in Client : start'[c] \in {"running", "returned"} => ~Fresh(Root[c])'
      BY <1>2, <1>9, PathFacts DEF IInv, Kept
    <2>2. ASSUME NEW x \in Path, visited'[x] = 1, NEW y \in Entries[x], Fresh(y)'
          PROVE  \E v \in Worker : pc'[v] = "reading" /\ work'[v] = x /\ y \in todo'[v]
      <3>1. CASE x = p
        <4>1. p \in Dir
          BY <2>2, <3>1, PathFacts
        <4>2. pc'[w] = "reading" /\ todo'[w] = Entries[p]
          BY <1>6, <4>1
        <4> QED
          BY <1>1, <1>2, <2>2, <3>1, <4>2
      <3>2. CASE x # p
        <4>1. PICK v \in Worker : pc[v] = "reading" /\ work[v] = x /\ y \in todo[v]
          BY <1>2, <1>5, <1>9, <1>10, <2>2, <3>2 DEF IInv, Kept
        <4>2. v # w
          BY <1>2, <4>1
        <4> QED
          BY <1>2, <1>6, <4>1, <4>2
      <3> QED
        BY <3>1, <3>2
    <2> QED
      BY <2>1, <2>2
  <1>14. StartComplete'
    <2>1. \A x \in Path : visited[x] = 1 => visited'[x] = 1
      BY <1>5
    <2> QED
      BY <1>2, <2>1, CompleteKept
  <1> QED
    BY <1>12, <1>13, <1>14

\* It cannot open it.
LEMMA StepLose ==
  ASSUME IInv, NEW w \in Worker, worker_opendir_fails(w)
  PROVE  Places' /\ Kept' /\ StartComplete'
  <1>1. /\ pc[w] = "item" /\ pc' = [pc EXCEPT ![w] = "top"] /\ lost' = lost + 1
        /\ queue' = queue /\ work' = work /\ todo' = todo /\ visited' = visited
        /\ cut' = cut /\ start' = start
    BY DEF worker_opendir_fails, Goto
  <1>2. lost' # 0
    BY <1>1, Typed
  <1>3. pc'[w] = "top" /\ \A v \in Worker : v # w => pc'[v] = pc[v]
    BY <1>1, Typed
  <1>4. \A x : (Held(x)' => Held(x)) /\ (In(queue, x)' <=> In(queue, x))
    BY <1>1, <1>3 DEF Held, In
  <1>5. \A x : Fresh(x) => Fresh(x)'
    BY <1>1, <1>4 DEF Fresh
  <1>6. Once(queue)'
    BY <1>1 DEF IInv, Places, Once
  <1>7. \A v \in Worker : pc'[v] \in {"item", "reading"} => pc[v] = pc'[v]
    BY <1>3
  <1>8. Places'
    BY <1>1, <1>4, <1>5, <1>6, <1>7 DEF IInv, Places
  <1>9. Kept'
    BY <1>2 DEF Kept
  <1>10. StartComplete'
    BY <1>1, CompleteKept
  <1> QED
    BY <1>8, <1>9, <1>10

\* A path that was fresh and that nobody else will queue is queued.
LEMMA StepQueue ==
  ASSUME IInv, NEW r \in Path, Fresh(r), queue' = Append(queue, r),
         pc' = pc, work' = work, visited' = visited, lost' = lost, cut' = cut,
         todo' \in [Worker -> SUBSET Path],
         start' \in [Client -> {"no", "busy", "running", "returned"}],
         \A v \in Worker : pc[v] = "reading" => todo'[v] = todo[v] \ {r},
         \A p \in Path : r \in Entries[p] => visited[p] = 1,
         \A c \in Client : /\ Root[c] = r => start'[c] = "running"
                           /\ Root[c] # r => start'[c] = start[c]
  PROVE  Places' /\ Kept' /\ StartComplete'
  <1>1. /\ \A x : In(queue', x) <=> In(queue, x) \/ x = r
        /\ Once(queue')
    BY Typed, AppendKeeps DEF IInv, Places, Fresh
  <1>2. \A x : (Held(x)' <=> Held(x)) /\ (In(queue, x)' <=> In(queue, x) \/ x = r)
    BY <1>1 DEF Held, In
  <1>3. \A x : Fresh(x)' <=> Fresh(x) /\ x # r
    BY <1>2 DEF Fresh
  <1>4. Once(queue)'
    BY <1>1 DEF Once
  <1>5. Places'
    <2>1. \A x \in Path :
            /\ In(queue, x)' => ~Held(x)' /\ visited'[x] = 0
            /\ Held(x)' => visited'[x] = 0
            /\ visited'[x] \in {0, 1}
      BY <1>2 DEF IInv, Places, Fresh
    <2>2. \A x \in Path : visited'[x] = 0 => \A y \in Entries[x] : Fresh(y)'
      BY <1>3 DEF IInv, Places
    <2>3. \A u, v \in Worker :
            u # v /\ pc'[u] \in {"item", "reading"} /\ pc'[v] \in {"item", "reading"}
              => work'[u] # work'[v]
      BY DEF IInv, Places
    <2>4. \A v \in Worker : pc'[v] = "reading" =>
            /\ visited'[work'[v]] = 1
            /\ todo'[v] \subseteq Entries[work'[v]]
            /\ \A y \in todo'[v] : Fresh(y)'
      BY <1>3 DEF IInv, Places
    <2>5. \A c \in Client : start'[c] \in {"no", "busy"} => Fresh(Root[c])'
      BY <1>3 DEF IInv, Places
    <2> QED
      BY <1>4, <2>1, <2>2, <2>3, <2>4, <2>5 DEF Places
  <1>6. Kept'
    <2> SUFFICES ASSUME lost' = 0, ~cut'
                 PROVE  /\ \A c \in Client : start'[c] \in {"running", "returned"} => ~Fresh(Root[c])'
                        /\ \A x \in Path : visited'[x] = 1 =>
                             \A y \in Entries[x] :
                               \/ ~Fresh(y)'
                               \/ \E v \in Worker : pc'[v] = "reading" /\ work'[v] = x /\ y \in todo'[v]
      BY DEF Kept
    <2>1. \A c \in Client : start'[c] \in {"running", "returned"} => ~Fresh(Root[c])'
      BY <1>3 DEF IInv, Kept
    <2>2. ASSUME NEW x \in Path, visited'[x] = 1, NEW y \in Entries[x], Fresh(y)'
          PROVE  \E v \in Worker : pc'[v] = "reading" /\ work'[v] = x /\ y \in todo'[v]
      <3>1. Fresh(y) /\ y # r
        BY <1>3, <2>2
      <3>2. PICK v \in Worker : pc[v] = "reading" /\ work[v] = x /\ y \in todo[v]
        BY <2>2, <3>1 DEF IInv, Kept
      <3> QED
        BY <3>1, <3>2
    <2> QED
      BY <2>1, <2>2
  <1>7. StartComplete'
    BY CompleteKept, Typed
  <1> QED
    BY <1>5, <1>6, <1>7

\* A worker queues an entry of its directory.
LEMMA StepReaddir ==
  ASSUME IInv, NEW w \in Worker, worker_readdir(w)
  PROVE  Places' /\ Kept' /\ StartComplete'
  <1>1. PICK r \in todo[w] : queue' = Append(queue, r) /\ todo' = [todo EXCEPT ![w] = @ \ {r}]
    BY DEF worker_readdir
  <1>2. /\ pc[w] = "reading" /\ pc' = pc /\ work' = work /\ visited' = visited
        /\ lost' = lost /\ cut' = cut /\ start' = start
    BY DEF worker_readdir, history
  <1>3. /\ r \in Path /\ Fresh(r) /\ work[w] \in Path /\ r \in Entries[work[w]]
        /\ visited[work[w]] = 1
    BY <1>2, Typed DEF IInv, Places
  <1>4. todo' \in [Worker -> SUBSET Path]
    BY <1>1, Typed
  <1>5. \A p \in Path : r \in Entries[p] => p = work[w]
    BY <1>3, PathFacts
  <1>6. \A v \in Worker : pc[v] = "reading" => todo'[v] = todo[v] \ {r}
    <2>1. \A v \in Worker : v # w /\ pc[v] = "reading" => r \notin todo[v]
      BY <1>2, <1>5, Typed DEF IInv, Places
    <2> QED
      BY <1>1, Typed, <2>1
  <1>7. \A c \in Client : Root[c] # r
    BY <1>3, PathFacts
  <1> QED
    BY <1>1, <1>2, <1>3, <1>4, <1>5, <1>6, <1>7, StepQueue, Typed

\* crew_start queues its path, or waits for another job.
LEMMA StepStart ==
  ASSUME IInv, NEW c \in Client, crew_start(c)
  PROVE  Places' /\ Kept' /\ StartComplete'
  <1>1. /\ start[c] \in {"no", "busy"}
        /\ pc' = pc /\ work' = work /\ todo' = todo
        /\ visited' = visited /\ lost' = lost /\ cut' = cut
    BY DEF crew_start, wrkVars, history
  <1>2. Root[c] \in Path /\ Fresh(Root[c])
    BY <1>1, PathFacts DEF IInv, Places
  <1>3. CASE Submit(c)
    <2>1. queue' = Append(queue, Root[c]) /\ start' = [start EXCEPT ![c] = "running"]
      BY <1>3 DEF Submit
    <2>2. \A v \in Worker : pc[v] = "reading" => todo'[v] = todo[v] \ {Root[c]}
      <3>1. \A v \in Worker : pc[v] = "reading" => Root[c] \notin todo[v]
        BY PathFacts, Typed DEF IInv, Places
      <3> QED
        BY <1>1, <3>1
    <2>3. \A p \in Path : Root[c] \in Entries[p] => visited[p] = 1
      BY PathFacts
    <2>4. start' \in [Client -> {"no", "busy", "running", "returned"}]
      BY <2>1, Typed
    <2>5. \A d \in Client : /\ Root[d] = Root[c] => start'[d] = "running"
                            /\ Root[d] # Root[c] => start'[d] = start[d]
      BY <2>1, PathFacts, Typed
    <2> QED
      BY <1>1, <1>2, <2>1, <2>2, <2>3, <2>4, <2>5, StepQueue, Typed
  <1>4. CASE ~Submit(c)
    <2>1. queue' = queue /\ start' = [start EXCEPT ![c] = "busy"]
      BY <1>4 DEF crew_start
    <2>2. start'[c] = "busy" /\ \A d \in Client : d # c => start'[d] = start[d]
      BY <2>1, Typed
    <2>3. \A p : (Held(p)' <=> Held(p)) /\ (In(queue, p)' <=> In(queue, p))
      BY <1>1, <2>1 DEF Held, In
    <2>4. \A p : Fresh(p)' <=> Fresh(p)
      BY <1>1, <2>3 DEF Fresh
    <2>5. Once(queue)'
      BY <2>1 DEF IInv, Places, Once
    <2>6. \A d \in Client : start'[d] \in {"no", "busy"} => Fresh(Root[d])'
      BY <1>2, <2>2, <2>4 DEF IInv, Places
    <2>7. Places'
      BY <1>1, <2>3, <2>4, <2>5, <2>6 DEF IInv, Places
    <2>8. Kept'
      BY <1>1, <2>2, <2>4 DEF IInv, Kept
    <2>9. StartComplete'
      BY <1>1, <2>2, CompleteKept
    <2> QED
      BY <2>7, <2>8, <2>9
  <1> QED
    BY <1>3, <1>4

\* crew_start returns: nothing is queued, held or lost, so that the paths that
\* were processed are closed under Entries, and hold its own.
LEMMA StepReturn ==
  ASSUME IInv, NEW c \in Client, start_woken(c)
  PROVE  Places' /\ Kept' /\ StartComplete'
  <1>1. /\ start[c] = "running" /\ queue' = queue
        /\ pc' = pc /\ work' = work /\ todo' = todo
        /\ visited' = visited /\ lost' = lost /\ cut' = cut
    BY DEF start_woken, wrkVars, history
  <1>2. CASE work_count > 0
    <2>1. start' = start
      BY <1>2 DEF start_woken
    <2> QED
      BY <1>1, <2>1, StepStill
  <1>3. CASE ~(work_count > 0)
    <2>1. start' = [start EXCEPT ![c] = "returned"]
      BY <1>3 DEF start_woken
    <2>2. start'[c] = "returned" /\ \A d \in Client : d # c => start'[d] = start[d]
      BY <2>1, Typed
    <2>3. Len(queue) = 0 /\ Cardinality(Busy) = 0 /\ lost = 0
      <3>1. /\ work_count = Len(queue) + Cardinality(Busy) + lost
            /\ Len(queue) \in Nat /\ Cardinality(Busy) \in Nat /\ lost \in Nat
        BY BusyFinite, Typed, LenProperties DEF IInv, CInv, CountExact
      <3> QED
        BY <1>3, <3>1
    <2>4. queue = <<>> /\ Busy = {}
      <3>1. queue = <<>>
        BY <2>3, Typed, EmptySeq
      <3>2. Busy = {}
        BY <2>3, BusyFinite, FS_EmptySet
      <3> QED
        BY <3>1, <3>2
    <2>5. \A p \in Path : Fresh(p) <=> visited[p] # 1
      BY <2>4 DEF Fresh, In, Held, Busy, IInv, Places
    <2>6. ASSUME ~cut
          PROVE  \A p \in Below(Root[c]) : visited[p] = 1
      <3> DEFINE S == {p \in Path : visited[p] = 1}
      <3>1. Root[c] \in S
        BY <1>1, <2>3, <2>5, <2>6, PathFacts DEF IInv, Kept
      <3>2. Closed(S)
        <4>1. \A w \in Worker : pc[w] # "reading"
          BY <2>4 DEF Busy
        <4>2. \A p \in Path : visited[p] = 1 => \A q \in Entries[p] : ~Fresh(q)
          BY <2>3, <2>6, <4>1 DEF IInv, Kept
        <4> QED
          BY <2>5, <4>2, PathFacts DEF Closed
      <3>3. S \in SUBSET Path
        OBVIOUS
      <3> HIDE DEF S
      <3>4. \A p \in Below(Root[c]) : p \in S
        BY <3>1, <3>2, <3>3 DEF Below
      <3> QED
        BY <3>4 DEF S
    <2>7. StartComplete'
      BY <1>1, <2>2, <2>6 DEF IInv, StartComplete
    <2>8. \A p : (Held(p)' <=> Held(p)) /\ (In(queue, p)' <=> In(queue, p))
      BY <1>1 DEF Held, In
    <2>9. \A p : Fresh(p)' <=> Fresh(p)
      BY <1>1, <2>8 DEF Fresh
    <2>10. Once(queue)'
      BY <1>1 DEF IInv, Places, Once
    <2>11. \A d \in Client : start'[d] \in {"no", "busy"} => Fresh(Root[d])'
      BY <2>2, <2>9 DEF IInv, Places
    <2>12. Places'
      BY <1>1, <2>8, <2>9, <2>10, <2>11 DEF IInv, Places
    <2>13. Kept'
      BY <1>1, <2>2, <2>9 DEF IInv, Kept
    <2> QED
      BY <2>7, <2>12, <2>13
  <1> QED
    BY <1>2, <1>3

LEMMA CrewNext ==
  ASSUME IInv, [Next]_vars
  PROVE  IInv'
  <1>1. CInv'
    BY CountNext DEF IInv
  <1>2. Places' /\ Kept' /\ StartComplete'
    <2>1. ASSUME NEW w \in Worker, worker_begin(w)
          PROVE  Places' /\ Kept' /\ StartComplete'
      <3>1. /\ queue' = queue /\ work' = work /\ todo' = todo /\ visited' = visited
            /\ lost' = lost /\ cut' = cut /\ start' = start
            /\ pc[w] = "begin" /\ (pc' = pc \/ pc' = [pc EXCEPT ![w] = "top"])
        BY <2>1 DEF worker_begin, Goto, history
      <3>2. \A v \in Worker : /\ pc'[v] = "item" <=> pc[v] = "item"
                              /\ pc'[v] = "reading" <=> pc[v] = "reading"
        BY <3>1, Typed
      <3> QED
        BY <3>1, <3>2, StepStill
    <2>2. ASSUME NEW w \in Worker, worker_take(w)
          PROVE  Places' /\ Kept' /\ StartComplete'
      <3>1. CASE queue = <<>>
        <4>1. /\ queue' = queue /\ work' = work /\ todo' = todo /\ visited' = visited
              /\ lost' = lost /\ cut' = cut /\ start' = start /\ pc' = pc
          BY <2>2, <3>1 DEF worker_take, history
        <4> QED
          BY <4>1, StepStill
      <3> QED
        BY <2>2, <3>1, StepTake
    <2>3. ASSUME NEW w \in Worker, worker_enddir(w)
          PROVE  Places' /\ Kept' /\ StartComplete'
      <3>1. /\ queue' = queue /\ work' = work /\ todo' = todo /\ visited' = visited
            /\ lost' = lost /\ start' = start
            /\ pc[w] = "reading" /\ pc' = [pc EXCEPT ![w] = "finish"]
            /\ cut' = (cut \/ todo[w] # {})
        BY <2>3 DEF worker_enddir, Goto
      <3>2. cut => cut'
        BY <3>1
      <3>3. \A v \in Worker :
              /\ pc'[v] = "item" <=> pc[v] = "item"
              /\ pc'[v] = "reading" => pc[v] = "reading"
              /\ ~cut' /\ pc[v] = "reading" /\ todo[v] # {} => pc'[v] = "reading"
        BY <3>1, Typed
      <3> QED
        BY <3>1, <3>2, <3>3, StepStill
    <2>4. ASSUME NEW w \in Worker, worker_finish(w)
          PROVE  Places' /\ Kept' /\ StartComplete'
      <3>1. /\ queue' = queue /\ work' = work /\ todo' = todo /\ visited' = visited
            /\ lost' = lost /\ cut' = cut /\ start' = start
            /\ pc[w] = "finish"
            /\ pc' = [pc EXCEPT ![w] = "ended"] \/ pc' = [pc EXCEPT ![w] = "top"]
        BY <2>4 DEF worker_finish, Goto, history
      <3>2. \A v \in Worker : /\ pc'[v] = "item" <=> pc[v] = "item"
                              /\ pc'[v] = "reading" <=> pc[v] = "reading"
        BY <3>1, Typed
      <3> QED
        BY <3>1, <3>2, StepStill
    <2>5. ASSUME Spurious \/ Finished \/ UNCHANGED vars
          PROVE  Places' /\ Kept' /\ StartComplete'
      <3>1. /\ queue' = queue /\ work' = work /\ todo' = todo /\ visited' = visited
            /\ lost' = lost /\ cut' = cut /\ start' = start /\ pc' = pc
        BY <2>5 DEF Spurious, Finished, vars, wrkVars, history
      <3> QED
        BY <3>1, StepStill
    <2> QED
      BY <2>1, <2>2, <2>3, <2>4, <2>5, StepProcess, StepLose, StepReaddir, StepStart, StepReturn
      DEF Next, worker_routine, worker_process, client
  <1> QED
    BY <1>1, <1>2 DEF IInv

\* When crew_start returns every path of its job has been processed exactly
\* once, unless the reading of a directory was cut short or an lstat, whose
\* status nobody looks at, failed, whatever the workers and the other jobs do.
THEOREM JobsComplete == FairSpec => []StartComplete
  <1>1. Init => IInv
    BY CrewInit DEF IInv
  <1>2. IInv /\ [Next]_vars => IInv'
    BY CrewNext
  <1>3. IInv => StartComplete
    BY DEF IInv
  <1> QED
    BY <1>1, <1>2, <1>3, PTL DEF FairSpec
===============================================================================
