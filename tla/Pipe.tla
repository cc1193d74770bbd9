-------------------------------- MODULE Pipe --------------------------------
(***************************************************************************)
(* The pipeline of posix_multithread/programs_src/pipe.c.  Stage k has a     *)
(* thread that waits for a value, passes it, increased by one, to stage k+1, *)
(* and then marks its own place free; the last stage only keeps results.  A  *)
(* stage thread keeps the mutex of its stage except while it waits for data, *)
(* also while it waits for room in the next stage.                           *)
(***************************************************************************)
EXTENDS Integers, Sequences, FiniteSets, Functions, PthreadCond

CONSTANTS
  stages,
  Value,        \* the numbers passed to pipe_start, each in a call of its own
  Collector     \* the threads that call pipe_result

ASSUME PipeConstants == stages \in Nat \ {0} /\ Value \subseteq Int

Stage == 0 .. stages
Thread == 0 .. stages - 1

VARIABLES
  active,
  data, data_ready,
  pc,             \* where the thread of a stage is
  avail, ready,   \* the condition variables of all stages: who sleeps
  start,          \* where the pipe_start of a value is
  collect,        \* where a collector is
  results         \* history: what pipe_result has returned

stg == <<data, data_ready, pc>>
vars == <<active, stg, avail, ready, start, collect, results>>

Init ==
  /\ active = 0
  /\ data = [k \in Stage |-> 0] /\ data_ready = [k \in Stage |-> FALSE]
  /\ pc = [k \in Thread |-> "new"]
  /\ avail = {} /\ ready = {}
  /\ start = [v \in Value |-> "no"]
  /\ collect = [c \in Collector |-> "no"]
  /\ results = <<>>

Goto(k, p) == pc' = [pc EXCEPT ![k] = p]

\* Nobody keeps the mutex of stage k; its thread may not have started.
Free(k) == k \in Thread => pc[k] \in {"new", "wait"}

\* Who may sleep on the conditions of stage k.
Takers(k) == IF k = stages THEN {<<"collector", c>> : c \in Collector}
                           ELSE {<<"stage", k>>}
Senders(k) == IF k = 0 THEN {<<"value", v>> : v \in Value}
                       ELSE {<<"stage", k - 1>>}

\* pthread_cond_signal for one of the sleepers S of one stage.
Signal(cv, S) ==
  \/ cv \cap S = {} /\ cv' = cv
  \/ \E x \in cv \cap S : cv' = cv \ {x}

\* A mistake: a value that is still there is overwritten.
Room_always(k) == TRUE

\* The place of stage k is free.
Room(k) == ~data_ready[k]

\* pipe_send of x to stage k, by someone who has the mutex: wait, or send.
pipe_send_wait(who, k) == Free(k) /\ ~Room(k) /\ pthread_cond_wait(ready, who)

pipe_send(k, x) ==
  /\ Free(k) /\ Room(k)
  /\ data' = [data EXCEPT ![k] = x]
  /\ data_ready' = [data_ready EXCEPT ![k] = TRUE]
  /\ Signal(avail, Takers(k))

-----------------------------------------------------------------------------
\* The inner loop of pipe_stage.
stage_loop(k) ==
  /\ pc[k] \in {"new", "loop", "wait"} /\ <<"stage", k>> \notin avail
  /\ IF data_ready[k]
     THEN Goto(k, "send") /\ UNCHANGED avail
     ELSE Goto(k, "wait") /\ pthread_cond_wait(avail, <<"stage", k>>)
  /\ UNCHANGED <<active, data, data_ready, ready, start, collect, results>>

stage_send(k) ==
  /\ pc[k] = "send" /\ <<"stage", k>> \notin ready
  /\ \/ /\ pipe_send_wait(<<"stage", k>>, k + 1)
        /\ UNCHANGED <<stg, avail>>
     \/ /\ pipe_send(k + 1, data[k] + 1) /\ Goto(k, "sent")
        /\ UNCHANGED ready
  /\ UNCHANGED <<active, start, collect, results>>

\* A mistake: the sender is not told that there is room.
stage_sent_quiet(k) ==
  /\ pc[k] = "sent" /\ Goto(k, "loop")
  /\ data_ready' = [data_ready EXCEPT ![k] = FALSE]
  /\ UNCHANGED <<active, data, avail, ready, start, collect, results>>

stage_sent(k) ==
  /\ pc[k] = "sent" /\ Goto(k, "loop")
  /\ data_ready' = [data_ready EXCEPT ![k] = FALSE]
  /\ Signal(ready, Senders(k))
  /\ UNCHANGED <<active, data, avail, start, collect, results>>

-----------------------------------------------------------------------------
\* The value counts as active before it is in the pipe.
pipe_start(v) ==
  /\ start[v] = "no"
  /\ active' = active + 1
  /\ start' = [start EXCEPT ![v] = "send"]
  /\ UNCHANGED <<stg, avail, ready, collect, results>>

start_send(v) ==
  /\ start[v] = "send" /\ <<"value", v>> \notin ready
  /\ \/ /\ pipe_send_wait(<<"value", v>>, 0)
        /\ UNCHANGED <<stg, avail, start>>
     \/ /\ pipe_send(0, v) /\ start' = [start EXCEPT ![v] = "in"]
        /\ UNCHANGED <<pc, ready>>
  /\ UNCHANGED <<active, collect, results>>

\* A mistake: the count is compared but not taken down.
pipe_result_keep(c) ==
  /\ collect[c] # "take"
  /\ collect' = [collect EXCEPT ![c] = IF active > 0 THEN "take" ELSE "empty"]
  /\ UNCHANGED <<active, stg, avail, ready, start, results>>

\* With nothing active it returns 0.
pipe_result(c) ==
  /\ collect[c] # "take"
  /\ IF active > 0
     THEN active' = active - 1 /\ collect' = [collect EXCEPT ![c] = "take"]
     ELSE collect' = [collect EXCEPT ![c] = "empty"] /\ UNCHANGED active
  /\ UNCHANGED <<stg, avail, ready, start, results>>

result_take(c) ==
  /\ collect[c] = "take" /\ <<"collector", c>> \notin avail
  /\ IF data_ready[stages]
     THEN /\ results' = Append(results, data[stages])
          /\ data_ready' = [data_ready EXCEPT ![stages] = FALSE]
          /\ Signal(ready, Senders(stages))
          /\ collect' = [collect EXCEPT ![c] = "got"]
          /\ UNCHANGED avail
     ELSE /\ pthread_cond_wait(avail, <<"collector", c>>)
          /\ UNCHANGED <<data_ready, ready, collect, results>>
  /\ UNCHANGED <<active, data, pc, start>>

-----------------------------------------------------------------------------
pipe_stage(k) == stage_loop(k) \/ stage_send(k) \/ stage_sent(k)

Spurious ==
  \/ spurious_wakeup(avail)
     /\ UNCHANGED <<active, stg, ready, start, collect, results>>
  \/ spurious_wakeup(ready)
     /\ UNCHANGED <<active, stg, avail, start, collect, results>>

Next ==
  \/ \E k \in Thread : pipe_stage(k)
  \/ \E v \in Value : pipe_start(v) \/ start_send(v)
  \/ \E c \in Collector : pipe_result(c) \/ result_take(c)
  \/ Spurious

Spec == Init /\ [][Next]_vars

\* The stages run, and those who have called go on; nobody has to call.
FairSpec ==
  /\ Spec
  /\ \A k \in Thread : WF_vars(pipe_stage(k))
  /\ \A v \in Value : WF_vars(start_send(v))
  /\ \A c \in Collector : WF_vars(result_take(c))

-----------------------------------------------------------------------------
\* Stage k has a value that the next stage has not got yet.
Holds(k) == data_ready[k] /\ (k < stages => pc[k] # "sent")

Holding == {k \in Stage : Holds(k)}

\* The numbers of S from the largest to the smallest.
Descending(S) ==
  CHOOSE f \in Bijection(1 .. Cardinality(S), S) : \A i, j \in DOMAIN f : i < j => f[i] > f[j]

\* The values in the pipe as they will leave it, the next one first: each stage
\* still ahead adds one.
Contents == LET at == Descending(Holding)
            IN  [i \in DOMAIN at |-> data[at[i]] + (stages - at[i])]

Fifo == INSTANCE PipeFifo WITH
          fed <- {v \in Value : start[v] = "in"},
          content <- Contents

\* The pipeline is a FIFO queue with room for a value in each stage, from
\* which each value comes out once, in the order it went in, with one added
\* by every stage.
IsPipeFifo == Fifo!FifoSpec

\* pipe_result returns: whoever was told that there is a value gets one, and
\* whoever finds nothing active returns at once.  The comment at the head of
\* pipe.c, "too many '=' commands will hang", is not true of this code.
ResultReturns == \A c \in Collector : collect[c] = "take" ~> collect[c] # "take"

\* A value gets in as long as results are collected: with all stages full and
\* nobody collecting, pipe_start stalls.
StartReturns ==
  \A v \in Value :
    start[v] = "send" ~> (start[v] = "in" \/ Len(Contents) = stages + 1)
=============================================================================
