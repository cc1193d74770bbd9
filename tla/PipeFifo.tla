------------------------------ MODULE PipeFifo ------------------------------
(***************************************************************************)
(* What the pipeline of pipe.c promises: values go in at most once each, and *)
(* come out in the same order, increased by the number of stages.            *)
(***************************************************************************)
EXTENDS Integers, Sequences

CONSTANTS stages, Value

VARIABLES
  fed,          \* the values that have gone in
  content,      \* what is in the pipe, the next to come out first
  results       \* what has come out

fifoVars == <<fed, content, results>>

FifoInit == fed = {} /\ content = <<>> /\ results = <<>>

Put(v) ==
  /\ v \notin fed /\ Len(content) <= stages
  /\ fed' = fed \cup {v} /\ content' = Append(content, v + stages)
  /\ UNCHANGED results

Get ==
  /\ content # <<>>
  /\ results' = Append(results, Head(content)) /\ content' = Tail(content)
  /\ UNCHANGED fed

FifoSpec == FifoInit /\ [][(\E v \in Value : Put(v)) \/ Get]_fifoVars
=============================================================================
