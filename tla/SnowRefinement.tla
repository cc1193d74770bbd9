--------------------------- MODULE SnowRefinement ---------------------------
(***************************************************************************)
(* The snow_os kernel implements RoundRobin: the queue is what list_foreach  *)
(* would visit on sched_list.                                                *)
(***************************************************************************)
EXTENDS SnowInv

RR == INSTANCE RoundRobin WITH
        cur      <- current,
        ready    <- Walk(list, ListNode, sched_list),
        runnable <- {t \in Thread : flags[t] = "RUN"}

\* Every step of the kernel, down to the single pointer assignments, is a
\* step of the round-robin scheduler or leaves its queue alone: nobody is
\* dropped from the queue, duplicated in it or overtaken.
IsRoundRobin == RR!RRSpec
=============================================================================
