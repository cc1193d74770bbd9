------------------------------ MODULE FifoLists ------------------------------
(***************************************************************************)
(* What the list helpers of snow_os/snow.c promise: disjoint sequences of    *)
(* items, one per list head.                                                *)
(***************************************************************************)
EXTENDS Naturals, SequencesExt

CONSTANTS Heads, Items

VARIABLE q      \* the contents of each list

FifoInit == q = [h \in Heads |-> <<>>]

Free(n) == \A h \in Heads : n \notin Range(q[h])

Put(n, h) == Free(n) /\ q' = [q EXCEPT ![h] = Append(@, n)]

Get(h) == q[h] # <<>> /\ q' = [q EXCEPT ![h] = Tail(@)]

\* n becomes item i + 1 of its list.
Insert(n, h, i) == Free(n) /\ q' = [q EXCEPT ![h] = InsertAt(@, i + 1, n)]

\* n leaves the list it is on, if any.
Unlink(n) ==
  \/ Free(n) /\ UNCHANGED q
  \/ \E h \in Heads : \E i \in 1 .. Len(q[h]) :
       q[h][i] = n /\ q' = [q EXCEPT ![h] = RemoveAt(@, i)]

FifoNext ==
  \/ \E h \in Heads : Get(h)
  \/ \E n \in Items : Unlink(n)
  \/ \E n \in Items, h \in Heads :
       Put(n, h) \/ \E i \in 0 .. Len(q[h]) : Insert(n, h, i)

FifoSpec == FifoInit /\ [][FifoNext]_q
=============================================================================
