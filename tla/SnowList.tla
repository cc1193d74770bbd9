------------------------------ MODULE SnowList ------------------------------
(***************************************************************************)
(* The intrusive doubly linked lists of snow_os/snow.c (struct list_t and   *)
(* the list_xxx helpers).  A link state lk is a record of the next and prev *)
(* fields of every node; a list head is a node like any other, and a node   *)
(* on no list points to itself.  The operators take the link state before   *)
(* the call and return the one after it; assignments are chained in the     *)
(* order of the C statements, so that they are exact even when the          *)
(* arguments alias.                                                         *)
(***************************************************************************)
EXTENDS Naturals, Sequences, FiniteSets

\* All nodes of S detached: what list_init and LIST_DEF establish.
Unlinked(S) == [next |-> [n \in S |-> n], prev |-> [n \in S |-> n]]

list_init(lk, n) ==
  [next |-> [lk.next EXCEPT ![n] = n], prev |-> [lk.prev EXCEPT ![n] = n]]

list_insert(lk, new, p, n) ==
  [next |-> [lk.next EXCEPT ![new] = n, ![p] = new],
   prev |-> [lk.prev EXCEPT ![n] = new, ![new] = p]]

\* Mistakes the properties must notice: prev_list->next is not set; the node
\* keeps its stale links.
list_remove_half(lk, n) ==
  list_init([next |-> lk.next, prev |-> [lk.prev EXCEPT ![lk.next[n]] = lk.prev[n]]], n)

list_remove_stale(lk, n) ==
  [next |-> [lk.next EXCEPT ![lk.prev[n]] = lk.next[n]],
   prev |-> [lk.prev EXCEPT ![lk.next[n]] = lk.prev[n]]]

list_remove(lk, n) ==
  LET p == lk.prev[n]
      x == lk.next[n]
  IN  list_init([next |-> [lk.next EXCEPT ![p] = x],
                 prev |-> [lk.prev EXCEPT ![x] = p]], n)

list_empty(lk, h) == lk.next[h] = h

\* A mistake: new goes to the front.
list_fifo_put_front(lk, new, fifo) == list_insert(lk, new, fifo, lk.next[fifo])

list_fifo_put(lk, new, fifo) == list_insert(lk, new, lk.prev[fifo], fifo)

\* list_fifo_get returns the first node and unlinks it; the caller has
\* checked that the list is not empty.
list_fifo_first(lk, fifo) == lk.next[fifo]
list_fifo_get(lk, fifo) == list_remove(lk, list_fifo_first(lk, fifo))

-----------------------------------------------------------------------------
(***************************************************************************)
(* Vocabulary for stating properties of link states.                        *)
(***************************************************************************)

LinkStates(S) == [next : [S -> S], prev : [S -> S]]

\* next and prev are inverses of each other: every node lies on exactly one
\* cycle, which can be followed both ways.
Consistent(lk, S) ==
  \A n \in S : lk.next[lk.prev[n]] = n /\ lk.prev[lk.next[n]] = n

Detached(lk, n) == lk.next[n] = n

\* c is constant along both link directions: c tells which list a node is on.
Respects(lk, S, c) ==
  \A m \in S : c[lk.next[m]] = c[m] /\ c[lk.prev[m]] = c[m]

\* The node reached from h after i steps along next, i in 0 .. Cardinality(S).
NodeAt(lk, S, h) ==
  LET at[i \in 0 .. Cardinality(S)] == IF i = 0 THEN h ELSE lk.next[at[i - 1]]
  IN  at

\* The number of nodes list_foreach visits from h before it is back at h; a
\* walk that has not come back after Cardinality(S) steps never will.
WalkLength(lk, S, h) ==
  LET at == NodeAt(lk, S, h)
      back == {i \in 1 .. Cardinality(S) : at[i] = h}
  IN  IF back = {} THEN Cardinality(S)
      ELSE (CHOOSE i \in back : \A j \in back : i <= j) - 1

\* The contents of the list with head h, in list_foreach order.
Walk(lk, S, h) ==
  LET at == NodeAt(lk, S, h) IN [i \in 1 .. WalkLength(lk, S, h) |-> at[i]]

OnList(lk, S, h) == {Walk(lk, S, h)[i] : i \in 1 .. WalkLength(lk, S, h)}
=============================================================================
