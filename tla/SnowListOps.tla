----------------------------- MODULE SnowListOps -----------------------------
(***************************************************************************)
(* The list helpers of snow_os/snow.c called in every order on a set of      *)
(* items and list heads, as the kernel calls them: only a node that is on no *)
(* list is put or inserted, and a node may be removed whether or not it is   *)
(* on a list.                                                                *)
(***************************************************************************)
EXTENDS SnowList

CONSTANTS ListHead, Item

Node == ListHead \cup Item

ASSUME ListNodes == ListHead \cap Item = {} /\ IsFiniteSet(Node)

VARIABLE links

put(n, h) == Detached(links, n) /\ links' = list_fifo_put(links, n, h)

get(h) == ~list_empty(links, h) /\ links' = list_fifo_get(links, h)

\* As snow_timer_add does: behind p, the head or a node found by list_foreach.
insert(n, p) ==
  /\ Detached(links, n)
  /\ p \in ListHead \/ ~Detached(links, p)
  /\ links' = list_insert(links, n, p, links.next[p])

remove(n) == links' = list_remove(links, n)

ListInit == links = Unlinked(Node)

ListNext ==
  \/ \E h \in ListHead : get(h)
  \/ \E n \in Item : remove(n)
  \/ \E n \in Item, h \in ListHead : put(n, h)
  \/ \E n \in Item, p \in Node : n # p /\ insert(n, p)

ListSpec == ListInit /\ [][ListNext]_links

Fifo == INSTANCE FifoLists WITH
          Heads <- ListHead, Items <- Item,
          q     <- [h \in ListHead |-> Walk(links, Node, h)]

\* The pointer manipulations implement sequences: what list_foreach visits
\* from each head changes exactly as the operation says, and no list is
\* touched by an operation on another.
IsFifoLists == Fifo!FifoSpec

\* Each helper does to the sequences what its name says: put appends, get
\* takes the first item, insert goes directly behind the node it is given.
OpsAgree ==
  [][/\ \A h \in ListHead : get(h) => Fifo!Get(h)
     /\ \A n \in Item : remove(n) => Fifo!Unlink(n)
     /\ \A n \in Item, h \in ListHead : put(n, h) => Fifo!Put(n, h)
     /\ \A n \in Item, p \in Node : n # p /\ insert(n, p) =>
          \E h \in ListHead : \E i \in 0 .. WalkLength(links, Node, h) :
             p = (<<h>> \o Walk(links, Node, h))[i + 1] /\ Fifo!Insert(n, h, i)]_links

\* A node is linked exactly if it can be reached from some head, so that
\* list_empty of a thread's or timer's own node tells whether it is on a list.
LinkedIsReachable ==
  \A n \in Item : ~Detached(links, n) <=> \E h \in ListHead : n \in OnList(links, Node, h)
=============================================================================
