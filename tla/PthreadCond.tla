----------------------------- MODULE PthreadCond -----------------------------
(***************************************************************************)
(* The POSIX condition variables the programs of posix_multithread use.  A   *)
(* condition variable is the set of the threads asleep in pthread_cond_wait; *)
(* one that has been woken still has to get the mutex back, and takes its    *)
(* next step when it does.                                                   *)
(*                                                                           *)
(* Mutexes do not appear.  What a thread does from the moment it has the     *)
(* mutex until it unlocks it or waits is one step of the models, since no    *)
(* other thread can look at the data in between; where a program looks at    *)
(* data without the mutex it takes a step of its own.  The pthread functions *)
(* do not fail, except where a model says so.                                *)
(***************************************************************************)

\* Wakes one of the sleepers, if there is one.
pthread_cond_signal(cv) ==
  \/ cv = {} /\ cv' = cv
  \/ \E t \in cv : cv' = cv \ {t}

pthread_cond_broadcast(cv) == cv' = {}

\* pthread_cond_wait of t: the mutex is released in the same step.
pthread_cond_wait(cv, t) == cv' = cv \cup {t}

\* A sleeper may be woken for no reason.
spurious_wakeup(cv) == \E t \in cv : cv' = cv \ {t}
=============================================================================
