------------------------------- MODULE MCSnow -------------------------------
(***************************************************************************)
(* Finite instances of the snow_os kernel for TLC.                          *)
(***************************************************************************)
EXTENDS SnowRefinement, TLC

\* Threads other than main are alike, and nothing depends on their identity.
Symmetry == Permutations(Thread \ {main})
=============================================================================
