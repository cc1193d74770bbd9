----------------------------- MODULE MCSnowList -----------------------------
(***************************************************************************)
(* A finite instance of the list helpers of snow_os for TLC.                *)
(***************************************************************************)
EXTENDS SnowListOps
=============================================================================
