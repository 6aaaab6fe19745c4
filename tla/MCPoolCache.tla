---------------------------- MODULE MCPoolCache -----------------------------
(***************************************************************************)
(* PoolCache for TLC.                                                      *)
(***************************************************************************)
EXTENDS PoolCache
=============================================================================
