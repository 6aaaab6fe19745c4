------------------------------ MODULE MCEngine ------------------------------
(***************************************************************************)
(* Engine for TLC.                                                         *)
(***************************************************************************)
EXTENDS Engine, TLC

AssetSymmetry == Permutations(Listed)
=============================================================================
