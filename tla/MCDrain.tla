------------------------------ MODULE MCDrain -------------------------------
(***************************************************************************)
(* Drain for TLC: two workers and a queue of five entries, so that the     *)
(* window is shorter than the queue and moves more than once.              *)
(***************************************************************************)
EXTENDS Drain
=============================================================================
