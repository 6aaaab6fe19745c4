----------------------------- MODULE DrainQueue -----------------------------
(***************************************************************************)
(* What one call of drain (app/gzh/src/sync.cpp) promises: every entry of  *)
(* the queue is either committed to the store or left on the queue as a    *)
(* hole, each once and in any order, and the call returns, no sooner than  *)
(* all are dealt with.                                                     *)
(***************************************************************************)
CONSTANT Entry

VARIABLES stored, left, returned

qvars == <<stored, left, returned>>

Init == stored = {} /\ left = {} /\ returned = FALSE

Todo == Entry \ (stored \cup left)

Commit(i) ==
  /\ i \in Todo
  /\ stored' = stored \cup {i}
  /\ UNCHANGED <<left, returned>>

LeaveHole(i) ==
  /\ i \in Todo
  /\ left' = left \cup {i}
  /\ UNCHANGED <<stored, returned>>

Return ==
  /\ Todo = {}
  /\ returned' = TRUE
  /\ UNCHANGED <<stored, left>>

Next == (\E i \in Entry : Commit(i) \/ LeaveHole(i)) \/ Return

Spec == Init /\ [][Next]_qvars
=============================================================================
