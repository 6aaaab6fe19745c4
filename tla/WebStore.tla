------------------------------ MODULE WebStore ------------------------------
(***************************************************************************)
(* The cache of one forum (app/web/common/store.py): index.jsonl, the      *)
(* append-only queue pending.jsonl, the directories of the posts, and the  *)
(* progress kept in state.json, with the operations of class Store.  Each  *)
(* operation here is one atomic change of the files; WebSync says when     *)
(* they happen and where the process may die in between.                   *)
(*                                                                         *)
(* A post is the number of its publication: a larger one is newer.  What   *)
(* a row or a directory holds besides its pid is left out.                 *)
(***************************************************************************)
EXTENDS Integers, Sequences, FiniteSets

CONSTANT NPosts       \* how many posts there will ever be

ASSUME NPostsAssumption == NPosts \in Nat

Post == 1 .. NPosts
NoAnchor == 0

VARIABLES
  index,        \* index.jsonl: the pids in it, and self.index of a run
  pend,         \* pending.jsonl: the pids in it, in file order
  torn,         \* index.jsonl or pending.jsonl ends in an incomplete line
  dirs,         \* the posts that have a directory
  deep_done,    \* state.json: the first full scan is over
  deep_page,    \*   the page scanned last, 0 before the first one
  deep_anchor,  \*   the first post of that page
  mem           \* self._pending of a run

files == <<index, pend, torn, dirs, deep_done, deep_page, deep_anchor>>
storeVars == <<files, mem>>

(* The k-th of a set of places. *)
Nth(places, k) == CHOOSE i \in places : Cardinality({j \in places : j <= i}) = k

(* The rows at these places, in their order. *)
Picked(rows, places) == [k \in 1 .. Cardinality(places) |-> rows[Nth(places, k)]]

Unindexed(rows) == Picked(rows, {i \in DOMAIN rows : rows[i] \notin index})

(* The first of several equal rows stays. *)
Deduped(rows) ==
  Picked(rows, {i \in DOMAIN rows : \A j \in 1 .. i - 1 : rows[j] # rows[i]})

Queued(rows) == {rows[i] : i \in DOMAIN rows}

Seen == index \cup Queued(mem)

(* What the files know: cached, or waiting in the queue. *)
Known == index \cup Queued(pend)

-----------------------------------------------------------------------------
StoreInit ==
  /\ index = {} /\ pend = <<>> /\ torn = FALSE /\ dirs = {}
  /\ deep_done = FALSE /\ deep_page = 0 /\ deep_anchor = NoAnchor
  /\ mem = <<>>

(* _read_jsonl fails on a line that is not JSON, the constructor with it.  *)
OpenStore ==
  /\ ~torn
  /\ mem' = Deduped(Unindexed(pend))
  /\ dirs' = dirs \cap index                    \* _gc_orphans
  /\ UNCHANGED <<index, pend, torn, deep_done, deep_page, deep_anchor>>

(* Rows of one call are compared with what was seen before the call, not   *)
(* with one another.                                                       *)
FreshRows(rows) == Picked(rows, {i \in DOMAIN rows : rows[i] \notin Seen})

AddPending(rows) ==
  /\ pend' = pend \o FreshRows(rows)
  /\ mem' = mem \o FreshRows(rows)
  /\ UNCHANGED <<index, torn, dirs, deep_done, deep_page, deep_anchor>>

(* The rows leave the buffer in several writes: a process that dies in     *)
(* between leaves the first n of them, and perhaps a part of the next.     *)
AddPendingInPart(rows, n, partial) ==
  /\ n < Len(FreshRows(rows))
  /\ pend' = pend \o SubSeq(FreshRows(rows), 1, n)
  /\ torn' = partial
  /\ UNCHANGED <<index, dirs, deep_done, deep_page, deep_anchor>>

SetProgress(page, anchor) ==
  /\ deep_page' = page /\ deep_anchor' = anchor
  /\ UNCHANGED <<index, pend, torn, dirs, deep_done, mem>>

SetDeepDone ==
  /\ deep_done' = TRUE
  /\ UNCHANGED <<index, pend, torn, dirs, deep_page, deep_anchor, mem>>

(* The directory in .staging is complete and takes its name; a leftover of *)
(* that name made way.                                                     *)
PutDirectory(p) ==
  /\ dirs' = dirs \cup {p}
  /\ UNCHANGED <<index, pend, torn, deep_done, deep_page, deep_anchor, mem>>

AppendIndex(p) ==
  /\ index' = index \cup {p}
  /\ UNCHANGED <<pend, torn, dirs, deep_done, deep_page, deep_anchor, mem>>

(* Slip: what this run has been through is taken for done. *)
CompactAll ==
  /\ pend' = <<>>
  /\ UNCHANGED <<index, torn, dirs, deep_done, deep_page, deep_anchor>>

(* The last thing a run does: mem is not used any more. *)
CompactPending ==
  /\ pend' = Unindexed(mem)
  /\ UNCHANGED <<index, torn, dirs, deep_done, deep_page, deep_anchor>>
=============================================================================
