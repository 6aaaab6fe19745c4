------------------------------- MODULE Drain --------------------------------
(***************************************************************************)
(* One call of drain (app/gzh/src/sync.cpp): a pool of workers fetches the *)
(* entries of the queue, the main thread commits what they bring back.     *)
(*                                                                         *)
(* Every section under `mutex` is one step, and so is every notify, which  *)
(* the code calls with the mutex released.  A condition variable wakes     *)
(* nobody who is not waiting on it yet; spurious wake-ups only lead to     *)
(* another look at the predicate and are left out.                         *)
(***************************************************************************)
EXTENDS Naturals, FiniteSets

CONSTANTS
  Worker,       \* the threads of the pool
  NEntries      \* length of the queue

Entry == 0 .. NEntries - 1
workers == Cardinality(Worker)

ASSUME DrainAssumption ==
  /\ IsFiniteSet(Worker) /\ Worker # {}
  /\ NEntries \in Nat \ {0}

VARIABLES
  next_dispatch, committed, holes,   \* counters, under the mutex
  ready,        \* entries fetched and not yet taken by the main thread
  wpc,          \* where each worker is
  index,        \* the entry each worker dispatched last
  mpc,          \* where the main thread is
  done,         \* the entry the main thread took from ready
  seen,         \* the value of holes the main thread last read
  stored        \* entries AccountStore has committed

vars == <<next_dispatch, committed, holes, ready, wpc, index, mpc, done, seen, stored>>
counters == <<next_dispatch, committed, holes>>
workerVars == <<wpc, index>>
mainVars == <<mpc, done, seen, stored>>

Init ==
  /\ next_dispatch = 0 /\ committed = 0 /\ holes = 0
  /\ ready = {}
  /\ wpc = [w \in Worker |-> "check"] /\ index = [w \in Worker |-> 0]
  /\ mpc = "top" /\ done = 0 /\ seen = 0
  /\ stored = {}

-----------------------------------------------------------------------------
(***************************************************************************)
(* Workers: wait for the window, dispatch, fetch, hand over, notify.       *)
(***************************************************************************)

(* Slip: the window counts commits only (what the comment in work warns of). *)
WindowByCommitted == next_dispatch < committed + workers

(* Slip: the window may hold one entry more than there are workers. *)
WindowOneMore == next_dispatch <= committed + holes + workers

WindowOpen == next_dispatch < committed + holes + workers

Exhausted == next_dispatch >= NEntries

LeavePool(w) ==
  /\ wpc[w] = "check" /\ Exhausted
  /\ wpc' = [wpc EXCEPT ![w] = "exited"]
  /\ UNCHANGED <<counters, ready, index, mainVars>>

(* Slip: dispatch without looking for the end of the queue. *)
DispatchUnchecked(w) ==
  /\ wpc[w] = "check" /\ WindowOpen
  /\ wpc' = [wpc EXCEPT ![w] = "fetching"]
  /\ index' = [index EXCEPT ![w] = next_dispatch]
  /\ next_dispatch' = next_dispatch + 1
  /\ UNCHANGED <<committed, holes, ready, mainVars>>

Dispatch(w) ==
  /\ wpc[w] = "check" /\ ~Exhausted /\ WindowOpen
  /\ wpc' = [wpc EXCEPT ![w] = "fetching"]
  /\ index' = [index EXCEPT ![w] = next_dispatch]
  /\ next_dispatch' = next_dispatch + 1
  /\ UNCHANGED <<committed, holes, ready, mainVars>>

Wait(w) ==
  /\ wpc[w] = "check" /\ ~Exhausted /\ ~WindowOpen
  /\ wpc' = [wpc EXCEPT ![w] = "waiting"]
  /\ UNCHANGED <<counters, ready, index, mainVars>>

Fetched(w) ==
  /\ wpc[w] = "fetching"
  /\ wpc' = [wpc EXCEPT ![w] = "notify"]
  /\ ready' = ready \cup {index[w]}
  /\ UNCHANGED <<counters, index, mainVars>>

(* fetch_article found nothing: a hole. *)
Missed(w) ==
  /\ wpc[w] = "fetching"
  /\ wpc' = [wpc EXCEPT ![w] = "notify"]
  /\ holes' = holes + 1
  /\ UNCHANGED <<next_dispatch, committed, ready, index, mainVars>>

(* ready_cv.notify_one: the main thread goes on only if something is ready. *)
NotifyMain(w) ==
  /\ wpc[w] = "notify"
  /\ wpc' = [wpc EXCEPT ![w] = "check"]
  /\ mpc' = IF mpc = "waiting" /\ ready # {} THEN "take" ELSE mpc
  /\ UNCHANGED <<counters, ready, index, done, seen, stored>>

WorkerStep(w) ==
  LeavePool(w) \/ Dispatch(w) \/ Wait(w) \/ Fetched(w) \/ Missed(w) \/ NotifyMain(w)

-----------------------------------------------------------------------------
(***************************************************************************)
(* The main thread.  Its outer loop reads holes without the mutex, a data  *)
(* race: it gets some value between the last one it read and the present.  *)
(***************************************************************************)
Top ==
  /\ mpc = "top"
  /\ seen' \in seen .. holes
  /\ mpc' = IF committed + seen' < NEntries THEN "take" ELSE "join"
  /\ UNCHANGED <<counters, ready, workerVars, done, stored>>

First(S) == CHOOSE i \in S : \A j \in S : i <= j

Take ==
  /\ mpc = "take" /\ ready # {}
  /\ done' = First(ready)
  /\ ready' = ready \ {First(ready)}
  /\ seen' = holes
  /\ mpc' = "commit"
  /\ UNCHANGED <<counters, workerVars, stored>>

(* Slip: go on to commit with nothing taken from ready. *)
AllProcessedGoesOn ==
  /\ mpc = "take" /\ ready = {} /\ committed + holes >= NEntries
  /\ seen' = holes
  /\ mpc' = "commit"
  /\ UNCHANGED <<counters, ready, workerVars, done, stored>>

AllProcessed ==
  /\ mpc = "take" /\ ready = {} /\ committed + holes >= NEntries
  /\ seen' = holes
  /\ mpc' = "top"
  /\ UNCHANGED <<counters, ready, workerVars, done, stored>>

Sleep ==
  /\ mpc = "take" /\ ready = {} /\ committed + holes < NEntries
  /\ seen' = holes
  /\ mpc' = "waiting"
  /\ UNCHANGED <<counters, ready, workerVars, done, stored>>

(* Slip: wait without a time limit. *)
NeverTimesOut ==
  /\ mpc = "waiting" /\ ready # {}
  /\ mpc' = "take"
  /\ UNCHANGED <<counters, ready, workerVars, done, seen, stored>>

(* wait_for gives up after two seconds. *)
Timeout ==
  /\ mpc = "waiting"
  /\ mpc' = "take"
  /\ UNCHANGED <<counters, ready, workerVars, done, seen, stored>>

Commit ==
  /\ mpc = "commit"
  /\ stored' = stored \cup {done}
  /\ mpc' = "count"
  /\ UNCHANGED <<counters, ready, workerVars, done, seen>>

Count ==
  /\ mpc = "count"
  /\ committed' = committed + 1
  /\ seen' = holes
  /\ mpc' = "notify"
  /\ UNCHANGED <<next_dispatch, holes, ready, workerVars, done, stored>>

(* dispatch_cv.notify_all *)
NotifyAll ==
  /\ mpc = "notify"
  /\ wpc' = [w \in Worker |-> IF wpc[w] = "waiting" THEN "check" ELSE wpc[w]]
  /\ mpc' = "top"
  /\ UNCHANGED <<counters, ready, index, done, seen, stored>>

Join ==
  /\ mpc = "join"
  /\ \A w \in Worker : wpc[w] = "exited"
  /\ mpc' = "returned"
  /\ UNCHANGED <<counters, ready, workerVars, done, seen, stored>>

MainStep ==
  Top \/ Take \/ AllProcessed \/ Sleep \/ Timeout \/ Commit \/ Count \/ NotifyAll \/ Join

Next == MainStep \/ \E w \in Worker : WorkerStep(w)

Spec == Init /\ [][Next]_vars

(***************************************************************************)
(* Fairness: no thread stops for ever.  A fetch ends: every request has a  *)
(* time limit and a limited number of attempts (fetch.cpp).                *)
(***************************************************************************)
FairSpec == Spec /\ WF_vars(MainStep) /\ \A w \in Worker : WF_vars(WorkerStep(w))

-----------------------------------------------------------------------------
Fetching == {w \in Worker : wpc[w] = "fetching"}
InFlight == {index[w] : w \in Fetching}
Committing == IF mpc \in {"commit", "count"} THEN {done} ELSE {}

(***************************************************************************)
(* The state has its types, and the counters of drain (sync.cpp) never     *)
(* pass the length of the queue.                                           *)
(***************************************************************************)
TypeOK ==
  /\ next_dispatch \in 0 .. NEntries /\ committed \in 0 .. NEntries /\ holes \in 0 .. NEntries
  /\ ready \subseteq Entry
  /\ wpc \in [Worker -> {"check", "waiting", "fetching", "notify", "exited"}]
  /\ index \in [Worker -> Entry]
  /\ mpc \in {"top", "take", "waiting", "commit", "count", "notify", "join", "returned"}
  /\ done \in Entry /\ seen \in 0 .. holes
  /\ stored \subseteq Entry

(***************************************************************************)
(* Memory: what is being fetched, waits to be committed or is being        *)
(* committed is never more than one entry per worker (the comment before   *)
(* drain).                                                                 *)
(***************************************************************************)
WindowBound == Cardinality(InFlight \cup ready \cup Committing) <= workers

(***************************************************************************)
(* A worker that waits for the window has a wake-up coming: an entry is on *)
(* its way to notify_all.  Holes move the window too but notify nobody;    *)
(* were the window to count commits only, it would jam on the first holes  *)
(* ("空洞不推进 committed，单按它算窗口会在前几个全空洞时卡死", in work).        *)
(***************************************************************************)
NoLostWakeup ==
  (\E w \in Worker : wpc[w] = "waiting") =>
    ready # {} \/ mpc \in {"commit", "count", "notify"}

(* An entry has been left as a hole when it was dispatched and is neither  *)
(* underway nor stored.                                                    *)
Left == (0 .. next_dispatch - 1) \ (InFlight \cup ready \cup Committing \cup stored)

Queue == INSTANCE DrainQueue WITH left <- Left, returned <- mpc = "returned"

(***************************************************************************)
(* drain keeps DrainQueue's promise: no entry is dropped, committed twice  *)
(* or given up and then committed, and drain returns only when all are     *)
(* dealt with and every worker has left.                                   *)
(***************************************************************************)
DrainsQueue == Queue!Spec

(***************************************************************************)
(* drain returns, though a hole at the end of the queue does not wake the  *)
(* main thread: its wait has a time limit.                                 *)
(***************************************************************************)
Terminates == <>(mpc = "returned")
=============================================================================
