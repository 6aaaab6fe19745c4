---------------------------- MODULE Drain_proofs ----------------------------
(***************************************************************************)
(* TLAPS proofs about Drain: its type invariant, the bound of the window,  *)
(* that no worker sleeps without a wake-up coming, and that drain keeps    *)
(* DrainQueue's promise, for every number of workers and entries.          *)
(*                                                                         *)
(* The argument is a balance: of the entries dispatched, each is committed *)
(* and counted, a hole and counted, being fetched, ready, or with the main *)
(* thread (Balance), and no two of these hold the same one (Apart).  A     *)
(* worker goes to wait when next_dispatch has reached the window, while it *)
(* is not fetching itself: one of the `workers` entries underway is then   *)
(* ready or with the main thread, which will notify.                       *)
(***************************************************************************)
EXTENDS Drain, FiniteSetTheorems, WellFoundedInduction, TLAPS

Busy == IF mpc \in {"commit", "count"} THEN 1 ELSE 0

Balance ==
  next_dispatch = committed + holes + Cardinality(Fetching) + Cardinality(ready) + Busy

WindowKept == next_dispatch <= committed + holes + workers

Apart ==
  /\ \A w \in Worker : wpc[w] = "fetching" =>
       /\ index[w] < next_dispatch
       /\ index[w] \notin ready /\ index[w] \notin stored
       /\ mpc \in {"commit", "count"} => index[w] # done
       /\ \A v \in Worker : wpc[v] = "fetching" /\ index[v] = index[w] => v = w
  /\ \A i \in ready :
       /\ i < next_dispatch /\ i \notin stored
       /\ mpc \in {"commit", "count"} => i # done
  /\ \A i \in stored : i < next_dispatch
  /\ mpc \in {"commit", "count"} => done < next_dispatch
  /\ mpc = "commit" => done \notin stored
  /\ mpc = "count" => done \in stored

Ending ==
  /\ \A w \in Worker : wpc[w] = "exited" => next_dispatch >= NEntries
  /\ mpc \in {"join", "returned"} => committed + holes >= NEntries
  /\ mpc = "returned" => \A w \in Worker : wpc[w] = "exited"

IInv == TypeOK /\ Balance /\ WindowKept /\ Apart /\ NoLostWakeup /\ Ending

-----------------------------------------------------------------------------
(* The first entry of a nonempty set of entries is in the set. *)
LEMMA FirstInSet ==
  ASSUME NEW S \in SUBSET Nat, S # {}
  PROVE  First(S) \in S
<1>0. S \subseteq Nat /\ S # {}
  OBVIOUS
<1>1. \E x \in S : \A y \in S : ~ (<<y, x>> \in OpToRel(<, Nat))
  BY <1>0, WFMin, NatLessThanWellFounded
<1>2. PICK x \in S : \A y \in S : ~ (<<y, x>> \in OpToRel(<, Nat))
  BY <1>1
<1>3. \A y \in S : ~ (y < x)
  BY <1>0, <1>2 DEF OpToRel
<1>4. \A y \in S : x <= y
  BY <1>0, <1>3
<1> QED
  BY <1>4 DEF First

(* A stale read of holes that ends the loop is right. *)
LEMMA StaleReadBelow ==
  ASSUME NEW c \in Nat, NEW n \in Nat, NEW old \in Nat, NEW h \in Nat,
         old <= h, ~ (c + old < n)
  PROVE  c + h >= n
OBVIOUS

(* A union has at most as many elements as its parts together. *)
LEMMA UnionBound ==
  ASSUME NEW S, NEW T, IsFiniteSet(S), IsFiniteSet(T)
  PROVE  /\ IsFiniteSet(S \cup T)
         /\ Cardinality(S \cup T) <= Cardinality(S) + Cardinality(T)
<1>1. IsFiniteSet(S \cap T) /\ IsFiniteSet(S \cup T)
  BY FS_Intersection, FS_Union
<1>2. Cardinality(S \cup T) = Cardinality(S) + Cardinality(T) - Cardinality(S \cap T)
  BY FS_Union
<1>3. /\ Cardinality(S) \in Nat /\ Cardinality(T) \in Nat
      /\ Cardinality(S \cap T) \in Nat
  BY <1>1, FS_CardinalityType
<1> QED
  BY <1>1, <1>2, <1>3

(* The pool and the queue are finite. *)
LEMMA Finite ==
  ASSUME TypeOK
  PROVE  /\ workers \in Nat \ {0} /\ NEntries \in Nat \ {0}
         /\ IsFiniteSet(Fetching) /\ Cardinality(Fetching) \in Nat
         /\ IsFiniteSet(ready) /\ Cardinality(ready) \in Nat
<1>1. IsFiniteSet(Worker) /\ Worker # {} /\ NEntries \in Nat \ {0}
  BY DrainAssumption
<1>2. workers \in Nat \ {0}
  BY <1>1, FS_CardinalityType, FS_EmptySet DEF workers
<1>3. IsFiniteSet(Fetching)
  <2>1. Fetching \in SUBSET Worker
    BY DEF Fetching
  <2> QED
    BY <1>1, <2>1, FS_Subset
<1>4. IsFiniteSet(ready)
  <2>1. IsFiniteSet(0 .. NEntries - 1)
    BY <1>1, FS_Interval
  <2>2. ready \in SUBSET (0 .. NEntries - 1)
    BY DEF TypeOK, Entry
  <2> QED
    BY <2>1, <2>2, FS_Subset
<1> QED
  BY <1>1, <1>2, <1>3, <1>4, FS_CardinalityType

(* A worker that is not fetching leaves one fetch fewer than workers. *)
LEMMA OneIdle ==
  ASSUME TypeOK, NEW w \in Worker, wpc[w] # "fetching"
  PROVE  Cardinality(Fetching) + 1 <= workers
<1>1. IsFiniteSet(Worker)
  BY DrainAssumption
<1>2. IsFiniteSet(Worker \ {w}) /\ Cardinality(Worker \ {w}) = workers - 1
  BY <1>1, FS_RemoveElement DEF workers
<1>3. Fetching \in SUBSET (Worker \ {w})
  BY DEF Fetching
<1>4. Cardinality(Fetching) <= Cardinality(Worker \ {w})
  BY <1>2, <1>3, FS_Subset
<1> QED
  BY <1>2, <1>4, Finite

(* How the number of fetching workers changes when one worker moves. *)
LEMMA FetchingMoves ==
  ASSUME TypeOK, NEW w \in Worker,
         \A v \in Worker \ {w} : wpc'[v] = wpc[v]
  PROVE  /\ wpc[w] # "fetching" /\ wpc'[w] = "fetching" =>
              Cardinality(Fetching') = Cardinality(Fetching) + 1
         /\ wpc[w] = "fetching" /\ wpc'[w] # "fetching" =>
              /\ Cardinality(Fetching) >= 1
              /\ Cardinality(Fetching') = Cardinality(Fetching) - 1
         /\ wpc[w] # "fetching" /\ wpc'[w] # "fetching" => Fetching' = Fetching
<1>2. IsFiniteSet(Fetching) /\ Cardinality(Fetching) \in Nat
  BY Finite
<1>3. CASE wpc[w] # "fetching" /\ wpc'[w] = "fetching"
  <2>1. Fetching' = Fetching \cup {w} /\ w \notin Fetching
    BY <1>3 DEF Fetching
  <2> QED
    BY <1>2, <1>3, <2>1, FS_AddElement
<1>4. CASE wpc[w] = "fetching" /\ wpc'[w] # "fetching"
  <2>1. Fetching' = Fetching \ {w} /\ w \in Fetching
    BY <1>4 DEF Fetching
  <2>2. Cardinality(Fetching') = Cardinality(Fetching) - 1
    BY <1>2, <2>1, FS_RemoveElement
  <2>3. Cardinality(Fetching) # 0
    BY <1>2, <2>1, FS_EmptySet
  <2> QED
    BY <1>2, <1>4, <2>2, <2>3
<1>5. CASE wpc[w] # "fetching" /\ wpc'[w] # "fetching"
  <2>1. Fetching' = Fetching
    BY <1>5 DEF Fetching
  <2> QED
    BY <1>5, <2>1
<1> QED
  BY <1>3, <1>4, <1>5

-----------------------------------------------------------------------------
(* drain starts with everything empty. *)
LEMMA InitInv == Init => IInv
<1> SUFFICES ASSUME Init PROVE IInv
  OBVIOUS
<1>1. Worker # {} /\ NEntries \in Nat \ {0} /\ 0 \in Entry
  BY DrainAssumption DEF Entry
<1>2. TypeOK
  BY <1>1 DEF Init, TypeOK
<1>3. Fetching = {}
  BY DEF Init, Fetching
<1>4. Balance /\ WindowKept
  BY <1>2, <1>3, Finite, FS_EmptySet DEF Init, Balance, WindowKept, Busy
<1>5. Apart /\ NoLostWakeup /\ Ending
  BY DEF Init, Apart, NoLostWakeup, Ending
<1> QED
  BY <1>2, <1>4, <1>5 DEF IInv

(* A step of the pool preserves the invariant. *)
LEMMA WorkerStepInv ==
  ASSUME IInv, NEW w \in Worker, WorkerStep(w)
  PROVE  IInv'
<1>0. /\ workers \in Nat \ {0} /\ NEntries \in Nat \ {0}
      /\ IsFiniteSet(ready) /\ Cardinality(ready) \in Nat /\ Cardinality(Fetching) \in Nat
      /\ next_dispatch \in Nat /\ committed \in Nat /\ holes \in Nat /\ Busy \in {0, 1}
  BY Finite DEF IInv, TypeOK, Busy
<1> USE <1>0
<1>1. CASE LeavePool(w)
  <2>1. TypeOK'
    BY <1>1, DrainAssumption DEF LeavePool, TypeOK, Entry, Balance, IInv, counters, workerVars, mainVars, Exhausted
  <2>2. Cardinality(Fetching') = Cardinality(Fetching)
    <3>1. TypeOK /\ wpc[w] # "fetching" /\ wpc'[w] # "fetching"
      BY <1>1 DEF LeavePool, IInv, TypeOK
    <3>2. \A v \in Worker \ {w} : wpc'[v] = wpc[v]
      BY <1>1 DEF LeavePool, IInv, TypeOK
    <3> QED
      BY <3>1, <3>2, FetchingMoves
  <2>3. Balance'
    BY <1>1, <2>2 DEF LeavePool, Balance, Busy, IInv, counters, workerVars, mainVars, TypeOK
  <2>4. WindowKept'
    BY <1>1 DEF LeavePool, WindowKept, IInv, counters, workerVars, mainVars, TypeOK, workers, Exhausted
  <2>5. Apart'
    BY <1>1 DEF LeavePool, Apart, IInv, counters, workerVars, mainVars, TypeOK, Exhausted
  <2>6. NoLostWakeup'
    BY <1>1 DEF LeavePool, NoLostWakeup, IInv, counters, workerVars, mainVars, TypeOK
  <2>7. Ending'
    BY <1>1 DEF LeavePool, Ending, IInv, counters, workerVars, mainVars, TypeOK, Exhausted
  <2> QED
    BY <2>1, <2>3, <2>4, <2>5, <2>6, <2>7 DEF IInv
<1>2. CASE Dispatch(w)
  <2>1. TypeOK'
    BY <1>2, DrainAssumption DEF Dispatch, TypeOK, Entry, Balance, IInv, counters, workerVars, mainVars, Exhausted, WindowOpen
  <2>2. Cardinality(Fetching') = Cardinality(Fetching) + 1
    <3>1. TypeOK /\ wpc[w] # "fetching" /\ wpc'[w] = "fetching"
      BY <1>2 DEF Dispatch, IInv, TypeOK
    <3>2. \A v \in Worker \ {w} : wpc'[v] = wpc[v]
      BY <1>2 DEF Dispatch, IInv, TypeOK
    <3> QED
      BY <3>1, <3>2, FetchingMoves
  <2>3. Balance'
    BY <1>2, <2>2 DEF Dispatch, Balance, Busy, IInv, counters, workerVars, mainVars, TypeOK
  <2>4. WindowKept'
    BY <1>2 DEF Dispatch, WindowKept, IInv, counters, workerVars, mainVars, TypeOK, workers, Exhausted, WindowOpen
  <2>5. Apart'
    <3>1. /\ next_dispatch \notin ready /\ next_dispatch \notin stored
          /\ mpc \in {"commit", "count"} => next_dispatch # done
          /\ \A v \in Worker : wpc[v] = "fetching" => index[v] # next_dispatch
      BY DEF IInv, Apart, TypeOK
    <3>2. \A v \in Worker : wpc'[v] = "fetching" =>
            IF v = w THEN index'[v] = next_dispatch
            ELSE wpc[v] = "fetching" /\ index'[v] = index[v]
      BY <1>2 DEF Dispatch, IInv, TypeOK
    <3>3. /\ next_dispatch' = next_dispatch + 1 /\ ready' = ready /\ stored' = stored
          /\ mpc' = mpc /\ done' = done /\ wpc'[w] = "fetching"
      BY <1>2 DEF Dispatch, mainVars, IInv, TypeOK
    <3>4. \A v \in Worker : wpc'[v] = "fetching" =>
            /\ index'[v] < next_dispatch'
            /\ index'[v] \notin ready' /\ index'[v] \notin stored'
            /\ mpc' \in {"commit", "count"} => index'[v] # done'
            /\ \A u \in Worker : wpc'[u] = "fetching" /\ index'[u] = index'[v] => u = v
      BY <3>1, <3>2, <3>3 DEF IInv, Apart, TypeOK, Entry
    <3>5. /\ \A i \in ready' : i < next_dispatch' /\ i \notin stored'
          /\ \A i \in stored' : i < next_dispatch'
          /\ mpc' \in {"commit", "count"} => done' < next_dispatch'
      BY <3>3 DEF IInv, Apart, TypeOK, Entry
    <3> QED
      BY <3>3, <3>4, <3>5 DEF IInv, Apart
  <2>6. NoLostWakeup'
    BY <1>2 DEF Dispatch, NoLostWakeup, IInv, counters, workerVars, mainVars, TypeOK
  <2>7. Ending'
    BY <1>2 DEF Dispatch, Ending, IInv, counters, workerVars, mainVars, TypeOK, Exhausted, WindowOpen
  <2> QED
    BY <2>1, <2>3, <2>4, <2>5, <2>6, <2>7 DEF IInv
<1>3. CASE Wait(w)
  <2>1. TypeOK'
    BY <1>3, DrainAssumption DEF Wait, TypeOK, Entry, Balance, IInv, counters, workerVars, mainVars, Exhausted, WindowOpen
  <2>2. Cardinality(Fetching') = Cardinality(Fetching)
    <3>1. TypeOK /\ wpc[w] # "fetching" /\ wpc'[w] # "fetching"
      BY <1>3 DEF Wait, IInv, TypeOK
    <3>2. \A v \in Worker \ {w} : wpc'[v] = wpc[v]
      BY <1>3 DEF Wait, IInv, TypeOK
    <3> QED
      BY <3>1, <3>2, FetchingMoves
  <2>3. Balance'
    BY <1>3, <2>2 DEF Wait, Balance, Busy, IInv, counters, workerVars, mainVars, TypeOK
  <2>4. WindowKept'
    BY <1>3 DEF Wait, WindowKept, IInv, counters, workerVars, mainVars, TypeOK, workers, Exhausted, WindowOpen
  <2>5. Apart'
    BY <1>3 DEF Wait, Apart, IInv, counters, workerVars, mainVars, TypeOK, Exhausted, WindowOpen
  <2>6. NoLostWakeup'
    <3>1. Cardinality(Fetching) + 1 <= workers
      BY <1>3, OneIdle DEF Wait, IInv
    <3>2. next_dispatch >= committed + holes + workers
      BY <1>3 DEF Wait, WindowOpen
    <3>3. Cardinality(ready) + Busy >= 1
      BY <3>1, <3>2 DEF IInv, Balance
    <3>4. ready # {} \/ mpc \in {"commit", "count"}
      BY <3>3, FS_EmptySet DEF Busy
    <3> QED
      BY <1>3, <3>4 DEF Wait, NoLostWakeup, mainVars
  <2>7. Ending'
    BY <1>3 DEF Wait, Ending, IInv, counters, workerVars, mainVars, TypeOK, Exhausted, WindowOpen
  <2> QED
    BY <2>1, <2>3, <2>4, <2>5, <2>6, <2>7 DEF IInv
<1>4. CASE Fetched(w)
  <2>1. TypeOK'
    BY <1>4, DrainAssumption DEF Fetched, TypeOK, Entry, Balance, IInv, counters, workerVars, mainVars
  <2>2. Cardinality(Fetching) >= 1 /\ Cardinality(Fetching') = Cardinality(Fetching) - 1
    <3>1. TypeOK /\ wpc[w] = "fetching" /\ wpc'[w] # "fetching"
      BY <1>4 DEF Fetched, IInv, TypeOK
    <3>2. \A v \in Worker \ {w} : wpc'[v] = wpc[v]
      BY <1>4 DEF Fetched, IInv, TypeOK
    <3> QED
      BY <3>1, <3>2, FetchingMoves
  <2>3. Balance'
    <3>1. index[w] \notin ready
      BY <1>4 DEF Fetched, IInv, Apart
    <3>2. Cardinality(ready') = Cardinality(ready) + 1
      BY <1>4, <3>1, FS_AddElement DEF Fetched
    <3> QED
      BY <1>4, <2>2, <3>2 DEF Fetched, Balance, Busy, IInv, counters, mainVars
  <2>4. WindowKept'
    BY <1>4 DEF Fetched, WindowKept, IInv, counters, workerVars, mainVars, TypeOK, workers
  <2>5. Apart'
    BY <1>4 DEF Fetched, Apart, IInv, counters, workerVars, mainVars, TypeOK
  <2>6. NoLostWakeup'
    BY <1>4 DEF Fetched, NoLostWakeup, IInv, counters, workerVars, mainVars, TypeOK
  <2>7. Ending'
    BY <1>4 DEF Fetched, Ending, IInv, counters, workerVars, mainVars, TypeOK
  <2> QED
    BY <2>1, <2>3, <2>4, <2>5, <2>6, <2>7 DEF IInv
<1>5. CASE Missed(w)
  <2>2. Cardinality(Fetching) >= 1 /\ Cardinality(Fetching') = Cardinality(Fetching) - 1
    <3>1. TypeOK /\ wpc[w] = "fetching" /\ wpc'[w] # "fetching"
      BY <1>5 DEF Missed, IInv, TypeOK
    <3>2. \A v \in Worker \ {w} : wpc'[v] = wpc[v]
      BY <1>5 DEF Missed, IInv, TypeOK
    <3> QED
      BY <3>1, <3>2, FetchingMoves
  <2>1. TypeOK'
    <3>1. holes + 1 <= NEntries
      BY <2>2 DEF IInv, TypeOK, Balance
    <3> QED
      BY <1>5, <3>1 DEF Missed, TypeOK, IInv, mainVars
  <2>3. Balance'
    BY <1>5, <2>2 DEF Missed, Balance, Busy, IInv, counters, workerVars, mainVars, TypeOK
  <2>4. WindowKept'
    BY <1>5 DEF Missed, WindowKept, IInv, counters, workerVars, mainVars, TypeOK, workers
  <2>5. Apart'
    BY <1>5 DEF Missed, Apart, IInv, counters, workerVars, mainVars, TypeOK
  <2>6. NoLostWakeup'
    BY <1>5 DEF Missed, NoLostWakeup, IInv, counters, workerVars, mainVars, TypeOK
  <2>7. Ending'
    BY <1>5 DEF Missed, Ending, IInv, counters, workerVars, mainVars, TypeOK
  <2> QED
    BY <2>1, <2>3, <2>4, <2>5, <2>6, <2>7 DEF IInv
<1>6. CASE NotifyMain(w)
  <2>1. TypeOK'
    BY <1>6, DrainAssumption DEF NotifyMain, TypeOK, Entry, Balance, IInv, counters, workerVars, mainVars
  <2>2. Cardinality(Fetching') = Cardinality(Fetching)
    <3>1. TypeOK /\ wpc[w] # "fetching" /\ wpc'[w] # "fetching"
      BY <1>6 DEF NotifyMain, IInv, TypeOK
    <3>2. \A v \in Worker \ {w} : wpc'[v] = wpc[v]
      BY <1>6 DEF NotifyMain, IInv, TypeOK
    <3> QED
      BY <3>1, <3>2, FetchingMoves
  <2>3. Balance'
    BY <1>6, <2>2 DEF NotifyMain, Balance, Busy, IInv, counters, workerVars, mainVars, TypeOK
  <2>4. WindowKept'
    BY <1>6 DEF NotifyMain, WindowKept, IInv, counters, workerVars, mainVars, TypeOK, workers
  <2>5. Apart'
    BY <1>6 DEF NotifyMain, Apart, IInv, counters, workerVars, mainVars, TypeOK
  <2>6. NoLostWakeup'
    BY <1>6 DEF NotifyMain, NoLostWakeup, IInv, counters, workerVars, mainVars, TypeOK
  <2>7. Ending'
    BY <1>6 DEF NotifyMain, Ending, IInv, counters, workerVars, mainVars, TypeOK
  <2> QED
    BY <2>1, <2>3, <2>4, <2>5, <2>6, <2>7 DEF IInv
<1> QED
  BY <1>1, <1>2, <1>3, <1>4, <1>5, <1>6 DEF WorkerStep

(* A step of the main thread preserves the invariant. *)
LEMMA MainStepInv ==
  ASSUME IInv, MainStep
  PROVE  IInv'
<1>0. /\ workers \in Nat \ {0} /\ NEntries \in Nat \ {0}
      /\ IsFiniteSet(ready) /\ Cardinality(ready) \in Nat /\ Cardinality(Fetching) \in Nat
      /\ next_dispatch \in Nat /\ committed \in Nat /\ holes \in Nat /\ Busy \in {0, 1}
  BY Finite DEF IInv, TypeOK, Busy
<1> USE <1>0
<1>1. CASE Top
  <2>1. TypeOK'
    BY <1>1, DrainAssumption DEF Top, TypeOK, Entry, Balance, Busy, IInv, counters, workerVars, mainVars
  <2>2. Fetching' = Fetching
    BY <1>1 DEF Top, Fetching, IInv, counters, workerVars, mainVars, TypeOK
  <2>3. Balance'
    BY <1>1, <2>2 DEF Top, Balance, Busy, IInv, counters, workerVars, mainVars, TypeOK
  <2>4. WindowKept'
    BY <1>1 DEF Top, WindowKept, IInv, counters, workerVars, mainVars, TypeOK, workers
  <2>5. Apart'
    BY <1>1 DEF Top, Apart, IInv, counters, workerVars, mainVars, TypeOK
  <2>6. NoLostWakeup'
    BY <1>1 DEF Top, NoLostWakeup, IInv, counters, workerVars, mainVars, TypeOK
  <2>7. Ending'
    <3>1. seen' \in Nat /\ seen' <= holes
      BY <1>1 DEF Top, IInv, TypeOK
    <3>2. mpc' = "join" => ~ (committed + seen' < NEntries)
      BY <1>1 DEF Top
    <3>3. mpc' = "join" => committed + holes >= NEntries
      BY <3>1, <3>2, StaleReadBelow
    <3>4. mpc' # "returned"
      BY <1>1 DEF Top
    <3> QED
      BY <1>1, <3>3, <3>4 DEF Top, Ending, IInv, counters, workerVars
  <2> QED
    BY <2>1, <2>3, <2>4, <2>5, <2>6, <2>7 DEF IInv
<1>2. CASE Take
  <2>0. First(ready) \in ready /\ First(ready) \in Entry
    <3>1. ready \in SUBSET Nat /\ ready # {} /\ ready \subseteq Entry
      BY <1>2 DEF Take, IInv, TypeOK, Entry
    <3> QED
      BY <3>1, FirstInSet
  <2>1. TypeOK'
    BY <1>2, <2>0 DEF Take, TypeOK, IInv, counters, workerVars
  <2>2. Fetching' = Fetching
    BY <1>2 DEF Take, Fetching, IInv, counters, workerVars, mainVars, TypeOK
  <2>3. Balance'
    <3>1. Cardinality(ready') = Cardinality(ready) - 1
      BY <1>2, <2>0, FS_RemoveElement DEF Take
    <3>2. Busy = 0 /\ Busy' = 1
      BY <1>2 DEF Take, Busy
    <3> QED
      BY <1>2, <2>2, <3>1, <3>2 DEF Take, Balance, IInv, counters
  <2>4. WindowKept'
    BY <1>2 DEF Take, WindowKept, IInv, counters, workerVars, mainVars, TypeOK, workers
  <2>5. Apart'
    BY <1>2, <2>0 DEF Take, Apart, IInv, counters, workerVars
  <2>6. NoLostWakeup'
    BY <1>2 DEF Take, NoLostWakeup, IInv, counters, workerVars, mainVars, TypeOK
  <2>7. Ending'
    BY <1>2 DEF Take, Ending, IInv, counters, workerVars, mainVars, TypeOK
  <2> QED
    BY <2>1, <2>3, <2>4, <2>5, <2>6, <2>7 DEF IInv
<1>3. CASE AllProcessed
  <2>1. TypeOK'
    BY <1>3 DEF AllProcessed, TypeOK, IInv, counters, workerVars
  <2>2. Fetching' = Fetching
    BY <1>3 DEF AllProcessed, Fetching, IInv, counters, workerVars, mainVars, TypeOK
  <2>3. Balance'
    BY <1>3, <2>2 DEF AllProcessed, Balance, Busy, IInv, counters, workerVars, mainVars, TypeOK
  <2>4. WindowKept'
    BY <1>3 DEF AllProcessed, WindowKept, IInv, counters, workerVars, mainVars, TypeOK, workers
  <2>5. Apart'
    BY <1>3 DEF AllProcessed, Apart, IInv, counters, workerVars, mainVars, TypeOK
  <2>6. NoLostWakeup'
    BY <1>3 DEF AllProcessed, NoLostWakeup, IInv, counters, workerVars, mainVars, TypeOK
  <2>7. Ending'
    BY <1>3 DEF AllProcessed, Ending, IInv, counters, workerVars, mainVars, TypeOK
  <2> QED
    BY <2>1, <2>3, <2>4, <2>5, <2>6, <2>7 DEF IInv
<1>4. CASE Sleep
  <2>1. TypeOK'
    BY <1>4 DEF Sleep, TypeOK, IInv, counters, workerVars
  <2>2. Fetching' = Fetching
    BY <1>4 DEF Sleep, Fetching, IInv, counters, workerVars, mainVars, TypeOK
  <2>3. Balance'
    BY <1>4, <2>2 DEF Sleep, Balance, Busy, IInv, counters, workerVars, mainVars, TypeOK
  <2>4. WindowKept'
    BY <1>4 DEF Sleep, WindowKept, IInv, counters, workerVars, mainVars, TypeOK, workers
  <2>5. Apart'
    BY <1>4 DEF Sleep, Apart, IInv, counters, workerVars, mainVars, TypeOK
  <2>6. NoLostWakeup'
    BY <1>4 DEF Sleep, NoLostWakeup, IInv, counters, workerVars, mainVars, TypeOK
  <2>7. Ending'
    BY <1>4 DEF Sleep, Ending, IInv, counters, workerVars, mainVars, TypeOK
  <2> QED
    BY <2>1, <2>3, <2>4, <2>5, <2>6, <2>7 DEF IInv
<1>5. CASE Timeout
  <2>1. TypeOK'
    BY <1>5, DrainAssumption DEF Timeout, TypeOK, Entry, Balance, Busy, IInv, counters, workerVars, mainVars
  <2>2. Fetching' = Fetching
    BY <1>5 DEF Timeout, Fetching, IInv, counters, workerVars, mainVars, TypeOK
  <2>3. Balance'
    BY <1>5, <2>2 DEF Timeout, Balance, Busy, IInv, counters, workerVars, mainVars, TypeOK
  <2>4. WindowKept'
    BY <1>5 DEF Timeout, WindowKept, IInv, counters, workerVars, mainVars, TypeOK, workers
  <2>5. Apart'
    BY <1>5 DEF Timeout, Apart, IInv, counters, workerVars, mainVars, TypeOK
  <2>6. NoLostWakeup'
    BY <1>5 DEF Timeout, NoLostWakeup, IInv, counters, workerVars, mainVars, TypeOK
  <2>7. Ending'
    BY <1>5 DEF Timeout, Ending, IInv, counters, workerVars, mainVars, TypeOK
  <2> QED
    BY <2>1, <2>3, <2>4, <2>5, <2>6, <2>7 DEF IInv
<1>6. CASE Commit
  <2>1. TypeOK'
    BY <1>6, DrainAssumption DEF Commit, TypeOK, Entry, Balance, Busy, IInv, counters, workerVars, mainVars
  <2>2. Fetching' = Fetching
    BY <1>6 DEF Commit, Fetching, IInv, counters, workerVars, mainVars, TypeOK
  <2>3. Balance'
    BY <1>6, <2>2 DEF Commit, Balance, Busy, IInv, counters, workerVars, mainVars, TypeOK
  <2>4. WindowKept'
    BY <1>6 DEF Commit, WindowKept, IInv, counters, workerVars, mainVars, TypeOK, workers
  <2>5. Apart'
    BY <1>6 DEF Commit, Apart, IInv, counters, workerVars, mainVars, TypeOK
  <2>6. NoLostWakeup'
    BY <1>6 DEF Commit, NoLostWakeup, IInv, counters, workerVars, mainVars, TypeOK
  <2>7. Ending'
    BY <1>6 DEF Commit, Ending, IInv, counters, workerVars, mainVars, TypeOK
  <2> QED
    BY <2>1, <2>3, <2>4, <2>5, <2>6, <2>7 DEF IInv
<1>7. CASE Count
  <2>1. TypeOK'
    BY <1>7, DrainAssumption DEF Count, TypeOK, Entry, Balance, Busy, IInv, counters, workerVars, mainVars
  <2>2. Fetching' = Fetching
    BY <1>7 DEF Count, Fetching, IInv, counters, workerVars, mainVars, TypeOK
  <2>3. Balance'
    BY <1>7, <2>2 DEF Count, Balance, Busy, IInv, counters, workerVars, mainVars, TypeOK
  <2>4. WindowKept'
    BY <1>7 DEF Count, WindowKept, IInv, counters, workerVars, mainVars, TypeOK, workers
  <2>5. Apart'
    BY <1>7 DEF Count, Apart, IInv, counters, workerVars, mainVars, TypeOK
  <2>6. NoLostWakeup'
    BY <1>7 DEF Count, NoLostWakeup, IInv, counters, workerVars, mainVars, TypeOK
  <2>7. Ending'
    BY <1>7 DEF Count, Ending, IInv, counters, workerVars, mainVars, TypeOK
  <2> QED
    BY <2>1, <2>3, <2>4, <2>5, <2>6, <2>7 DEF IInv
<1>8. CASE NotifyAll
  <2>1. TypeOK'
    BY <1>8, DrainAssumption DEF NotifyAll, TypeOK, Entry, Balance, Busy, IInv, counters, workerVars, mainVars
  <2>2. Fetching' = Fetching
    BY <1>8 DEF NotifyAll, Fetching, IInv, counters, workerVars, mainVars, TypeOK
  <2>3. Balance'
    BY <1>8, <2>2 DEF NotifyAll, Balance, Busy, IInv, counters, workerVars, mainVars, TypeOK
  <2>4. WindowKept'
    BY <1>8 DEF NotifyAll, WindowKept, IInv, counters, workerVars, mainVars, TypeOK, workers
  <2>5. Apart'
    BY <1>8 DEF NotifyAll, Apart, IInv, counters, workerVars, mainVars, TypeOK
  <2>6. NoLostWakeup'
    BY <1>8 DEF NotifyAll, NoLostWakeup, IInv, counters, workerVars, mainVars, TypeOK
  <2>7. Ending'
    BY <1>8 DEF NotifyAll, Ending, IInv, counters, workerVars, mainVars, TypeOK
  <2> QED
    BY <2>1, <2>3, <2>4, <2>5, <2>6, <2>7 DEF IInv
<1>9. CASE Join
  <2>1. TypeOK'
    BY <1>9, DrainAssumption DEF Join, TypeOK, Entry, Balance, Busy, IInv, counters, workerVars, mainVars
  <2>2. Fetching' = Fetching
    BY <1>9 DEF Join, Fetching, IInv, counters, workerVars, mainVars, TypeOK
  <2>3. Balance'
    BY <1>9, <2>2 DEF Join, Balance, Busy, IInv, counters, workerVars, mainVars, TypeOK
  <2>4. WindowKept'
    BY <1>9 DEF Join, WindowKept, IInv, counters, workerVars, mainVars, TypeOK, workers
  <2>5. Apart'
    BY <1>9 DEF Join, Apart, IInv, counters, workerVars, mainVars, TypeOK
  <2>6. NoLostWakeup'
    BY <1>9 DEF Join, NoLostWakeup, IInv, counters, workerVars, mainVars, TypeOK
  <2>7. Ending'
    BY <1>9 DEF Join, Ending, IInv, counters, workerVars, mainVars, TypeOK
  <2> QED
    BY <2>1, <2>3, <2>4, <2>5, <2>6, <2>7 DEF IInv
<1> QED
  BY <1>1, <1>2, <1>3, <1>4, <1>5, <1>6, <1>7, <1>8, <1>9 DEF MainStep

(* IInv is an inductive invariant of drain. *)
THEOREM Invariance == Spec => []IInv
<1>1. Init => IInv
  BY InitInv
<1>2. IInv /\ [Next]_vars => IInv'
  <2> SUFFICES ASSUME IInv, [Next]_vars PROVE IInv'
    OBVIOUS
  <2>1. CASE MainStep
    BY <2>1, MainStepInv
  <2>2. CASE \E w \in Worker : WorkerStep(w)
    BY <2>2, WorkerStepInv
  <2>3. CASE UNCHANGED vars
    BY <2>3 DEF vars, IInv, TypeOK, Balance, Busy, WindowKept, workers, Fetching, Apart,
                NoLostWakeup, Ending
  <2> QED
    BY <2>1, <2>2, <2>3 DEF Next
<1> QED
  BY <1>1, <1>2, PTL DEF Spec

(* The counters and program counters of drain stay within their types.     *)
THEOREM TypeCorrect == Spec => []TypeOK
<1>1. IInv => TypeOK
  BY DEF IInv
<1> QED
  BY <1>1, Invariance, PTL

(* No worker of the pool sleeps without a notify_all on its way.           *)
THEOREM WakeupComing == Spec => []NoLostWakeup
<1>1. IInv => NoLostWakeup
  BY DEF IInv
<1> QED
  BY <1>1, Invariance, PTL

(* At most one entry per worker is held in memory: the window holds.       *)
THEOREM MemoryBound == Spec => []WindowBound
<1>1. IInv => WindowBound
  <2> SUFFICES ASSUME IInv PROVE WindowBound
    OBVIOUS
  <2>0. /\ IsFiniteSet(Fetching) /\ IsFiniteSet(ready) /\ workers \in Nat
        /\ Cardinality(Fetching) \in Nat /\ Cardinality(ready) \in Nat
    BY Finite DEF IInv
  <2>1. IsFiniteSet(InFlight) /\ Cardinality(InFlight) <= Cardinality(Fetching)
    <3> DEFINE f == [w \in Fetching |-> index[w]]
    <3>1. f \in Surjection(Fetching, InFlight)
      BY DEF Surjection, InFlight
    <3> QED
      BY <2>0, <3>1, FS_Surjection
  <2>2. IsFiniteSet(Committing) /\ Cardinality(Committing) = Busy /\ Busy \in Nat
    BY FS_Singleton, FS_EmptySet DEF Committing, Busy
  <2>3. /\ IsFiniteSet(InFlight \cup ready)
        /\ Cardinality(InFlight \cup ready) <= Cardinality(InFlight) + Cardinality(ready)
    BY <2>0, <2>1, UnionBound
  <2>4. Cardinality(InFlight \cup ready \cup Committing)
          <= Cardinality(InFlight \cup ready) + Cardinality(Committing)
    BY <2>2, <2>3, UnionBound
  <2>5. Cardinality(Fetching) + Cardinality(ready) + Busy <= workers
    BY <2>0, <2>2 DEF IInv, Balance, WindowKept, TypeOK
  <2>6. /\ Cardinality(InFlight) \in Nat /\ Cardinality(InFlight \cup ready) \in Nat
        /\ Cardinality(InFlight \cup ready \cup Committing) \in Nat
    BY <2>1, <2>2, <2>3, FS_Union, FS_CardinalityType
  <2> QED
    BY <2>0, <2>1, <2>2, <2>3, <2>4, <2>5, <2>6 DEF WindowBound
<1> QED
  BY <1>1, Invariance, PTL

-----------------------------------------------------------------------------
(* An entry is left when it was dispatched and nobody has it. *)
LEMMA LeftEntry ==
  ASSUME NEW i
  PROVE  i \in Left <=>
           /\ i \in 0 .. next_dispatch - 1 /\ i \notin ready /\ i \notin stored
           /\ \A w \in Worker : wpc[w] = "fetching" => index[w] # i
           /\ mpc \in {"commit", "count"} => done # i
BY DEF Left, InFlight, Fetching, Committing

(* The same after a step. *)
LEMMA LeftEntryNext ==
  ASSUME NEW i
  PROVE  i \in Left' <=>
           /\ i \in 0 .. next_dispatch' - 1 /\ i \notin ready' /\ i \notin stored'
           /\ \A w \in Worker : wpc'[w] = "fetching" => index'[w] # i
           /\ mpc' \in {"commit", "count"} => done' # i
BY DEF Left, InFlight, Fetching, Committing

(* A step of the pool is a step of DrainQueue or none. *)
LEMMA WorkerStepRefines ==
  ASSUME IInv, NEW w \in Worker, WorkerStep(w)
  PROVE  Queue!Next \/ UNCHANGED Queue!qvars
<1>0. /\ next_dispatch \in 0 .. NEntries /\ NEntries \in Nat
      /\ wpc \in [Worker -> {"check", "waiting", "fetching", "notify", "exited"}]
      /\ index \in [Worker -> Entry]
  BY DrainAssumption DEF IInv, TypeOK
<1>1. ASSUME stored' = stored, (mpc' = "returned") = (mpc = "returned"), Left' = Left
      PROVE  UNCHANGED Queue!qvars
  BY <1>1 DEF Queue!qvars
<1>2. CASE LeavePool(w) \/ Wait(w) \/ NotifyMain(w)
  <2>1. /\ stored' = stored /\ ready' = ready /\ next_dispatch' = next_dispatch
        /\ done' = done /\ index' = index
        /\ mpc' = mpc \/ (mpc = "waiting" /\ mpc' = "take")
    BY <1>2 DEF LeavePool, Wait, NotifyMain, counters, mainVars
  <2>2. \A v \in Worker : (wpc'[v] = "fetching") <=> (wpc[v] = "fetching")
    BY <1>0, <1>2 DEF LeavePool, Wait, NotifyMain
  <2>3. \A i : i \in Left' <=> i \in Left
    BY <2>1, <2>2, LeftEntry, LeftEntryNext
  <2>4. Left' = Left
    BY <2>3 DEF Left
  <2> QED
    BY <1>1, <2>1, <2>4
<1>3. CASE Dispatch(w)
  <2>1. /\ stored' = stored /\ ready' = ready /\ next_dispatch' = next_dispatch + 1
        /\ done' = done /\ mpc' = mpc
    BY <1>3 DEF Dispatch, mainVars
  <2>2. /\ wpc[w] = "check" /\ wpc'[w] = "fetching" /\ index'[w] = next_dispatch
        /\ \A v \in Worker \ {w} : wpc'[v] = wpc[v] /\ index'[v] = index[v]
    BY <1>0, <1>3 DEF Dispatch
  <2>3. \A i : i \in 0 .. next_dispatch' - 1 <=> i \in 0 .. next_dispatch - 1 \/ i = next_dispatch
    BY <1>0, <2>1
  <2>4. next_dispatch \notin 0 .. next_dispatch - 1
    BY <1>0
  <2>5. \A i : i \in Left' <=> i \in Left
    BY <2>1, <2>2, <2>3, <2>4, LeftEntry, LeftEntryNext
  <2>6. Left' = Left
    BY <2>5 DEF Left
  <2> QED
    BY <1>1, <2>1, <2>6
<1>4. CASE Fetched(w)
  <2>1. /\ stored' = stored /\ ready' = ready \cup {index[w]} /\ next_dispatch' = next_dispatch
        /\ done' = done /\ mpc' = mpc /\ index' = index
    BY <1>4 DEF Fetched, counters, mainVars
  <2>2. /\ wpc[w] = "fetching" /\ wpc'[w] = "notify"
        /\ \A v \in Worker \ {w} : wpc'[v] = wpc[v]
    BY <1>0, <1>4 DEF Fetched
  <2>3. \A i : i \in Left' <=> i \in Left
    BY <2>1, <2>2, LeftEntry, LeftEntryNext
  <2>4. Left' = Left
    BY <2>3 DEF Left
  <2> QED
    BY <1>1, <2>1, <2>4
<1>5. CASE Missed(w)
  <2>1. /\ stored' = stored /\ ready' = ready /\ next_dispatch' = next_dispatch
        /\ done' = done /\ mpc' = mpc /\ index' = index
    BY <1>5 DEF Missed, mainVars
  <2>2. /\ wpc[w] = "fetching" /\ wpc'[w] = "notify"
        /\ \A v \in Worker \ {w} : wpc'[v] = wpc[v]
    BY <1>0, <1>5 DEF Missed
  <2>3. /\ index[w] \in 0 .. next_dispatch - 1 /\ index[w] \in Entry
        /\ index[w] \notin ready /\ index[w] \notin stored
        /\ mpc \in {"commit", "count"} => index[w] # done
        /\ \A v \in Worker \ {w} : wpc[v] = "fetching" => index[v] # index[w]
    BY <1>0, <2>2 DEF IInv, Apart, Entry
  <2>4. \A i : i \in Left' <=> i \in Left \/ i = index[w]
    BY <2>1, <2>2, <2>3, LeftEntry, LeftEntryNext
  <2>5. Left' = Left \cup {index[w]} /\ index[w] \notin Left
    BY <2>2, <2>4, LeftEntry
  <2>6. Queue!LeaveHole(index[w])
    BY <2>1, <2>3, <2>5 DEF Queue!LeaveHole, Queue!Todo
  <2> QED
    BY <2>3, <2>6 DEF Queue!Next
<1> QED
  BY <1>2, <1>3, <1>4, <1>5 DEF WorkerStep

(* So is a step of the main thread. *)
LEMMA MainStepRefines ==
  ASSUME IInv, MainStep
  PROVE  Queue!Next \/ UNCHANGED Queue!qvars
<1>0. /\ next_dispatch \in 0 .. NEntries /\ NEntries \in Nat /\ ready \subseteq Entry
      /\ wpc \in [Worker -> {"check", "waiting", "fetching", "notify", "exited"}]
  BY DrainAssumption DEF IInv, TypeOK
<1>1. ASSUME stored' = stored, (mpc' = "returned") = (mpc = "returned"), Left' = Left
      PROVE  UNCHANGED Queue!qvars
  BY <1>1 DEF Queue!qvars
<1>2. CASE Top \/ AllProcessed \/ Sleep \/ Timeout \/ NotifyAll
  <2>1. /\ stored' = stored /\ ready' = ready /\ next_dispatch' = next_dispatch
        /\ done' = done /\ index' = index
        /\ mpc \notin {"commit", "count", "returned"}
        /\ mpc' \notin {"commit", "count", "returned"}
    BY <1>2 DEF Top, AllProcessed, Sleep, Timeout, NotifyAll, counters, workerVars
  <2>2. \A v \in Worker : (wpc'[v] = "fetching") <=> (wpc[v] = "fetching")
    BY <1>0, <1>2 DEF Top, AllProcessed, Sleep, Timeout, NotifyAll, workerVars
  <2>3. \A i : i \in Left' <=> i \in Left
    BY <2>1, <2>2, LeftEntry, LeftEntryNext
  <2>4. Left' = Left
    BY <2>3 DEF Left
  <2> QED
    BY <1>1, <2>1, <2>4
<1>3. CASE Take
  <2>1. /\ stored' = stored /\ next_dispatch' = next_dispatch /\ wpc' = wpc /\ index' = index
        /\ ready' = ready \ {First(ready)} /\ done' = First(ready)
        /\ mpc = "take" /\ mpc' = "commit"
    BY <1>3 DEF Take, counters, workerVars
  <2>2. First(ready) \in ready
    <3>1. ready \in SUBSET Nat /\ ready # {}
      BY <1>0, <1>3 DEF Take, Entry
    <3> QED
      BY <3>1, FirstInSet
  <2>3. \A i : i \in Left' <=> i \in Left
    BY <2>1, <2>2, LeftEntry, LeftEntryNext
  <2>4. Left' = Left
    BY <2>3 DEF Left
  <2> QED
    BY <1>1, <2>1, <2>4
<1>4. CASE Commit
  <2>1. /\ stored' = stored \cup {done} /\ next_dispatch' = next_dispatch /\ wpc' = wpc
        /\ index' = index /\ ready' = ready /\ done' = done
        /\ mpc = "commit" /\ mpc' = "count"
    BY <1>4 DEF Commit, counters, workerVars
  <2>2. \A i : i \in Left' <=> i \in Left
    BY <2>1, LeftEntry, LeftEntryNext
  <2>3. Left' = Left
    BY <2>2 DEF Left
  <2>4. done \in Entry /\ done \notin stored /\ done \notin Left
    BY <2>1, LeftEntry DEF IInv, TypeOK, Apart
  <2>5. Queue!Commit(done)
    BY <2>1, <2>3, <2>4 DEF Queue!Commit, Queue!Todo
  <2> QED
    BY <2>4, <2>5 DEF Queue!Next
<1>5. CASE Count
  <2>1. /\ stored' = stored /\ next_dispatch' = next_dispatch /\ wpc' = wpc
        /\ index' = index /\ ready' = ready /\ done' = done
        /\ mpc = "count" /\ mpc' = "notify"
    BY <1>5 DEF Count, workerVars
  <2>2. done \in stored
    BY <2>1 DEF IInv, Apart
  <2>3. \A i : i \in Left' <=> i \in Left
    BY <2>1, <2>2, LeftEntry, LeftEntryNext
  <2>4. Left' = Left
    BY <2>3 DEF Left
  <2> QED
    BY <1>1, <2>1, <2>4
<1>6. CASE Join
  <2>1. /\ stored' = stored /\ next_dispatch' = next_dispatch /\ wpc' = wpc
        /\ index' = index /\ ready' = ready /\ done' = done
        /\ mpc = "join" /\ mpc' = "returned" /\ \A v \in Worker : wpc[v] = "exited"
    BY <1>6 DEF Join, counters, workerVars
  <2>2. \A i : i \in Left' <=> i \in Left
    BY <2>1, LeftEntry, LeftEntryNext
  <2>3. Left' = Left
    BY <2>2 DEF Left
  <2>4. ready = {} /\ next_dispatch = NEntries
    <3>1. committed + holes >= NEntries
      BY <2>1 DEF IInv, Ending
    <3>2. Cardinality(ready) = 0 /\ next_dispatch = NEntries
      BY <3>1, <1>0, Finite DEF IInv, Balance, Busy, TypeOK
    <3> QED
      BY <3>2, Finite, FS_EmptySet DEF IInv
  <2>5. Entry \subseteq stored \cup Left
    <3> SUFFICES ASSUME NEW i \in Entry, i \notin stored PROVE i \in Left
      OBVIOUS
    <3> QED
      BY <2>1, <2>4, LeftEntry DEF Entry
  <2>6. Queue!Todo = {}
    BY <2>5 DEF Queue!Todo
  <2>7. Queue!Return
    BY <2>1, <2>3, <2>6 DEF Queue!Return
  <2> QED
    BY <2>7 DEF Queue!Next
<1> QED
  BY <1>2, <1>3, <1>4, <1>5, <1>6 DEF MainStep

(* drain implements DrainQueue: an entry of the queue is committed or left *)
(* as a hole, once, and drain returns when all are.                        *)
THEOREM Refinement == Spec => DrainsQueue
<1>1. Init => Queue!Init
  <2> SUFFICES ASSUME Init PROVE Queue!Init
    OBVIOUS
  <2>1. \A i : i \notin Left
    BY LeftEntry DEF Init
  <2> QED
    BY <2>1 DEF Init, Queue!Init
<1>2. IInv /\ [Next]_vars => [Queue!Next]_Queue!qvars
  <2> SUFFICES ASSUME IInv, [Next]_vars PROVE Queue!Next \/ UNCHANGED Queue!qvars
    OBVIOUS
  <2>1. CASE MainStep
    BY <2>1, MainStepRefines
  <2>2. CASE \E w \in Worker : WorkerStep(w)
    BY <2>2, WorkerStepRefines
  <2>3. CASE UNCHANGED vars
    BY <2>3 DEF vars, Queue!qvars, Left, InFlight, Fetching, Committing
  <2> QED
    BY <2>1, <2>2, <2>3 DEF Next
<1> QED
  BY <1>1, <1>2, Invariance, PTL DEF Spec, DrainsQueue, Queue!Spec

=============================================================================
