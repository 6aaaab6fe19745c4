----------------------------- MODULE PoolCache ------------------------------
(***************************************************************************)
(* load_pit of cpp/src/feature/load.cpp for one interface: the pool built  *)
(* from its month files is kept in data/pool under a key of their paths,   *)
(* sizes and mtimes and of the axes, while another process may be updating *)
(* the archive (MonthArchive).  What is read of a file is its version; a   *)
(* size never tells two versions apart.                                    *)
(***************************************************************************)
EXTENDS Naturals

CONSTANTS
  Month,
  MaxClock,     \* writes and touches of the archive
  MaxAxes,      \* times the axes change
  MaxMeta       \* snapshots of the metadata

ASSUME PoolCacheAssumption ==
  /\ Month \subseteq Nat
  /\ {MaxClock, MaxAxes, MaxMeta} \subseteq Nat

VARIABLES
  clock, version, mtime,    \* of each month file; version 0: no file
  axes_now, meta,           \* what load_axes and the snapshot hold now
  cache, tmp,               \* data/pool/<itf>.bin and its .tmp: at most one entry
  pc, todo,                 \* load_pit: where it stands, files left to stat or read
  axes, list, key, pool,    \* its axes, files, cache key and pool
  old                       \* history: the versions and the snapshot when it began

archive == <<clock, version, mtime, axes_now, meta>>
loader == <<pc, todo, axes, list, key, pool, old>>
vars == <<archive, cache, tmp, loader>>

NoFiles == [m \in Month |-> 0]
Key == [mtime : [Month -> Nat], axes : Nat]
Pool == [version : [Month -> Nat], axes : Nat, overlay : Nat]
Entry == [key : Key, pool : Pool]

TypeOK ==
  /\ clock \in Nat /\ axes_now \in Nat /\ meta \in Nat
  /\ version \in [Month -> Nat] /\ mtime \in [Month -> Nat]
  /\ cache \subseteq Entry /\ tmp \subseteq Entry
  /\ pc \in {"idle", "stat", "build", "rename", "overlay", "done"}
  /\ todo \subseteq Month /\ list \subseteq Month
  /\ axes \in Nat /\ key \in Key /\ pool \in Pool
  /\ old \in [version : [Month -> Nat], meta : Nat]

Empty(a) == [version |-> NoFiles, axes |-> a, overlay |-> 0]

Init ==
  /\ clock = 0 /\ version = NoFiles /\ mtime = NoFiles
  /\ axes_now = 0 /\ meta = 0
  /\ cache = {} /\ tmp = {}
  /\ pc = "idle" /\ todo = {} /\ list = {} /\ axes = 0
  /\ key = [mtime |-> NoFiles, axes |-> 0]
  /\ pool = Empty(0)
  /\ old = [version |-> NoFiles, meta |-> 0]

-----------------------------------------------------------------------------
(* The archive.  No two writes of a file carry the same mtime.             *)

(* append_table_atomic, write_table_atomic: a new file takes the place.    *)
Write(m) ==
  /\ clock < MaxClock
  /\ clock' = clock + 1
  /\ version' = [version EXCEPT ![m] = @ + 1]
  /\ mtime' = [mtime EXCEPT ![m] = clock + 1]
  /\ UNCHANGED <<axes_now, meta, cache, tmp, loader>>

(* append_table_atomic without rows: the mtime alone.                      *)
Touch(m) ==
  /\ clock < MaxClock /\ version[m] > 0
  /\ clock' = clock + 1
  /\ mtime' = [mtime EXCEPT ![m] = clock + 1]
  /\ UNCHANGED <<version, axes_now, meta, cache, tmp, loader>>

(* A new trading day or a new stock.                                       *)
NewAxes ==
  /\ axes_now < MaxAxes
  /\ axes_now' = axes_now + 1
  /\ UNCHANGED <<clock, version, mtime, meta, cache, tmp, loader>>

NewMeta ==
  /\ meta < MaxMeta
  /\ meta' = meta + 1
  /\ UNCHANGED <<clock, version, mtime, axes_now, cache, tmp, loader>>

-----------------------------------------------------------------------------
(* load_pit. *)

(* load_axes, enumerate_month_files.                                       *)
Enumerate ==
  /\ pc = "idle"
  /\ axes' = axes_now
  /\ list' = {m \in Month : version[m] > 0}
  /\ todo' = list'
  /\ key' = [mtime |-> NoFiles, axes |-> axes_now]
  /\ old' = [version |-> version, meta |-> meta]
  /\ pc' = "stat"
  /\ UNCHANGED <<archive, cache, tmp, pool>>

(* compute_cache_key: the files one after the other.                       *)
StatFile(m) ==
  /\ pc = "stat" /\ m \in todo
  /\ \A n \in todo : m <= n
  /\ key' = [key EXCEPT !.mtime[m] = mtime[m]]
  /\ todo' = todo \ {m}
  /\ UNCHANGED <<archive, cache, tmp, pc, axes, list, pool, old>>

(* Slip: the axes are not part of the comparison. *)
HitAnyAxes == {e \in cache : e.key.mtime = key.mtime}

Hit == {e \in cache : e.key = key}

(* try_map_pool_cache: the pages are private, what is written to the pool  *)
(* later does not reach the file.                                          *)
MapCache ==
  /\ pc = "stat" /\ todo = {}
  /\ \E e \in Hit : pool' = e.pool
  /\ pc' = "overlay"
  /\ UNCHANGED <<archive, cache, tmp, todo, axes, list, key, old>>

BeginBuild ==
  /\ pc = "stat" /\ todo = {} /\ Hit = {}
  /\ pool' = Empty(axes)
  /\ todo' = list
  /\ pc' = "build"
  /\ UNCHANGED <<archive, cache, tmp, axes, list, key, old>>

(* parallel_parse_months: threads take the files, and end in any order.    *)
ReadMonth(m) ==
  /\ pc = "build" /\ m \in todo
  /\ pool' = [pool EXCEPT !.version[m] = version[m]]
  /\ todo' = todo \ {m}
  /\ UNCHANGED <<archive, cache, tmp, pc, axes, list, key, old>>

(* Slip: the key is computed when the pool is dumped. *)
DumpRekeyed ==
  /\ pc = "build" /\ todo = {}
  /\ tmp' = {[key |-> [mtime |-> [m \in Month |-> IF m \in list THEN mtime[m] ELSE 0],
                       axes |-> axes],
              pool |-> pool]}
  /\ pc' = "rename"
  /\ UNCHANGED <<archive, cache, todo, axes, list, key, pool, old>>

(* dump_pool_cache, atomic_write: the whole file, then the rename.         *)
Dump ==
  /\ pc = "build" /\ todo = {}
  /\ tmp' = {[key |-> key, pool |-> pool]}
  /\ pc' = "rename"
  /\ UNCHANGED <<archive, cache, todo, axes, list, key, pool, old>>

Rename ==
  /\ pc = "rename"
  /\ cache' = tmp
  /\ tmp' = {}
  /\ pc' = "overlay"
  /\ UNCHANGED <<archive, todo, axes, list, key, pool, old>>

(* apply_meta_overlays and post_ffill, on a hit as on a miss.              *)
Overlay ==
  /\ pc = "overlay"
  /\ pool' = [pool EXCEPT !.overlay = meta]
  /\ pc' = "done"
  /\ UNCHANGED <<archive, cache, tmp, todo, axes, list, key, old>>

(* The process ends, in the middle of a load or after it.                  *)
Exit ==
  /\ pc # "idle"
  /\ pc' = "idle"
  /\ todo' = {}
  /\ UNCHANGED <<archive, cache, tmp, axes, list, key, pool, old>>

Next ==
  \/ \E m \in Month : Write(m) \/ Touch(m) \/ StatFile(m) \/ ReadMonth(m)
  \/ NewAxes \/ NewMeta
  \/ Enumerate \/ MapCache \/ BeginBuild \/ Dump \/ Rename \/ Overlay \/ Exit

Spec == Init /\ [][Next]_vars

-----------------------------------------------------------------------------
(* A cache that a load would map now holds what a build would read now,    *)
(* with no trace of the metadata: the stats precede the reads, so a file   *)
(* that changes while it is read leaves a key that never matches again.    *)
Current(e) == \A m \in Month : e.key.mtime[m] = mtime[m]

CacheSound ==
  \A e \in cache : Current(e) => e.pool = [version |-> version, axes |-> e.key.axes, overlay |-> 0]

(* A pool, mapped or built, has of every file a version that was there at  *)
(* some moment of the load, its own axes and the snapshot of this run.     *)
NothingStale ==
  pc = "done" =>
    /\ \A m \in list : old.version[m] <= pool.version[m] /\ pool.version[m] <= version[m]
    /\ pool.axes = axes
    /\ old.meta <= pool.overlay
=============================================================================
