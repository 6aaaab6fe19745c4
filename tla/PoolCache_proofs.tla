-------------------------- MODULE PoolCache_proofs --------------------------
(***************************************************************************)
(* TLAPS proofs about PoolCache: a cache that would be mapped is what a    *)
(* build would read, and no pool is older than the load that returns it,   *)
(* for any set of months and any number of writes, loads and crashes.      *)
(*                                                                         *)
(* A key holds no mtime beyond the clock (KeysPast), so a write, which     *)
(* moves the clock, ends every match with the file it replaces: what holds *)
(* of the versions while the mtimes match (Matches) is only ever lost      *)
(* together with the match.                                                *)
(***************************************************************************)
EXTENDS PoolCache, TLAPS

(* p has of file m the version there is, as long as q is its mtime.        *)
Matches(q, p, m) == q.mtime[m] = mtime[m] => p.version[m] = version[m]

Clocked == \A m \in Month : mtime[m] <= clock /\ (version[m] > 0 => mtime[m] > 0)

KeysPast ==
  /\ \A m \in Month : key.mtime[m] <= clock
  /\ \A e \in cache \cup tmp, m \in Month : e.key.mtime[m] <= clock

EntriesSound ==
  \A e \in cache \cup tmp :
    /\ e.pool.axes = e.key.axes /\ e.pool.overlay = 0
    /\ \A m \in Month : Matches(e.key, e.pool, m) /\ e.pool.version[m] <= version[m]

Begun ==
  /\ \A m \in Month : old.version[m] <= version[m]
  /\ old.meta <= meta
  /\ pc # "idle" => key.axes = axes

Statting ==
  pc = "stat" =>
    /\ todo \subseteq list
    /\ \A m \in Month \ list : key.mtime[m] = 0
    /\ \A e \in cache, m \in list \ todo :
         e.key.mtime[m] = key.mtime[m] => old.version[m] <= e.pool.version[m]

Building ==
  pc \in {"build", "rename"} =>
    /\ pool.axes = axes /\ pool.overlay = 0
    /\ pc = "rename" => todo = {}
    /\ \A m \in Month \ todo : Matches(key, pool, m)

Reading ==
  pc \in {"build", "rename", "overlay", "done"} =>
    /\ pool.axes = axes
    /\ \A m \in Month : pool.version[m] <= version[m]
    /\ \A m \in list : (pc = "build" => m \notin todo) => old.version[m] <= pool.version[m]
    /\ pc = "done" => old.meta <= pool.overlay

IInv == TypeOK /\ Clocked /\ KeysPast /\ EntriesSound /\ Begun /\ Statting /\ Building /\ Reading

-----------------------------------------------------------------------------
(* The first state: no file, no cache. *)
LEMMA InitInv == Init => IInv
BY PoolCacheAssumption
   DEF Init, IInv, TypeOK, Key, Pool, NoFiles, Empty, Clocked, KeysPast, EntriesSound, Begun,
       Statting, Building, Reading

(* The archive moves: whatever matched a file that is written matches no   *)
(* more.                                                                   *)
LEMMA ArchiveInv ==
  ASSUME IInv, NEW m \in Month, Write(m) \/ Touch(m)
  PROVE  IInv'
<1>1. /\ clock \in Nat /\ version \in [Month -> Nat] /\ mtime \in [Month -> Nat]
      /\ clock' = clock + 1
      /\ mtime' = [mtime EXCEPT ![m] = clock + 1]
      /\ version' = [version EXCEPT ![m] = @ + 1] \/ (version' = version /\ version[m] > 0)
      /\ UNCHANGED <<axes_now, meta, cache, tmp, loader>>
  BY DEF Write, Touch, IInv, TypeOK
<1>2. TypeOK'
  BY <1>1 DEF IInv, TypeOK, loader
<1>3. \A n \in Month : version[n] <= version'[n] /\ version'[n] \in Nat /\ mtime'[n] \in Nat
  BY <1>1
<1>4. Clocked' /\ KeysPast'
  <2>1. Clocked'
    BY <1>1 DEF IInv, Clocked
  <2>2. \A e \in cache \cup tmp, n \in Month : e.key.mtime[n] \in Nat
    BY DEF IInv, TypeOK, Entry, Key
  <2>3. \A n \in Month : key.mtime[n] \in Nat
    BY DEF IInv, TypeOK, Key
  <2> QED
    BY <1>1, <2>1, <2>2, <2>3 DEF IInv, KeysPast, loader
<1>5. ASSUME NEW q, NEW p, NEW n \in Month, q.mtime[n] \in Nat, q.mtime[n] <= clock, Matches(q, p, n)
      PROVE  q.mtime[n] = mtime'[n] => p.version[n] = version'[n]
  <2>1. CASE n = m
    BY <1>1, <1>5, <2>1
  <2>2. CASE n # m
    BY <1>1, <1>5, <2>2 DEF Matches
  <2> QED
    BY <2>1, <2>2
<1>6. EntriesSound'
  <2>1. \A e \in cache \cup tmp, n \in Month :
          e.key.mtime[n] \in Nat /\ e.pool.version[n] \in Nat
    BY DEF IInv, TypeOK, Entry, Key, Pool
  <2>2. \A e \in cache \cup tmp, n \in Month : e.pool.version[n] <= version'[n]
    BY <1>1, <1>3, <2>1 DEF IInv, EntriesSound
  <2>3. \A e \in cache \cup tmp, n \in Month :
          e.key.mtime[n] = mtime'[n] => e.pool.version[n] = version'[n]
    BY <1>5, <2>1 DEF IInv, EntriesSound, KeysPast
  <2> QED
    BY <1>1, <2>2, <2>3 DEF IInv, EntriesSound, Matches
<1>7. \A n \in Month : key.mtime[n] \in Nat /\ pool.version[n] \in Nat /\ old.version[n] \in Nat
  BY DEF IInv, TypeOK, Key, Pool
<1>8. Begun'
  BY <1>1, <1>3, <1>7 DEF IInv, Begun, loader
<1>9. Statting'
  BY <1>1 DEF IInv, Statting, loader
<1>10. Building'
  <2>1. pc \in {"build", "rename"} => \A n \in Month \ todo :
          key.mtime[n] = mtime'[n] => pool.version[n] = version'[n]
    BY <1>5, <1>7 DEF IInv, Building, KeysPast
  <2> QED
    BY <1>1, <2>1 DEF IInv, Building, Matches, loader
<1>11. Reading'
  BY <1>1, <1>3, <1>7 DEF IInv, Reading, loader
<1> QED
  BY <1>2, <1>4, <1>6, <1>8, <1>9, <1>10, <1>11 DEF IInv

(* The axes or the metadata change; the process ends. *)
LEMMA OtherInv == ASSUME IInv, NewAxes \/ NewMeta \/ Exit PROVE IInv'
<1>1. TypeOK'
  BY DEF IInv, TypeOK, NewAxes, NewMeta, Exit, loader, archive
<1>2. Clocked' /\ KeysPast' /\ EntriesSound'
  BY DEF IInv, Clocked, KeysPast, EntriesSound, Matches, NewAxes, NewMeta, Exit, loader, archive
<1>3. Begun'
  BY DEF IInv, TypeOK, Begun, NewAxes, NewMeta, Exit, loader, archive
<1>4. Statting' /\ Building' /\ Reading'
  BY DEF IInv, Statting, Building, Reading, Matches, NewAxes, NewMeta, Exit, loader, archive
<1> QED
  BY <1>1, <1>2, <1>3, <1>4 DEF IInv

(* A load begins, and compares what it stats with the cache. *)
LEMMA StatInv ==
  ASSUME IInv, Enumerate \/ \E m \in Month : StatFile(m)
  PROVE  IInv'
<1>1. CASE Enumerate
  <2>1. TypeOK'
    BY <1>1 DEF IInv, TypeOK, Enumerate, archive, Key, NoFiles
  <2>2. Clocked' /\ KeysPast' /\ EntriesSound'
    BY <1>1 DEF IInv, TypeOK, Clocked, KeysPast, EntriesSound, Matches, Enumerate, archive, NoFiles
  <2>3. Begun'
    BY <1>1 DEF IInv, TypeOK, Begun, Enumerate, archive
  <2>4. Statting' /\ Building' /\ Reading'
    BY <1>1 DEF Statting, Building, Reading, Enumerate, NoFiles
  <2> QED
    BY <2>1, <2>2, <2>3, <2>4 DEF IInv
<1>2. ASSUME NEW m \in Month, StatFile(m) PROVE IInv'
  <2>0. /\ key \in Key /\ key' = [key EXCEPT !.mtime[m] = mtime[m]]
        /\ mtime \in [Month -> Nat] /\ version \in [Month -> Nat]
    BY <1>2 DEF StatFile, IInv, TypeOK
  <2>1. key' \in Key /\ key'.axes = key.axes /\ key'.mtime = [key.mtime EXCEPT ![m] = mtime[m]]
    BY <2>0 DEF Key
  <2>2. TypeOK'
    BY <1>2, <2>1 DEF IInv, TypeOK, StatFile, archive
  <2>3. KeysPast'
    <3>1. \A n \in Month : key'.mtime[n] <= clock
      BY <2>0, <2>1 DEF Key, IInv, KeysPast, Clocked
    <3> QED
      BY <1>2, <3>1 DEF StatFile, IInv, KeysPast, archive
  <2>4. Clocked' /\ EntriesSound' /\ Begun'
    BY <1>2, <2>1 DEF StatFile, IInv, Clocked, EntriesSound, Matches, Begun, archive
  <2>5. Statting'
    <3>1. \A n \in Month \ list : key'.mtime[n] = 0
      <4>1. m \in list
        BY <1>2 DEF StatFile, IInv, Statting
      <4> QED
        BY <1>2, <2>0, <2>1, <4>1 DEF StatFile, IInv, Statting, Key
    <3>2. ASSUME NEW e \in cache, NEW n \in list \ todo', e.key.mtime[n] = key'.mtime[n]
          PROVE  old.version[n] <= e.pool.version[n]
      <4>0. n \in Month /\ key.mtime \in [Month -> Nat]
        BY <2>0 DEF IInv, TypeOK, Key
      <4>1. CASE n = m
        <5>1. e.key.mtime[m] = mtime[m]
          BY <2>1, <3>2, <4>0, <4>1
        <5>2. e.pool.version[m] = version[m]
          BY <5>1 DEF IInv, EntriesSound, Matches
        <5> QED
          BY <4>1, <5>2 DEF IInv, Begun
      <4>2. CASE n # m
        BY <1>2, <2>1, <3>2, <4>0, <4>2 DEF StatFile, IInv, Statting
      <4> QED
        BY <4>1, <4>2
    <3> QED
      BY <1>2, <3>1, <3>2 DEF StatFile, IInv, Statting
  <2>6. Building' /\ Reading'
    BY <1>2 DEF StatFile, Building, Reading
  <2> QED
    BY <2>2, <2>3, <2>4, <2>5, <2>6 DEF IInv
<1> QED
  BY <1>1, <1>2

(* The pool is mapped, or built in any order of the files. *)
LEMMA PoolInv ==
  ASSUME IInv, MapCache \/ BeginBuild \/ \E m \in Month : ReadMonth(m)
  PROVE  IInv'
<1>1. UNCHANGED <<archive, cache, tmp, axes, list, key, old>>
  BY DEF MapCache, BeginBuild, ReadMonth
<1>2. Clocked' /\ KeysPast' /\ EntriesSound'
  BY <1>1 DEF IInv, Clocked, KeysPast, EntriesSound, Matches, archive
<1>3. CASE MapCache
  <2>1. PICK e \in Hit : pool' = e.pool
    BY <1>3 DEF MapCache
  <2>2. e \in cache /\ e.key = key /\ e \in Entry
    BY <2>1 DEF Hit, IInv, TypeOK
  <2>3. TypeOK'
    BY <1>1, <1>3, <2>1, <2>2 DEF MapCache, IInv, TypeOK, archive, Entry
  <2>4. Reading'
    <3>1. \A m \in Month : e.pool.version[m] <= version[m]
      BY <2>2 DEF IInv, EntriesSound
    <3>2. \A m \in list : old.version[m] <= e.pool.version[m]
      BY <1>3, <2>2 DEF MapCache, IInv, Statting
    <3>3. e.pool.axes = axes
      BY <1>3, <2>2 DEF MapCache, IInv, EntriesSound, Begun
    <3> QED
      BY <1>1, <1>3, <2>1, <3>1, <3>2, <3>3 DEF MapCache, Reading, archive
  <2>5. Begun' /\ Statting' /\ Building'
    BY <1>1, <1>3 DEF MapCache, IInv, Begun, Statting, Building, archive
  <2> QED
    BY <1>2, <2>3, <2>4, <2>5 DEF IInv
<1>4. CASE BeginBuild
  <2>1. TypeOK'
    BY <1>1, <1>4 DEF BeginBuild, IInv, TypeOK, archive, Empty, NoFiles, Pool
  <2>2. Building'
    <3>1. \A m \in Month \ list : mtime[m] = 0 => version[m] = 0
      BY DEF IInv, TypeOK, Clocked
    <3>2. \A m \in Month \ list : Empty(axes).version[m] = 0 /\ key.mtime[m] = 0
      BY <1>4 DEF BeginBuild, IInv, Statting, Empty, NoFiles
    <3> QED
      BY <1>1, <1>4, <3>1, <3>2 DEF BeginBuild, Building, Matches, Empty, archive
  <2>3. Reading'
    <3>1. \A m \in Month : Empty(axes).version[m] = 0
      BY DEF Empty, NoFiles
    <3>2. \A m \in Month : 0 <= version[m]
      <4>1. version \in [Month -> Nat]
        BY DEF IInv, TypeOK
      <4>2. \A m \in Month : version[m] \in Nat
        BY <4>1
      <4>3. \A n \in Nat : 0 <= n
        OBVIOUS
      <4> QED
        BY <4>2, <4>3
    <3> QED
      BY <1>1, <1>4, <3>1, <3>2 DEF BeginBuild, Reading, Empty, archive
  <2>4. Begun' /\ Statting'
    BY <1>1, <1>4 DEF BeginBuild, IInv, Begun, Statting, archive
  <2> QED
    BY <1>2, <2>1, <2>2, <2>3, <2>4 DEF IInv
<1>5. ASSUME NEW m \in Month, ReadMonth(m) PROVE IInv'
  <2>0. pool \in Pool /\ pool' = [pool EXCEPT !.version[m] = version[m]] /\ version \in [Month -> Nat]
    BY <1>5 DEF ReadMonth, IInv, TypeOK
  <2>1. /\ pool' \in Pool /\ pool'.axes = pool.axes /\ pool'.overlay = pool.overlay
        /\ pool'.version = [pool.version EXCEPT ![m] = version[m]]
        /\ pool.version \in [Month -> Nat]
    BY <2>0 DEF Pool
  <2>2. TypeOK'
    BY <1>1, <1>5, <2>1 DEF ReadMonth, IInv, TypeOK, archive
  <2>3. Building'
    <3>1. pool'.axes = axes /\ pool'.overlay = 0
      BY <1>5, <2>1 DEF ReadMonth, IInv, Building
    <3>2. \A n \in Month \ todo' : key.mtime[n] = mtime[n] => pool'.version[n] = version[n]
      BY <1>5, <2>1 DEF ReadMonth, IInv, Building, Matches
    <3> QED
      BY <1>1, <1>5, <3>1, <3>2 DEF ReadMonth, Building, Matches, archive
  <2>4. Reading'
    <3>1. \A n \in Month : pool'.version[n] <= version[n]
      BY <1>5, <2>0, <2>1 DEF ReadMonth, IInv, Reading
    <3>2. \A n \in list : n \notin todo' => old.version[n] <= pool'.version[n]
      BY <1>5, <2>0, <2>1 DEF ReadMonth, IInv, TypeOK, Reading, Begun
    <3>3. pool'.axes = axes
      BY <1>5, <2>1 DEF ReadMonth, IInv, Reading
    <3> QED
      BY <1>1, <1>5, <3>1, <3>2, <3>3 DEF ReadMonth, Reading, archive
  <2>5. Begun' /\ Statting'
    BY <1>1, <1>5 DEF ReadMonth, IInv, Begun, Statting, archive
  <2> QED
    BY <1>2, <2>2, <2>3, <2>4, <2>5 DEF IInv
<1> QED
  BY <1>3, <1>4, <1>5

(* The cache is written; the overlay follows. *)
LEMMA DumpInv == ASSUME IInv, Dump \/ Rename \/ Overlay PROVE IInv'
<1>1. UNCHANGED <<archive, todo, axes, list, key, old>>
  BY DEF Dump, Rename, Overlay
<1>2. CASE Dump
  <2> DEFINE d == [key |-> key, pool |-> pool]
  <2>0. tmp' = {d} /\ cache' = cache /\ pool' = pool /\ pc' = "rename" /\ pc = "build" /\ todo = {}
    BY <1>2 DEF Dump
  <2>1. TypeOK'
    BY <1>1, <2>0 DEF IInv, TypeOK, archive, Entry
  <2>2. KeysPast'
    BY <1>1, <2>0 DEF IInv, KeysPast, archive
  <2>3. EntriesSound'
    <3>1. /\ d.pool.axes = d.key.axes /\ d.pool.overlay = 0
          /\ \A m \in Month : Matches(d.key, d.pool, m) /\ d.pool.version[m] <= version[m]
      BY <2>0 DEF IInv, Building, Reading, Begun
    <3> HIDE DEF d
    <3> QED
      BY <1>1, <2>0, <3>1 DEF IInv, EntriesSound, Matches, archive
  <2>4. Clocked' /\ Begun' /\ Statting' /\ Building' /\ Reading'
    BY <1>1, <2>0 DEF IInv, Clocked, Begun, Statting, Building, Reading, Matches, archive
  <2> QED
    BY <2>1, <2>2, <2>3, <2>4 DEF IInv
<1>3. CASE Rename
  <2>1. cache' = tmp /\ tmp' = {} /\ pool' = pool /\ pc' = "overlay" /\ pc = "rename" /\ todo = {}
    BY <1>3 DEF Rename, IInv, Building
  <2>2. TypeOK' /\ KeysPast' /\ EntriesSound'
    BY <1>1, <2>1 DEF IInv, TypeOK, KeysPast, EntriesSound, Matches, archive
  <2>3. Clocked' /\ Begun' /\ Statting' /\ Building' /\ Reading'
    BY <1>1, <2>1 DEF IInv, Clocked, Begun, Statting, Building, Reading, Matches, archive
  <2> QED
    BY <2>2, <2>3 DEF IInv
<1>4. CASE Overlay
  <2>0. pool \in Pool /\ meta \in Nat /\ pc = "overlay" /\ pc' = "done" /\ cache' = cache /\ tmp' = tmp
        /\ pool' = [pool EXCEPT !.overlay = meta]
    BY <1>4 DEF Overlay, IInv, TypeOK
  <2>1. pool' \in Pool /\ pool'.axes = pool.axes /\ pool'.version = pool.version /\ pool'.overlay = meta
    BY <2>0 DEF Pool
  <2>2. TypeOK' /\ KeysPast' /\ EntriesSound'
    BY <1>1, <2>0, <2>1 DEF IInv, TypeOK, KeysPast, EntriesSound, Matches, archive
  <2>3. Clocked' /\ Begun' /\ Statting' /\ Building'
    BY <1>1, <2>0 DEF IInv, Clocked, Begun, Statting, Building, archive
  <2>4. Reading'
    BY <1>1, <2>0, <2>1 DEF IInv, Begun, Reading, archive
  <2> QED
    BY <2>2, <2>3, <2>4 DEF IInv
<1> QED
  BY <1>2, <1>3, <1>4

(* Every step keeps the invariant. *)
LEMMA NextInv == ASSUME IInv, [Next]_vars PROVE IInv'
<1>1. CASE Next
  BY <1>1, ArchiveInv, OtherInv, StatInv, PoolInv, DumpInv DEF Next
<1>2. CASE UNCHANGED vars
  BY <1>2 DEF vars, archive, loader, IInv, TypeOK, Clocked, KeysPast, EntriesSound, Matches, Begun,
              Statting, Building, Reading
<1> QED
  BY <1>1, <1>2

-----------------------------------------------------------------------------
(* IInv, what keys, entries and pools guarantee while files change under   *)
(* the loader, holds in every reachable state.                             *)
THEOREM Invariance == Spec => []IInv
BY InitInv, NextInv, PTL DEF Spec

(* A cache whose key matches the files of now holds what a build would     *)
(* read now, whatever changed while it was built.                          *)
THEOREM CacheIsCurrent == Spec => []CacheSound
<1>1. IInv => CacheSound
  <2> SUFFICES ASSUME IInv, NEW e \in cache, Current(e)
               PROVE  e.pool = [version |-> version, axes |-> e.key.axes, overlay |-> 0]
    BY DEF CacheSound
  <2>1. e.pool \in Pool /\ version \in [Month -> Nat]
    BY DEF IInv, TypeOK, Entry
  <2>2. e.pool.axes = e.key.axes /\ e.pool.overlay = 0
        /\ \A m \in Month : e.pool.version[m] = version[m]
    BY DEF Current, IInv, EntriesSound, Matches
  <2>3. e.pool.version = version
    BY <2>1, <2>2 DEF Pool
  <2> QED
    BY <2>1, <2>2, <2>3 DEF Pool
<1> QED
  BY <1>1, Invariance, PTL

(* Mapped or built, a pool is never older than the load that returns it.   *)
THEOREM PoolIsCurrent == Spec => []NothingStale
<1>1. IInv => NothingStale
  BY DEF IInv, TypeOK, Reading, NothingStale
<1> QED
  BY <1>1, Invariance, PTL

(* Every state of the loader, the cache and the archive is well typed.     *)
THEOREM TypeCorrect == Spec => []TypeOK
<1>1. IInv => TypeOK
  BY DEF IInv
<1> QED
  BY <1>1, Invariance, PTL
=============================================================================
