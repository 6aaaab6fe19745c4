------------------------ MODULE MonthArchive_proofs ------------------------
(***************************************************************************)
(* TLAPS proofs about MonthArchive: its type invariant, that a month file  *)
(* never holds a row twice, that no on-time row at or below the watermark  *)
(* is missed, that the pipeline implements Mirror and, for runs that end   *)
(* before midnight, that a refetched closed month is complete and a frozen *)
(* file final.                                                             *)
(*                                                                         *)
(* The argument.  A plan is made from a file and served later, so what     *)
(* makes an append safe has to survive from PlanTable to Rename: only one  *)
(* FetchMonth of a plan concerns a month, files of other months are not    *)
(* touched, and the servers only add rows, on-time ones only for days that *)
(* are not complete yet.  PlanInv says what a planned FetchMonth still     *)
(* guarantees, RespInv what has been received, TmpInv what the .tmp file   *)
(* is worth.                                                               *)
(***************************************************************************)
EXTENDS MonthArchive, FiniteSetTheorems, WellFoundedInduction, TLAPS

(* What is wanted of the rows S kept for month m of table t at instant n,  *)
(* when the server has the rows srv.                                       *)
GoodRows(t, m, S, srv, n) ==
  /\ S \subseteq srv
  /\ \A r \in S : r.vd \in DaysOf(m) /\ WindowStart(m) <= r.vd
  /\ \A r \in S : Complete(AvailHour[t], r.vd, n)
  /\ Kind[t] # "monthfirst" =>
       \A q \in S, r \in srv :
         r.part \in OnTime /\ r.vd <= q.vd /\ r.vd \in DaysOf(m) /\ WindowStart(m) <= r.vd
           => r \in S

FileInv ==
  \A t \in Table, m \in Month :
    /\ \A r \in Row : disk[t][m].rows[r] <= 1
    /\ ~ disk[t][m].exists => Stored(disk[t][m]) = {}
    /\ GoodRows(t, m, Stored(disk[t][m]), server[t], now)

(* What a FetchMonth f of table t, planned from the file d, guarantees     *)
(* until it is served.                                                     *)
FetchInv(t, f, d, n) ==
  /\ f.start = WindowStart(f.ym)
  /\ f.end <= MonthLast[f.ym]
  /\ LowerBound(f) <= f.end
  /\ WindowStart(f.ym) <= LowerBound(f)
  /\ Complete(AvailHour[t], f.end, n)
  /\ f.inc # NoInc =>
       /\ d.exists
       /\ \A r \in Stored(d) : r.vd < f.inc
       /\ \E r \in Stored(d) : r.vd = f.inc - 1
  /\ f.inc = NoInc => Stored(d) = {} \/ f.end = MonthLast[f.ym]

PlanInv ==
  /\ plan # {} => pc \in {"months", "fetch", "write", "rename"}
  /\ \A f \in plan : FetchInv(tab, f, disk[tab][f.ym], now)
  /\ \A f, g \in plan : f.ym = g.ym => f = g
  /\ pc \in {"fetch", "write", "rename"} => \A f \in plan : f.ym # cur.ym

(* The rows a served window may not miss. *)
Due(S, srv) == {r \in srv : r.part \in OnTime \/ r \in S}

CurInv ==
  pc \in {"fetch", "write"} =>
    /\ FetchInv(tab, cur, disk[tab][cur.ym], now)
    /\ resp \subseteq Within(server[tab], LowerBound(cur), cur.end)

RespInv ==
  /\ pc = "fetch" => LowerBound(cur) <= cursor /\ cursor <= cur.end
  /\ pc = "fetch" /\ Kind[tab] = "perday" =>
       Within(Due(Stored(disk[tab][cur.ym]), server[tab]), LowerBound(cur), cursor - 1)
         \subseteq resp
  /\ pc = "write" /\ Kind[tab] # "monthfirst" =>
       Within(Due(Stored(disk[tab][cur.ym]), server[tab]), LowerBound(cur), cur.end)
         \subseteq resp

TmpInv ==
  pc = "rename" =>
    /\ tmp.exists
    /\ today <= tmp.mtime.day
    /\ \A r \in Row : tmp.rows[r] <= 1
    /\ GoodRows(tab, cur.ym, Stored(tmp), server[tab], now)
    /\ Kind[tab] # "monthfirst" => Stored(disk[tab][cur.ym]) \subseteq Stored(tmp)

IInv == TypeOK /\ today <= now.day /\ FileInv /\ PlanInv /\ CurInv /\ RespInv /\ TmpInv

-----------------------------------------------------------------------------
(***************************************************************************)
(* Operators.                                                              *)
(***************************************************************************)

(* A nonempty set of naturals below a bound has a largest element. *)
LEMMA MaxExists ==
  ASSUME NEW B \in Nat, NEW S \in SUBSET (0 .. B), S # {}
  PROVE  \E d \in S : \A e \in S : e <= d
<1> DEFINE T == {n \in Nat : \E d \in S : n = B - d}
<1>1. T \subseteq Nat /\ T # {}
  <2>1. PICK d \in S : TRUE
    OBVIOUS
  <2>2. B - d \in Nat
    OBVIOUS
  <2>. QED  BY <2>2
<1> HIDE DEF T
<1>2. \E x \in T : \A y \in T : ~ (<<y, x>> \in OpToRel(<, Nat))
  BY <1>1, WFMin, NatLessThanWellFounded
<1>3. PICK x \in T : \A y \in T : ~ (<<y, x>> \in OpToRel(<, Nat))
  BY <1>2
<1>4. \A y \in T : ~ (y < x)
  BY <1>1, <1>3 DEF OpToRel
<1>5. PICK d \in S : x = B - d
  BY DEF T
<1>6. ASSUME NEW e \in S PROVE e <= d
  <2>1. B - e \in T
    BY DEF T
  <2>. QED  BY <2>1, <1>4, <1>5
<1>. QED  BY <1>6

(* FileMaxVd is the largest visible date of a file that has rows. *)
LEMMA FileMaxVdIsMax ==
  ASSUME NEW f, Stored(f) # {}
  PROVE  /\ FileMaxVd(f) \in Day
         /\ \E r \in Stored(f) : r.vd = FileMaxVd(f)
         /\ \A r \in Stored(f) : r.vd <= FileMaxVd(f)
<1> DEFINE S == {r.vd : r \in Stored(f)}
<1>2. LastDay \in Nat
  BY CalendarAssumption
<1>0. \A r \in Stored(f) : r.vd \in Day
  BY ArchiveAssumption DEF Stored, Row, Day
<1>1. S \in SUBSET (0 .. LastDay) /\ S # {} /\ S \subseteq Day
  <2>1. S \subseteq Day /\ S # {}
    BY <1>0
  <2>2. Day \subseteq 0 .. LastDay
    BY <1>2 DEF Day
  <2>. QED  BY <2>1, <2>2
<1>3. \E d \in S : \A e \in S : e <= d
  <2> HIDE DEF S
  <2>. QED  BY <1>1, <1>2, MaxExists
<1>4. \E d \in Day : /\ \E r \in Stored(f) : r.vd = d
                     /\ \A r \in Stored(f) : r.vd <= d
  BY <1>1, <1>3
<1>. QED  BY <1>4 DEF FileMaxVd

(* FileMaxVd is a day, or 0 for a file without rows. *)
LEMMA FileMaxVdType ==
  ASSUME NEW f
  PROVE  FileMaxVd(f) \in 0 .. LastDay /\ FileMaxVd(f) \in Nat
<1>1. CASE Stored(f) = {}
  BY <1>1, CalendarAssumption DEF FileMaxVd
<1>2. CASE Stored(f) # {}
  BY <1>2, FileMaxVdIsMax, CalendarAssumption DEF Day
<1>. QED  BY <1>1, <1>2

(* The next instant is an instant. *)
LEMMA NextHourType ==
  ASSUME NEW n \in Clock
  PROVE  /\ NextHour(n) \in Clock
         /\ n.day <= NextHour(n).day
         /\ \A a \in 0 .. HoursPerDay, d \in Nat :
              Complete(a, d, n) => Complete(a, d, NextHour(n))
<1>1. CASE n.hour + 1 < HoursPerDay
  <2>1. NextHour(n) = [n EXCEPT !.hour = n.hour + 1]
    BY <1>1 DEF NextHour
  <2>2. NextHour(n) = [day |-> n.day, hour |-> n.hour + 1]
    BY <2>1 DEF Clock
  <2>. QED  BY <1>1, <2>2, CalendarAssumption DEF Clock, Hour, Complete
<1>2. CASE ~(n.hour + 1 < HoursPerDay)
  <2>1. NextHour(n) = [day |-> n.day + 1, hour |-> 0]
    BY <1>2 DEF NextHour
  <2>. QED  BY <2>1, CalendarAssumption DEF Clock, Hour, Complete
<1>. QED  BY <1>1, <1>2

(* The horizon is never ahead of what the source has completely published, *)
(* even when today was captured before midnight.                           *)
LEMMA HorizonComplete ==
  ASSUME NEW a \in 0 .. HoursPerDay, NEW td \in Nat, NEW n \in Clock,
         td <= n.day, NEW d \in Nat, d <= DataHorizon(a, td, n)
  PROVE  Complete(a, d, n)
BY CalendarAssumption DEF DataHorizon, Complete, Clock, Hour

(* The windows of a month are made of day numbers. *)
LEMMA WindowStartType ==
  ASSUME NEW m \in Month
  PROVE  WindowStart(m) \in Nat \ {0} /\ MonthFirst[m] <= WindowStart(m)
         /\ StartDate <= WindowStart(m)
BY CalendarAssumption, ArchiveAssumption DEF WindowStart, Larger

(* Every FetchMonth of a plan is well typed. *)
LEMMA PlanType ==
  ASSUME TypeOK, NEW t \in Table, NEW td \in Nat
  PROVE  PlanMonths(t, td, now) \subseteq FetchMonth
<1>1. \A m \in Month : WindowStart(m) \in Nat /\ MonthLast[m] \in Nat
  BY WindowStartType, CalendarAssumption
<1>2. PlanClosed(t, td) \subseteq FetchMonth
  BY <1>1 DEF PlanClosed, MonthsTo, FetchMonth, NoInc
<1>3. ASSUME NEW m \in MonthsTo(td), OpenDue(t, m, td, now)
      PROVE  /\ WindowEnd(t, m, td, now) \in Nat
             /\ IncFrom(disk[t][m]) \in Nat
  <2>1. IncFrom(disk[t][m]) \in Nat
    BY FileMaxVdType DEF IncFrom, NoInc
  <2>2. WindowEnd(t, m, td, now) \in Int
    BY <1>1, CalendarAssumption, ArchiveAssumption
    DEF WindowEnd, Smaller, DataHorizon, TypeOK, Clock, Hour, MonthsTo
  <2>. QED  BY <2>1, <2>2, <1>1, <1>3, WindowStartType DEF OpenDue, MonthsTo
<1>4. PlanOpen(t, td, now) \subseteq FetchMonth
  BY <1>1, <1>3 DEF PlanOpen, MonthsTo, FetchMonth
<1>. QED  BY <1>2, <1>4 DEF PlanMonths

(* The placeholder of an idle run is a FetchMonth. *)
LEMMA NoFetchType == NoFetch \in FetchMonth
BY CalendarAssumption DEF NoFetch, FetchMonth, NoInc

(* The placeholder of a missing file is a file. *)
LEMMA NoFileType == NoFile \in File
<1>1. EmptyRows \in Bag
  BY DEF EmptyRows, Bag
<1>2. [day |-> 0, hour |-> 0] \in Clock
  BY CalendarAssumption DEF Clock, Hour
<1>. QED  BY <1>1, <1>2 DEF NoFile, File

-----------------------------------------------------------------------------
(***************************************************************************)
(* Type correctness.                                                       *)
(***************************************************************************)
LEMMA TypeInit == Init => TypeOK
<1> SUFFICES ASSUME Init PROVE TypeOK
  OBVIOUS
<1>1. now \in Clock
  BY CalendarAssumption DEF Init, Clock, Hour
<1>2. disk \in [Table -> [Month -> File]]
  BY NoFileType DEF Init
<1>3. tmp \in File /\ cur \in FetchMonth
  BY NoFileType, NoFetchType DEF Init
<1>4. tab \in Table
  BY ArchiveAssumption DEF Init, Table
<1>. QED  BY <1>1, <1>2, <1>3, <1>4, ArchiveAssumption DEF Init, TypeOK

(* A run that ends leaves well-typed variables. *)
LEMMA IdleRunType ==
  ASSUME IdleRun
  PROVE  /\ pc' = "idle" /\ today' \in Nat /\ tab' \in Table
         /\ plan' \subseteq FetchMonth /\ cur' \in FetchMonth /\ cursor' \in Nat
         /\ resp' \subseteq Row /\ tmp' \in File
BY NoFileType, NoFetchType, ArchiveAssumption DEF IdleRun, Table

(* What is written is a bag of rows. *)
LEMMA WrittenType ==
  ASSUME TypeOK
  PROVE  WrittenRows \in Bag
<1>1. \A b \in Bag : Added(b, resp) \in Bag
  BY DEF Added, Bag
<1>2. Once(resp) \in Bag
  BY DEF Once, Bag
<1>3. disk[tab][cur.ym].rows \in Bag
  BY DEF TypeOK, File, FetchMonth
<1>. QED  BY <1>1, <1>2, <1>3 DEF WrittenRows

(* Every step keeps the types. *)
LEMMA TypeStep == TypeOK /\ [Next]_vars => TypeOK'
<1> SUFFICES ASSUME TypeOK, [Next]_vars PROVE TypeOK'
  OBVIOUS
<1>1. CASE Tick
  BY <1>1, NextHourType DEF Tick, TypeOK, runVars
<1>2. ASSUME NEW t \in Table, NEW r \in Row, Publish(t, r)
      PROVE  TypeOK'
  BY <1>2 DEF Publish, TypeOK, runVars
<1>3. ASSUME NEW t \in Table, NEW m \in Month, NEW d \in Backfilled, Backfill(t, m, d)
      PROVE  TypeOK'
  <2>1. [vd |-> d, part |-> "late"] \in Row
    BY ArchiveAssumption DEF Row
  <2>. QED  BY <1>3, <2>1 DEF Backfill, TypeOK, runVars
<1>4. CASE StartRun
  BY <1>4 DEF StartRun, TypeOK, Clock
<1>5. CASE Accept
  BY <1>5 DEF Accept, TypeOK
<1>6. CASE Decline
  BY <1>6, IdleRunType DEF Decline, TypeOK
<1>7. CASE PlanTable
  BY <1>7, PlanType DEF PlanTable, TypeOK
<1>8. CASE NextTable
  BY <1>8, ArchiveAssumption DEF NextTable, TypeOK, Table
<1>9. CASE EndRun
  BY <1>9, IdleRunType DEF EndRun, TypeOK
<1>10. CASE NextMonth
  BY <1>10 DEF NextMonth, TypeOK, FetchMonth, LowerBound
<1>11. CASE FetchWindow
  <2>1. resp' \subseteq Row
    BY <1>11 DEF FetchWindow, Answer, Within, TypeOK
  <2>. QED  BY <1>11, <2>1 DEF FetchWindow, TypeOK
<1>12. CASE FetchDay
  BY <1>12 DEF FetchDay, Within, TypeOK
<1>13. CASE TouchEmpty
  BY <1>13, NoFetchType, NoFileType DEF TouchEmpty, EndMonth, TypeOK, File, FetchMonth
<1>14. CASE WriteTmp
  BY <1>14, WrittenType DEF WriteTmp, TypeOK, File
<1>15. CASE Rename
  BY <1>15, NoFetchType, NoFileType DEF Rename, EndMonth, TypeOK, FetchMonth
<1>16. CASE Crash
  BY <1>16, IdleRunType, ArchiveAssumption DEF Crash, TypeOK
<1>17. CASE UNCHANGED vars
  BY <1>17 DEF vars, TypeOK
<1>. QED
  BY <1>1, <1>2, <1>3, <1>4, <1>5, <1>6, <1>7, <1>8, <1>9, <1>10, <1>11, <1>12,
     <1>13, <1>14, <1>15, <1>16, <1>17
  DEF Next, RunStep

(* Every reachable state is well typed, whatever the calendar, the tables  *)
(* and the number of runs: in particular the plan always holds windows of  *)
(* known months and the table index never leaves SPECS.                    *)
THEOREM TypeCorrect == Spec => []TypeOK
<1>. QED  BY TypeInit, TypeStep, PTL DEF Spec

-----------------------------------------------------------------------------
(***************************************************************************)
(* The inductive invariant.                                                *)
(***************************************************************************)
LEMMA RowFacts ==
  \A r \in Row : r.vd \in Nat /\ r.vd \in Day
<1>1. \A r \in Row : r.vd \in Day
  BY ArchiveAssumption DEF Row, Day
<1>. QED  BY <1>1, CalendarAssumption DEF Day

(* What the calendar says of a month, for every month. *)
LEMMA MonthFacts ==
  \A m \in Month : /\ MonthFirst[m] \in Nat /\ MonthLast[m] \in Nat
                   /\ WindowStart(m) \in Nat \ {0}
                   /\ MonthFirst[m] <= WindowStart(m)
                   /\ StartDate <= WindowStart(m)
BY WindowStartType, CalendarAssumption

(* An availability hour is one of 0 .. HoursPerDay. *)
LEMMA AvailFacts ==
  \A t \in Table : AvailHour[t] \in 0 .. HoursPerDay /\ AvailHour[t] \in Nat
BY ArchiveAssumption, CalendarAssumption

(* If a day's data is complete, so is every earlier day's. *)
LEMMA CompleteDown ==
  ASSUME NEW a \in Nat, NEW n \in Clock, NEW d \in Nat, NEW e \in Nat,
         d <= e, Complete(a, e, n)
  PROVE  Complete(a, d, n)
BY CalendarAssumption DEF Complete, Clock, Hour

(* How the environment may move: the server grows, by on-time rows only    *)
(* for days that are not complete, and completeness is never lost.         *)
ServerGrows(t, srv, n, srv2, n2) ==
  /\ srv \subseteq srv2
  /\ \A r \in srv2 \ srv : r.part \in OnTime => ~ Complete(AvailHour[t], r.vd, n)
  /\ \A d \in Nat : Complete(AvailHour[t], d, n) => Complete(AvailHour[t], d, n2)

(* Rows that were good stay good as time passes and servers grow. *)
LEMMA GoodRowsStable ==
  ASSUME NEW t \in Table, NEW m \in Month, NEW S, NEW srv, NEW srv2 \in SUBSET Row,
         NEW n \in Clock, NEW n2,
         GoodRows(t, m, S, srv, n), ServerGrows(t, srv, n, srv2, n2)
  PROVE  GoodRows(t, m, S, srv2, n2)
<1>1. S \subseteq Row
  BY DEF GoodRows, ServerGrows
<1>2. ASSUME Kind[t] # "monthfirst", NEW q \in S, NEW r \in srv2,
             r.part \in OnTime, r.vd <= q.vd, r.vd \in DaysOf(m), WindowStart(m) <= r.vd
      PROVE  r \in S
  <2>1. Complete(AvailHour[t], r.vd, n)
    BY <1>1, <1>2, RowFacts, AvailFacts, CompleteDown DEF GoodRows
  <2>2. r \in srv
    BY <2>1, <1>2 DEF ServerGrows
  <2>. QED  BY <2>2, <1>2 DEF GoodRows
<1>. QED  BY <1>1, <1>2, RowFacts DEF GoodRows, ServerGrows

(* What a plan guarantees survives time passing. *)
LEMMA FetchInvStable ==
  ASSUME NEW t \in Table, NEW f \in FetchMonth, NEW d, NEW n, NEW n2, NEW srv, NEW srv2,
         FetchInv(t, f, d, n), ServerGrows(t, srv, n, srv2, n2)
  PROVE  FetchInv(t, f, d, n2)
BY DEF FetchInv, ServerGrows, FetchMonth

(* No on-time row appears in a window that is complete. *)
LEMMA DueStable ==
  ASSUME NEW t \in Table, NEW S, NEW srv, NEW srv2 \in SUBSET Row, NEW n \in Clock, NEW n2,
         S \subseteq srv, NEW lo \in Nat, NEW hi \in Nat, NEW e \in Nat, hi <= e,
         Complete(AvailHour[t], e, n), ServerGrows(t, srv, n, srv2, n2)
  PROVE  Within(Due(S, srv2), lo, hi) = Within(Due(S, srv), lo, hi)
<1>1. ASSUME NEW r \in Within(Due(S, srv2), lo, hi)
      PROVE  r \in Within(Due(S, srv), lo, hi)
  <2>1. r \in Row /\ r.vd \in Nat /\ r.vd <= e
    BY <1>1, RowFacts DEF Within, Due
  <2>2. Complete(AvailHour[t], r.vd, n)
    BY <2>1, AvailFacts, CompleteDown
  <2>. QED  BY <1>1, <2>2 DEF Within, Due, ServerGrows
<1>. QED  BY <1>1 DEF Within, Due, ServerGrows

(***************************************************************************)
(* The invariant holds initially and is kept by every step of the          *)
(* environment.                                                            *)
(***************************************************************************)
LEMMA NoRows ==
  /\ Stored(NoFile) = {}
  /\ \A r \in Row : NoFile.rows[r] <= 1
BY DEF Stored, NoFile, EmptyRows

(* Nothing is stored, planned or received at the start. *)
LEMMA IInvInit == Init => IInv
<1> SUFFICES ASSUME Init PROVE IInv
  OBVIOUS
<1>1. TypeOK
  BY TypeInit
<1>2. FileInv
  BY NoRows DEF Init, FileInv, GoodRows
<1>3. today <= now.day
  BY DEF Init
<1>. QED  BY <1>1, <1>2, <1>3 DEF Init, IInv, PlanInv, CurInv, RespInv, TmpInv

(* Ticks, publications and backfills keep the invariant. *)
LEMMA EnvironmentKeeps ==
  ASSUME IInv, TypeOK', UNCHANGED <<disk, runVars>>, now.day <= now'.day,
         \A t \in Table : ServerGrows(t, server[t], now, server'[t], now')
  PROVE  IInv'
<1>1. now \in Clock /\ server \in [Table -> SUBSET Row] /\ server' \in [Table -> SUBSET Row]
  BY DEF IInv, TypeOK
<1>2. /\ disk' = disk /\ pc' = pc /\ today' = today /\ tab' = tab /\ plan' = plan
      /\ cur' = cur /\ cursor' = cursor /\ resp' = resp /\ tmp' = tmp
  BY DEF runVars
<1>3. FileInv'
  <2> SUFFICES ASSUME NEW t \in Table, NEW m \in Month
               PROVE  /\ \A r \in Row : disk[t][m].rows[r] <= 1
                      /\ ~ disk[t][m].exists => Stored(disk[t][m]) = {}
                      /\ GoodRows(t, m, Stored(disk[t][m]), server'[t], now')
    BY <1>2 DEF FileInv
  <2>1. GoodRows(t, m, Stored(disk[t][m]), server[t], now)
    BY DEF IInv, FileInv
  <2>2. GoodRows(t, m, Stored(disk[t][m]), server'[t], now')
    BY <2>1, <1>1, GoodRowsStable
  <2>. QED  BY <2>2 DEF IInv, FileInv
<1>4. tab \in Table /\ cur \in FetchMonth /\ plan \subseteq FetchMonth
  BY DEF IInv, TypeOK
<1>5. PlanInv'
  <2>1. \A f \in plan : FetchInv(tab, f, disk[tab][f.ym], now')
    BY <1>1, <1>4, FetchInvStable DEF IInv, PlanInv
  <2>. QED  BY <1>2, <2>1 DEF IInv, PlanInv
<1>6. CurInv'
  <2>1. ASSUME pc \in {"fetch", "write"}
        PROVE  /\ FetchInv(tab, cur, disk[tab][cur.ym], now')
               /\ resp \subseteq Within(server'[tab], LowerBound(cur), cur.end)
    <3>1. FetchInv(tab, cur, disk[tab][cur.ym], now)
          /\ resp \subseteq Within(server[tab], LowerBound(cur), cur.end)
      BY <2>1 DEF IInv, CurInv
    <3>2. FetchInv(tab, cur, disk[tab][cur.ym], now')
      BY <3>1, <1>4, FetchInvStable
    <3>. QED  BY <3>1, <3>2, <1>4 DEF ServerGrows, Within
  <2>. QED  BY <1>2, <2>1 DEF CurInv
<1>7. RespInv'
  <2> DEFINE S == Stored(disk[tab][cur.ym])
  <2>1. ASSUME pc \in {"fetch", "write"}, NEW hi \in Nat, hi <= cur.end
        PROVE  Within(Due(S, server'[tab]), LowerBound(cur), hi)
                 = Within(Due(S, server[tab]), LowerBound(cur), hi)
    <3>1. S \subseteq server[tab]
      BY <1>4 DEF IInv, FileInv, GoodRows, FetchMonth
    <3>2. Complete(AvailHour[tab], cur.end, now)
      BY <2>1 DEF IInv, CurInv, FetchInv
    <3>3. cur.end \in Nat /\ LowerBound(cur) \in Nat
      BY <1>4 DEF FetchMonth, LowerBound
    <3> HIDE DEF S
    <3>. QED  BY <3>1, <3>2, <3>3, <1>1, <1>4, <2>1, DueStable
  <2>2. ASSUME pc = "fetch" PROVE cursor - 1 \in Nat /\ cursor - 1 <= cur.end
    <3>1. LowerBound(cur) \in Nat \ {0}
      BY <2>2, <1>4, MonthFacts DEF IInv, CurInv, FetchInv, FetchMonth, LowerBound
    <3>2. LowerBound(cur) <= cursor /\ cursor <= cur.end
      BY <2>2 DEF IInv, RespInv
    <3>. QED  BY <3>1, <3>2, <1>4 DEF IInv, TypeOK, FetchMonth
  <2>3. cur.end \in Nat
    BY <1>4 DEF FetchMonth
  <2>. QED  BY <1>2, <2>1, <2>2, <2>3 DEF IInv, RespInv
<1>8. TmpInv'
  <2>1. ASSUME pc = "rename"
        PROVE  GoodRows(tab, cur.ym, Stored(tmp), server'[tab], now')
    <3>1. GoodRows(tab, cur.ym, Stored(tmp), server[tab], now) /\ cur.ym \in Month
      BY <2>1, <1>4 DEF IInv, TmpInv, FetchMonth
    <3>. QED  BY <3>1, <1>1, <1>4, GoodRowsStable
  <2>. QED  BY <1>2, <2>1 DEF IInv, TmpInv
<1>9. (today <= now.day)'
  BY <1>1, <1>2 DEF IInv, TypeOK, Clock
<1>. QED  BY <1>3, <1>5, <1>6, <1>7, <1>8, <1>9 DEF IInv

(***************************************************************************)
(* Planning.                                                               *)
(***************************************************************************)
LEMMA PlanClosedGood ==
  ASSUME IInv, NEW f \in PlanClosed(tab, today)
  PROVE  /\ FetchInv(tab, f, disk[tab][f.ym], now)
         /\ f.ym \in Month /\ Closed(f.ym, today)
<1>1. /\ f.ym \in Month /\ Closed(f.ym, today) /\ StartDate <= MonthLast[f.ym]
      /\ f.start = WindowStart(f.ym) /\ f.end = MonthLast[f.ym] /\ f.inc = NoInc
  BY DEF PlanClosed, MonthsTo
<1>2. WindowStart(f.ym) <= MonthLast[f.ym]
  BY <1>1, CalendarAssumption DEF WindowStart, Larger
<1>3. Complete(AvailHour[tab], MonthLast[f.ym], now)
  <2>1. today \in Nat /\ now.day \in Nat /\ today <= now.day
    BY DEF IInv, TypeOK, Clock
  <2>. QED  BY <2>1, <1>1, MonthFacts, ArchiveAssumption DEF Complete, Closed
<1>. QED  BY <1>1, <1>2, <1>3, MonthFacts DEF FetchInv, LowerBound

(* A window planned for an open month guarantees FetchInv. *)
LEMMA PlanOpenGood ==
  ASSUME IInv, NEW f \in PlanOpen(tab, today, now)
  PROVE  /\ FetchInv(tab, f, disk[tab][f.ym], now)
         /\ f.ym \in Month /\ ~ Closed(f.ym, today)
<1> DEFINE d == disk[tab][f.ym]
<1>1. /\ f.ym \in Month /\ OpenDue(tab, f.ym, today, now)
      /\ f.start = WindowStart(f.ym) /\ f.end = WindowEnd(tab, f.ym, today, now)
      /\ f.inc = IncFrom(d)
  BY DEF PlanOpen, MonthsTo
<1>2. /\ tab \in Table /\ today \in Nat /\ now \in Clock /\ today <= now.day
      /\ now.hour \in Nat
  BY CalendarAssumption DEF IInv, TypeOK, Clock, Hour
<1>3. /\ f.end \in Int /\ f.end <= MonthLast[f.ym]
      /\ f.end <= DataHorizon(AvailHour[tab], today, now)
  BY <1>1, <1>2, MonthFacts, AvailFacts DEF WindowEnd, Smaller, DataHorizon
<1>4. f.start <= f.end /\ f.inc <= f.end /\ f.end \in Nat
  BY <1>1, <1>3, MonthFacts DEF OpenDue
<1>5. Complete(AvailHour[tab], f.end, now)
  BY <1>2, <1>3, <1>4, AvailFacts, HorizonComplete
<1>6. ~ d.exists => Stored(d) = {}
  BY <1>1, <1>2 DEF IInv, FileInv
<1>7. f.inc = NoInc => Stored(d) = {}
  <2>1. FileMaxVd(d) \in Nat
    BY FileMaxVdType
  <2>. QED  BY <1>1, <1>6, <2>1 DEF IncFrom, NoInc
<1>8. ASSUME f.inc # NoInc
      PROVE  /\ d.exists
             /\ \A r \in Stored(d) : r.vd < f.inc
             /\ \E r \in Stored(d) : r.vd = f.inc - 1
             /\ WindowStart(f.ym) <= f.inc
  <2>1. d.exists /\ Stored(d) # {} /\ f.inc = FileMaxVd(d) + 1
    BY <1>1, <1>8 DEF IncFrom
  <2>2. /\ FileMaxVd(d) \in Nat
        /\ \E r \in Stored(d) : r.vd = FileMaxVd(d)
        /\ \A r \in Stored(d) : r.vd <= FileMaxVd(d)
    BY <2>1, FileMaxVdType, FileMaxVdIsMax
  <2>3. \A r \in Stored(d) : r.vd \in Nat /\ WindowStart(f.ym) <= r.vd
    BY <1>1, <1>2, RowFacts DEF IInv, FileInv, GoodRows, Stored
  <2> HIDE DEF d
  <2>. QED  BY <2>1, <2>2, <2>3, <1>1, MonthFacts
<1>. QED  BY <1>1, <1>3, <1>4, <1>5, <1>7, <1>8, MonthFacts DEF FetchInv, LowerBound, OpenDue

(* Planning a table keeps the invariant. *)
LEMMA PlanTableKeeps ==
  ASSUME IInv, TypeOK', PlanTable
  PROVE  IInv'
<1>1. \A f \in plan' : FetchInv(tab, f, disk[tab][f.ym], now)
  BY PlanClosedGood, PlanOpenGood DEF PlanTable, PlanMonths
<1>2. \A f, g \in plan' : f.ym = g.ym => f = g
  <2> SUFFICES ASSUME NEW f \in plan', NEW g \in plan', f.ym = g.ym
               PROVE  f = g
    OBVIOUS
  <2>1. CASE f \in PlanClosed(tab, today) /\ g \in PlanClosed(tab, today)
    BY <2>1 DEF PlanClosed
  <2>2. CASE f \in PlanOpen(tab, today, now) /\ g \in PlanOpen(tab, today, now)
    BY <2>2 DEF PlanOpen
  <2>. QED  BY <2>1, <2>2, PlanClosedGood, PlanOpenGood DEF PlanTable, PlanMonths
<1>. QED
  BY <1>1, <1>2
  DEF PlanTable, IInv, FileInv, PlanInv, CurInv, RespInv, TmpInv

(***************************************************************************)
(* Steps of a run that touch neither the servers nor the disk.             *)
(***************************************************************************)
LEMMA IdleKeeps ==
  ASSUME IInv, TypeOK', IdleRun, UNCHANGED <<now, server, disk>>
  PROVE  IInv'
<1>1. now.day \in Nat
  BY DEF IInv, TypeOK, Clock
<1>. QED
  BY <1>1 DEF IdleRun, IInv, FileInv, PlanInv, CurInv, RespInv, TmpInv

(* Starting, accepting and going on to the next table keep the invariant. *)
LEMMA StartKeeps ==
  ASSUME IInv, TypeOK', StartRun \/ Accept \/ NextTable
  PROVE  IInv'
<1>1. now.day \in Nat
  BY DEF IInv, TypeOK, Clock
<1>2. plan' = {} /\ pc' \in {"ask", "table"} /\ UNCHANGED <<now, server, disk>>
  BY DEF StartRun, Accept, NextTable, IInv, PlanInv
<1>3. today' <= now'.day
  BY <1>1, <1>2 DEF StartRun, Accept, NextTable, IInv
<1>4. FileInv' /\ PlanInv' /\ CurInv' /\ RespInv' /\ TmpInv'
  BY <1>2 DEF IInv, FileInv, PlanInv, CurInv, RespInv, TmpInv
<1>. QED  BY <1>3, <1>4 DEF IInv

(* Taking the next FetchMonth keeps the invariant. *)
LEMMA NextMonthKeeps ==
  ASSUME IInv, TypeOK', NextMonth
  PROVE  IInv'
<1>1. PICK f \in plan : cur' = f /\ plan' = plan \ {f} /\ cursor' = LowerBound(f)
  BY DEF NextMonth
<1>2. /\ UNCHANGED <<now, server, disk, today, tab, tmp>>
      /\ pc = "months" /\ pc' = "fetch" /\ resp' = {}
  BY DEF NextMonth
<1>3. FetchInv(tab, f, disk[tab][f.ym], now) /\ f \in FetchMonth
  BY <1>1 DEF IInv, PlanInv, TypeOK
<1>4. PlanInv'
  BY <1>1, <1>2 DEF IInv, PlanInv
<1>5. CurInv'
  BY <1>1, <1>2, <1>3 DEF CurInv
<1>6. RespInv'
  <2>1. LowerBound(f) \in Nat /\ LowerBound(f) <= f.end
    BY <1>3 DEF FetchInv, FetchMonth, LowerBound
  <2>2. \A S \in SUBSET Row : Within(Due(Stored(disk[tab][f.ym]), S), LowerBound(f), LowerBound(f) - 1) = {}
    BY <2>1, RowFacts DEF Within, Due
  <2>3. server[tab] \in SUBSET Row
    BY DEF IInv, TypeOK
  <2>. QED  BY <1>1, <1>2, <2>1, <2>2, <2>3 DEF RespInv
<1>7. FileInv' /\ TmpInv' /\ (today <= now.day)'
  BY <1>2 DEF IInv, FileInv, TmpInv
<1>. QED  BY <1>4, <1>5, <1>6, <1>7 DEF IInv

(* A window answered at once keeps the invariant. *)
LEMMA FetchWindowKeeps ==
  ASSUME IInv, TypeOK', FetchWindow
  PROVE  IInv'
<1>1. /\ UNCHANGED <<now, server, disk, today, tab, plan, cur, cursor, tmp>>
      /\ pc = "fetch" /\ pc' = "write" /\ resp' = Answer(tab, cur)
  BY DEF FetchWindow
<1>2. resp' \subseteq Within(server[tab], LowerBound(cur), cur.end)
  BY <1>1 DEF Answer, Within
<1>3. Kind[tab] # "monthfirst" =>
        Within(Due(Stored(disk[tab][cur.ym]), server[tab]), LowerBound(cur), cur.end)
          \subseteq resp'
  BY <1>1 DEF Answer, Within, Due
<1>. QED
  BY <1>1, <1>2, <1>3 DEF IInv, FileInv, PlanInv, CurInv, RespInv, TmpInv

(* A window fetched day by day keeps the invariant. *)
LEMMA FetchDayKeeps ==
  ASSUME IInv, TypeOK', FetchDay
  PROVE  IInv'
<1> DEFINE S == Stored(disk[tab][cur.ym])
<1>1. /\ UNCHANGED <<now, server, disk, today, tab, plan, cur, tmp>>
      /\ pc = "fetch" /\ Kind[tab] = "perday"
      /\ resp' = resp \cup Within(server[tab], cursor, cursor)
      /\ cursor' = cursor + 1
      /\ pc' = IF cursor < cur.end THEN "fetch" ELSE "write"
  BY DEF FetchDay
<1>2. LowerBound(cur) \in Nat /\ cursor \in Nat /\ cur.end \in Nat
      /\ LowerBound(cur) <= cursor /\ cursor <= cur.end
  BY <1>1 DEF IInv, RespInv, TypeOK, FetchMonth, LowerBound
<1>3. \A r \in server[tab] : r.vd \in Nat
  BY RowFacts DEF IInv, TypeOK
<1>4. resp' \subseteq Within(server[tab], LowerBound(cur), cur.end)
  BY <1>1, <1>2, <1>3 DEF IInv, CurInv, Within
<1>5. Within(Due(S, server[tab]), LowerBound(cur), cursor) \subseteq resp'
  <2>1. Within(Due(S, server[tab]), LowerBound(cur), cursor - 1) \subseteq resp
    BY <1>1 DEF IInv, RespInv
  <2>2. Within(Due(S, server[tab]), LowerBound(cur), cursor)
          \subseteq Within(Due(S, server[tab]), LowerBound(cur), cursor - 1)
                      \cup Within(server[tab], cursor, cursor)
    BY <1>2, <1>3 DEF Within, Due
  <2>. QED  BY <1>1, <2>1, <2>2
<1>6. CASE cursor < cur.end
  <2>1. pc' = "fetch" /\ cursor' - 1 = cursor /\ LowerBound(cur) <= cursor' /\ cursor' <= cur.end
    BY <1>1, <1>2, <1>6
  <2>. QED
    BY <1>1, <1>4, <1>5, <2>1 DEF IInv, FileInv, PlanInv, CurInv, RespInv, TmpInv
<1>7. CASE ~ (cursor < cur.end)
  <2>1. pc' = "write" /\ cursor = cur.end
    BY <1>1, <1>2, <1>7
  <2>. QED
    BY <1>1, <1>4, <1>5, <2>1 DEF IInv, FileInv, PlanInv, CurInv, RespInv, TmpInv
<1>. QED  BY <1>6, <1>7

(***************************************************************************)
(* Writing.  An append adds rows past every row of the file; a replacement *)
(* has every row the file had.                                             *)
(***************************************************************************)
LEMMA AddedRows ==
  ASSUME NEW b \in Bag, NEW S \in SUBSET Row
  PROVE  /\ {r \in Row : Added(b, S)[r] > 0} = {r \in Row : b[r] > 0} \cup S
         /\ {r \in Row : Once(S)[r] > 0} = S
         /\ \A r \in Row : Once(S)[r] <= 1
BY DEF Added, Once, Bag

(* Writing the .tmp file keeps the invariant. *)
LEMMA WriteTmpKeeps ==
  ASSUME IInv, TypeOK', WriteTmp
  PROVE  IInv'
<1> DEFINE old == disk[tab][cur.ym]
           lo == LowerBound(cur)
<1>1. /\ UNCHANGED <<now, server, disk, today, tab, plan, cur, cursor, resp>>
      /\ pc = "write" /\ pc' = "rename"
      /\ tmp' = [exists |-> TRUE, rows |-> WrittenRows, mtime |-> now]
  BY DEF WriteTmp
<1>2. /\ tab \in Table /\ cur \in FetchMonth /\ cur.ym \in Month /\ resp \in SUBSET Row
      /\ old \in File /\ old.rows \in Bag /\ server[tab] \in SUBSET Row /\ now \in Clock
      /\ cur.end \in Nat /\ cur.inc \in Nat
  BY DEF IInv, TypeOK, FetchMonth, File
<1>3. FetchInv(tab, cur, old, now) /\ resp \subseteq Within(server[tab], lo, cur.end)
  BY <1>1 DEF IInv, CurInv
<1>4. GoodRows(tab, cur.ym, Stored(old), server[tab], now)
      /\ \A r \in Row : old.rows[r] <= 1
  BY <1>2 DEF IInv, FileInv
<1>5. Kind[tab] # "monthfirst" =>
        Within(Due(Stored(old), server[tab]), lo, cur.end) \subseteq resp
  BY <1>1 DEF IInv, RespInv
<1>6. MonthLast[cur.ym] \in Nat /\ MonthFirst[cur.ym] \in Nat
      /\ WindowStart(cur.ym) \in Nat /\ MonthFirst[cur.ym] <= WindowStart(cur.ym)
      /\ WindowStart(cur.ym) <= lo /\ cur.end <= MonthLast[cur.ym] /\ lo \in Nat
  BY <1>2, <1>3, MonthFacts DEF FetchInv, LowerBound, FetchMonth
<1>7. \A r \in resp : /\ r \in server[tab] /\ r.vd \in Nat
                      /\ lo <= r.vd /\ r.vd <= cur.end
                      /\ r.vd \in DaysOf(cur.ym) /\ WindowStart(cur.ym) <= r.vd
                      /\ Complete(AvailHour[tab], r.vd, now)
  <2> SUFFICES ASSUME NEW r \in resp
               PROVE  /\ r \in server[tab] /\ r.vd \in Nat
                      /\ lo <= r.vd /\ r.vd <= cur.end
                      /\ r.vd \in DaysOf(cur.ym) /\ WindowStart(cur.ym) <= r.vd
                      /\ Complete(AvailHour[tab], r.vd, now)
    OBVIOUS
  <2>1. r \in server[tab] /\ r.vd \in Nat /\ lo <= r.vd /\ r.vd <= cur.end
    BY <1>2, <1>3, RowFacts DEF Within
  <2>2. Complete(AvailHour[tab], r.vd, now)
    BY <2>1, <1>2, <1>3, AvailFacts, CompleteDown DEF FetchInv
  <2>. QED  BY <1>2, <1>6, <2>1, <2>2 DEF DaysOf
<1>8. /\ tmp'.exists
      /\ \A r \in Row : tmp'.rows[r] <= 1
      /\ GoodRows(tab, cur.ym, Stored(tmp'), server[tab], now)
      /\ Kind[tab] # "monthfirst" => Stored(old) \subseteq Stored(tmp')
  <2>1. CASE Appends
    <3>1. /\ cur.inc # NoInc /\ lo = cur.inc
          /\ tmp'.exists /\ tmp'.rows = Added(old.rows, resp)
      BY <1>1, <2>1 DEF Appends, WrittenRows, LowerBound
    <3>2. Stored(tmp') = Stored(old) \cup resp
      <4>1. Stored(tmp') = {r \in Row : Added(old.rows, resp)[r] > 0}
        BY <3>1 DEF Stored
      <4>. QED  BY <4>1, <1>2, AddedRows DEF Stored
    <3>3. (\A r \in Stored(old) : r.vd < lo) /\ (\E r \in Stored(old) : r.vd = lo - 1)
      BY <3>1, <1>3 DEF FetchInv
    <3>4. \A r \in Row : tmp'.rows[r] <= 1
      <4> SUFFICES ASSUME NEW r \in Row PROVE Added(old.rows, resp)[r] <= 1
        BY <3>1
      <4>1. old.rows[r] \in Nat /\ old.rows[r] <= 1
        BY <1>2, <1>4 DEF Bag
      <4>2. CASE r \in resp
        <5>1. r \notin Stored(old)
          BY <3>3, <4>2, <1>6, <1>7
        <5>2. old.rows[r] = 0
          BY <5>1, <4>1 DEF Stored
        <5>. QED  BY <5>2, <4>2 DEF Added
      <4>3. CASE r \notin resp
        BY <4>1, <4>3 DEF Added
      <4>. QED  BY <4>2, <4>3
    <3>5. ASSUME Kind[tab] # "monthfirst", NEW q \in Stored(tmp'), NEW r \in server[tab],
                 r.part \in OnTime, r.vd <= q.vd, r.vd \in DaysOf(cur.ym),
                 WindowStart(cur.ym) <= r.vd
          PROVE  r \in Stored(tmp')
      <4>1. r.vd \in Nat /\ r \in Row /\ q \in Row /\ q.vd \in Nat
        BY <1>2, <3>2, RowFacts DEF Stored
      <4>2. CASE r.vd < lo
        <5>1. PICK p \in Stored(old) : p.vd = lo - 1
          BY <3>3
        <5>2. r.vd <= p.vd
          BY <4>1, <4>2, <5>1, <1>6
        <5>3. r \in Stored(old)
          BY <5>1, <5>2, <3>5, <1>4 DEF GoodRows
        <5>. QED  BY <5>3, <3>2
      <4>3. CASE lo <= r.vd
        <5>1. q \in resp
          BY <4>1, <4>3, <3>2, <3>3, <3>5, <1>6
        <5>2. r.vd <= cur.end
          BY <4>1, <5>1, <3>5, <1>2, <1>7
        <5>3. r \in Within(Due(Stored(old), server[tab]), lo, cur.end)
          BY <4>3, <5>2, <3>5 DEF Within, Due
        <5>. QED  BY <5>3, <1>5, <3>5, <3>2
      <4>. QED  BY <4>1, <4>2, <4>3, <1>6
    <3>6. GoodRows(tab, cur.ym, Stored(tmp'), server[tab], now)
      <4>1. \A r \in Stored(tmp') : r \in Stored(old) \/ r \in resp
        BY <3>2
      <4>. QED  BY <4>1, <3>5, <1>4, <1>7 DEF GoodRows
    <3>. QED  BY <3>1, <3>2, <3>4, <3>6
  <2>2. CASE ~ Appends
    <3>1. tmp'.exists /\ tmp'.rows = Once(resp)
      BY <1>1, <2>2 DEF WrittenRows
    <3>2. Stored(tmp') = resp /\ \A r \in Row : tmp'.rows[r] <= 1
      <4>1. Stored(tmp') = {r \in Row : Once(resp)[r] > 0}
        BY <3>1 DEF Stored
      <4>. QED  BY <4>1, <3>1, <1>2, AddedRows
    <3>3. cur.inc = NoInc /\ lo = WindowStart(cur.ym)
      BY <2>2, <1>3 DEF FetchInv, Appends, LowerBound
    <3>4. ASSUME Kind[tab] # "monthfirst", NEW q \in resp, NEW r \in server[tab],
                 r.part \in OnTime, r.vd <= q.vd, WindowStart(cur.ym) <= r.vd
          PROVE  r \in resp
      <4>1. r.vd \in Nat /\ r.vd <= cur.end
        BY <1>2, <1>7, <3>4, RowFacts
      <4>2. r \in Within(Due(Stored(old), server[tab]), lo, cur.end)
        BY <4>1, <3>3, <3>4 DEF Within, Due
      <4>. QED  BY <4>2, <1>5, <3>4
    <3>5. GoodRows(tab, cur.ym, Stored(tmp'), server[tab], now)
      BY <3>2, <3>4, <1>7 DEF GoodRows
    <3>6. ASSUME Kind[tab] # "monthfirst", NEW r \in Stored(old)
          PROVE  r \in resp
      <4>1. cur.end = MonthLast[cur.ym]
        BY <3>3, <3>6, <1>3 DEF FetchInv
      <4>2. r \in server[tab] /\ lo <= r.vd /\ r.vd <= cur.end
        BY <4>1, <3>3, <1>4, <1>6 DEF GoodRows, DaysOf
      <4>. QED  BY <4>2, <1>5, <3>6 DEF Within, Due
    <3>. QED  BY <3>1, <3>2, <3>5, <3>6
  <2>. QED  BY <2>1, <2>2
<1>9. TmpInv'
  BY <1>1, <1>8 DEF TmpInv, IInv
<1>. QED  BY <1>1, <1>9 DEF IInv, FileInv, PlanInv, CurInv, RespInv

(* Renaming it into place keeps the invariant. *)
LEMMA RenameKeeps ==
  ASSUME IInv, TypeOK', Rename
  PROVE  IInv'
<1>1. /\ UNCHANGED <<now, server, today, tab, plan>>
      /\ pc = "rename" /\ pc' = "months"
      /\ disk' = [disk EXCEPT ![tab][cur.ym] = tmp]
  BY DEF Rename, EndMonth
<1>2. tab \in Table /\ cur.ym \in Month /\ disk \in [Table -> [Month -> File]]
  BY DEF IInv, TypeOK, FetchMonth
<1>3. \A t \in Table, m \in Month :
        disk'[t][m] = IF t = tab /\ m = cur.ym THEN tmp ELSE disk[t][m]
  BY <1>1, <1>2
<1>4. FileInv'
  BY <1>1, <1>3 DEF IInv, FileInv, TmpInv
<1>5. PlanInv'
  <2>1. \A f \in plan : f.ym \in Month /\ f.ym # cur.ym
    BY <1>1 DEF IInv, PlanInv, TypeOK, FetchMonth
  <2>. QED  BY <1>1, <1>2, <1>3, <2>1 DEF IInv, PlanInv
<1>. QED  BY <1>1, <1>4, <1>5 DEF IInv, CurInv, RespInv, TmpInv

(* Touching the file for an empty increment keeps the invariant. *)
LEMMA TouchEmptyKeeps ==
  ASSUME IInv, TypeOK', TouchEmpty
  PROVE  IInv'
<1>1. /\ UNCHANGED <<now, server, today, tab, plan>>
      /\ pc = "write" /\ pc' = "months"
      /\ disk' = [disk EXCEPT ![tab][cur.ym].mtime = now]
  BY DEF TouchEmpty, EndMonth
<1>2. tab \in Table /\ cur.ym \in Month /\ disk \in [Table -> [Month -> File]]
  BY DEF IInv, TypeOK, FetchMonth
<1>3. \A t \in Table, m \in Month :
        disk'[t][m].rows = disk[t][m].rows /\ disk'[t][m].exists = disk[t][m].exists
  BY <1>1, <1>2 DEF File
<1>4. \A t \in Table, m \in Month : Stored(disk'[t][m]) = Stored(disk[t][m])
  BY <1>3 DEF Stored
<1>5. FileInv'
  BY <1>1, <1>3, <1>4 DEF IInv, FileInv
<1>6. PlanInv'
  <2>1. \A f \in plan : f.ym \in Month
    BY DEF IInv, TypeOK, FetchMonth
  <2>2. \A f \in plan : FetchInv(tab, f, disk'[tab][f.ym], now)
    BY <1>2, <1>3, <1>4, <2>1 DEF IInv, PlanInv, FetchInv
  <2>. QED  BY <1>1, <2>2 DEF IInv, PlanInv
<1>. QED  BY <1>1, <1>5, <1>6 DEF IInv, CurInv, RespInv, TmpInv

(***************************************************************************)
(* Every step keeps the invariant.                                         *)
(***************************************************************************)
LEMMA IInvStep == IInv /\ [Next]_vars => IInv'
<1> SUFFICES ASSUME IInv, [Next]_vars PROVE IInv'
  OBVIOUS
<1>0. TypeOK /\ TypeOK' /\ now \in Clock /\ server \in [Table -> SUBSET Row]
  BY TypeStep DEF IInv, TypeOK
<1>1. CASE Tick
  <2>1. \A t \in Table : ServerGrows(t, server[t], now, server'[t], now')
    BY <1>0, <1>1, NextHourType, AvailFacts DEF Tick, ServerGrows
  <2>2. now.day <= now'.day /\ UNCHANGED <<disk, runVars>>
    BY <1>0, <1>1, NextHourType DEF Tick
  <2>. QED  BY <1>0, <2>1, <2>2, EnvironmentKeeps
<1>2. ASSUME NEW t \in Table, NEW r \in Row, Publish(t, r)
      PROVE  IInv'
  <2>1. \A u \in Table : ServerGrows(u, server[u], now, server'[u], now')
    BY <1>0, <1>2 DEF Publish, ServerGrows
  <2>2. now.day <= now'.day /\ UNCHANGED <<disk, runVars>>
    BY <1>0, <1>2 DEF Publish, Clock
  <2>. QED  BY <1>0, <2>1, <2>2, EnvironmentKeeps
<1>3. ASSUME NEW t \in Table, NEW m \in Month, NEW d \in Backfilled, Backfill(t, m, d)
      PROVE  IInv'
  <2>1. \A u \in Table : ServerGrows(u, server[u], now, server'[u], now')
    BY <1>0, <1>3, ArchiveAssumption DEF Backfill, ServerGrows
  <2>2. now.day <= now'.day /\ UNCHANGED <<disk, runVars>>
    BY <1>0, <1>3 DEF Backfill, Clock
  <2>. QED  BY <1>0, <2>1, <2>2, EnvironmentKeeps
<1>4. CASE StartRun \/ Accept \/ NextTable
  BY <1>0, <1>4, StartKeeps
<1>5. CASE Decline \/ EndRun \/ Crash
  BY <1>0, <1>5, IdleKeeps DEF Decline, EndRun, Crash
<1>6. CASE PlanTable
  BY <1>0, <1>6, PlanTableKeeps
<1>7. CASE NextMonth
  BY <1>0, <1>7, NextMonthKeeps
<1>8. CASE FetchWindow
  BY <1>0, <1>8, FetchWindowKeeps
<1>9. CASE FetchDay
  BY <1>0, <1>9, FetchDayKeeps
<1>10. CASE TouchEmpty
  BY <1>0, <1>10, TouchEmptyKeeps
<1>11. CASE WriteTmp
  BY <1>0, <1>11, WriteTmpKeeps
<1>12. CASE Rename
  BY <1>0, <1>12, RenameKeeps
<1>13. CASE UNCHANGED vars
  BY <1>13 DEF vars, IInv, TypeOK, FileInv, PlanInv, CurInv, RespInv, TmpInv
<1>. QED
  BY <1>1, <1>2, <1>3, <1>4, <1>5, <1>6, <1>7, <1>8, <1>9, <1>10, <1>11, <1>12, <1>13
  DEF Next, RunStep

(* The rows kept, the windows planned and the rows on their way to a file   *)
(* stay related as FileInv, PlanInv, CurInv, RespInv and TmpInv say.       *)
THEOREM Invariance == Spec => []IInv
<1>. QED  BY IInvInit, IInvStep, PTL DEF Spec

(* However runs, probes, backfills, crashes and midnights interleave, a    *)
(* month file never holds a row twice, although an append concatenates     *)
(* without looking at what is there.                                       *)
THEOREM NoDuplicates == Spec => []NoDuplicateRows
<1>1. IInv => NoDuplicateRows
  BY DEF IInv, FileInv, NoDuplicateRows
<1>. QED  BY <1>1, Invariance, PTL

(* The watermark is sound: every row published on time for a day at or     *)
(* below it is in the file, so no later increment needs to ask for it.     *)
THEOREM WatermarkSound == Spec => []OnTimeCaptured
<1>1. ASSUME IInv, NEW t \in Table, NEW m \in Month, Kind[t] # "monthfirst",
             NEW r \in server[t], r.part \in OnTime, r.vd \in DaysOf(m),
             StartDate <= r.vd, r.vd <= FileMaxVd(disk[t][m])
      PROVE  r \in Stored(disk[t][m])
  <2>1. r.vd \in Nat /\ r.vd # 0
    BY <1>1, RowFacts DEF IInv, TypeOK, Day
  <2>2. Stored(disk[t][m]) # {}
    BY <2>1, <1>1 DEF FileMaxVd
  <2>3. PICK q \in Stored(disk[t][m]) : q.vd = FileMaxVd(disk[t][m])
    BY <2>2, FileMaxVdIsMax
  <2>4. WindowStart(m) <= r.vd
    BY <1>1, <2>1, CalendarAssumption, ArchiveAssumption DEF WindowStart, Larger, DaysOf
  <2>. QED  BY <1>1, <2>3, <2>4 DEF IInv, FileInv, GoodRows
<1>2. IInv => OnTimeCaptured
  BY <1>1 DEF OnTimeCaptured
<1>. QED  BY <1>2, Invariance, PTL

(* Whatever the hour at which a closed month is fetched whole, the UTC     *)
(* date of the stamp is late enough to freeze the file: the month is not   *)
(* fetched again.                                                          *)
THEOREM StampFreezes == Spec => RefetchFreezes
<1>1. ASSUME IInv, [Next]_vars, NEW t \in Table, NEW m \in Month,
             Closed(m, today), disk'[t][m] # disk[t][m]
      PROVE  Frozen(m, disk'[t][m])
  <2>1. /\ disk \in [Table -> [Month -> File]] /\ now \in Clock /\ today \in Nat
        /\ today <= now.day /\ MonthLast[m] \in Nat
    BY <1>1, MonthFacts DEF IInv, TypeOK
  <2>2. (TouchEmpty \/ Rename) /\ t = tab /\ m = cur.ym
    BY <1>1, <2>1
    DEF Next, RunStep, Tick, Publish, Backfill, StartRun, Accept, Decline, Crash, PlanTable,
        NextTable, EndRun, NextMonth, FetchWindow, FetchDay, TouchEmpty, WriteTmp, Rename, vars
  <2>3. disk'[t][m].exists /\ disk'[t][m].mtime \in Clock /\ today <= disk'[t][m].mtime.day
    <3>1. CASE TouchEmpty
      <4>1. disk'[t][m] = [disk[t][m] EXCEPT !.mtime = now] /\ disk[t][m].exists
        BY <2>1, <2>2, <3>1 DEF TouchEmpty, Appends
      <4>. QED  BY <4>1, <2>1 DEF File
    <3>2. CASE Rename
      <4>1. disk'[t][m] = tmp
        BY <2>1, <2>2, <3>2 DEF Rename
      <4>. QED  BY <4>1, <3>2, <1>1 DEF Rename, IInv, TmpInv, TypeOK, File
    <3>. QED  BY <2>2, <3>1, <3>2
  <2>4. UtcDay(disk'[t][m].mtime) >= today - 1
    BY <2>1, <2>3 DEF UtcDay, Clock
  <2>5. UtcDay(disk'[t][m].mtime) \in Int
    BY <2>3 DEF UtcDay, Clock
  <2>. QED  BY <1>1, <2>1, <2>3, <2>4, <2>5, ArchiveAssumption DEF Frozen, Closed
<1>2. IInv /\ [Next]_vars =>
        [\A t \in Table, m \in Month :
           Closed(m, today) /\ disk'[t][m] # disk[t][m] => Frozen(m, disk'[t][m])]_vars
  BY <1>1
<1>. QED  BY <1>2, Invariance, PTL DEF Spec, RefetchFreezes

-----------------------------------------------------------------------------
(***************************************************************************)
(* Refinement.                                                             *)
(***************************************************************************)
LEMMA MirrorInit == Init => Archive!Init
BY NoRows DEF Init, Archive!Init, Ranged, ServerRows, FileRows

(* A step that leaves the disk alone and lets at most one server grow.     *)
LEMMA MirrorGrow ==
  ASSUME TypeOK, disk' = disk, NEW t \in Table, NEW r \in Row,
         server' = [server EXCEPT ![t] = @ \cup {r}]
  PROVE  [Archive!Next]_<<ServerRows, FileRows>>
<1>1. CASE t \in Ranged
  <2>1. Archive!Grow(t, r)
    BY <1>1 DEF Archive!Grow, TypeOK, Ranged, ServerRows, FileRows
  <2>. QED  BY <1>1, <2>1 DEF Archive!Next
<1>2. CASE t \notin Ranged
  BY <1>2 DEF TypeOK, Ranged, ServerRows, FileRows
<1>. QED  BY <1>1, <1>2

(* A step that leaves the servers alone and lets one file grow within what *)
(* its server has.                                                         *)
LEMMA MirrorSync ==
  ASSUME TypeOK, server' = server, NEW t \in Table, NEW m \in Month,
         \A u \in Table, k \in Month :
           (u # t \/ k # m) => Stored(disk'[u][k]) = Stored(disk[u][k]),
         Kind[t] # "monthfirst" =>
           /\ Stored(disk[t][m]) \subseteq Stored(disk'[t][m])
           /\ Stored(disk'[t][m]) \subseteq server[t]
           /\ \A r \in Stored(disk'[t][m]) : r.vd \in DaysOf(m)
  PROVE  [Archive!Next]_<<ServerRows, FileRows>>
<1> DEFINE S == Stored(disk'[t][m])
<1>1. CASE t \in Ranged
  <2>1. S \in SUBSET (server[t] \cap {r \in Row : r.vd \in DaysOf(m)})
        /\ FileRows[t][m] \subseteq S
    BY <1>1 DEF Ranged, Stored, FileRows
  <2>2. FileRows' = [FileRows EXCEPT ![t][m] = @ \cup S]
    <3>1. FileRows'[t] = [FileRows[t] EXCEPT ![m] = @ \cup S]
      <4>1. \A k \in Month :
              FileRows'[t][k] = IF k = m THEN FileRows[t][m] \cup S ELSE FileRows[t][k]
        BY <2>1, <1>1 DEF FileRows, Ranged
      <4>. QED  BY <4>1, <1>1 DEF FileRows
    <3>2. \A u \in Ranged : u # t => FileRows'[u] = FileRows[u]
      BY DEF FileRows, Ranged
    <3> HIDE DEF S
    <3>. QED  BY <3>1, <3>2, <1>1 DEF FileRows
  <2>3. ServerRows[t] = server[t] /\ ServerRows' = ServerRows
    BY <1>1 DEF ServerRows
  <2>4. Archive!Sync(t, m)
    <3> HIDE DEF S
    <3>. QED  BY <2>1, <2>2, <2>3 DEF Archive!Sync
  <2>. QED  BY <1>1, <2>4 DEF Archive!Next
<1>2. CASE t \notin Ranged
  <2>1. FileRows' = FileRows /\ ServerRows' = ServerRows
    BY <1>2 DEF FileRows, ServerRows, Ranged
  <2>. QED  BY <2>1
<1>. QED  BY <1>1, <1>2

(* Every step is a step of Mirror or leaves its variables alone. *)
LEMMA MirrorStep ==
  IInv /\ [Next]_vars =>
    [Archive!Next]_<<ServerRows, FileRows>>
<1> SUFFICES ASSUME IInv, [Next]_vars
             PROVE  [Archive!Next]_<<ServerRows, FileRows>>
  OBVIOUS
<1>1. TypeOK /\ IInv' /\ tab \in Table /\ cur.ym \in Month
  BY IInvStep DEF IInv, TypeOK, FetchMonth
<1>2. ASSUME NEW t \in Table, NEW r \in Row, Publish(t, r)
      PROVE  [Archive!Next]_<<ServerRows, FileRows>>
  BY <1>1, <1>2, MirrorGrow DEF Publish
<1>3. ASSUME NEW t \in Table, NEW m \in Month, NEW d \in Backfilled, Backfill(t, m, d)
      PROVE  [Archive!Next]_<<ServerRows, FileRows>>
  <2>1. [vd |-> d, part |-> "late"] \in Row
    BY ArchiveAssumption DEF Row
  <2>. QED  BY <1>1, <1>3, <2>1, MirrorGrow DEF Backfill
<1>4. CASE TouchEmpty \/ Rename
  <2>1. server' = server
    BY <1>4 DEF TouchEmpty, Rename
  <2>2. \A u \in Table, k \in Month :
          (u # tab \/ k # cur.ym) => Stored(disk'[u][k]) = Stored(disk[u][k])
    BY <1>1, <1>4 DEF TouchEmpty, Rename, TypeOK
  <2>3. Kind[tab] # "monthfirst" =>
          Stored(disk[tab][cur.ym]) \subseteq Stored(disk'[tab][cur.ym])
    <3>1. CASE TouchEmpty
      <4>1. disk'[tab][cur.ym].rows = disk[tab][cur.ym].rows
        BY <1>1, <3>1 DEF TouchEmpty, TypeOK, File
      <4>. QED  BY <4>1 DEF Stored
    <3>2. CASE Rename
      BY <1>1, <3>2 DEF Rename, IInv, TmpInv, TypeOK
    <3>. QED  BY <1>4, <3>1, <3>2
  <2>4. /\ Stored(disk'[tab][cur.ym]) \subseteq server[tab]
        /\ \A r \in Stored(disk'[tab][cur.ym]) : r.vd \in DaysOf(cur.ym)
    BY <1>1, <2>1 DEF IInv, FileInv, GoodRows
  <2>. QED  BY <1>1, <2>1, <2>2, <2>3, <2>4, MirrorSync
<1>5. ASSUME server' = server, disk' = disk
      PROVE  [Archive!Next]_<<ServerRows, FileRows>>
  BY <1>5 DEF ServerRows, FileRows
<1>. QED
  BY <1>2, <1>3, <1>4, <1>5
  DEF Next, RunStep, Tick, StartRun, Accept, Decline, Crash, PlanTable, NextTable, EndRun,
      NextMonth, FetchWindow, FetchDay, WriteTmp, vars

(* For every calendar, lookback, dedup window and set of tables, and under *)
(* crashes and runs that go past midnight, data/ is a growing mirror of    *)
(* the servers: no file ever loses a row or holds one of another month.    *)
THEOREM Refinement == Spec => MirrorsServer
<1>. QED  BY MirrorInit, MirrorStep, Invariance, PTL DEF Spec, MirrorsServer, Archive!Spec
-----------------------------------------------------------------------------
(***************************************************************************)
(* Runs that end before midnight.  Closed months are then closed from plan *)
(* to rename, their servers are final, and what NightInv says in addition  *)
(* to IInv is inductive.                                                   *)
(***************************************************************************)

(* A run goes on during the day it captured. *)
SameDay == pc # "idle" => now.day = today

(* No stamp is ahead of the clock. *)
Stamps ==
  /\ \A t \in Table, m \in Month : disk[t][m].mtime.day <= now.day
  /\ pc = "rename" => tmp.mtime.day <= now.day

(* A closed month is planned whole, and only if it is not frozen. *)
ClosedWhole(t, f) ==
  Closed(f.ym, today) =>
    f.inc = NoInc /\ f.end = MonthLast[f.ym] /\ ~ Frozen(f.ym, disk[t][f.ym])

PlanNight == \A f \in plan : ClosedWhole(tab, f)
CurNight == pc \in {"fetch", "write", "rename"} => ClosedWhole(tab, cur)

(* S has all rows of the month the server has. *)
Whole(t, m, S) ==
  \A r \in server[t] : r.vd \in DaysOf(m) /\ StartDate <= r.vd => r \in S

(* All of a closed month is on its way to the file. *)
RespNight ==
  pc # "idle" /\ Closed(cur.ym, today) /\ Kind[tab] # "monthfirst" =>
    /\ pc = "fetch" /\ Kind[tab] = "perday" =>
         Within(server[tab], LowerBound(cur), cursor - 1) \subseteq resp
    /\ pc = "write" => Whole(tab, cur.ym, resp)
    /\ pc = "rename" => Whole(tab, cur.ym, Stored(tmp))

NightInv ==
  SameDay /\ Stamps /\ PlanNight /\ CurNight /\ RespNight /\ RefetchedComplete

(* The types this argument uses. *)
LEMMA NightTypes ==
  ASSUME IInv
  PROVE  /\ now \in Clock /\ now.day \in Nat /\ today \in Nat /\ tab \in Table
         /\ cur \in FetchMonth /\ cur.ym \in Month /\ cur.end \in Nat /\ cursor \in Nat
         /\ plan \subseteq FetchMonth
         /\ server \in [Table -> SUBSET Row] /\ resp \subseteq Row
         /\ disk \in [Table -> [Month -> File]] /\ tmp \in File
         /\ Lookback \in Nat
         /\ \A t \in Table, m \in Month : disk[t][m].mtime \in Clock
BY ArchiveAssumption DEF IInv, TypeOK, Clock, FetchMonth, File

(* A stamp after the lookback window tells that the month is closed by now. *)
LEMMA LateStamp ==
  ASSUME IInv, NEW m \in Month, NEW c \in Clock, c.day <= now.day,
         UtcDay(c) > MonthLast[m] + Lookback
  PROVE  Closed(m, now.day)
BY NightTypes, MonthFacts DEF UtcDay, Clock, Closed

(* Time passes only while no run goes on, and the server has nothing more  *)
(* for a closed month.                                                     *)
LEMMA NightEnvironment ==
  ASSUME IInv, NightInv, IInv', UNCHANGED <<disk, runVars>>,
         now.day <= now'.day, pc # "idle" => now'.day = now.day,
         \A t \in Table, m \in Month : Closed(m, now.day) =>
           \A r \in server'[t] : r.vd \in DaysOf(m) => r \in server[t]
  PROVE  NightInv'
<1>1. /\ disk' = disk /\ pc' = pc /\ today' = today /\ tab' = tab /\ plan' = plan
      /\ cur' = cur /\ cursor' = cursor /\ resp' = resp /\ tmp' = tmp
  BY DEF runVars
<1>2. now'.day \in Nat
  BY NightTypes DEF IInv, TypeOK, Clock
<1>3. SameDay'
  BY <1>1 DEF NightInv, SameDay
<1>4. Stamps'
  BY <1>1, <1>2, NightTypes DEF NightInv, Stamps, Clock, File
<1>5. PlanNight' /\ CurNight'
  BY <1>1 DEF NightInv, PlanNight, CurNight, ClosedWhole, Closed
<1>6. RespNight'
  <2> SUFFICES ASSUME pc # "idle", Closed(cur.ym, today), Kind[tab] # "monthfirst"
               PROVE  /\ pc = "fetch" /\ Kind[tab] = "perday" =>
                           Within(server'[tab], LowerBound(cur), cursor - 1) \subseteq resp
                      /\ pc = "write" => Whole(tab, cur.ym, resp)'
                      /\ pc = "rename" => Whole(tab, cur.ym, Stored(tmp))'
    BY <1>1 DEF RespNight, Closed
  <2>1. \A r \in server'[tab] : r.vd \in DaysOf(cur.ym) => r \in server[tab]
    BY NightTypes DEF NightInv, SameDay
  <2>2. ASSUME pc = "fetch", Kind[tab] = "perday"
        PROVE  Within(server'[tab], LowerBound(cur), cursor - 1) \subseteq resp
    <3>1. Within(server[tab], LowerBound(cur), cursor - 1) \subseteq resp
      BY <2>2 DEF NightInv, RespNight
    <3>2. WindowStart(cur.ym) <= LowerBound(cur) /\ cur.end <= MonthLast[cur.ym]
          /\ cursor <= cur.end
      BY <2>2 DEF IInv, CurInv, FetchInv, RespInv
    <3>3. LowerBound(cur) \in Nat
      BY NightTypes DEF FetchMonth, LowerBound
    <3>4. ASSUME NEW r \in server'[tab], LowerBound(cur) <= r.vd, r.vd <= cursor - 1
          PROVE  r \in server[tab]
      <4>1. r \in Row
        BY <1>1, NightTypes DEF IInv, TypeOK
      <4>2. r.vd \in DaysOf(cur.ym)
        BY <3>2, <3>3, <3>4, <4>1, RowFacts, MonthFacts, NightTypes DEF DaysOf
      <4>. QED  BY <2>1, <4>2
    <3>. QED  BY <3>1, <3>4 DEF Within
  <2>3. pc = "write" => Whole(tab, cur.ym, resp)'
    BY <1>1, <2>1 DEF NightInv, RespNight, Whole
  <2>4. pc = "rename" => Whole(tab, cur.ym, Stored(tmp))'
    BY <1>1, <2>1 DEF NightInv, RespNight, Whole, Stored
  <2>. QED  BY <2>2, <2>3, <2>4
<1>7. RefetchedComplete'
  <2> SUFFICES ASSUME NEW t \in Table, NEW m \in Month,
                      Kind[t] # "monthfirst", disk[t][m].exists,
                      UtcDay(disk[t][m].mtime) > MonthLast[m] + Lookback,
                      NEW r \in server'[t], r.vd \in DaysOf(m), StartDate <= r.vd
               PROVE  r \in Stored(disk[t][m])
    BY <1>1 DEF RefetchedComplete, Stored
  <2>1. Closed(m, now.day)
    BY LateStamp, NightTypes DEF NightInv, Stamps
  <2>2. r \in server[t]
    BY <2>1
  <2>. QED  BY <2>2 DEF NightInv, RefetchedComplete
<1>. QED  BY <1>3, <1>4, <1>5, <1>6, <1>7 DEF NightInv

(* The hours, publications and backfills are such an environment. *)
LEMMA NightTick ==
  ASSUME ~ Overnight, IInv, NightInv, IInv', Tick
  PROVE  NightInv'
<1>1. now \in Clock /\ NextHour(now).day # now.day => pc = "idle"
  BY NightTypes DEF Tick
<1>2. now.day <= now'.day /\ pc # "idle" => now'.day = now.day
  BY <1>1, NightTypes, NextHourType DEF Tick
<1>. QED  BY <1>2, NightTypes, NextHourType, NightEnvironment DEF Tick

(* A day of a month that is closed is complete. *)
LEMMA ClosedComplete ==
  ASSUME IInv, NEW t \in Table, NEW m \in Month, Closed(m, now.day),
         NEW d \in Nat, d \in DaysOf(m)
  PROVE  Complete(AvailHour[t], d, now)
BY NightTypes, MonthFacts DEF Closed, DaysOf, Complete

(* A publication is for a day that is not complete. *)
LEMMA NightPublish ==
  ASSUME IInv, NightInv, IInv', NEW u \in Table, NEW q \in Row, Publish(u, q)
  PROVE  NightInv'
<1>1. ASSUME NEW t \in Table, NEW m \in Month, Closed(m, now.day),
             NEW r \in server'[t], r.vd \in DaysOf(m)
      PROVE  r \in server[t]
  <2>1. q.vd \in Nat /\ ~ Complete(AvailHour[u], q.vd, now)
    BY RowFacts DEF Publish
  <2>2. q.vd \notin DaysOf(m)
    BY <1>1, <2>1, ClosedComplete
  <2>3. server' = [server EXCEPT ![u] = @ \cup {q}]
    BY DEF Publish
  <2>. QED  BY <1>1, <2>2, <2>3, NightTypes
<1>. QED  BY <1>1, NightTypes, NightEnvironment DEF Publish

(* A day is in one month, and a backfill goes to a month that is open. *)
LEMMA NightBackfill ==
  ASSUME IInv, NightInv, IInv', NEW u \in Table, NEW k \in Month, NEW d \in Backfilled,
         Backfill(u, k, d)
  PROVE  NightInv'
<1>1. ASSUME NEW t \in Table, NEW m \in Month, Closed(m, now.day),
             NEW r \in server'[t], r.vd \in DaysOf(m)
      PROVE  r \in server[t]
  <2>1. d \in DaysOf(k) /\ ~ Closed(k, now.day) /\ k # m
    BY <1>1 DEF Backfill
  <2>2. d \notin DaysOf(m)
    BY <2>1, CalendarAssumption DEF DaysOf
  <2>3. server' = [server EXCEPT ![u] = @ \cup {[vd |-> d, part |-> "late"]}]
    BY DEF Backfill
  <2>. QED  BY <1>1, <2>2, <2>3, NightTypes
<1>. QED  BY <1>1, NightTypes, NightEnvironment DEF Backfill

(* A run that ends leaves the files as they are, *)
LEMMA NightIdle ==
  ASSUME IInv, NightInv, IdleRun, UNCHANGED <<now, server, disk>>
  PROVE  NightInv'
<1>1. pc' = "idle" /\ plan' = {}
  BY DEF IdleRun
<1>2. RefetchedComplete'
  BY DEF NightInv, RefetchedComplete, Stored
<1>. QED
  BY <1>1, <1>2 DEF NightInv, SameDay, Stamps, PlanNight, CurNight, RespNight

(* and so do a start and the way to the next table. *)
LEMMA NightStart ==
  ASSUME IInv, NightInv, StartRun \/ Accept \/ NextTable
  PROVE  NightInv'
<1>1. /\ UNCHANGED <<now, server, disk, plan, cur, resp, tmp>>
      /\ pc' \in {"ask", "table"} /\ plan = {}
      /\ today' = now.day \/ (pc # "idle" /\ today' = today)
  BY DEF StartRun, Accept, NextTable, IInv, PlanInv
<1>2. RefetchedComplete'
  BY <1>1 DEF NightInv, RefetchedComplete, Stored
<1>. QED
  BY <1>1, <1>2 DEF NightInv, SameDay, Stamps, PlanNight, CurNight, RespNight

(* The plan names closed months whole, and open ones. *)
LEMMA NightPlanTable ==
  ASSUME IInv, NightInv, PlanTable
  PROVE  NightInv'
<1>1. /\ UNCHANGED <<now, server, disk, today, tab, cur, cursor, resp, tmp>>
      /\ pc = "table" /\ pc' = "months" /\ plan' = PlanMonths(tab, today, now)
  BY DEF PlanTable
<1>2. ASSUME NEW f \in plan' PROVE ClosedWhole(tab, f)
  <2>1. CASE f \in PlanClosed(tab, today)
    BY <2>1 DEF PlanClosed, ClosedWhole
  <2>2. CASE f \in PlanOpen(tab, today, now)
    BY <2>2 DEF PlanOpen, OpenDue, ClosedWhole
  <2>. QED  BY <1>1, <2>1, <2>2 DEF PlanMonths
<1>3. PlanNight'
  BY <1>1, <1>2 DEF PlanNight, ClosedWhole, Closed
<1>4. RefetchedComplete'
  BY <1>1 DEF NightInv, RefetchedComplete, Stored
<1>. QED
  BY <1>1, <1>3, <1>4 DEF NightInv, SameDay, Stamps, CurNight, RespNight

(* Nothing has been received when a month is taken up. *)
LEMMA NightNextMonth ==
  ASSUME IInv, NightInv, NextMonth, IInv'
  PROVE  NightInv'
<1>1. /\ UNCHANGED <<now, server, disk, today, tab, tmp>>
      /\ pc = "months" /\ pc' = "fetch" /\ cur' \in plan /\ plan' \subseteq plan
      /\ cursor' = LowerBound(cur')
  BY DEF NextMonth
<1>2. PlanNight' /\ CurNight'
  BY <1>1 DEF NightInv, PlanNight, CurNight, ClosedWhole, Closed
<1>3. RefetchedComplete'
  BY <1>1 DEF NightInv, RefetchedComplete, Stored
<1>4. Within(server'[tab'], LowerBound(cur'), cursor' - 1) = {}
  <2>1. LowerBound(cur') \in Nat
    BY <1>1, NightTypes DEF FetchMonth, LowerBound
  <2>2. \A r \in server'[tab'] : r.vd \in Nat
    BY <1>1, NightTypes, RowFacts
  <2>. QED  BY <1>1, <2>1, <2>2 DEF Within
<1>5. RespNight'
  BY <1>1, <1>4 DEF RespNight
<1>. QED
  BY <1>1, <1>2, <1>3, <1>5 DEF NightInv, SameDay, Stamps

(* The lower bound of a closed month is its beginning. *)
LEMMA ClosedBounds ==
  ASSUME IInv, NightInv, pc \in {"fetch", "write"}, Closed(cur.ym, today)
  PROVE  /\ LowerBound(cur) = WindowStart(cur.ym) /\ cur.end = MonthLast[cur.ym]
         /\ \A r \in server[tab] :
              r.vd \in DaysOf(cur.ym) /\ StartDate <= r.vd =>
                LowerBound(cur) <= r.vd /\ r.vd <= cur.end
<1>1. cur.inc = NoInc /\ cur.end = MonthLast[cur.ym]
  BY DEF NightInv, CurNight, ClosedWhole
<1>2. LowerBound(cur) = WindowStart(cur.ym)
  BY <1>1 DEF IInv, CurInv, FetchInv, LowerBound
<1>3. ASSUME NEW r \in server[tab], r.vd \in DaysOf(cur.ym), StartDate <= r.vd
      PROVE  WindowStart(cur.ym) <= r.vd /\ r.vd <= MonthLast[cur.ym]
  BY <1>3 DEF WindowStart, Larger, DaysOf
<1>. QED  BY <1>1, <1>2, <1>3

(* One query brings all of a closed month, *)
LEMMA NightFetchWindow ==
  ASSUME IInv, NightInv, FetchWindow
  PROVE  NightInv'
<1>1. /\ UNCHANGED <<now, server, disk, today, tab, plan, cur, cursor, tmp>>
      /\ pc = "fetch" /\ pc' = "write" /\ resp' = Answer(tab, cur)
  BY DEF FetchWindow
<1>2. RespNight'
  <2> SUFFICES ASSUME Closed(cur.ym, today), Kind[tab] # "monthfirst"
               PROVE  Whole(tab, cur.ym, resp')
    BY <1>1 DEF RespNight, Whole, Closed
  <2>. QED  BY <1>1, ClosedBounds DEF Answer, Within, Whole
<1>3. RefetchedComplete'
  BY <1>1 DEF NightInv, RefetchedComplete, Stored
<1>. QED
  BY <1>1, <1>2, <1>3
  DEF NightInv, SameDay, Stamps, PlanNight, CurNight, ClosedWhole, Closed

(* and so do the queries for its days. *)
LEMMA NightFetchDay ==
  ASSUME IInv, NightInv, FetchDay
  PROVE  NightInv'
<1>1. /\ UNCHANGED <<now, server, disk, today, tab, plan, cur, tmp>>
      /\ pc = "fetch" /\ Kind[tab] = "perday" /\ cursor' = cursor + 1
      /\ resp' = resp \cup Within(server[tab], cursor, cursor)
      /\ pc' = IF cursor < cur.end THEN "fetch" ELSE "write"
  BY DEF FetchDay
<1>2. RespNight'
  <2> SUFFICES ASSUME Closed(cur.ym, today)
               PROVE  /\ Within(server[tab], LowerBound(cur), cursor) \subseteq resp'
                      /\ cursor >= cur.end => Whole(tab, cur.ym, resp')
    <3>1. cursor \in Nat /\ cur.end \in Nat /\ cursor' - 1 = cursor
      BY <1>1, NightTypes
    <3>2. pc' = "write" => cursor >= cur.end
      BY <1>1, <3>1
    <3>3. LowerBound(cur)' = LowerBound(cur) /\ Closed(cur.ym, today)' = Closed(cur.ym, today)
      BY <1>1 DEF LowerBound, Closed
    <3>4. Whole(tab, cur.ym, resp)' = Whole(tab, cur.ym, resp')
      BY <1>1 DEF Whole
    <3>5. pc' # "rename"
      BY <1>1
    <3>. QED  BY <1>1, <3>1, <3>2, <3>3, <3>4, <3>5 DEF RespNight
  <2>1. Within(server[tab], LowerBound(cur), cursor - 1) \subseteq resp
    BY <1>1 DEF NightInv, RespNight
  <2>2. Within(server[tab], LowerBound(cur), cursor) \subseteq resp'
    <3> SUFFICES ASSUME NEW r \in server[tab], LowerBound(cur) <= r.vd, r.vd <= cursor
                 PROVE  r \in resp'
      BY DEF Within
    <3>1. r.vd \in Nat /\ cursor \in Nat
      BY NightTypes, RowFacts
    <3>2. CASE r.vd = cursor
      BY <1>1, <3>1, <3>2 DEF Within
    <3>3. CASE r.vd <= cursor - 1
      BY <1>1, <2>1, <3>3 DEF Within
    <3>. QED  BY <3>1, <3>2, <3>3
  <2>3. ASSUME cursor >= cur.end PROVE Whole(tab, cur.ym, resp')
    <3> SUFFICES ASSUME NEW r \in server[tab], r.vd \in DaysOf(cur.ym), StartDate <= r.vd
                 PROVE  r \in resp'
      BY DEF Whole
    <3>1. LowerBound(cur) <= r.vd /\ r.vd <= cur.end /\ r.vd \in Nat
      BY <1>1, ClosedBounds, NightTypes, RowFacts
    <3>. QED  BY <2>2, <2>3, <3>1, NightTypes DEF Within
  <2>. QED  BY <2>2, <2>3
<1>3. RefetchedComplete'
  BY <1>1 DEF NightInv, RefetchedComplete, Stored
<1>. QED
  BY <1>1, <1>2, <1>3
  DEF NightInv, SameDay, Stamps, PlanNight, CurNight, ClosedWhole, Closed

(* A closed month is not appended to: the .tmp file is what was received. *)
LEMMA NightWriteTmp ==
  ASSUME IInv, NightInv, WriteTmp
  PROVE  NightInv'
<1>1. /\ UNCHANGED <<now, server, disk, today, tab, plan, cur, cursor, resp>>
      /\ pc = "write" /\ pc' = "rename"
      /\ tmp' = [exists |-> TRUE, rows |-> WrittenRows, mtime |-> now]
  BY DEF WriteTmp
<1>2. Stamps'
  BY <1>1, NightTypes DEF NightInv, Stamps
<1>3. RespNight'
  <2> SUFFICES ASSUME Closed(cur.ym, today), Kind[tab] # "monthfirst"
               PROVE  Whole(tab, cur.ym, Stored(tmp'))
    BY <1>1 DEF RespNight, Whole, Closed, Stored
  <2>1. ~ Appends
    BY <1>1 DEF NightInv, CurNight, ClosedWhole, Appends
  <2>2. Stored(tmp') = resp
    BY <1>1, <2>1, NightTypes DEF Stored, WrittenRows, Once
  <2>. QED  BY <1>1, <2>2 DEF NightInv, RespNight
<1>4. RefetchedComplete'
  BY <1>1 DEF NightInv, RefetchedComplete, Stored
<1>. QED
  BY <1>1, <1>2, <1>3, <1>4
  DEF NightInv, SameDay, PlanNight, CurNight, ClosedWhole, Closed

(* The rename puts the whole month in its file. *)
LEMMA NightRename ==
  ASSUME IInv, NightInv, Rename
  PROVE  NightInv'
<1>1. /\ UNCHANGED <<now, server, today, tab, plan>>
      /\ pc = "rename" /\ pc' = "months"
      /\ disk' = [disk EXCEPT ![tab][cur.ym] = tmp]
  BY DEF Rename, EndMonth
<1>2. \A t \in Table, m \in Month :
        disk'[t][m] = IF t = tab /\ m = cur.ym THEN tmp ELSE disk[t][m]
  BY <1>1, NightTypes
<1>3. Stamps'
  BY <1>1, <1>2 DEF NightInv, Stamps
<1>4. PlanNight'
  <2>1. \A f \in plan : f.ym \in Month /\ f.ym # cur.ym
    BY <1>1, NightTypes DEF IInv, PlanInv, FetchMonth
  <2>2. \A f \in plan : disk'[tab][f.ym] = disk[tab][f.ym]
    BY <1>2, <2>1, NightTypes
  <2>. QED  BY <1>1, <2>2 DEF NightInv, PlanNight, ClosedWhole, Closed
<1>5. RefetchedComplete'
  <2> SUFFICES ASSUME NEW t \in Table, NEW m \in Month,
                      Kind[t] # "monthfirst", disk'[t][m].exists,
                      UtcDay(disk'[t][m].mtime) > MonthLast[m] + Lookback,
                      NEW r \in server[t], r.vd \in DaysOf(m), StartDate <= r.vd
               PROVE  r \in Stored(disk'[t][m])
    BY <1>1 DEF RefetchedComplete, Stored
  <2>1. CASE t = tab /\ m = cur.ym
    <3>1. disk'[t][m] = tmp
      BY <1>2, <2>1
    <3>2. Closed(m, now.day)
      BY <1>1, <3>1, LateStamp, NightTypes DEF NightInv, Stamps, File
    <3>3. Whole(tab, cur.ym, Stored(tmp))
      BY <1>1, <2>1, <3>2 DEF NightInv, RespNight, SameDay
    <3>. QED  BY <2>1, <3>1, <3>3 DEF Whole
  <2>2. CASE ~ (t = tab /\ m = cur.ym)
    BY <1>2, <2>2 DEF NightInv, RefetchedComplete
  <2>. QED  BY <2>1, <2>2
<1>. QED
  BY <1>1, <1>3, <1>4, <1>5 DEF NightInv, SameDay, CurNight, RespNight

(* Only the file of an open month is touched. *)
LEMMA NightTouchEmpty ==
  ASSUME IInv, NightInv, TouchEmpty
  PROVE  NightInv'
<1>1. /\ UNCHANGED <<now, server, today, tab, plan>>
      /\ pc = "write" /\ pc' = "months" /\ Appends
      /\ disk' = [disk EXCEPT ![tab][cur.ym].mtime = now]
  BY DEF TouchEmpty, EndMonth
<1>2. \A t \in Table, m \in Month :
        ~ (t = tab /\ m = cur.ym) => disk'[t][m] = disk[t][m]
  BY <1>1, NightTypes
<1>3. disk'[tab][cur.ym].mtime = now
  BY <1>1, NightTypes DEF File
<1>4. ~ Closed(cur.ym, now.day)
  BY <1>1 DEF NightInv, SameDay, CurNight, ClosedWhole, Appends
<1>5. Stamps'
  BY <1>1, <1>2, <1>3, NightTypes DEF NightInv, Stamps
<1>6. PlanNight'
  <2>1. \A f \in plan : f.ym \in Month /\ f.ym # cur.ym
    BY <1>1, NightTypes DEF IInv, PlanInv, FetchMonth
  <2>2. \A f \in plan : disk'[tab][f.ym] = disk[tab][f.ym]
    BY <1>2, <2>1, NightTypes
  <2>. QED  BY <1>1, <2>2 DEF NightInv, PlanNight, ClosedWhole, Closed
<1>7. RefetchedComplete'
  <2> SUFFICES ASSUME NEW t \in Table, NEW m \in Month,
                      Kind[t] # "monthfirst", disk'[t][m].exists,
                      UtcDay(disk'[t][m].mtime) > MonthLast[m] + Lookback,
                      NEW r \in server[t], r.vd \in DaysOf(m), StartDate <= r.vd
               PROVE  r \in Stored(disk'[t][m])
    BY <1>1 DEF RefetchedComplete, Stored
  <2>1. ~ (t = tab /\ m = cur.ym)
    BY <1>3, <1>4, LateStamp, NightTypes
  <2>. QED  BY <1>2, <2>1 DEF NightInv, RefetchedComplete
<1>. QED
  BY <1>1, <1>5, <1>6, <1>7 DEF NightInv, SameDay, CurNight, RespNight

(* Nothing is on disk at the start. *)
LEMMA NightInit == Init => NightInv
<1> SUFFICES ASSUME Init PROVE NightInv
  OBVIOUS
<1>1. \A t \in Table, m \in Month : disk[t][m] = NoFile
  BY DEF Init
<1>2. Stamps
  BY <1>1 DEF Init, Stamps, NoFile
<1>3. RefetchedComplete
  BY <1>1 DEF RefetchedComplete, NoFile
<1>. QED
  BY <1>2, <1>3 DEF Init, NightInv, SameDay, PlanNight, CurNight, RespNight

(* Without runs past midnight, every step keeps it. *)
LEMMA NightStep ==
  ASSUME ~ Overnight
  PROVE  IInv /\ NightInv /\ [Next]_vars => NightInv'
<1> SUFFICES ASSUME IInv, NightInv, [Next]_vars PROVE NightInv'
  OBVIOUS
<1>0. IInv'
  BY IInvStep
<1>1. CASE Tick
  BY <1>0, <1>1, NightTick
<1>2. CASE \E t \in Table, r \in Row : Publish(t, r)
  BY <1>0, <1>2, NightPublish
<1>3. CASE \E t \in Table, m \in Month, d \in Backfilled : Backfill(t, m, d)
  BY <1>0, <1>3, NightBackfill
<1>4. CASE StartRun \/ Accept \/ NextTable
  BY <1>4, NightStart
<1>5. CASE Decline \/ EndRun \/ Crash
  BY <1>5, NightIdle DEF Decline, EndRun, Crash
<1>6. CASE PlanTable
  BY <1>6, NightPlanTable
<1>7. CASE NextMonth
  BY <1>0, <1>7, NightNextMonth
<1>8. CASE FetchWindow
  BY <1>8, NightFetchWindow
<1>9. CASE FetchDay
  BY <1>9, NightFetchDay
<1>10. CASE TouchEmpty
  BY <1>10, NightTouchEmpty
<1>11. CASE WriteTmp
  BY <1>11, NightWriteTmp
<1>12. CASE Rename
  BY <1>12, NightRename
<1>13. CASE UNCHANGED vars
  BY <1>13
  DEF vars, NightInv, SameDay, Stamps, PlanNight, CurNight, ClosedWhole, Closed, RespNight,
      Whole, Within, Stored, RefetchedComplete
<1>. QED
  BY <1>1, <1>2, <1>3, <1>4, <1>5, <1>6, <1>7, <1>8, <1>9, <1>10, <1>11, <1>12, <1>13
  DEF Next, RunStep

(* If no run goes past midnight, a file stamped after its lookback window  *)
(* has every row of its month the server has: the whole refetch of the     *)
(* closed month is served by a server that has nothing more to add, and no *)
(* increment or probe can put such a stamp on a file.                      *)
THEOREM RefetchIsComplete ==
  ASSUME ~ Overnight
  PROVE  Spec => []RefetchedComplete
<1>1. IInv /\ NightInv /\ [Next]_vars => NightInv'
  BY NightStep
<1>2. NightInv => RefetchedComplete
  BY DEF NightInv
<1>. QED  BY <1>1, <1>2, NightInit, Invariance, PTL DEF Spec

(* If no run goes past midnight, the file of a closed month that is frozen *)
(* is never written again: it is not planned, what is planned stays        *)
(* unfrozen until it is written, and nothing planned as open is closed     *)
(* before.                                                                 *)
THEOREM FrozenIsFinal ==
  ASSUME ~ Overnight
  PROVE  Spec => FrozenNeverWritten
<1>1. ASSUME IInv, NightInv, [Next]_vars, NEW t \in Table, NEW m \in Month,
             Closed(m, now.day), Frozen(m, disk[t][m])
      PROVE  disk'[t][m] = disk[t][m]
  <2> SUFFICES ASSUME disk'[t][m] # disk[t][m] PROVE FALSE
    OBVIOUS
  <2>1. disk \in [Table -> [Month -> File]]
    BY <1>1, NightTypes
  <2>2. (TouchEmpty \/ Rename) /\ t = tab /\ m = cur.ym
    BY <1>1, <2>1
    DEF Next, RunStep, Tick, Publish, Backfill, StartRun, Accept, Decline, Crash, PlanTable,
        NextTable, EndRun, NextMonth, FetchWindow, FetchDay, TouchEmpty, WriteTmp, Rename, vars
  <2>3. pc \in {"write", "rename"}
    BY <2>2 DEF TouchEmpty, Rename
  <2>. QED  BY <1>1, <2>2, <2>3 DEF NightInv, SameDay, CurNight, ClosedWhole
<1>2. IInv /\ NightInv /\ [Next]_vars =>
        [\A t \in Table, m \in Month :
           Closed(m, now.day) /\ Frozen(m, disk[t][m]) => disk'[t][m] = disk[t][m]]_vars
  BY <1>1
<1>3. IInv /\ NightInv /\ [Next]_vars => NightInv'
  BY NightStep
<1>. QED
  BY <1>2, <1>3, NightInit, Invariance, PTL DEF Spec, FrozenNeverWritten
=============================================================================
