---------------------------- MODULE MonthArchive ----------------------------
(***************************************************************************)
(* The download pipeline (cpp/src/main.cpp, the two api pipelines, and     *)
(* schedule.cpp and parquet.cpp in cpp/src/misc): a run captures           *)
(* today, decides from the local files alone whether anything is pending,  *)
(* asks the operator, and then goes through the tables; for each it plans  *)
(* the months to fetch and for each month fetches a window of visible      *)
(* dates and replaces or extends the month's file by write-tmp-and-rename. *)
(* There is no state file: what to fetch is decided from a file's          *)
(* existence, its mtime and the largest visible date in it.                *)
(*                                                                         *)
(* The servers are the environment: the rows of a day appear before the    *)
(* table's avail_hour (OnTime), or later, as a backfill, as long as the    *)
(* month is open ("late").                                                 *)
(***************************************************************************)
EXTENDS Calendar

CONSTANTS
  NTables,      \* tables 1 .. NTables, in the order of SPECS
  AvailHour,    \* avail_hour of each table
  Kind,         \* how each table is queried: see Answer
  StartDate,    \* PIPELINE_START_DATE
  Lookback,     \* PIPELINE_LOOKBACK_DAYS
  Dedup,        \* PIPELINE_DEDUP_WINDOW_SECONDS, in clock hours
  TradingDays,  \* the days on which a table may have rows
  OnTime,       \* the rows a trading day may get on time ("late" is none of them)
  Backfilled,   \* the days that may receive a late row
  Overnight,    \* TRUE: a run may still be going on at midnight
  MaxCrashes    \* bound on the runs that die before their end

Table == 1 .. NTables
Kinds == {"range", "perday", "monthfirst"}

ASSUME ArchiveAssumption ==
  /\ NTables \in Nat \ {0}
  /\ AvailHour \in [Table -> 0 .. HoursPerDay]
  /\ Kind \in [Table -> Kinds]
  /\ StartDate \in Nat \ {0}
  /\ Lookback \in Nat /\ Dedup \in Nat
  /\ TradingDays \subseteq 1 .. LastDay
  /\ "late" \notin OnTime
  /\ Backfilled \subseteq TradingDays
  /\ Overnight \in BOOLEAN
  /\ MaxCrashes \in Nat

VARIABLES
  now,      \* wall clock
  server,   \* server[t]: the rows table t has on its server
  disk,     \* disk[t][m]: data/<m>/<t>.parquet
  pc,       \* what the run is about to do
  today,    \* the date the run captured in main
  tab,      \* the table it is at
  plan,     \* what is left of the FetchMonths planned for tab
  cur,      \* the FetchMonth being served
  cursor,   \* next day of a day-by-day fetch
  resp,     \* rows received so far for cur
  tmp,      \* the .tmp file waiting for its rename
  crashes

vars == <<now, server, disk, pc, today, tab, plan, cur, cursor, resp, tmp, crashes>>
runVars == <<pc, today, tab, plan, cur, cursor, resp, tmp>>

Day == 1 .. LastDay
Row == [vd : TradingDays, part : OnTime \cup {"late"}]
Bag == [Row -> Nat]
EmptyRows == [r \in Row |-> 0]
File == [exists : BOOLEAN, rows : Bag, mtime : Clock]
NoFile == [exists |-> FALSE, rows |-> EmptyRows, mtime |-> [day |-> 0, hour |-> 0]]

NoInc == 0      \* inc_from == "": replace the file by the whole window
FetchMonth == [ym : Month, start : Nat, end : Nat, inc : Nat]
NoFetch == [ym |-> CHOOSE m \in Month : TRUE, start |-> 0, end |-> 0, inc |-> NoInc]

Stored(f) == {r \in Row : f.rows[r] > 0}
Once(S) == [r \in Row |-> IF r \in S THEN 1 ELSE 0]
Added(b, S) == [r \in Row |-> b[r] + (IF r \in S THEN 1 ELSE 0)]

-----------------------------------------------------------------------------
(***************************************************************************)
(* The schedule.                                                           *)
(***************************************************************************)

(* file_max_vd: 0 when the file has no row. *)
FileMaxVd(f) ==
  IF Stored(f) = {} THEN 0
  ELSE CHOOSE d \in Day : /\ \E r \in Stored(f) : r.vd = d
                          /\ \A r \in Stored(f) : r.vd <= d

Closed(m, td) == MonthLast[m] < td - Lookback

(* Slip: ask for a stamp strictly after the lookback window. *)
FrozenStrictly(m, f) == f.exists /\ UtcDay(f.mtime) > MonthLast[m] + Lookback

(* The file of a closed month is never fetched again. *)
Frozen(m, f) == f.exists /\ UtcDay(f.mtime) >= MonthLast[m] + Lookback

WindowStart(m) == Larger(MonthFirst[m], StartDate)
WindowEnd(t, m, td, n) == Smaller(MonthLast[m], DataHorizon(AvailHour[t], td, n))

(* Slip: resume at the watermark instead of after it. *)
IncFromWatermark(f) == IF ~f.exists \/ Stored(f) = {} THEN NoInc ELSE FileMaxVd(f)

IncFrom(f) == IF ~f.exists \/ Stored(f) = {} THEN NoInc ELSE FileMaxVd(f) + 1

MonthsTo(td) == {m \in Month : StartDate <= MonthLast[m] /\ MonthFirst[m] <= td}

(* Slip: refetch a closed month whatever its stamp. *)
PlanClosedAlways(t, td) ==
  {[ym |-> m, start |-> WindowStart(m), end |-> MonthLast[m], inc |-> NoInc] :
     m \in {k \in MonthsTo(td) : Closed(k, td)}}

(* Slip: fetch a closed month from its watermark, like an open one. *)
PlanClosedInc(t, td) ==
  {[ym |-> m, start |-> WindowStart(m), end |-> MonthLast[m], inc |-> IncFrom(disk[t][m])] :
     m \in {k \in MonthsTo(td) : Closed(k, td) /\ ~Frozen(k, disk[t][k])}}

(* Slip: skip a closed month that has a file, whatever its stamp. *)
PlanClosedMissing(t, td) ==
  {[ym |-> m, start |-> WindowStart(m), end |-> MonthLast[m], inc |-> NoInc] :
     m \in {k \in MonthsTo(td) : Closed(k, td) /\ ~disk[t][k].exists}}

PlanClosed(t, td) ==
  {[ym |-> m, start |-> WindowStart(m), end |-> MonthLast[m], inc |-> NoInc] :
     m \in {k \in MonthsTo(td) : Closed(k, td) /\ ~Frozen(k, disk[t][k])}}

LowerBound(f) == IF f.inc = NoInc THEN f.start ELSE f.inc

OpenDue(t, m, td, n) ==
  /\ ~Closed(m, td)
  /\ disk[t][m].exists => Age(n, disk[t][m].mtime) >= Dedup
  /\ WindowStart(m) <= WindowEnd(t, m, td, n)
  /\ IncFrom(disk[t][m]) <= WindowEnd(t, m, td, n)

PlanOpen(t, td, n) ==
  {[ym |-> m, start |-> WindowStart(m), end |-> WindowEnd(t, m, td, n),
    inc |-> IncFrom(disk[t][m])] :
     m \in {k \in MonthsTo(td) : OpenDue(t, k, td, n)}}

PlanMonths(t, td, n) == PlanClosed(t, td) \cup PlanOpen(t, td, n)

Pending(td, n) == \E t \in Table : PlanMonths(t, td, n) # {}

-----------------------------------------------------------------------------
(***************************************************************************)
(* The servers' answers.  A "range" table answers one query for a window;  *)
(* a "perday" one is asked for one day at a time; a "monthfirst" one       *)
(* answers with the rows of the first day of [start, end] that has any,    *)
(* if that day is not before the increment's lower bound.                  *)
(***************************************************************************)
Within(S, lo, hi) == {r \in S : lo <= r.vd /\ r.vd <= hi}

Answer(t, f) ==
  IF Kind[t] = "monthfirst"
  THEN {r \in Within(server[t], LowerBound(f), f.end) :
          \A q \in Within(server[t], f.start, f.end) : r.vd <= q.vd}
  ELSE Within(server[t], LowerBound(f), f.end)

-----------------------------------------------------------------------------
Init ==
  /\ now = [day |-> 1, hour |-> 0]
  /\ server = [t \in Table |-> {}]
  /\ disk = [t \in Table |-> [m \in Month |-> NoFile]]
  /\ pc = "idle" /\ today = 0 /\ tab = 1 /\ plan = {} /\ cur = NoFetch
  /\ cursor = 0 /\ resp = {} /\ tmp = NoFile
  /\ crashes = 0

(***************************************************************************)
(* Environment: time passes (within the bound), rows are published and     *)
(* backfilled.                                                             *)
(***************************************************************************)
Tick ==
  /\ NextHour(now).day <= LastDay
  /\ NextHour(now).day # now.day => Overnight \/ pc = "idle"
  /\ now' = NextHour(now)
  /\ UNCHANGED <<server, disk, runVars, crashes>>

Publish(t, r) ==
  /\ r.part \in OnTime
  /\ ~Complete(AvailHour[t], r.vd, now)
  /\ server' = [server EXCEPT ![t] = @ \cup {r}]
  /\ server' # server
  /\ UNCHANGED <<now, disk, runVars, crashes>>

Backfill(t, m, d) ==
  /\ d \in DaysOf(m)
  /\ Complete(AvailHour[t], d, now)
  /\ ~Closed(m, now.day)
  /\ server' = [server EXCEPT ![t] = @ \cup {[vd |-> d, part |-> "late"]}]
  /\ server' # server
  /\ UNCHANGED <<now, disk, runVars, crashes>>

(***************************************************************************)
(* main: capture today, check pending, ask, then update table by table.    *)
(***************************************************************************)
IdleRun ==
  /\ pc' = "idle" /\ today' = 0 /\ tab' = 1 /\ plan' = {} /\ cur' = NoFetch
  /\ cursor' = 0 /\ resp' = {} /\ tmp' = NoFile

StartRun ==
  /\ pc = "idle"
  /\ StartDate <= now.day
  /\ Pending(now.day, now)
  /\ pc' = "ask"
  /\ today' = now.day
  /\ UNCHANGED <<now, server, disk, tab, plan, cur, cursor, resp, tmp, crashes>>

Decline ==
  /\ pc = "ask"
  /\ IdleRun
  /\ UNCHANGED <<now, server, disk, crashes>>

Accept ==
  /\ pc = "ask"
  /\ pc' = "table"
  /\ UNCHANGED <<now, server, disk, today, tab, plan, cur, cursor, resp, tmp, crashes>>

PlanTable ==
  /\ pc = "table"
  /\ plan' = PlanMonths(tab, today, now)
  /\ pc' = "months"
  /\ UNCHANGED <<now, server, disk, today, tab, cur, cursor, resp, tmp, crashes>>

(* Slip: run off the end of SPECS. *)
NextTableUnbounded ==
  /\ pc = "months" /\ plan = {}
  /\ tab' = tab + 1
  /\ pc' = "table"
  /\ UNCHANGED <<now, server, disk, today, plan, cur, cursor, resp, tmp, crashes>>

NextTable ==
  /\ pc = "months" /\ plan = {} /\ tab < NTables
  /\ tab' = tab + 1
  /\ pc' = "table"
  /\ UNCHANGED <<now, server, disk, today, plan, cur, cursor, resp, tmp, crashes>>

EndRun ==
  /\ pc = "months" /\ plan = {} /\ tab = NTables
  /\ IdleRun
  /\ UNCHANGED <<now, server, disk, crashes>>

NextMonth ==
  /\ pc = "months"
  /\ \E f \in plan :
       /\ \A g \in plan : f.ym <= g.ym
       /\ cur' = f
       /\ plan' = plan \ {f}
       /\ cursor' = LowerBound(f)
  /\ resp' = {}
  /\ pc' = "fetch"
  /\ UNCHANGED <<now, server, disk, today, tab, tmp, crashes>>

(***************************************************************************)
(* fetch / fetch_month.                                                    *)
(***************************************************************************)
FetchWindow ==
  /\ pc = "fetch" /\ Kind[tab] # "perday"
  /\ resp' = Answer(tab, cur)
  /\ pc' = "write"
  /\ UNCHANGED <<now, server, disk, today, tab, plan, cur, cursor, tmp, crashes>>

FetchDay ==
  /\ pc = "fetch" /\ Kind[tab] = "perday"
  /\ resp' = resp \cup Within(server[tab], cursor, cursor)
  /\ cursor' = cursor + 1
  /\ pc' = IF cursor < cur.end THEN "fetch" ELSE "write"
  /\ UNCHANGED <<now, server, disk, today, tab, plan, cur, tmp, crashes>>

(***************************************************************************)
(* append_table_atomic and write_table_atomic.  An empty increment only    *)
(* touches the file; anything else goes to the .tmp file, whose stamp      *)
(* survives the rename.                                                    *)
(***************************************************************************)
(* Slip: overwrite where the plan says append. *)
NeverAppends == FALSE

Appends == cur.inc # NoInc /\ disk[tab][cur.ym].exists

EndMonth ==
  pc' = "months" /\ cur' = NoFetch /\ cursor' = 0 /\ resp' = {} /\ tmp' = NoFile

(* Slip: an empty increment leaves the file and its stamp alone. *)
EmptyIsNoOp ==
  /\ pc = "write" /\ Appends /\ resp = {}
  /\ EndMonth
  /\ UNCHANGED <<now, server, disk, today, tab, plan, crashes>>

TouchEmpty ==
  /\ pc = "write" /\ Appends /\ resp = {}
  /\ disk' = [disk EXCEPT ![tab][cur.ym].mtime = now]
  /\ EndMonth
  /\ UNCHANGED <<now, server, today, tab, plan, crashes>>

WrittenRows ==
  IF Appends THEN Added(disk[tab][cur.ym].rows, resp) ELSE Once(resp)

WriteTmp ==
  /\ pc = "write" /\ ~(Appends /\ resp = {})
  /\ tmp' = [exists |-> TRUE, rows |-> WrittenRows, mtime |-> now]
  /\ pc' = "rename"
  /\ UNCHANGED <<now, server, disk, today, tab, plan, cur, cursor, resp, crashes>>

Rename ==
  /\ pc = "rename"
  /\ disk' = [disk EXCEPT ![tab][cur.ym] = tmp]
  /\ EndMonth
  /\ UNCHANGED <<now, server, today, tab, plan, crashes>>

(***************************************************************************)
(* A kill, a failed assertion or an exhausted retry ends the process.      *)
(***************************************************************************)
Crash ==
  /\ pc # "idle" /\ crashes < MaxCrashes
  /\ crashes' = crashes + 1
  /\ IdleRun
  /\ UNCHANGED <<now, server, disk>>

RunStep ==
  \/ PlanTable \/ NextTable \/ EndRun \/ NextMonth
  \/ FetchWindow \/ FetchDay \/ TouchEmpty \/ WriteTmp \/ Rename

Next ==
  \/ Tick
  \/ \E t \in Table, r \in Row : Publish(t, r)
  \/ \E t \in Table, m \in Month, d \in Backfilled : Backfill(t, m, d)
  \/ StartRun \/ Accept \/ Decline
  \/ RunStep
  \/ Crash

Spec == Init /\ [][Next]_vars

(***************************************************************************)
(* Fairness.  A run that was let through goes on to its end, the operator  *)
(* starts a run whenever one is pending for long enough and does not       *)
(* refuse for ever, and time passes.  Nothing is assumed of the servers.   *)
(***************************************************************************)
FairSpec ==
  Spec /\ WF_vars(Tick) /\ WF_vars(RunStep) /\ SF_vars(StartRun) /\ SF_vars(Accept)

-----------------------------------------------------------------------------
(***************************************************************************)
(* The state has its types: in particular a run never leaves the list of   *)
(* tables, and only files hold counts of rows (main.cpp, pipeline.cpp).    *)
(***************************************************************************)
TypeOK ==
  /\ now \in Clock
  /\ server \in [Table -> SUBSET Row]
  /\ disk \in [Table -> [Month -> File]]
  /\ pc \in {"idle", "ask", "table", "months", "fetch", "write", "rename"}
  /\ today \in Nat
  /\ tab \in Table
  /\ plan \subseteq FetchMonth
  /\ cur \in FetchMonth
  /\ cursor \in Nat
  /\ resp \subseteq Row
  /\ tmp \in File
  /\ crashes \in 0 .. MaxCrashes

(***************************************************************************)
(* No sequence of whole fetches, increments, zero-row probes, overlapping  *)
(* watermarks, crashes and midnights makes a month file hold a row twice:  *)
(* append_table_atomic concatenates without deduplication, so this rests   *)
(* on inc_from being past every row of the file when the append happens,   *)
(* not only when the month was planned.                                    *)
(***************************************************************************)
NoDuplicateRows ==
  \A t \in Table, m \in Month, r \in Row : disk[t][m].rows[r] <= 1

(***************************************************************************)
(* Days are never skipped: a row published on time whose day is at or      *)
(* below the watermark of its month's file is in that file.  The watermark *)
(* is the only record of what was fetched, so a day requested before it    *)
(* was complete would never be asked for again while the month is open.    *)
(***************************************************************************)
OnTimeCaptured ==
  \A t \in Table, m \in Month :
    Kind[t] # "monthfirst" =>
      \A r \in server[t] :
        /\ r.part \in OnTime
        /\ r.vd \in DaysOf(m) /\ StartDate <= r.vd
        /\ r.vd <= FileMaxVd(disk[t][m])
        => r \in Stored(disk[t][m])

(***************************************************************************)
(* What the closed-month refetch is for: the file of a closed month        *)
(* stamped after the last day of the lookback window holds every row of    *)
(* the month the server has, late ones included (given that no run goes    *)
(* past midnight).                                                         *)
(***************************************************************************)
RefetchedComplete ==
  \A t \in Table, m \in Month :
    /\ Kind[t] # "monthfirst"
    /\ disk[t][m].exists
    /\ UtcDay(disk[t][m].mtime) > MonthLast[m] + Lookback
    => \A r \in server[t] :
         r.vd \in DaysOf(m) /\ StartDate <= r.vd => r \in Stored(disk[t][m])

(***************************************************************************)
(* The claim of the README (src/README.md:166): once a closed month is     *)
(* frozen, its file has all of the month, backfills included.  The code    *)
(* does not deliver it: a file last touched on the last day of the         *)
(* lookback window counts as frozen and was only extended, not refetched.  *)
(***************************************************************************)
FrozenComplete ==
  \A t \in Table, m \in Month :
    /\ Kind[t] # "monthfirst"
    /\ Closed(m, now.day) /\ Frozen(m, disk[t][m])
    => \A r \in server[t] :
         r.vd \in DaysOf(m) /\ StartDate <= r.vd => r \in Stored(disk[t][m])

(* The tables for which a window of dates is answered in full. *)
Ranged == {t \in Table : Kind[t] # "monthfirst"}

ServerRows == [t \in Ranged |-> server[t]]
FileRows == [t \in Ranged |-> [m \in Month |-> Stored(disk[t][m])]]

Archive == INSTANCE Mirror WITH
  Table <- Ranged,
  RowsOf <- [m \in Month |-> {r \in Row : r.vd \in DaysOf(m)}],
  upstream <- ServerRows,
  mirror <- FileRows

(***************************************************************************)
(* The pipeline implements the abstract Mirror for every table but the     *)
(* month-first snapshots.  In particular a month file never loses a row:   *)
(* not by a whole refetch that replaces it, not by a crash between writing *)
(* .tmp and the rename, not by a server that grew between plan and answer. *)
(***************************************************************************)
MirrorsServer == Archive!Spec

(***************************************************************************)
(* A frozen file of a closed month is never written again, as the feature  *)
(* cache (keyed by mtime) and the quota rely on (no run past midnight).    *)
(***************************************************************************)
FrozenNeverWritten ==
  [][\A t \in Table, m \in Month :
       Closed(m, now.day) /\ Frozen(m, disk[t][m]) => disk'[t][m] = disk[t][m]]_vars

(***************************************************************************)
(* "Written today, hence frozen for ever": the whole fetch of a closed     *)
(* month freezes it although the stamp is compared as a UTC date, which is *)
(* one day behind until UtcLag o'clock.                                    *)
(***************************************************************************)
RefetchFreezes ==
  [][\A t \in Table, m \in Month :
       Closed(m, today) /\ disk'[t][m] # disk[t][m] => Frozen(m, disk'[t][m])]_vars

(***************************************************************************)
(* Every month that leaves the lookback window is frozen for good in the   *)
(* end, if the operator keeps starting and accepting runs (plan_months).   *)
(***************************************************************************)
EventuallyFrozen ==
  \A t \in Table, m \in Month :
    MonthLast[m] + Lookback < LastDay /\ StartDate <= MonthLast[m] =>
      <>[]Frozen(m, disk[t][m])

(***************************************************************************)
(* From some point on nothing is pending and no run starts: a probe that   *)
(* brings no row is not repeated for ever, which it would be if it left    *)
(* the file's mtime alone (append_table_atomic touches it).                *)
(***************************************************************************)
Settles == <>[](pc = "idle" /\ ~Pending(now.day, now))

=============================================================================
