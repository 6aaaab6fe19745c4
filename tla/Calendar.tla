------------------------------ MODULE Calendar ------------------------------
(***************************************************************************)
(* The clock and the dates the download schedule is computed from          *)
(* (cpp/src/misc/date.cpp and the helpers at the head of                   *)
(* cpp/src/misc/schedule.cpp).                                             *)
(*                                                                         *)
(* A date is a day number, a month an interval of days, an instant a       *)
(* record of the local day and the local hour.  The file system stamps     *)
(* files in UTC and file_write_date formats that stamp without converting  *)
(* it back, so an instant has two dates: the local one and the UTC one.    *)
(***************************************************************************)
EXTENDS Integers

CONSTANTS
  HoursPerDay,  \* clock resolution: number of "hours" of one local day
  UtcLag,       \* local time is UTC + UtcLag hours (8 of 24 in China)
  Month,        \* the months of the data set
  MonthFirst,   \* MonthFirst[m], MonthLast[m]: first and last day of m
  MonthLast,
  LastDay       \* bound: the clock stops at the end of this day

ASSUME CalendarAssumption ==
  /\ HoursPerDay \in Nat \ {0}
  /\ UtcLag \in 0 .. HoursPerDay - 1
  /\ LastDay \in Nat \ {0}
  /\ Month \subseteq Nat /\ Month # {}
  /\ MonthFirst \in [Month -> Nat]
  /\ MonthLast \in [Month -> Nat]
  /\ \A m \in Month : 1 <= MonthFirst[m] /\ MonthFirst[m] <= MonthLast[m]
  /\ \A m, n \in Month : m < n => MonthLast[m] < MonthFirst[n]

Hour == 0 .. HoursPerDay - 1
Clock == [day : Nat, hour : Hour]

(***************************************************************************)
(* The next instant.                                                       *)
(***************************************************************************)
NextHour(n) ==
  IF n.hour + 1 < HoursPerDay THEN [n EXCEPT !.hour = @ + 1]
                              ELSE [day |-> n.day + 1, hour |-> 0]

(***************************************************************************)
(* Hours elapsed since the stamp mt: the file's mtime age.                 *)
(***************************************************************************)
Age(n, mt) == (n.day - mt.day) * HoursPerDay + n.hour - mt.hour

(***************************************************************************)
(* The date formatted from a stamp without conversion to local time.       *)
(***************************************************************************)
UtcDay(n) == IF n.hour >= UtcLag THEN n.day ELSE n.day - 1

DaysOf(m) == MonthFirst[m] .. MonthLast[m]

(* Slip: take today's data as complete at any hour. *)
DataHorizonAnyHour(avail, today, n) == today

(***************************************************************************)
(* The last day whose data a source with availability hour avail has       *)
(* completely published, computed from the `today' a run captured when it  *)
(* started and from the hour of the instant n at which it is asked.        *)
(***************************************************************************)
DataHorizon(avail, today, n) ==
  IF n.hour >= avail THEN today ELSE today - 1

(***************************************************************************)
(* What avail_hour says of the source: the data of day d is complete from  *)
(* hour avail of day d on (from the next day on when avail = HoursPerDay). *)
(***************************************************************************)
Complete(avail, d, n) ==
  d < n.day \/ (d = n.day /\ n.hour >= avail)

Larger(a, b) == IF a >= b THEN a ELSE b
Smaller(a, b) == IF a <= b THEN a ELSE b

=============================================================================
