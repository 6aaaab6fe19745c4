--------------------------- MODULE MCMonthArchive ---------------------------
(***************************************************************************)
(* Instances of MonthArchive for TLC: days of three "hours", UTC one hour  *)
(* behind, months of two days, a lookback of one day.                      *)
(***************************************************************************)
EXTENDS MonthArchive

MCMonthFirst == [m \in Month |-> 2 * m - 1]
MCMonthLast == [m \in Month |-> 2 * m]
AvailAfterClose == <<2>>
AvailNextDay == <<3>>
AvailTwo == <<0, 1>>
KindRange == <<"range">>
KindPerDay == <<"perday">>
KindTwo == <<"monthfirst", "perday">>
=============================================================================
