SPECIFICATION FairSpec
CONSTANTS
  HoursPerDay = 3
  UtcLag = 1
  Month = {1, 2}
  MonthFirst <- MCMonthFirst
  MonthLast <- MCMonthLast
  LastDay = 6
  NTables = 1
  AvailHour <- AvailAfterClose
  Kind <- KindRange
  StartDate = 1
  Lookback = 1
  Dedup = 1
  TradingDays = {1, 2, 3}
  OnTime = {"main"}
  Backfilled = {1, 3}
  Overnight = FALSE
  MaxCrashes = 1
CHECK_DEADLOCK FALSE
INVARIANTS TypeOK RefetchedComplete
PROPERTIES FrozenNeverWritten MirrorsServer EventuallyFrozen Settles
