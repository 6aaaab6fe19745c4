SPECIFICATION Spec
CONSTANTS
  HoursPerDay = 2
  UtcLag = 1
  Month = {1, 2}
  MonthFirst <- MCMonthFirst
  MonthLast <- MCMonthLast
  LastDay = 4
  NTables = 2
  AvailHour <- AvailTwo
  Kind <- KindTwo
  StartDate = 2
  Lookback = 1
  Dedup = 1
  TradingDays = {3, 4}
  OnTime = {"first", "second"}
  Backfilled = {}
  Overnight = TRUE
  MaxCrashes = 1
CHECK_DEADLOCK FALSE
INVARIANTS
  NoDuplicateRows
  OnTimeCaptured
PROPERTIES
  RefetchFreezes
