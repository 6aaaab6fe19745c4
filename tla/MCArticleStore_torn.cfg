SPECIFICATION Spec
CONSTANTS
  NArticles = 4
  Date <- MCDate
  PageSize = 2
  MaxShift = 1
  MaxCrashes = 2
  MaxTorn = 1
CHECK_DEADLOCK FALSE
INVARIANTS
  Reopenable
