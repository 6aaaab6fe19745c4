SPECIFICATION FairSpec
CONSTANTS
  Conn = {c1, c2}
  MaxKills = 2
  MaxUnheeded = 1
  Lingers = FALSE
INVARIANTS Recoverable StopsUnused RegisteredOpen NoThreadLeft
PROPERTIES LeavesClean EventuallyRestored StopReturns
