SPECIFICATION FairSpec
CONSTANTS
  Worker = {w1, w2}
  NEntries = 5
CHECK_DEADLOCK FALSE
INVARIANTS
  TypeOK
  WindowBound
  NoLostWakeup
PROPERTIES
  DrainsQueue
  Terminates
