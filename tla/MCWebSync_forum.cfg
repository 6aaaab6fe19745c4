SPECIFICATION FairSpec
CONSTANTS
  NPosts = 5
  NInitial = 2
  PageSize = 2
  ByReply = FALSE
  Workers = 1
  STOP_PAGES = 2
  ANCHOR_WINDOW = 1
  ASSET_BACKLOG = 2
  HOLE_STREAK = 2
  MaxTouches = 3
  MaxCrashes = 1
CHECK_DEADLOCK FALSE
INVARIANTS TypeOK IndexSound MemoryBound AccountedFor
PROPERTIES NothingForgotten NoNewGaps EventuallyCached
