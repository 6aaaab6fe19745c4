SPECIFICATION Spec
CONSTANTS
  NPosts = 6
  NInitial = 4
  PageSize = 2
  ByReply = TRUE
  Workers = 1
  STOP_PAGES = 2
  ANCHOR_WINDOW = 1
  ASSET_BACKLOG = 2
  HOLE_STREAK = 2
  MaxTouches = 3
  MaxCrashes = 1
CHECK_DEADLOCK FALSE
INVARIANTS
  AccountedFor
