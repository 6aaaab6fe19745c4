SPECIFICATION Spec
CONSTANTS
  Month = {1, 2}
  MaxClock = 4
  MaxAxes = 1
  MaxMeta = 1
INVARIANTS CacheSound NothingStale
