SPECIFICATION Spec
CONSTANTS
  Asset = {a1, a2, a3}
  Listed = {a1, a2}
  HoldN = 2
  ExitN = 2
  Capital = 16
  BuyCost = 1
  SellCost = 2
  Base = 8
  LastDay = 3
  MaxShocks = 2
SYMMETRY AssetSymmetry
CHECK_DEADLOCK FALSE
INVARIANTS
  TypeOK
  OnePosition
  Conserved
  BookFollowsRanking
  Invested
  StreakIsAge
