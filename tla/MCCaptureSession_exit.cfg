SPECIFICATION FairSpec
CONSTANTS
  Conn = {c1}
  MaxKills = 0
  MaxUnheeded = 1
  Lingers = TRUE
PROPERTIES EveryExitRestores
