CONSTANTS
  Ids = {c1}
  MaxRunid = 2
  Respawns = {FALSE}
  Text <- SameText
  MaxInFlight = 1
  MaxRestarts = 0
SPECIFICATION FairSpec
CHECK_DEADLOCK FALSE
PROPERTIES
  StopTakesEffect
  RemovalCompletes
  StartTakesEffect
