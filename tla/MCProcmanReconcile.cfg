CONSTANTS
  Ids = {c1, c2}
  MaxRunid = 1
  Respawns = {FALSE}
  Text <- SameText
  MaxInFlight = 1
  MaxRestarts = 1
SPECIFICATION Spec
CHECK_DEADLOCK FALSE
PROPERTY
  EveryInfoIsHeard
