CONSTANTS
  Ids = {c1}
  MaxRunid = 1
  Respawns = {FALSE}
  Text <- SameText
  MaxInFlight = 1
  MaxRestarts = 0
SPECIFICATION Spec
CHECK_DEADLOCK FALSE
INVARIANT
  RemovedStaysRemoved
