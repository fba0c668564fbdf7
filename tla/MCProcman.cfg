CONSTANTS
  Ids = {c1}
  MaxRunid = 2
  Respawns = {FALSE}
  Text <- SameText
  MaxInFlight = 2
  MaxRestarts = 0
SPECIFICATION Spec
CHECK_DEADLOCK FALSE
INVARIANTS
  StoppedIsStopped
  RunidsAgree
  RemovalIsFinal
PROPERTIES
  RunsAdvance
