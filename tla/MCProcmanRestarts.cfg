CONSTANTS
  Ids = {c1, c2}
  MaxRunid = 1
  Respawns = {FALSE}
  Text <- SameText
  MaxInFlight = 2
  MaxRestarts = 2
SPECIFICATION Spec
CHECK_DEADLOCK FALSE
CONSTRAINT OnlyStarted
INVARIANTS
  Undisturbed
  StoppedIsStopped
SYMMETRY Symmetry
