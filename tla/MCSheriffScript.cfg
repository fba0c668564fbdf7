CONSTANTS
  c1 = c1
  c2 = c2
  Ids = {c1, c2}
  MaxRunid = 2
  Actions <- TwoCommands
  MaxExecutions = 2
  Removable = {c2}
  CoarseClock = FALSE
SPECIFICATION FairSpec
CHECK_DEADLOCK FALSE
INVARIANTS
  WaitsAreMet
PROPERTIES
  RunsAsWritten
  
