CONSTANTS
  c1 = c1
  c2 = c2
  Ids = {c1, c2}
  MaxRunid = 2
  Actions <- TwoCommands
  MaxExecutions = 1
  Removable = {c2}
  CoarseClock = TRUE
SPECIFICATION FairSpec
CHECK_DEADLOCK FALSE
PROPERTY
  ScriptGoesOn
