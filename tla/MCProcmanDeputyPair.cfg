\* Two commands that do not respawn show what commands share: SIGCHLD and the quit.
CONSTANTS
  Ids = {c1, c2}
  MaxRunid = 1
  Respawns = {FALSE}
SPECIFICATION FairSpec
CHECK_DEADLOCK FALSE
INVARIANTS
  ExitLeavesNothingRunning
PROPERTIES
  QuitHappens
  ReapedEventually
