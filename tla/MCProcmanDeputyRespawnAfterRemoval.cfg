CONSTANTS
  Ids = {c1}
  MaxRunid = 1
  Respawns = {TRUE, FALSE}
SPECIFICATION Spec
CHECK_DEADLOCK FALSE
PROPERTY
  NoRespawnAfterRemoval
