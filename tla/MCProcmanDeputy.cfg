\* One command with every order shows all that timers, orders and exits can do to a command:
\* three run ids tell a fresh run from a rerun and from the zero of a new record.
CONSTANTS
  Ids = {c1}
  MaxRunid = 2
  Respawns = {TRUE, FALSE}
SPECIFICATION Spec
CHECK_DEADLOCK FALSE
INVARIANTS
  TypeOK
PROPERTIES
  ImplementsSupervisor
  RunKeepsItsRecord
  WarnedBeforeKilled
