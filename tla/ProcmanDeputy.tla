--------------------------- MODULE ProcmanDeputy ---------------------------
(***************************************************************************)
(* The procman deputy (bot2-procman/src/deputy): a daemon with one GLib    *)
(* main loop that runs, on one host, the commands a sheriff orders it to   *)
(* run.  It forks a process for a command, stops it with a signal and then *)
(* SIGKILL, reaps it on SIGCHLD, respawns it from a timer when the command *)
(* is auto-respawning, and takes its children down before it quits.        *)
(*                                                                         *)
(* Every handler runs to completion on the main loop, so it is one action. *)
(* What interleaves is the environment: orders, children that exit, timers *)
(* that come due, quit signals.  Time appears only through its effects: a  *)
(* respawn timer fires some time after it is set, and a process that was   *)
(* asked to stop is at some point past its stop_time_allowed.              *)
(***************************************************************************)
EXTENDS Naturals

CONSTANTS
  Ids,         \* the sheriff_ids by which orders name commands
  MaxRunid,    \* bound on the run ids that orders carry
  Respawns     \* the auto_respawn settings that orders carry

ASSUME MaxRunidAssumption == MaxRunid \in Nat

ASSUME RespawnsAssumption == Respawns \subseteq BOOLEAN

VARIABLES
  managed,     \* the ids on the deputy's list of commands
  cmds,        \* for each id, the command and its pmd_cmd_moreinfo_t
  mode,        \* what the main loop is doing
  sigchld,     \* a SIGCHLD waits in the signal pipe
  dangling,    \* a respawn timer is pending for a command that was freed
  wanted       \* history: the ids that the last orders obeyed want to run

vars == <<managed, cmds, mode, sigchld, dangling, wanted>>

-----------------------------------------------------------------------------
(* Types *)

RunIds == 0 .. MaxRunid

\* The process behind cmd->pid: none when pid is 0, dead when it has exited
\* and has not been reaped yet (pid still names it).
Process == {"none", "alive", "dead"}

Command == [
  child             : Process,
  signal            : {"none", "stop", "kill"},   \* last signal sent to child
  actual_runid      : RunIds,
  should_be_stopped : BOOLEAN,
  auto_respawn      : BOOLEAN,
  remove_requested  : BOOLEAN,
  \* respawn_timeout_id: 0, the id of a pending source, or the id of a source
  \* that has fired or was removed.
  timer             : {"unset", "pending", "stale"},
  \* At least one other respawn source is pending: its id was overwritten.
  stray             : BOOLEAN,
  \* first_kill_time: 0, less than stop_time_allowed ago, or longer ago.
  first_kill        : {"unset", "recent", "overdue"} ]

Mode == {"running", "exiting", "quit", "crashed"}

Order == [ desired_runid : RunIds, force_quit : BOOLEAN, auto_respawn : Respawns ]

\* An orders message names some commands and says what is wanted of each.
Orders == UNION {[S -> Order] : S \in SUBSET Ids}

\* Defect: malloc in place of calloc, so actual_runid is what memory holds.
NewCommandUncleared == [
  child |-> "none", signal |-> "none", actual_runid |-> MaxRunid + 1,
  should_be_stopped |-> FALSE, auto_respawn |-> FALSE,
  remove_requested |-> FALSE, timer |-> "unset", stray |-> FALSE,
  first_kill |-> "unset" ]

\* The calloc'ed record of a command that has just been added; it also fills
\* the entries of cmds that are not in managed.
NewCommand == [
  child |-> "none", signal |-> "none", actual_runid |-> 0,
  should_be_stopped |-> FALSE, auto_respawn |-> FALSE,
  remove_requested |-> FALSE, timer |-> "unset", stray |-> FALSE,
  first_kill |-> "unset" ]

Alive(i)  == cmds[i].child = "alive"
HasPid(c) == c.child # "none"

\* The main loop dispatches.
Up == mode \in {"running", "exiting"}

-----------------------------------------------------------------------------
(* Operations on one command *)

\* A new one-shot source; the id of the previous one is overwritten.
MaybeScheduleRespawn(c) ==
  IF c.auto_respawn /\ ~c.should_be_stopped /\ mode = "running"
  THEN [c EXCEPT !.timer = "pending", !.stray = c.stray \/ c.timer = "pending"]
  ELSE c

\* procman_start_cmd refuses a command that has a pid, and forkpty may fail.
StartFails(c, forks) == HasPid(c) \/ ~forks

\* Defect: the stop clock of the previous run is not reset.
StartCmdKeepsClock(c, desired_runid, forks) ==
  IF mode # "running" \/ StartFails(c, forks) THEN c
  ELSE [c EXCEPT !.should_be_stopped = FALSE, !.child = "alive",
                 !.signal = "none", !.actual_runid = desired_runid]

\* start_cmd zeroes respawn_timeout_id without removing the source it names.
StartCmd(c, desired_runid, forks) ==
  LET attempt == [c EXCEPT !.should_be_stopped = FALSE,
                           !.timer = "unset",
                           !.stray = c.stray \/ c.timer = "pending"]
  IN  IF mode # "running" THEN c
      ELSE IF StartFails(c, forks) THEN MaybeScheduleRespawn(attempt)
      ELSE [attempt EXCEPT !.child = "alive",
                           !.signal = "none",
                           !.actual_runid = desired_runid,
                           !.first_kill = "unset"]

\* Defect: stop_cmd repeats the stop signal and never resorts to SIGKILL.
StopCmdOnlyAsks(c) ==
  IF ~HasPid(c) THEN c
  ELSE [c EXCEPT !.should_be_stopped = TRUE,
                 !.timer = IF c.timer = "unset" THEN "unset" ELSE "stale",
                 !.signal = "stop",
                 !.first_kill = IF c.first_kill = "unset" THEN "recent" ELSE @]

\* stop_cmd removes the source that respawn_timeout_id names and keeps the id.
\* The first call sends stop_signal; a call after stop_time_allowed, SIGKILL.
StopCmd(c) ==
  IF ~HasPid(c) THEN c
  ELSE [c EXCEPT
          !.should_be_stopped = TRUE,
          !.timer = IF c.timer = "unset" THEN "unset" ELSE "stale",
          !.signal = CASE c.first_kill = "unset"   -> "stop"
                       [] c.first_kill = "recent"  -> c.signal
                       [] c.first_kill = "overdue" -> "kill",
          !.first_kill = IF c.first_kill = "unset" THEN "recent" ELSE @]

\* Defect: actual_runid follows the orders while the old run is being stopped.
ObeyRenamesRun(c, order, forks) ==
  LET told == [c EXCEPT !.auto_respawn = order.auto_respawn,
                        !.should_be_stopped = order.force_quit,
                        !.actual_runid = order.desired_runid]
      rerun == order.desired_runid # c.actual_runid
  IN  IF ~HasPid(c) /\ rerun /\ ~order.force_quit
      THEN StartCmd(told, order.desired_runid, forks)
      ELSE IF order.force_quit \/ rerun THEN StopCmd(told) ELSE told

\* Defect: whatever the orders want and does not run is started.
ObeyEveryTime(c, order, forks) ==
  LET told == [c EXCEPT !.auto_respawn = order.auto_respawn,
                        !.should_be_stopped = order.force_quit]
      rerun == order.desired_runid # c.actual_runid
  IN  IF ~HasPid(c) /\ ~order.force_quit
      THEN StartCmd(told, order.desired_runid, forks)
      ELSE IF HasPid(c) /\ (order.force_quit \/ rerun)
      THEN StopCmd(told)
      ELSE [told EXCEPT !.actual_runid = order.desired_runid]

\* What the orders loop does to a command that the orders name.
Obey(c, order, forks) ==
  LET told == [c EXCEPT !.auto_respawn = order.auto_respawn,
                        !.should_be_stopped = order.force_quit]
      rerun == order.desired_runid # c.actual_runid
  IN  IF ~HasPid(c) /\ rerun /\ ~order.force_quit
      THEN StartCmd(told, order.desired_runid, forks)
      ELSE IF HasPid(c) /\ (order.force_quit \/ rerun)
      THEN StopCmd(told)
      ELSE [told EXCEPT !.actual_runid = order.desired_runid]

\* A command with a process that the orders no longer name is stopped; it is
\* removed when its process has been reaped.
RequestRemoval(c) == StopCmd([c EXCEPT !.remove_requested = TRUE])

\* The respawn sources that outlive a command's record once it is freed.
LeavesTimer(c) == c.stray \/ c.timer = "pending"

\* The record of a command whose child was reaped: pid is 0 again.
Reaped(c) == [c EXCEPT !.child = "none", !.signal = "none"]

-----------------------------------------------------------------------------
(* Handlers *)

Init ==
  /\ managed = {}
  /\ cmds = [i \in Ids |-> NewCommand]
  /\ mode = "running"
  /\ sigchld = FALSE
  /\ dangling = FALSE
  /\ wanted = {}

\* _handle_orders2, for orders addressed to this host and not stale; forks are
\* the commands for which forkpty succeeds, should they be started.  Orders
\* that arrive while the deputy is exiting change nothing.
HandleOrders(orders, forks) ==
  LET named  == DOMAIN orders
      culled == managed \ named
      freed  == {i \in culled : ~HasPid(cmds[i])}
  IN  /\ mode = "running"
      /\ managed' = named \cup (culled \ freed)
      /\ cmds' = [i \in Ids |->
                    CASE i \in named          -> Obey(cmds[i], orders[i], i \in forks)
                      [] i \in culled \ freed -> RequestRemoval(cmds[i])
                      [] OTHER                -> NewCommand]
      /\ dangling' = (dangling \/ \E i \in freed : LeavesTimer(cmds[i]))
      /\ wanted' = {i \in named : ~orders[i].force_quit}
      /\ UNCHANGED <<mode, sigchld>>

\* Defect: one waitpid for a SIGCHLD that stands for several exits.
ExitedOne ==
  IF \E i \in managed : cmds[i].child = "dead"
  THEN {CHOOSE i \in managed : cmds[i].child = "dead"} ELSE {}

\* The commands that procman_check_for_dead_children finds, one after another.
Exited == {i \in managed : cmds[i].child = "dead"}

\* Defect: the scan for a command with a pid stops at the first command.
SomeDead(ids, commands) == ids = {} \/ \E i \in ids : ~HasPid(commands[i])

AllDead(ids, commands) == \A i \in ids : ~HasPid(commands[i])

\* glib_handle_signal(SIGCHLD): check_for_dead_children reaps every child that
\* has exited.  A deputy that is exiting quits when no child is left.
HandleSigchld ==
  LET dead  == Exited
      freed == {i \in dead : cmds[i].remove_requested}
  IN  /\ Up /\ sigchld
      /\ sigchld' = FALSE
      /\ managed' = managed \ freed
      /\ cmds' = [i \in Ids |->
                    IF i \in freed THEN NewCommand
                    ELSE IF i \in dead THEN MaybeScheduleRespawn(Reaped(cmds[i]))
                    ELSE cmds[i]]
      /\ dangling' = (dangling \/ \E i \in freed : LeavesTimer(cmds[i]))
      /\ mode' = IF mode = "exiting" /\ AllDead(managed', cmds')
                 THEN "quit" ELSE mode
      /\ UNCHANGED wanted

\* glib_handle_signal(SIGINT, SIGHUP, SIGQUIT or SIGTERM): every process is
\* sent its stop signal (one that was sent SIGKILL stays counted as killed),
\* and on_quit_timeout is scheduled: it is pending while mode is exiting.
HandleQuitSignal ==
  /\ Up
  /\ cmds' = [i \in Ids |->
                IF i \in managed /\ HasPid(cmds[i]) /\ cmds[i].signal # "kill"
                THEN [cmds[i] EXCEPT !.signal = "stop"] ELSE cmds[i]]
  /\ mode' = IF AllDead(managed, cmds) THEN "quit" ELSE "exiting"
  /\ UNCHANGED <<managed, sigchld, dangling, wanted>>

\* Defect: on_quit_timeout waits for the processes instead of killing them.
OnQuitTimeoutWaits ==
  /\ mode = "exiting" /\ AllDead(managed, cmds)
  /\ mode' = "quit"
  /\ UNCHANGED <<managed, cmds, sigchld, dangling, wanted>>

\* on_quit_timeout: SIGKILL to what is left; procman_remove_cmd keeps the
\* commands that still have a pid on the list.
OnQuitTimeout ==
  LET freed == {i \in managed : ~HasPid(cmds[i])}
  IN  /\ mode = "exiting"
      /\ managed' = managed \ freed
      /\ cmds' = [i \in Ids |->
                    IF i \in managed \ freed THEN [cmds[i] EXCEPT !.signal = "kill"]
                    ELSE NewCommand]
      /\ dangling' = (dangling \/ \E i \in managed : LeavesTimer(cmds[i]))
      /\ mode' = "quit"
      /\ UNCHANGED <<sigchld, wanted>>

\* Defect: the timer trusts that stop_cmd removed every source.
RespawnedUnchecked(c, forks) ==
  IF c.auto_respawn THEN StartCmd(c, c.actual_runid, forks) ELSE c

\* on_scheduled_respawn, for the command c after its source has fired.
Respawned(c, forks) ==
  IF c.auto_respawn /\ ~c.should_be_stopped THEN StartCmd(c, c.actual_runid, forks)
  ELSE c

\* The source that respawn_timeout_id names comes due.
RespawnTimer(i, forks) ==
  /\ Up
  /\ i \in managed /\ cmds[i].timer = "pending"
  /\ cmds' = [cmds EXCEPT ![i] = Respawned([@ EXCEPT !.timer = "stale"], forks)]
  /\ UNCHANGED <<managed, mode, sigchld, dangling, wanted>>

\* Another source of the command comes due; more may be left.
StrayTimer(i, left, forks) ==
  /\ Up
  /\ i \in managed /\ cmds[i].stray
  /\ cmds' = [cmds EXCEPT ![i] = Respawned([@ EXCEPT !.stray = left], forks)]
  /\ UNCHANGED <<managed, mode, sigchld, dangling, wanted>>

\* A source of a freed command comes due: on_scheduled_respawn reads cmd->user
\* in freed memory.  The read may fault or may yield a record that it ignores.
DanglingTimer(left, faults) ==
  /\ Up /\ dangling
  /\ dangling' = left
  /\ mode' = IF faults THEN "crashed" ELSE mode
  /\ UNCHANGED <<managed, cmds, sigchld, wanted>>

-----------------------------------------------------------------------------
(* Environment *)

\* A process exits, by itself or by a signal; the kernel raises SIGCHLD.
ChildExits(i) ==
  /\ Up
  /\ Alive(i)
  /\ cmds' = [cmds EXCEPT ![i].child = "dead"]
  /\ sigchld' = TRUE
  /\ UNCHANGED <<managed, mode, dangling, wanted>>

\* stop_time_allowed has passed since first_kill_time.
StopTimePasses(i) ==
  /\ Up
  /\ cmds[i].first_kill = "recent"
  /\ cmds' = [cmds EXCEPT ![i].first_kill = "overdue"]
  /\ UNCHANGED <<managed, mode, sigchld, dangling, wanted>>

Timers ==
  \/ \E i \in Ids, forks \in BOOLEAN : RespawnTimer(i, forks)
  \/ \E i \in Ids, left, forks \in BOOLEAN : StrayTimer(i, left, forks)
  \/ \E left, faults \in BOOLEAN : DanglingTimer(left, faults)
  \/ OnQuitTimeout

Next ==
  \/ \E orders \in Orders, forks \in SUBSET Ids : HandleOrders(orders, forks)
  \/ HandleSigchld
  \/ HandleQuitSignal
  \/ Timers
  \/ \E i \in Ids : ChildExits(i) \/ StopTimePasses(i)

\* The main loop dispatches what is ready; a process that was sent SIGKILL dies.
Fairness ==
  /\ WF_vars(HandleSigchld)
  /\ WF_vars(OnQuitTimeout)
  /\ \A i \in Ids : WF_vars(cmds[i].signal = "kill" /\ ChildExits(i))

Spec == Init /\ [][Next]_vars

FairSpec == Spec /\ Fairness

-----------------------------------------------------------------------------
(* Properties *)

\* Every variable has its type; the run ids stay within the bound because the
\* deputy only ever copies those that orders carry.
TypeOK ==
  /\ managed \subseteq Ids
  /\ cmds \in [Ids -> Command]
  /\ mode \in Mode
  /\ sigchld \in BOOLEAN
  /\ dangling \in BOOLEAN
  /\ wanted \subseteq Ids

\* The state of the deputy as a Supervisor.
Abstract == INSTANCE Supervisor WITH
  running <- {i \in Ids : Alive(i)},
  closing <- mode # "running"

\* The deputy is a supervisor: whatever the order in which timers fire,
\* children exit and orders arrive, start_cmd forks only a command that the
\* last orders name without force_quit, and none after a quit signal.
ImplementsSupervisor == Abstract!Spec

\* While a process lives its command stays on the list and actual_runid keeps
\* naming the run it was forked for, through orders that ask for another run,
\* removal, and respawn timers that fire late.  (The sheriff compares
\* actual_runid with desired_runid to tell which run it sees.)
RunKeepsItsRecord ==
  [][\A i \in Ids : Alive(i) =>
       /\ i \in managed'
       /\ HasPid(cmds'[i])
       /\ cmds'[i].actual_runid = cmds[i].actual_runid]_vars

\* No process is sent SIGKILL before it was sent its stop signal: neither by
\* stop_cmd, whose clock starts again with each run, nor by on_quit_timeout,
\* which finds only processes that the quit signal has warned.
WarnedBeforeKilled ==
  [][\A i \in Ids :
       Alive(i) /\ cmds'[i].signal = "kill" => cmds[i].signal # "none"]_vars

\* When the main loop of a deputy that was asked to quit ends, every process
\* it ever forked has exited or has been sent SIGKILL.
ExitLeavesNothingRunning ==
  mode = "quit" => \A i \in Ids : Alive(i) => cmds[i].signal = "kill"

\* A quit signal ends the main loop, even if no child reacts to its signal.
QuitHappens == mode = "exiting" ~> ~Up

\* No zombie is forgotten: SIGCHLD that arrives while the handler runs, or
\* one SIGCHLD for several deaths, still gets every exited child reaped.
ReapedEventually ==
  \A i \in Ids : cmds[i].child = "dead" ~> ~HasPid(cmds[i]) \/ ~Up

\* No respawn timer comes due for a command that was removed (sheriff.py:
\* 116-117, "Auto respawning only happens when the desired state of the command
\* is running").  _handle_orders2 frees a stopped command and leaves its
\* respawn source pending, which then reads the freed record.
NoRespawnAfterRemoval ==
  [][~ \E left, faults \in BOOLEAN : DanglingTimer(left, faults)]_vars
====
