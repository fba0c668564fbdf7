--------------------------- MODULE SheriffScript ---------------------------
(***************************************************************************)
(* The script executor of the procman sheriff (sheriff.py).  A script is a *)
(* list of actions that start, stop or restart commands, wait for a time   *)
(* or for a status, or run another script.  Nothing waits in a thread: a   *)
(* GLib timer, or an info that changes the status of a command, calls      *)
(* _execute_next_script_action, which performs one action.                 *)
(*                                                                         *)
(* The commands and what the sheriff makes of them are those of Sheriff;   *)
(* the deputy is reduced to what Procman shows of it: it obeys the orders  *)
(* in the end, processes exit, and what it reports arrives late.           *)
(***************************************************************************)
EXTENDS Naturals, Sequences, FiniteSets

CONSTANTS
  Ids,             \* the commands
  MaxRunid,        \* bound on run ids: enough for MaxExecutions scripts
  Actions,         \* for each script, its list of actions
  MaxExecutions,   \* bound on the scripts that are executed
  Removable,       \* the commands that users may remove
  CoarseClock      \* two readings of the clock, some statements apart, may be equal

VARIABLES
  known, commands, \* the sheriff's commands
  deputy,          \* the deputy's commands: whether they have a pid, their run
  info,            \* the info that is under way
  active,          \* the active script and what it waits for
  stale,           \* pending sources that scripts before it have set
  executions       \* how many scripts were executed

vars == <<known, commands, deputy, info, active, stale, executions>>

Sheriff == INSTANCE Sheriff WITH
  Respawns <- {FALSE}, Text <- [i \in Ids |-> i], heard <- TRUE, fate <- [i \in Ids |-> "used"]

Scripts == DOMAIN Actions

Action == [ type   : {"start", "stop", "restart", "wait_ms", "wait_status", "run_script"},
            cmds   : SUBSET Ids,
            wait   : {"none", "running", "stopped"},
            script : Scripts \cup {"none"} ]

\* There are finitely many scripts, each of which is a list of actions.
ASSUME ActionsAssumption == IsFiniteSet(Scripts) /\ Actions \in [Scripts -> Seq(Action)]

\* No script: what _finish_script_execution leaves.
Idle == [
  context    |-> <<>>,    \* the nested ScriptExecutionContexts, outermost first
  waitingOn  |-> {},      \* _waiting_on_commands
  waitingFor |-> "none",  \* _waiting_for_status
  timers     |-> 0,       \* pending sources that this script has set
  performed  |-> <<>>,    \* history: the actions it has performed
  disturbed  |-> FALSE,   \* history: a stale source has advanced it
  outcome    |-> "none" ] \* history: how the script before ended

Running(e) == e.context # <<>>

-----------------------------------------------------------------------------
(* Scripts *)

\* The scripts of which every script that they run is one of a set: none runs one that does
\* not exist.
Calling(scripts) ==
  {s \in Scripts : \A k \in DOMAIN Actions[s] :
                     Actions[s][k].type = "run_script" => Actions[s][k].script \in scripts}

\* The scripts that run others to less than a depth.
Nested[depth \in Nat] == IF depth = 0 THEN {} ELSE Calling(Nested[depth - 1])

\* Those that do not come to call themselves.
Sound == UNION {Nested[depth] : depth \in 0 .. Cardinality(Scripts)}

\* A ScriptExecutionContext: a script and how many of its actions were begun.
Place == UNION { {[script |-> s, current_action |-> k] : k \in 0 .. Len(Actions[s])} :
                   s \in Sound }

\* A new one.
Called(script) == [script |-> script, current_action |-> 0]

AtEnd(place)     == place.current_action = Len(Actions[place.script])
Following(place) == [place EXCEPT !.current_action = @ + 1]
ActionOf(place)  == Actions[place.script][place.current_action]

\* The actions that are left, with those of the scripts that are run in their place.
Listed[place \in Place] ==
  IF AtEnd(place) THEN <<>>
  ELSE LET next   == Following(place)
           action == ActionOf(next)
       IN  (IF action.type = "run_script" THEN Listed[Called(action.script)] ELSE <<action>>)
             \o Listed[next]

Rest == [place \in Place |-> Listed[place]]

\* check_script_for_errors: a script must not come to call itself, and the
\* commands of its actions and of those of the scripts it runs must exist.
HasErrors(script) ==
  \/ script \notin Sound
  \/ LET list == Rest[Called(script)]
     IN  \E k \in DOMAIN list : list[k].type # "wait_ms" /\ list[k].cmds \cap known = {}

Front(s) == SubSeq(s, 1, Len(s) - 1)
Last(s)  == s[Len(s)]

ActionAt(frames) == ActionOf(Last(frames))

\* get_next_action of a context without a subscript: it moves on to an action to perform, of
\* its own or of a script that it runs, and is done if there is none.
Search[place \in Place] ==
  IF AtEnd(place) THEN <<>>
  ELSE LET next      == Following(place)
           action    == ActionOf(next)
           subscript == IF action.type = "run_script" THEN Search[Called(action.script)]
                        ELSE <<>>
       IN  IF action.type # "run_script" \/ subscript # <<>> THEN <<next>> \o subscript
           ELSE Search[next]

Found == [place \in Place |-> Search[place]]

\* Defect: a script that was called ends with the script that called it.
InnermostAction(frames) ==
  LET found == Found[Last(frames)]
  IN  IF found = <<>> THEN <<>> ELSE Front(frames) \o found

\* get_next_action of nested contexts: the innermost that is not done moves on, and those that
\* it has called are dropped; none is left at the end of the script.
GetNextAction(frames) ==
  LET going == {n \in DOMAIN frames : Found[frames[n]] # <<>>}
      n     == CHOOSE m \in going : \A k \in going : k <= m
  IN  IF going = {} THEN <<>> ELSE SubSeq(frames, 1, n - 1) \o Found[frames[n]]

-----------------------------------------------------------------------------
(* Waiting *)

\* Every command that e waits for has the status; those removed keep theirs.
Satisfied(e, cs) ==
  e.waitingOn # {} /\ \A i \in e.waitingOn : Sheriff!Status(cs[i]) = e.waitingFor

\* _check_wait_action_status: if all commands have the status, they are
\* forgotten and a timer is set for the next action.
Checked(e, cs) ==
  IF Satisfied(e, cs)
  THEN [e EXCEPT !.waitingOn = {}, !.waitingFor = "none", !.timers = @ + 1]
  ELSE e

-----------------------------------------------------------------------------
(* Executing *)

Acted(type, c) ==
  CASE type = "start"   -> Sheriff!Start(c)
    [] type = "stop"    -> Sheriff!Stop(c)
    [] type = "restart" -> Sheriff!Restart(c)
    [] OTHER            -> c


\* What follows an action: a timer for the next one, at once or after the delay of
\* wait_ms, which waits for no status, or a wait.  A wait is
\* checked at once, for the commands may have the status already; but a check
\* in the microsecond of the last action does nothing (it multiplies
\* microseconds by 1000 and compares with 100: "don't execute actions faster
\* than 10 Hz").
Followed(e, action, cmds, cs) ==
  LET waits == [e EXCEPT !.waitingOn = cmds, !.waitingFor = action.wait]
  IN  IF action.wait = "none"
      THEN {[e EXCEPT !.timers = @ + 1]}
      ELSE {Checked(waits, cs)} \cup
           (IF CoarseClock /\ action.type = "wait_status" THEN {waits} ELSE {})

\* _finish_script_execution; sources that the script has set stay pending.
FinishScript(e, left, outcome) ==
  /\ active' = [Idle EXCEPT !.outcome = outcome]
  /\ stale' = left + e.timers
  /\ UNCHANGED commands

\* _execute_next_script_action of e, with left sources of scripts before it
\* pending.  (No action gives a command the status that a wait is for, so the
\* checks in start_command, stop_command and restart_command find nothing.)
ExecuteNext(e, left) ==
  \E next \in {GetNextAction(e.context)} :
    IF next = <<>> THEN FinishScript(e, left, "finished")
    ELSE LET action == ActionAt(next)
             cmds   == action.cmds \cap known
             acted  == [i \in Ids |-> IF i \in cmds THEN Acted(action.type, commands[i])
                                     ELSE commands[i]]
         IN  /\ commands' = acted
             /\ active' \in Followed([e EXCEPT !.context = next,
                                               !.performed = Append(@, action)],
                                     action, cmds, acted)
             /\ stale' = left

\* execute_script: aborts the active script, and performs the first action.
ExecuteScript(script) ==
  /\ executions < MaxExecutions
  /\ executions' = executions + 1
  /\ IF HasErrors(script) THEN FinishScript(active, stale, "aborted")
     ELSE ExecuteNext(
            [Idle EXCEPT !.context = <<Called(script)>>],
            stale + active.timers)
  /\ UNCHANGED <<known, deputy, info>>

\* abort_script, which the GUI offers while a script is active.
AbortScript ==
  /\ Running(active)
  /\ FinishScript(active, stale, "aborted")
  /\ UNCHANGED <<known, deputy, info, executions>>

\* A source that the active script has set comes due.
TimerFires ==
  /\ active.timers > 0
  /\ ExecuteNext([active EXCEPT !.timers = @ - 1], stale)
  /\ UNCHANGED <<known, deputy, info, executions>>

\* A source of a script that has ended or was aborted comes due: it advances
\* the script that is active now, if there is one.
StaleTimerFires ==
  /\ stale > 0
  /\ IF Running(active) THEN ExecuteNext([active EXCEPT !.disturbed = TRUE], stale - 1)
     ELSE stale' = stale - 1 /\ UNCHANGED <<commands, active>>
  /\ UNCHANGED <<known, deputy, info, executions>>

-----------------------------------------------------------------------------
(* Commands, as Sheriff and Procman have them *)

\* schedule_command_for_removal, by a user.
RemoveCommand(i) ==
  /\ i \in known \cap Removable /\ ~commands[i].scheduled_for_removal
  /\ commands' = [commands EXCEPT ![i].scheduled_for_removal = TRUE]
  /\ UNCHANGED <<known, deputy, info, active, stale, executions>>

Ordered(i) == i \in known /\ ~commands[i].scheduled_for_removal

\* The deputy obeys what the sheriff orders of a command.
DeputyObeys(i) ==
  LET c == commands[i]
      d == IF i \in DOMAIN deputy THEN deputy[i] ELSE [pid |-> FALSE, actual_runid |-> 0]
      rerun == c.desired_runid # d.actual_runid
      obeyed == IF d.pid
                THEN IF c.force_quit \/ rerun THEN [d EXCEPT !.pid = FALSE] ELSE d
                ELSE [pid |-> rerun /\ ~c.force_quit, actual_runid |-> c.desired_runid]
  IN  /\ deputy' = IF Ordered(i)
                   THEN [j \in DOMAIN deputy \cup {i} |-> IF j = i THEN obeyed ELSE deputy[j]]
                   ELSE [j \in DOMAIN deputy \ {i} |-> deputy[j]]
      /\ UNCHANGED <<known, commands, info, active, stale, executions>>

ProcessExits(i) ==
  /\ i \in DOMAIN deputy /\ deputy[i].pid
  /\ deputy' = [deputy EXCEPT ![i].pid = FALSE]
  /\ UNCHANGED <<known, commands, info, active, stale, executions>>

\* The deputy reports; a report that arrives replaces none.
DeputyReports ==
  /\ info = <<>>
  /\ info' = <<[i \in DOMAIN deputy |-> [pid          |-> deputy[i].pid,
                                         actual_runid |-> deputy[i].actual_runid,
                                         auto_respawn |-> FALSE]]>>
  /\ UNCHANGED <<known, commands, deputy, active, stale, executions>>

\* _handle_info2_t: the list follows the info, and if the status of some command
\* has changed the wait is checked.
ReceiveInfo ==
  LET shown   == known \cap DOMAIN info[1]
      gone    == Sheriff!Gone(info[1])
      updated == [i \in Ids |-> IF i \in shown
                                THEN Sheriff!UpdateFromCmdInfo(commands[i], info[1][i])
                                ELSE commands[i]]
      changed == \E i \in shown : Sheriff!Status(updated[i]) # Sheriff!Status(commands[i])
  IN  /\ info # <<>>
      /\ info' = <<>>
      /\ known' = known \ gone
      /\ commands' = updated
      /\ active' = IF changed THEN Checked(active, updated) ELSE active
      /\ UNCHANGED <<deputy, stale, executions>>

-----------------------------------------------------------------------------

Init ==
  /\ known = Ids
  /\ commands = [i \in Ids |-> Sheriff!NewCommand(FALSE)]
  /\ deputy = <<>> /\ info = <<>>
  /\ active = Idle
  /\ stale = 0 /\ executions = 0

Next ==
  \/ (\E script \in Scripts : ExecuteScript(script)) \/ AbortScript
  \/ TimerFires \/ StaleTimerFires
  \/ ReceiveInfo \/ DeputyReports
  \/ \E i \in Ids : RemoveCommand(i) \/ DeputyObeys(i) \/ ProcessExits(i)

\* Timers come due, orders and infos are repeated until they arrive.
Fairness ==
  /\ WF_vars(TimerFires) /\ WF_vars(StaleTimerFires)
  /\ WF_vars(ReceiveInfo) /\ WF_vars(DeputyReports)
  /\ \A i \in Ids : WF_vars(DeputyObeys(i))

Spec == Init /\ [][Next]_vars

FairSpec == Spec /\ Fairness

-----------------------------------------------------------------------------
(* Properties *)

\* What is left when the contexts are frames, of the innermost first.
Remaining[frames \in Seq(Place)] ==
  IF frames = <<>> THEN <<>> ELSE Rest[Last(frames)] \o Remaining[Front(frames)]

Lists == {Rest[Called(s)] : s \in Sound} \cup {<<>>}

Run == INSTANCE ScriptRun WITH
  Lists     <- Lists,
  active    <- Running(active),
  performed <- active.performed,
  todo      <- Remaining[active.context],
  outcome   <- active.outcome,
  begun     <- executions

\* The nested contexts, whichever timers and infos advance them, perform the
\* actions of the script and of those it runs in order and each of them once.
RunsAsWritten == Run!Spec

\* A script is moved on by one thing at a time, a timer or a wait: two of them would
\* perform an action while the one before it still waits.
OneThread == active.timers + (IF active.waitingOn # {} THEN 1 ELSE 0) <= 1

\* What the deputy has done of what an action waits for.
Achieved(i, wait) ==
  /\ wait = "running" => deputy[i].actual_runid = commands[i].desired_runid
  /\ wait = "stopped" => ~deputy[i].pid

\* Unless a source that an aborted script left behind has interfered, a script is moved on by
\* one thing at a time, and when it goes on after a wait, the commands have done what it waited
\* for, by the deputy's state and not only by the sheriff's: the run that was asked for has
\* begun, or the process has gone and was not started since.
WaitsAreMet ==
  LET action == ActionAt(active.context)
  IN  Running(active) /\ ~active.disturbed =>
        /\ OneThread
        /\ active.timers > 0 /\ action.wait # "none" =>
             \A i \in action.cmds \cap known \cap DOMAIN deputy : Achieved(i, action.wait)

\* The script waits for a status that its commands do not have.
Stuck ==
  LET action == ActionAt(active.context)
  IN  /\ Running(active) /\ action.wait # "none"
      /\ \/ action.cmds \cap known # action.cmds
         \/ \E i \in action.cmds \cap known : Sheriff!Status(commands[i]) # action.wait

\* A script that goes no further waits for a status that its commands do not
\* get (a command that crashed or was removed): no status that the commands have
\* is missed, whether they had it before the wait or get it while a timer is
\* pending (config_file.md:313-314: "Waits for a single command, or a group of
\* commands to all achieve the specified status").
ScriptGoesOn == <>[](Running(active)) => <>[]Stuck
====
