------------------------------ MODULE Sheriff ------------------------------
(***************************************************************************)
(* The procman sheriff (bot2-procman/python/src/bot_procman/sheriff.py):   *)
(* the list of commands that it wants one deputy to run, what it last      *)
(* heard of each, and the operations that users and messages perform on    *)
(* the list.  The sheriff never learns whether its orders arrived: it      *)
(* repeats them, and compares the run id it wants with the one reported.   *)
(*                                                                         *)
(* An operation ends with send_orders(); the module that composes the      *)
(* sheriff with the network sends MakeOrders after each of them.           *)
(***************************************************************************)
EXTENDS Naturals

CONSTANTS
  Ids,         \* sheriff_ids
  MaxRunid,    \* bound on desired_runid
  Respawns,    \* the auto_respawn settings that users choose
  Text         \* for each id, the exec_str, command_id and group of its command

VARIABLES
  known,       \* the keys of the deputy's _commands
  commands,    \* for each id, its SheriffDeputyCommand
  heard,       \* last_update_utime is not zero
  fate         \* history: what has become of each id

vars == <<known, commands, heard, fate>>

-----------------------------------------------------------------------------
(* Types *)

RunIds == 0 .. MaxRunid

SheriffCommand == [
  pid                   : {"unknown", "none", "some"},   \* -1, 0, positive
  actual_runid          : RunIds,
  desired_runid         : RunIds,
  force_quit            : BOOLEAN,
  scheduled_for_removal : BOOLEAN,
  auto_respawn          : BOOLEAN ]

NewCommand(auto_respawn) == [
  pid |-> "unknown", actual_runid |-> 0, desired_runid |-> 0,
  force_quit |-> FALSE, scheduled_for_removal |-> FALSE,
  auto_respawn |-> auto_respawn ]

\* Fills the entries of commands that are not in known.
NoCommand == NewCommand(FALSE)

\* An id is unused until add_command draws it, and disturbed when a user has
\* asked for more than one start of its command.  It is dropped when the command
\* was taken off the list before any info showed it, removed when after.
Fate == {"unused", "used", "disturbed", "dropped", "removed"}

-----------------------------------------------------------------------------
(* Operations on one command *)

\* Defect: status looks at the pid and not at the run that it belongs to.
StatusOfPid(c) ==
  IF c.pid = "unknown" THEN "unknown"
  ELSE IF c.pid = "some"
  THEN IF c.force_quit \/ c.scheduled_for_removal THEN "trying to stop" ELSE "running"
  ELSE IF c.scheduled_for_removal THEN "removing" ELSE "stopped"

\* status(), with the exit codes of a stopped command left out.
Status(c) ==
  IF c.pid = "unknown" THEN "unknown"
  ELSE IF c.desired_runid # c.actual_runid
  THEN IF c.force_quit THEN "unknown"
       ELSE IF c.pid = "none" THEN "trying to start" ELSE "restarting"
  ELSE IF c.pid = "some"
  THEN IF c.force_quit \/ c.scheduled_for_removal THEN "trying to stop" ELSE "running"
  ELSE IF c.scheduled_for_removal THEN "removing" ELSE "stopped"

\* Defect: a command that ran to completion is not marked force_quit.
UpdateFromCmdInfoUnmarked(c, info) ==
  [c EXCEPT !.pid = IF info.pid THEN "some" ELSE "none",
            !.actual_runid = info.actual_runid]

\* A command that ran to completion is marked force_quit, lest a deputy that
\* restarts run it again.
UpdateFromCmdInfo(c, info) ==
  [c EXCEPT
     !.pid = IF info.pid THEN "some" ELSE "none",
     !.actual_runid = info.actual_runid,
     !.force_quit = \/ @
                    \/ ~info.pid /\ info.actual_runid = c.desired_runid /\ ~c.auto_respawn]

\* Defect: a command that is taken over keeps the run id of a new one.
AdoptedAsNew(info) == NewCommand(info.auto_respawn)

\* A command that only the deputy knows is taken over as it is reported.
Adopted(info) ==
  [NewCommand(info.auto_respawn) EXCEPT !.desired_runid = info.actual_runid]

Start(c) ==
  IF c.pid = "some" /\ ~c.force_quit THEN c
  ELSE [c EXCEPT !.desired_runid = @ + 1, !.force_quit = FALSE]

Restart(c) == [c EXCEPT !.desired_runid = @ + 1, !.force_quit = FALSE]

Stop(c) == [c EXCEPT !.force_quit = TRUE]

-----------------------------------------------------------------------------
(* Orders and infos *)

\* Defect: the orders keep naming a command that is to be removed.
MakeOrdersForAll ==
  [i \in known |->
     [desired_runid |-> commands[i].desired_runid,
      force_quit    |-> commands[i].force_quit,
      auto_respawn  |-> commands[i].auto_respawn]]

\* The commands that _make_orders2_message names, and what it orders.
MakeOrders ==
  [i \in {j \in known : ~commands[j].scheduled_for_removal} |->
     [desired_runid |-> commands[i].desired_runid,
      force_quit    |-> commands[i].force_quit,
      auto_respawn  |-> commands[i].auto_respawn]]

\* Defect: the sheriff does not wait until the deputy has let go of a command.
GoneOnceStopped(info) ==
  {i \in known : /\ commands[i].scheduled_for_removal
                 /\ i \in DOMAIN info => ~info[i].pid}

\* A command that is to be removed is taken off the list when an info does not
\* show it.
Gone(info) == {i \in known \ DOMAIN info : commands[i].scheduled_for_removal}

\* _update_from_deputy_info2.
UpdateFromDeputyInfo(info) ==
  LET shown == DOMAIN info \ Gone(info)
      gone  == Gone(info)
      Entry(i) == IF i \in known THEN commands[i] ELSE Adopted(info[i])
  IN  /\ heard' = TRUE
      /\ known' = (known \cup shown) \ gone
      /\ commands' = [i \in Ids |->
                        CASE i \in shown        -> UpdateFromCmdInfo(Entry(i), info[i])
                          [] i \in known \ (shown \cup gone) -> commands[i]
                          [] OTHER              -> NoCommand]
      /\ fate' = [i \in Ids |->
                    IF i \notin gone THEN fate[i]
                    ELSE IF commands[i].pid = "unknown" \/ fate[i] = "dropped"
                    THEN "dropped" ELSE "removed"]

\* The ids under which the deputy may be running the command that the sheriff
\* lists as i.
Lookalikes(i, info) ==
  {j \in DOMAIN info : Text[j] = Text[i] /\ info[j].auto_respawn = commands[i].auto_respawn}

\* The first info from a deputy is reconciled with the list if it shows some
\* command of the list under an id that no other command has.
MustReconcile(info) ==
  /\ ~heard
  /\ \E i \in known, j \in DOMAIN info :
       j \in Lookalikes(i, info) /\ (j = i \/ j \notin known)

\* What reconciling may rename the commands of the list to.
Renamings(info) ==
  {r \in [known -> Ids] :
     /\ \A i, j \in known : r[i] = r[j] => i = j
     /\ \A i \in known : r[i] # i => r[i] \in Lookalikes(i, info) \ known
     /\ \A i \in known : r[i] = i =>
          \/ i \in Lookalikes(i, info)
          \/ \A j \in Lookalikes(i, info) : j \in known \/ \E k \in known : r[k] = j}

\* Reconciling deletes and inserts entries of the dictionary that the loop
\* iterates over.  The iterator raises RuntimeError ("dictionary keys changed
\* during iteration", Python 3.8 and later) once every command was visited, so
\* the rest of _handle_info2_t does not happen.
Reconcile(info) ==
  \E r \in Renamings(info) :
    /\ known' = {r[i] : i \in known}
    /\ commands' = [j \in Ids |->
                      IF \E i \in known : r[i] = j
                      THEN commands[CHOOSE i \in known : r[i] = j] ELSE NoCommand]
    /\ UNCHANGED <<heard, fate>>

-----------------------------------------------------------------------------
(* Handlers *)

Init ==
  /\ known = {}
  /\ commands = [i \in Ids |-> NoCommand]
  /\ heard = FALSE
  /\ fate = [i \in Ids |-> "unused"]

\* _handle_info2_t.  (Its test of the age of the info reads self.is_observer,
\* a method and so never false: every info is handled.)
ReceiveInfo(info) ==
  IF MustReconcile(info) THEN Reconcile(info) ELSE UpdateFromDeputyInfo(info)

\* Defect: an id is used again as soon as no command has it.
AddCommandReusesId(i, auto_respawn) ==
  /\ i \notin known
  /\ known' = known \cup {i}
  /\ commands' = [commands EXCEPT ![i] = NewCommand(auto_respawn)]
  /\ fate' = [fate EXCEPT ![i] = "used"]
  /\ UNCHANGED heard

\* add_command draws an id that no command has; 2^31 ids make it a fresh one.
AddCommand(i, auto_respawn) ==
  /\ fate[i] = "unused"
  /\ known' = known \cup {i}
  /\ commands' = [commands EXCEPT ![i] = NewCommand(auto_respawn)]
  /\ fate' = [fate EXCEPT ![i] = "used"]
  /\ UNCHANGED heard

Update(i, c) ==
  /\ i \in known
  /\ commands' = [commands EXCEPT ![i] = c]
  /\ UNCHANGED <<known, heard>>

Disturb(i) == fate' = [fate EXCEPT ![i] = IF @ = "used" THEN "disturbed" ELSE @]

StartCommand(i) ==
  /\ commands[i].desired_runid < MaxRunid
  /\ Update(i, Start(commands[i]))
  /\ IF commands[i].desired_runid = 0 THEN UNCHANGED fate ELSE Disturb(i)

RestartCommand(i) ==
  /\ commands[i].desired_runid < MaxRunid
  /\ Update(i, Restart(commands[i]))
  /\ Disturb(i)

StopCommand(i) ==
  /\ Update(i, Stop(commands[i]))
  /\ Disturb(i)

\* set_auto_respawn does not send orders.
SetAutoRespawn(i, auto_respawn) ==
  /\ Update(i, [commands[i] EXCEPT !.auto_respawn = auto_respawn])
  /\ UNCHANGED fate

\* A command that no deputy can have heard of is taken off the list at once.
ScheduleCommandForRemoval(i) ==
  IF heard
  THEN /\ Update(i, [commands[i] EXCEPT !.scheduled_for_removal = TRUE])
       /\ Disturb(i)
  ELSE /\ i \in known
       /\ known' = known \ {i}
       /\ commands' = [commands EXCEPT ![i] = NoCommand]
       /\ fate' = [fate EXCEPT ![i] = "dropped"]
       /\ UNCHANGED heard

\* The sheriff's process ends and another is started: nothing is persistent.
SheriffRestarts ==
  /\ known' = {}
  /\ commands' = [i \in Ids |-> NoCommand]
  /\ heard' = FALSE
  /\ UNCHANGED fate

\* The operations of a user that end with send_orders().
UserOrders ==
  \E i \in Ids :
     \/ \E auto_respawn \in Respawns : AddCommand(i, auto_respawn)
     \/ StartCommand(i)
     \/ RestartCommand(i)
     \/ StopCommand(i)
     \/ ScheduleCommandForRemoval(i)

\* Every variable has its type, and the run ids stay within the bound.
TypeOK ==
  /\ known \subseteq Ids
  /\ commands \in [Ids -> SheriffCommand]
  /\ heard \in BOOLEAN
  /\ fate \in [Ids -> Fate]
====
