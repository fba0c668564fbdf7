------------------------- MODULE SheriffScriptProofs -------------------------
(***************************************************************************)
(* A script that no source of an earlier one disturbs goes on after a wait *)
(* only when the deputy has done what it waited for, for any scripts,      *)
(* commands and infos; and whatever moves it on, a script performs its     *)
(* actions, with those of the scripts it runs, one after another, for any  *)
(* scripts that call one another to any depth.                             *)
(***************************************************************************)
EXTENDS SheriffScript, SequenceTheorems, FiniteSetTheorems, WellFoundedInduction, TLAPS

-----------------------------------------------------------------------------
(* Types *)

SheriffCommand == [
  pid                   : {"unknown", "none", "some"},
  actual_runid          : Nat,
  desired_runid         : Nat,
  force_quit            : BOOLEAN,
  scheduled_for_removal : BOOLEAN,
  auto_respawn          : BOOLEAN ]

DeputyCommand == [pid : BOOLEAN, actual_runid : Nat]

CommandInfo == [pid : BOOLEAN, actual_runid : Nat, auto_respawn : {FALSE}]

\* What is active has the fields of a script; the contexts are whatever get_next_action
\* gives.
IsExecution(e) ==
  /\ e = [context |-> e.context, waitingOn |-> e.waitingOn, waitingFor |-> e.waitingFor,
          timers |-> e.timers, performed |-> e.performed, disturbed |-> e.disturbed,
          outcome |-> e.outcome]
  /\ e.timers \in Nat

Types ==
  /\ known \subseteq Ids
  /\ commands \in [Ids -> SheriffCommand]
  /\ DOMAIN deputy \subseteq Ids
  /\ \A i \in DOMAIN deputy : deputy[i] \in DeputyCommand
  /\ info # <<>> =>
       /\ info = <<info[1]>>
       /\ DOMAIN info[1] \subseteq Ids
       /\ \A i \in DOMAIN info[1] : info[1][i] \in CommandInfo
  /\ IsExecution(active)

-----------------------------------------------------------------------------
(* The invariant *)

\* What the sheriff has heard of i, or will hear from the info under way, is no later than
\* the deputy's command, and of its last run it says truly that it is over; the deputy's
\* command is at most at the run that the sheriff wants.
HeardOf(i, c) ==
  /\ deputy[i].actual_runid <= c.desired_runid
  /\ c.pid # "unknown" => c.actual_runid <= deputy[i].actual_runid
  /\ c.pid = "none" /\ c.actual_runid = deputy[i].actual_runid => ~deputy[i].pid

WillHearOf(i) ==
  info # <<>> /\ i \in DOMAIN info[1] =>
    /\ info[1][i].actual_runid <= deputy[i].actual_runid
    /\ info[1][i].actual_runid = deputy[i].actual_runid /\ ~info[1][i].pid => ~deputy[i].pid

\* A command that the deputy is still to take up has not been reported.
Unreported(i) ==
  /\ commands[i].pid = "unknown"
  /\ info # <<>> => i \notin DOMAIN info[1]

Reports ==
  \A i \in Ids :
    /\ i \notin known => commands[i].scheduled_for_removal
    /\ i \in DOMAIN deputy => HeardOf(i, commands[i]) /\ WillHearOf(i)
    /\ i \notin DOMAIN deputy => commands[i].scheduled_for_removal \/ Unreported(i)

\* The sheriff knows of the command c nothing that is not so.
Told(i, c) ==
  /\ i \in DOMAIN deputy => HeardOf(i, c)
  /\ i \notin DOMAIN deputy => c.scheduled_for_removal \/ c.pid = "unknown"

\* The deputy has done what an action waits for, of the command c, and nothing will undo it;
\* a command that it does not have is to be removed, and will not be taken up.
Done(i, c, wait) ==
  wait \in {"running", "stopped"} =>
    /\ i \in DOMAIN deputy =>
         /\ deputy[i].actual_runid = c.desired_runid
         /\ wait = "stopped" => ~deputy[i].pid
    /\ i \notin DOMAIN deputy => c.scheduled_for_removal

\* The script e is at one place: at a timer with what its action waits for done, or at a
\* wait for all the commands of the action that there are.
AtOnePlace(e, action, cs) ==
  /\ e.timers + (IF e.waitingOn # {} THEN 1 ELSE 0) <= 1
  /\ e.waitingOn # {} =>
       action.cmds \cap known \subseteq e.waitingOn /\ e.waitingFor = action.wait
  /\ e.timers > 0 /\ action.wait # "none" =>
       \A i \in action.cmds \cap known : Done(i, cs[i], action.wait)

Places ==
  /\ Running(active) /\ ~active.disturbed =>
       AtOnePlace(active, ActionAt(active.context), commands)
  /\ ~Running(active) => active.timers = 0 /\ active.waitingOn = {}

IInv == Types /\ Reports /\ Places

-----------------------------------------------------------------------------

\* No command was taken up or reported, and no script is active.
LEMMA InitIInv == Init => IInv
<1> SUFFICES ASSUME Init PROVE IInv
  OBVIOUS
<1>1. Types
  <2>1. DOMAIN deputy = {}
    BY DEF Init
  <2>2. IsExecution(active)
    BY DEF Init, Idle, IsExecution
  <2> QED  BY <2>1, <2>2 DEF Types, Init, SheriffCommand, Sheriff!NewCommand
<1>2. Reports
  <2>1. DOMAIN deputy = {}
    BY DEF Init
  <2> QED  BY <2>1 DEF Init, Reports, Unreported, Sheriff!NewCommand
<1>3. Places
  BY DEF Init, Places, Running, Idle
<1> QED  BY <1>1, <1>2, <1>3 DEF IInv

\* The operations on a command keep its type and what was heard of it, and never ask for an
\* earlier run.
LEMMA ActedFacts ==
  ASSUME NEW type, NEW c \in SheriffCommand
  PROVE  /\ Acted(type, c) \in SheriffCommand
         /\ Acted(type, c).desired_runid >= c.desired_runid
         /\ Acted(type, c).pid = c.pid /\ Acted(type, c).actual_runid = c.actual_runid
         /\ Acted(type, c).scheduled_for_removal = c.scheduled_for_removal
<1>1. PICK n \in Nat, q \in BOOLEAN :
        n >= c.desired_runid /\ Acted(type, c) = [c EXCEPT !.desired_runid = n, !.force_quit = q]
  <2> DEFINE n == c.desired_runid
  <2>1. n \in Nat /\ n + 1 \in Nat /\ n >= n /\ n + 1 >= n /\ c.force_quit \in BOOLEAN
    BY DEF SheriffCommand
  <2>2. c = [c EXCEPT !.desired_runid = n, !.force_quit = c.force_quit]
    BY DEF SheriffCommand
  <2>3. Sheriff!Restart(c) = [c EXCEPT !.desired_runid = n + 1, !.force_quit = FALSE]
    BY DEF Sheriff!Restart
  <2>4. Sheriff!Start(c) \in {c, [c EXCEPT !.desired_runid = n + 1, !.force_quit = FALSE]}
    BY DEF Sheriff!Start
  <2>5. Sheriff!Stop(c) = [c EXCEPT !.desired_runid = n, !.force_quit = TRUE]
    BY DEF Sheriff!Stop, SheriffCommand
  <2>6. Acted(type, c) \in {c, Sheriff!Start(c), Sheriff!Restart(c), Sheriff!Stop(c)}
    BY DEF Acted
  <2> QED  BY <2>1, <2>2, <2>3, <2>4, <2>5, <2>6
<1>2. n \in Nat /\ q \in BOOLEAN
  BY <1>1
<1> QED  BY <1>1, <1>2 DEF SheriffCommand

\* A status that a script waits for is one that the deputy's command has.
LEMMA StatusIsDone ==
  ASSUME Types, NEW i \in Ids, NEW c \in SheriffCommand, Told(i, c)
  PROVE  Done(i, c, Sheriff!Status(c))
<1>1. /\ i \in DOMAIN deputy => deputy[i].actual_runid \in Nat
      /\ c.actual_runid \in Nat /\ c.desired_runid \in Nat
  BY DEF Types, SheriffCommand, DeputyCommand
<1>2. Sheriff!Status(c) \in {"running", "stopped"} =>
        c.pid # "unknown" /\ c.actual_runid = c.desired_runid
  BY DEF Sheriff!Status
<1>3. Sheriff!Status(c) = "stopped" => c.pid = "none"
  BY DEF Sheriff!Status, SheriffCommand
<1> QED  BY <1>1, <1>2, <1>3 DEF HeardOf, Done, Told

\* Done follows for the commands that have the status.
LEMMA SatisfiedIsDone ==
  ASSUME Types, NEW cs \in [Ids -> SheriffCommand], NEW e, Satisfied(e, cs),
         \A i \in Ids : Told(i, cs[i])
  PROVE  \A i \in e.waitingOn \cap Ids : Done(i, cs[i], e.waitingFor)
BY StatusIsDone DEF Satisfied, Types

-----------------------------------------------------------------------------
(* Executing an action *)

\* The fields of a script that performs an action.
LEMMA MovingFields ==
  ASSUME NEW e, IsExecution(e), NEW to, NEW action
  PROVE  [e EXCEPT !.context = to, !.performed = Append(@, action)] =
           [context |-> to, waitingOn |-> e.waitingOn, waitingFor |-> e.waitingFor,
            timers |-> e.timers, performed |-> Append(e.performed, action),
            disturbed |-> e.disturbed, outcome |-> e.outcome]
<1> DEFINE first == [e EXCEPT !.context = to]
           list  == Append(e.performed, action)
<1>1. first = [context |-> to, waitingOn |-> e.waitingOn, waitingFor |-> e.waitingFor,
               timers |-> e.timers, performed |-> e.performed,
               disturbed |-> e.disturbed, outcome |-> e.outcome]
  BY DEF IsExecution
<1> HIDE DEF list
<1>2. [e EXCEPT !.context = to, !.performed = list] = [first EXCEPT !.performed = list]
  BY DEF IsExecution
<1> HIDE DEF first
<1>3. [first EXCEPT !.performed = list] =
        [context |-> to, waitingOn |-> e.waitingOn, waitingFor |-> e.waitingFor,
         timers |-> e.timers, performed |-> list,
         disturbed |-> e.disturbed, outcome |-> e.outcome]
  BY <1>1
<1> QED  BY <1>2, <1>3 DEF list

\* The fields of a script that comes to wait.
LEMMA WaitingFields ==
  ASSUME NEW e, IsExecution(e), NEW on, NEW for
  PROVE  [e EXCEPT !.waitingOn = on, !.waitingFor = for] =
           [context |-> e.context, waitingOn |-> on, waitingFor |-> for, timers |-> e.timers,
            performed |-> e.performed, disturbed |-> e.disturbed, outcome |-> e.outcome]
<1> DEFINE first == [e EXCEPT !.waitingOn = on]
<1>1. first = [context |-> e.context, waitingOn |-> on, waitingFor |-> e.waitingFor,
               timers |-> e.timers, performed |-> e.performed,
               disturbed |-> e.disturbed, outcome |-> e.outcome]
  BY DEF IsExecution
<1>2. [e EXCEPT !.waitingOn = on, !.waitingFor = for] = [first EXCEPT !.waitingFor = for]
  BY DEF IsExecution
<1> HIDE DEF first
<1>3. [first EXCEPT !.waitingFor = for] =
        [context |-> e.context, waitingOn |-> on, waitingFor |-> for, timers |-> e.timers,
         performed |-> e.performed, disturbed |-> e.disturbed, outcome |-> e.outcome]
  BY <1>1
<1> QED  BY <1>2, <1>3

\* The fields of a script that is to begin.
LEMMA IdleFields ==
  ASSUME NEW frames
  PROVE  /\ IsExecution([Idle EXCEPT !.context = frames])
         /\ [Idle EXCEPT !.context = frames].timers = 0
         /\ [Idle EXCEPT !.context = frames].waitingOn = {}
<1> DEFINE e == [Idle EXCEPT !.context = frames]
<1>1. IsExecution(Idle) /\ Idle.timers = 0 /\ Idle.waitingOn = {}
  BY DEF Idle, IsExecution
<1>2. e = [context |-> frames, waitingOn |-> Idle.waitingOn, waitingFor |-> Idle.waitingFor,
           timers |-> Idle.timers, performed |-> Idle.performed,
           disturbed |-> Idle.disturbed, outcome |-> Idle.outcome]
  BY <1>1 DEF IsExecution
<1> HIDE DEF e
<1>3. IsExecution(e) /\ e.timers = 0 /\ e.waitingOn = {}
  BY <1>1, <1>2 DEF IsExecution
<1> QED  BY <1>3 DEF e

\* The fields of a script that a source of an earlier one moves on.
LEMMA DisturbedFields ==
  ASSUME NEW e, IsExecution(e), NEW disturbed
  PROVE  [e EXCEPT !.disturbed = disturbed] =
           [context |-> e.context, waitingOn |-> e.waitingOn, waitingFor |-> e.waitingFor,
            timers |-> e.timers, performed |-> e.performed, disturbed |-> disturbed,
            outcome |-> e.outcome]
BY DEF IsExecution

\* What follows the action that e performs.
FollowedBy(e, cs) ==
  Followed(e, ActionAt(e.context), ActionAt(e.context).cmds \cap known, cs)

\* An action that a script performs while it waits for nothing leaves it at one place.
LEMMA FollowedPlace ==
  ASSUME Types, NEW cs \in [Ids -> SheriffCommand],
         \A i \in Ids : Told(i, cs[i]),
         NEW e, IsExecution(e), NEW next \in FollowedBy(e, cs)
  PROVE  /\ IsExecution(next)
         /\ next.context = e.context /\ next.disturbed = e.disturbed
         /\ e.timers = 0 /\ e.waitingOn = {} => AtOnePlace(next, ActionAt(e.context), cs)
<1> DEFINE action == ActionAt(e.context)
           cmds  == action.cmds \cap known
           waits == [e EXCEPT !.waitingOn = cmds, !.waitingFor = action.wait]
           moves == [e EXCEPT !.timers = @ + 1]
<1>1. next \in Followed(e, action, cmds, cs)
  BY DEF FollowedBy
<1>2. action = ActionAt(e.context)
  OBVIOUS
<1> HIDE DEF action
<1>3. /\ IsExecution(moves) /\ moves.context = e.context /\ moves.disturbed = e.disturbed
      /\ moves.timers = e.timers + 1 /\ moves.waitingOn = e.waitingOn
  <2>1. moves = [context |-> e.context, waitingOn |-> e.waitingOn, waitingFor |-> e.waitingFor,
                 timers |-> e.timers + 1, performed |-> e.performed,
                 disturbed |-> e.disturbed, outcome |-> e.outcome]
    BY DEF IsExecution
  <2>2. e.timers + 1 \in Nat
    BY DEF IsExecution
  <2> HIDE DEF moves
  <2> QED  BY <2>1, <2>2 DEF IsExecution
<1>4. /\ IsExecution(waits) /\ waits.context = e.context /\ waits.disturbed = e.disturbed
      /\ waits.timers = e.timers /\ waits.waitingOn = cmds /\ waits.waitingFor = action.wait
  <2>1. waits = [context |-> e.context, waitingOn |-> cmds, waitingFor |-> action.wait,
                 timers |-> e.timers, performed |-> e.performed,
                 disturbed |-> e.disturbed, outcome |-> e.outcome]
    BY WaitingFields
  <2>2. e.timers \in Nat
    BY DEF IsExecution
  <2> HIDE DEF waits
  <2> QED  BY <2>1, <2>2 DEF IsExecution
<1>5. CASE action.wait = "none"
  <2>1. next = moves
    BY <1>5, <1>1 DEF Followed
  <2> QED  BY <1>3, <1>5, <1>2, <2>1 DEF AtOnePlace
<1>6. CASE action.wait # "none"
  <2>1. next \in {Checked(waits, cs), waits}
    BY <1>6, <1>1 DEF Followed
  <2>2. CASE next = waits
    BY <1>4, <1>2, <2>2 DEF IsExecution, AtOnePlace
  <2>3. CASE next = Checked(waits, cs) /\ Satisfied(waits, cs)
    <3>1. \A i \in waits.waitingOn \cap Ids : Done(i, cs[i], waits.waitingFor)
      BY <2>3, SatisfiedIsDone
    <3>2. next = [waits EXCEPT !.waitingOn = {}, !.waitingFor = "none", !.timers = @ + 1]
      BY <2>3 DEF Checked
    <3> HIDE DEF waits
    <3>3. /\ IsExecution(next) /\ next.context = waits.context
          /\ next.disturbed = waits.disturbed
          /\ next.timers = waits.timers + 1 /\ next.waitingOn = {}
      <4>1. next = [context |-> waits.context, waitingOn |-> {}, waitingFor |-> "none",
                    timers |-> waits.timers + 1, performed |-> waits.performed,
                    disturbed |-> waits.disturbed, outcome |-> waits.outcome]
        BY <1>4, <3>2 DEF IsExecution
      <4>2. waits.timers + 1 \in Nat
        BY <1>4 DEF IsExecution
      <4> QED  BY <4>1, <4>2 DEF IsExecution
    <3> QED  BY <1>4, <1>2, <3>1, <3>3 DEF AtOnePlace, Types
  <2> QED  BY <2>1, <2>2, <2>3 DEF Checked
<1> QED  BY <1>5, <1>6

\* _execute_next_script_action of a script that waits for nothing.
LEMMA ExecuteNextIInv ==
  ASSUME Types, Reports, NEW e, IsExecution(e), NEW left,
         ~e.disturbed => e.timers = 0 /\ e.waitingOn = {},
         ExecuteNext(e, left), UNCHANGED <<known, deputy, info>>
  PROVE  IInv'
<1> DEFINE next   == GetNextAction(e.context)
           action == ActionAt(next)
           cmds   == action.cmds \cap known
           acted  == [i \in Ids |-> IF i \in cmds THEN Acted(action.type, commands[i])
                                   ELSE commands[i]]
           moved  == [e EXCEPT !.context = next, !.performed = Append(@, action)]
<1>1. CASE next = <<>>
  <2>1. active' = [Idle EXCEPT !.outcome = "finished"] /\ UNCHANGED commands
    BY <1>1 DEF ExecuteNext, FinishScript
  <2>2. /\ IsExecution(active)' /\ ~Running(active)'
        /\ active'.timers = 0 /\ active'.waitingOn = {}
    BY <2>1 DEF Idle, IsExecution, Running
  <2>3. Types' /\ Reports'
    BY <2>1, <2>2 DEF Types, Reports, HeardOf, WillHearOf, Unreported
  <2> QED  BY <2>2, <2>3 DEF IInv, Places
<1>2. CASE next # <<>>
  <2>1. commands' = acted /\ active' \in Followed(moved, action, cmds, acted)
    BY <1>2 DEF ExecuteNext
  <2>2. /\ acted \in [Ids -> SheriffCommand]
        /\ \A i \in Ids :
             /\ acted[i].desired_runid >= commands[i].desired_runid
             /\ acted[i].pid = commands[i].pid
             /\ acted[i].actual_runid = commands[i].actual_runid
             /\ acted[i].scheduled_for_removal = commands[i].scheduled_for_removal
    <3>1. ASSUME NEW i \in Ids
          PROVE  /\ acted[i] \in SheriffCommand
                 /\ acted[i].desired_runid >= commands[i].desired_runid
                 /\ acted[i].pid = commands[i].pid
                 /\ acted[i].actual_runid = commands[i].actual_runid
                 /\ acted[i].scheduled_for_removal = commands[i].scheduled_for_removal
      <4>1. commands[i] \in SheriffCommand /\ commands[i].desired_runid \in Nat
        BY DEF Types, SheriffCommand
      <4>2. acted[i] \in {Acted(action.type, commands[i]), commands[i]}
        OBVIOUS
      <4> HIDE DEF acted
      <4> QED  BY <4>1, <4>2, ActedFacts
    <3> QED  BY <3>1
  <2>3. \A i \in Ids : Told(i, acted[i])
    <3> HIDE DEF acted
    <3>1. ASSUME NEW i \in Ids PROVE Told(i, acted[i])
      <4>1. Told(i, commands[i])
        BY DEF Types, Reports, Told, Unreported
      <4>2. /\ acted[i].desired_runid \in Nat /\ commands[i].desired_runid \in Nat
            /\ i \in DOMAIN deputy => deputy[i].actual_runid \in Nat
        BY <2>2 DEF Types, SheriffCommand, DeputyCommand
      <4> QED  BY <2>2, <4>1, <4>2 DEF HeardOf, Told
    <3> QED  BY <3>1
  <2>4. /\ IsExecution(moved) /\ moved.context = next /\ moved.disturbed = e.disturbed
        /\ moved.timers = e.timers /\ moved.waitingOn = e.waitingOn
    <3> HIDE DEF next, action
    <3>1. moved = [context |-> next, waitingOn |-> e.waitingOn, waitingFor |-> e.waitingFor,
                   timers |-> e.timers, performed |-> Append(e.performed, action),
                   disturbed |-> e.disturbed, outcome |-> e.outcome]
      BY MovingFields
    <3>2. e.timers \in Nat
      BY DEF IsExecution
    <3> HIDE DEF moved, next, action
    <3> QED  BY <3>1, <3>2 DEF IsExecution
  <2> HIDE DEF next, acted, moved
  <2>5. action = ActionAt(moved.context)
    BY <2>4
  <2>6. /\ IsExecution(active')
        /\ active'.context = moved.context /\ active'.disturbed = moved.disturbed
        /\ moved.timers = 0 /\ moved.waitingOn = {} => AtOnePlace(active', action, acted)
    <3>1. active' \in FollowedBy(moved, acted)
      BY <2>1, <2>5 DEF FollowedBy
    <3>2. \A n \in FollowedBy(moved, acted) :
            /\ IsExecution(n)
            /\ n.context = moved.context /\ n.disturbed = moved.disturbed
            /\ moved.timers = 0 /\ moved.waitingOn = {} =>
                 AtOnePlace(n, ActionAt(moved.context), acted)
      BY <2>2, <2>3, <2>4, FollowedPlace, Zenon
    <3> QED  BY <2>5, <3>1, <3>2 DEF AtOnePlace
  <2>7. Places'
    <3>1. ActionAt(active'.context) = action /\ active'.context # <<>>
      BY <1>2, <2>4, <2>6 DEF next
    <3> HIDE DEF action
    <3> QED  BY <2>1, <2>4, <2>6, <3>1 DEF Places, Running, AtOnePlace, Done
  <2>8. Types'
    BY <2>1, <2>2, <2>6 DEF Types
  <2>9. Reports'
    BY <2>1, <2>2, <2>3 DEF Reports, Told, HeardOf, WillHearOf, Unreported
  <2> QED  BY <2>7, <2>8, <2>9 DEF IInv
<1> QED  BY <1>1, <1>2

\* A script that ends, or is aborted, leaves none.
LEMMA FinishIInv ==
  ASSUME IInv, NEW left, NEW outcome, FinishScript(active, left, outcome),
         UNCHANGED <<known, deputy, info>>
  PROVE  IInv'
<1>1. active' = [Idle EXCEPT !.outcome = outcome] /\ UNCHANGED commands
  BY DEF FinishScript
<1>2. /\ IsExecution(active)' /\ ~Running(active)'
      /\ active'.timers = 0 /\ active'.waitingOn = {}
  BY <1>1 DEF Idle, IsExecution, Running
<1>3. Types' /\ Reports'
  BY <1>1, <1>2 DEF IInv, Types, Reports, HeardOf, WillHearOf, Unreported
<1> QED  BY <1>2, <1>3 DEF IInv, Places

\* execute_script starts from a script that waits for nothing.
LEMMA ExecuteScriptIInv ==
  ASSUME IInv, NEW script \in Scripts, ExecuteScript(script) PROVE IInv'
<1>1. UNCHANGED <<known, deputy, info>>
  BY DEF ExecuteScript
<1>2. CASE HasErrors(script)
  BY <1>1, <1>2, FinishIInv DEF ExecuteScript
<1>3. CASE ~HasErrors(script)
  <2> DEFINE e == [Idle EXCEPT !.context = <<Called(script)>>]
  <2>1. ExecuteNext(e, stale + active.timers)
    BY <1>3 DEF ExecuteScript
  <2>2. IsExecution(e) /\ e.timers = 0 /\ e.waitingOn = {}
    BY IdleFields
  <2> HIDE DEF e
  <2> QED  BY <1>1, <2>1, <2>2, ExecuteNextIInv DEF IInv
<1> QED  BY <1>2, <1>3

\* The timer that fires was the only thing that moves the script on.
LEMMA TimerIInv == ASSUME IInv, TimerFires PROVE IInv'
<1> DEFINE e == [active EXCEPT !.timers = @ - 1]
<1>1. ExecuteNext(e, stale) /\ UNCHANGED <<known, deputy, info>> /\ active.timers > 0
  BY DEF TimerFires
<1>2. IsExecution(active)
  BY DEF IInv, Types
<1>3. /\ IsExecution(e) /\ e.disturbed = active.disturbed
      /\ e.timers = active.timers - 1 /\ e.waitingOn = active.waitingOn
  <2>1. e = [context |-> active.context, waitingOn |-> active.waitingOn,
             waitingFor |-> active.waitingFor, timers |-> active.timers - 1,
             performed |-> active.performed, disturbed |-> active.disturbed,
             outcome |-> active.outcome]
    BY <1>2 DEF IsExecution
  <2>2. active.timers - 1 \in Nat
    BY <1>1, <1>2 DEF IsExecution
  <2> HIDE DEF e
  <2> QED  BY <2>1, <2>2 DEF IsExecution
<1> HIDE DEF e
<1>4. ~e.disturbed => e.timers = 0 /\ e.waitingOn = {}
  BY <1>1, <1>2, <1>3 DEF IInv, Places, AtOnePlace, IsExecution
<1> QED  BY <1>1, <1>3, <1>4, ExecuteNextIInv DEF IInv

\* A source of an earlier script marks the script that it moves on.
LEMMA StaleTimerIInv == ASSUME IInv, StaleTimerFires PROVE IInv'
<1>1. CASE Running(active)
  <2> DEFINE e == [active EXCEPT !.disturbed = TRUE]
  <2>1. ExecuteNext(e, stale - 1) /\ UNCHANGED <<known, deputy, info>>
    BY <1>1 DEF StaleTimerFires
  <2>2. IsExecution(e) /\ e.disturbed
    <3>1. IsExecution(active)
      BY DEF IInv, Types
    <3>2. e = [context |-> active.context, waitingOn |-> active.waitingOn,
               waitingFor |-> active.waitingFor, timers |-> active.timers,
               performed |-> active.performed, disturbed |-> TRUE,
               outcome |-> active.outcome]
      BY <3>1, DisturbedFields
    <3> HIDE DEF e
    <3> QED  BY <3>1, <3>2 DEF IsExecution
  <2> HIDE DEF e
  <2> QED  BY <2>1, <2>2, ExecuteNextIInv DEF IInv
<1>2. CASE ~Running(active)
  BY <1>2 DEF StaleTimerFires, IInv, Types, Reports, HeardOf, WillHearOf, Unreported,
    Places, AtOnePlace, Done
<1> QED  BY <1>1, <1>2

\* The GUI takes a command off, once.
LEMMA RemoveIInv == ASSUME IInv, NEW i \in Ids, RemoveCommand(i) PROVE IInv'
<1>1. /\ commands' = [commands EXCEPT ![i].scheduled_for_removal = TRUE]
      /\ UNCHANGED <<known, deputy, info, active>>
  BY DEF RemoveCommand
<1>2. commands' \in [Ids -> SheriffCommand]
  BY <1>1 DEF IInv, Types, SheriffCommand
<1>3. \A j \in Ids :
        /\ commands'[j].pid = commands[j].pid
        /\ commands'[j].actual_runid = commands[j].actual_runid
        /\ commands'[j].desired_runid = commands[j].desired_runid
        /\ commands[j].scheduled_for_removal => commands'[j].scheduled_for_removal
  BY <1>1 DEF IInv, Types, SheriffCommand
<1>4. Types'
  BY <1>1, <1>2 DEF IInv, Types
<1>5. Reports'
  BY <1>1, <1>3 DEF IInv, Types, Reports, HeardOf, WillHearOf, Unreported
<1>6. Places'
  BY <1>1, <1>3 DEF IInv, Types, Places, AtOnePlace, Done
<1> QED  BY <1>4, <1>5, <1>6 DEF IInv

-----------------------------------------------------------------------------
(* The deputy, and what it reports *)

\* The deputy takes orders up, obeys them or drops the command.
LEMMA DeputyObeysIInv == ASSUME IInv, NEW i \in Ids, DeputyObeys(i) PROVE IInv'
<1>1. UNCHANGED <<known, commands, info, active>>
  BY DEF DeputyObeys
<1>2. CASE ~Ordered(i)
  <2>1. /\ DOMAIN deputy' = DOMAIN deputy \ {i}
        /\ \A j \in DOMAIN deputy' : deputy'[j] = deputy[j]
    BY <1>2 DEF DeputyObeys
  <2>2. commands[i].scheduled_for_removal
    BY <1>2 DEF Ordered, IInv, Reports
  <2>3. Types'
    BY <1>1, <2>1 DEF IInv, Types
  <2>4. Reports'
    BY <1>1, <2>1, <2>2 DEF IInv, Reports, HeardOf, WillHearOf, Unreported
  <2>5. Places'
    <3>1. \A j, wait : Done(j, commands[j], wait) => Done(j, commands[j], wait)'
      BY <1>1, <2>1, <2>2 DEF Done
    <3> QED  BY <1>1, <3>1 DEF IInv, Places, AtOnePlace
  <2> QED  BY <2>3, <2>4, <2>5 DEF IInv
<1>3. CASE Ordered(i)
  <2> DEFINE c == commands[i]
             d == IF i \in DOMAIN deputy THEN deputy[i]
                  ELSE [pid |-> FALSE, actual_runid |-> 0]
             rerun == c.desired_runid # d.actual_runid
             obeyed == IF d.pid
                       THEN IF c.force_quit \/ rerun THEN [d EXCEPT !.pid = FALSE] ELSE d
                       ELSE [pid |-> rerun /\ ~c.force_quit, actual_runid |-> c.desired_runid]
  <2>1. /\ DOMAIN deputy' = DOMAIN deputy \cup {i}
        /\ deputy'[i] = obeyed
        /\ \A j \in DOMAIN deputy' : j # i => deputy'[j] = deputy[j]
    BY <1>3 DEF DeputyObeys
  <2>2. c \in SheriffCommand /\ d \in DeputyCommand /\ ~c.scheduled_for_removal
    BY <1>3 DEF IInv, Types, DeputyCommand, Ordered
  <2>3. \/ HeardOf(i, c) /\ WillHearOf(i) /\ i \in DOMAIN deputy
        \/ Unreported(i) /\ i \notin DOMAIN deputy
    BY <2>2 DEF IInv, Reports
  <2>4. d.actual_runid <= c.desired_runid
    BY <2>2, <2>3 DEF HeardOf, Unreported, SheriffCommand
  <2> HIDE DEF d
  <2>5. /\ obeyed \in DeputyCommand
        /\ obeyed.actual_runid \in {d.actual_runid, c.desired_runid}
        /\ obeyed.pid => obeyed.actual_runid = c.desired_runid
        /\ obeyed.pid /\ ~d.pid => d.actual_runid # c.desired_runid
    BY <2>2 DEF DeputyCommand, SheriffCommand
  <2>6. i \in DOMAIN deputy => d = deputy[i]
    BY DEF d
  <2>7. /\ c.desired_runid \in Nat /\ c.actual_runid \in Nat
        /\ d.actual_runid \in Nat /\ obeyed.actual_runid \in Nat
        /\ d.pid \in BOOLEAN /\ obeyed.pid \in BOOLEAN
    BY <2>2, <2>5 DEF SheriffCommand, DeputyCommand
  <2>8. c = commands[i] /\ i \in DOMAIN deputy'
    BY <2>1
  <2> HIDE DEF c, obeyed, rerun
  <2>9. Types'
    BY <1>1, <2>1, <2>5 DEF IInv, Types
  <2>10. HeardOf(i, commands[i])' /\ WillHearOf(i)'
    <3>1. (info # <<>> /\ i \in DOMAIN info[1]) => info[1][i].actual_runid \in Nat
      BY DEF IInv, Types, CommandInfo
    <3>2. HeardOf(i, commands[i])'
      BY <1>1, <2>1, <2>3, <2>4, <2>5, <2>6, <2>7, <2>8 DEF HeardOf, Unreported
    <3>3. WillHearOf(i)'
      BY <1>1, <2>1, <2>3, <2>4, <2>5, <2>6, <2>7, <2>8, <3>1 DEF WillHearOf, Unreported
    <3> QED  BY <3>2, <3>3
  <2>11. Reports'
    BY <1>1, <2>1, <2>8, <2>10 DEF IInv, Reports, HeardOf, WillHearOf, Unreported
  <2>12. \A wait : Done(i, c, wait) => Done(i, commands[i], wait)'
    BY <1>1, <2>1, <2>2, <2>4, <2>5, <2>6, <2>7, <2>8 DEF Done
  <2>13. \A j \in Ids : \A wait : Done(j, commands[j], wait) => Done(j, commands[j], wait)'
    BY <1>1, <2>1, <2>8, <2>12 DEF Done
  <2>14. Places'
    BY <1>1, <2>13 DEF IInv, Types, Places, AtOnePlace
  <2> QED  BY <2>9, <2>11, <2>14 DEF IInv
<1> QED  BY <1>2, <1>3

\* A process that is gone makes true what was heard of it or waited for.
LEMMA ProcessExitsIInv == ASSUME IInv, NEW i \in Ids, ProcessExits(i) PROVE IInv'
<1>1. /\ deputy' = [deputy EXCEPT ![i].pid = FALSE] /\ i \in DOMAIN deputy
      /\ UNCHANGED <<known, commands, info, active>>
  BY DEF ProcessExits
<1>2. /\ DOMAIN deputy' = DOMAIN deputy
      /\ \A j \in DOMAIN deputy :
           /\ deputy'[j] \in DeputyCommand
           /\ deputy'[j].actual_runid = deputy[j].actual_runid
           /\ ~deputy[j].pid => ~deputy'[j].pid
  BY <1>1 DEF IInv, Types, DeputyCommand
<1>3. Types'
  BY <1>1, <1>2 DEF IInv, Types
<1>4. Reports'
  BY <1>1, <1>2 DEF IInv, Types, Reports, HeardOf, WillHearOf, Unreported
<1>5. Places'
  BY <1>1, <1>2 DEF IInv, Types, Places, AtOnePlace, Done
<1> QED  BY <1>3, <1>4, <1>5 DEF IInv

\* The deputy reports what is so.
LEMMA DeputyReportsIInv == ASSUME IInv, DeputyReports PROVE IInv'
<1> DEFINE report == [i \in DOMAIN deputy |-> [pid          |-> deputy[i].pid,
                                              actual_runid |-> deputy[i].actual_runid,
                                              auto_respawn |-> FALSE]]
<1>1. info' = <<report>> /\ UNCHANGED <<known, commands, deputy, active>>
  BY DEF DeputyReports
<1>2. /\ DOMAIN report = DOMAIN deputy
      /\ \A i \in DOMAIN deputy :
           /\ report[i] \in CommandInfo
           /\ report[i].actual_runid = deputy[i].actual_runid /\ report[i].pid = deputy[i].pid
  BY DEF IInv, Types, CommandInfo, DeputyCommand
<1> HIDE DEF report
<1>3. info'[1] = report /\ info' = <<info'[1]>>
  BY <1>1
<1>4. Types'
  BY <1>1, <1>2, <1>3 DEF IInv, Types
<1>5. \A i \in DOMAIN deputy : deputy[i].actual_runid \in Nat
  BY DEF IInv, Types, DeputyCommand
<1>6. Reports'
  BY <1>1, <1>2, <1>3, <1>5 DEF IInv, Reports, HeardOf, WillHearOf, Unreported
<1>7. Places'
  BY <1>1 DEF IInv, Places, AtOnePlace, Done
<1> QED  BY <1>4, <1>6, <1>7 DEF IInv

\* An info makes the sheriff know what the deputy has done, or had done when it reported.
LEMMA UpdatedFacts ==
  ASSUME NEW c \in SheriffCommand, NEW report \in CommandInfo
  PROVE  /\ Sheriff!UpdateFromCmdInfo(c, report) \in SheriffCommand
         /\ LET u == Sheriff!UpdateFromCmdInfo(c, report)
            IN  /\ u.desired_runid = c.desired_runid
                /\ u.scheduled_for_removal = c.scheduled_for_removal
                /\ u.actual_runid = report.actual_runid
                /\ u.pid \in {"none", "some"}
                /\ u.pid = "none" => ~report.pid
<1>1. PICK pid \in {"none", "some"}, quits \in BOOLEAN :
        /\ pid = "none" => ~report.pid
        /\ Sheriff!UpdateFromCmdInfo(c, report) =
             [c EXCEPT !.pid = pid, !.actual_runid = report.actual_runid, !.force_quit = quits]
  <2> DEFINE quits == \/ c.force_quit
                      \/ /\ ~report.pid /\ report.actual_runid = c.desired_runid
                         /\ ~c.auto_respawn
             pid   == IF report.pid THEN "some" ELSE "none"
  <2>1. pid \in {"none", "some"} /\ quits \in BOOLEAN /\ (pid = "none" => ~report.pid)
    OBVIOUS
  <2>2. Sheriff!UpdateFromCmdInfo(c, report) =
          [c EXCEPT !.pid = pid, !.actual_runid = report.actual_runid, !.force_quit = quits]
    BY Zenon DEF Sheriff!UpdateFromCmdInfo
  <2> HIDE DEF quits, pid
  <2> QED  BY <2>1, <2>2, Zenon
<1>2. report.actual_runid \in Nat /\ report.pid \in BOOLEAN
  BY DEF CommandInfo
<1> QED  BY <1>1, <1>2 DEF SheriffCommand

\* A wait that an info ends has been met.
LEMMA ReceiveInfoIInv == ASSUME IInv, ReceiveInfo PROVE IInv'
<1> DEFINE report  == info[1]
           shown   == known \cap DOMAIN report
           gone    == Sheriff!Gone(report)
           updated == [i \in Ids |-> IF i \in shown
                                     THEN Sheriff!UpdateFromCmdInfo(commands[i], report[i])
                                     ELSE commands[i]]
<1>1. /\ info # <<>> /\ info' = <<>> /\ known' = known \ gone /\ commands' = updated
      /\ active' \in {active, Checked(active, updated)}
      /\ deputy' = deputy
  BY DEF ReceiveInfo
<1>2. /\ IsExecution(active)
      /\ DOMAIN report \subseteq Ids
      /\ \A i \in DOMAIN report : report[i] \in CommandInfo
  BY <1>1 DEF IInv, Types
<1>3. \A i \in gone : i \in known /\ commands[i].scheduled_for_removal
  BY DEF Sheriff!Gone
<1>4. ASSUME NEW i \in Ids
      PROVE  /\ updated[i] \in SheriffCommand
             /\ updated[i].desired_runid = commands[i].desired_runid
             /\ updated[i].scheduled_for_removal = commands[i].scheduled_for_removal
             /\ Told(i, updated[i])
  <2>1. commands[i] \in SheriffCommand
    BY DEF IInv, Types
  <2>2. CASE i \in shown
    <3>1. report[i] \in CommandInfo
      BY <1>2, <2>2
    <3>2. updated[i] = Sheriff!UpdateFromCmdInfo(commands[i], report[i])
      BY <2>2
    <3>3. \/ i \in DOMAIN deputy /\ HeardOf(i, commands[i]) /\ WillHearOf(i)
          \/ i \notin DOMAIN deputy /\ commands[i].scheduled_for_removal
      BY <1>1, <2>2 DEF IInv, Reports, Unreported
    <3> HIDE DEF updated
    <3>4. /\ updated[i] \in SheriffCommand
          /\ updated[i].desired_runid = commands[i].desired_runid
          /\ updated[i].scheduled_for_removal = commands[i].scheduled_for_removal
          /\ updated[i].actual_runid = report[i].actual_runid
          /\ updated[i].pid \in {"none", "some"}
          /\ updated[i].pid = "none" => ~report[i].pid
      BY <2>1, <3>1, <3>2, UpdatedFacts
    <3> QED  BY <1>1, <2>2, <3>3, <3>4 DEF Told, HeardOf, WillHearOf
  <2>3. CASE i \notin shown
    <3>1. updated[i] = commands[i]
      BY <2>3
    <3> HIDE DEF updated
    <3> QED  BY <2>1, <3>1 DEF IInv, Reports, Told, Unreported
  <2> QED  BY <2>2, <2>3
<1>5. updated \in [Ids -> SheriffCommand]
  BY <1>4
<1>6. CASE active' = Checked(active, updated) /\ Satisfied(active, updated)
  <2>1. \A i \in active.waitingOn \cap Ids : Done(i, updated[i], active.waitingFor)
    <3> HIDE DEF updated
    <3> QED  BY <1>4, <1>5, <1>6, SatisfiedIsDone DEF IInv
  <2>2. active' = [active EXCEPT !.waitingOn = {}, !.waitingFor = "none", !.timers = @ + 1]
    BY <1>6 DEF Checked
  <2>3. active.waitingOn # {}
    BY <1>6 DEF Satisfied
  <2> HIDE DEF updated, gone, shown, report
  <2>4. /\ IsExecution(active') /\ active'.context = active.context
        /\ active'.disturbed = active.disturbed
        /\ active'.timers = active.timers + 1 /\ active'.waitingOn = {}
    <3>1. active' = [context |-> active.context, waitingOn |-> {}, waitingFor |-> "none",
                     timers |-> active.timers + 1, performed |-> active.performed,
                     disturbed |-> active.disturbed, outcome |-> active.outcome]
      BY <1>2, <2>2 DEF IsExecution
    <3>2. active.timers + 1 \in Nat
      BY <1>2 DEF IsExecution
    <3> QED  BY <3>1, <3>2 DEF IsExecution
  <2>5. Types'
    BY <1>1, <1>5, <2>4 DEF IInv, Types
  <2>6. Running(active)
    BY <2>3 DEF IInv, Places
  <2>7. Running(active)' /\ ActionAt(active.context)' = ActionAt(active.context)
    BY <2>4, <2>6 DEF Running, ActionAt
  <2>8. Places'
    <3> DEFINE action == ActionAt(active.context)
    <3>1. ~active.disturbed => AtOnePlace(active, action, commands)
      BY <2>6 DEF IInv, Places
    <3>2. action' = action
      BY <2>7
    <3> HIDE DEF action
    <3>3. ~active'.disturbed =>
            /\ active'.timers = 1 /\ active'.waitingOn = {}
            /\ \A i \in action.cmds \cap known' : Done(i, updated[i], action.wait)
      BY <1>1, <1>2, <2>1, <2>3, <2>4, <3>1 DEF AtOnePlace, IInv, Types, IsExecution
    <3>4. ~active'.disturbed => AtOnePlace(active, action, commands)'
      BY <1>1, <3>2, <3>3 DEF AtOnePlace, Done
    <3> QED  BY <2>7, <3>4 DEF Places, action
  <2>9. Reports'
    BY <1>1, <1>3, <1>4, <1>5, <2>5 DEF IInv, Reports, Told, HeardOf, WillHearOf, Unreported
  <2> QED  BY <2>5, <2>8, <2>9 DEF IInv
<1>7. CASE active' = active
  <2> HIDE DEF updated, gone, shown, report
  <2>1. Types'
    BY <1>1, <1>5, <1>7 DEF IInv, Types
  <2>2. Reports'
    BY <1>1, <1>3, <1>4, <1>5, <2>1 DEF IInv, Reports, Told, HeardOf, WillHearOf, Unreported
  <2>3. \A i \in known : \A wait : Done(i, commands[i], wait) => Done(i, commands[i], wait)'
    BY <1>1, <1>4 DEF Done, IInv, Types
  <2>4. Places'
    BY <1>1, <1>7, <2>3 DEF IInv, Places, AtOnePlace
  <2> QED  BY <2>1, <2>2, <2>4 DEF IInv
<1> QED  BY <1>1, <1>6, <1>7 DEF Checked

\* Every step keeps the invariant.
LEMMA NextIInv == IInv /\ [Next]_vars => IInv'
<1> SUFFICES ASSUME IInv, [Next]_vars PROVE IInv'
  OBVIOUS
<1>1. ASSUME NEW script \in Scripts, ExecuteScript(script) PROVE IInv'
  BY <1>1, ExecuteScriptIInv
<1>2. CASE AbortScript
  BY <1>2, FinishIInv DEF AbortScript
<1>3. CASE TimerFires
  BY <1>3, TimerIInv
<1>4. CASE StaleTimerFires
  BY <1>4, StaleTimerIInv
<1>5. CASE ReceiveInfo
  BY <1>5, ReceiveInfoIInv
<1>6. CASE DeputyReports
  BY <1>6, DeputyReportsIInv
<1>7. ASSUME NEW i \in Ids, RemoveCommand(i) \/ DeputyObeys(i) \/ ProcessExits(i) PROVE IInv'
  BY <1>7, RemoveIInv, DeputyObeysIInv, ProcessExitsIInv
<1>8. CASE UNCHANGED vars
  BY <1>8 DEF vars, IInv, Types, Reports, HeardOf, WillHearOf, Unreported, Places,
    AtOnePlace, Done
<1> QED  BY <1>1, <1>2, <1>3, <1>4, <1>5, <1>6, <1>7, <1>8 DEF Next

-----------------------------------------------------------------------------

\* The invariant holds of every execution, whatever the scripts are.
THEOREM Invariance == Spec => []IInv
BY InitIInv, NextIInv, PTL DEF Spec

\* Unless a source that an aborted script left behind has interfered, a script is moved on by
\* one thing at a time, and when it goes on after a wait, the commands have done what it waited
\* for, by the deputy's state: for any scripts, and for scripts that call one another.
THEOREM WaitsMet == Spec => []WaitsAreMet
<1>1. IInv => WaitsAreMet
  <2> SUFFICES ASSUME IInv, Running(active), ~active.disturbed
               PROVE  /\ OneThread
                      /\ active.timers > 0 /\ ActionAt(active.context).wait # "none" =>
                           \A i \in ActionAt(active.context).cmds \cap known \cap DOMAIN deputy :
                              Achieved(i, ActionAt(active.context).wait)
    BY DEF WaitsAreMet
  <2> DEFINE action == ActionAt(active.context)
  <2>1. AtOnePlace(active, action, commands)
    BY DEF IInv, Places
  <2> HIDE DEF action
  <2>2. OneThread
    BY <2>1 DEF OneThread, AtOnePlace
  <2>3. active.timers > 0 /\ action.wait # "none" =>
          \A i \in action.cmds \cap known \cap DOMAIN deputy : Achieved(i, action.wait)
    BY <2>1 DEF AtOnePlace, Achieved, Done
  <2> QED  BY <2>2, <2>3 DEF action
<1> QED  BY <1>1, Invariance, PTL

-----------------------------------------------------------------------------
(* Recursion: an order in which there is always a least lets a recursion have a solution *)

\* A set of naturals that is not empty has a least element.
LEMMA LeastNat ==
  ASSUME NEW T, T \subseteq Nat, T # {}
  PROVE  \E x \in T : \A y \in T : x <= y
<1> DEFINE R == OpToRel(<, Nat)
<1>1. IsWellFoundedOn(R, Nat)
  BY NatLessThanWellFounded
<1>2. \A x, y \in Nat : y < x => <<y, x>> \in R
  BY DEF OpToRel
<1> HIDE DEF R
<1>3. PICK x \in T : \A y \in T : ~ (<<y, x>> \in R)
  BY <1>1, WFMin
<1>4. ASSUME NEW y \in T PROVE x <= y
  <2>1. ~(y < x)
    BY <1>2, <1>3
  <2> QED  BY <2>1
<1> QED
  BY <1>4

\* Every set that is not empty has an element with nothing below it.
Founded(S, R) == \A T \in SUBSET S : T # {} => \E x \in T : \A y \in T : <<y, x>> \notin R

Below(S, R, x) == {y \in S : <<y, x>> \in R}

\* A step defines what it gives for x by what there is below x.
Local(S, V, R, step) ==
  /\ step \in [S \X [S -> V] -> V]
  /\ \A x \in S : \A g, h \in [S -> V] :
       (\A y \in Below(S, R, x) : g[y] = h[y]) => step[<<x, g>>] = step[<<x, h>>]

\* On D, which what is below its elements belongs to, g is as the recursion says.
SolvesOn(S, R, step, D, g) ==
  /\ D \subseteq S
  /\ \A x \in D : Below(S, R, x) \subseteq D /\ g[x] = step[<<x, g>>]

\* Two that are so agree where both are.
LEMMA SolutionsAgree ==
  ASSUME NEW S, NEW V, NEW R, NEW step, Founded(S, R), Local(S, V, R, step),
         NEW D, NEW g \in [S -> V], NEW E, NEW h \in [S -> V],
         SolvesOn(S, R, step, D, g), SolvesOn(S, R, step, E, h)
  PROVE  \A x \in D \cap E : g[x] = h[x]
<1> DEFINE T == {x \in D \cap E : g[x] # h[x]}
<1> SUFFICES ASSUME T # {} PROVE FALSE
  OBVIOUS
<1>1. T \in SUBSET S
  BY DEF SolvesOn
<1>2. PICK x \in T : \A y \in T : <<y, x>> \notin R
  <2> HIDE DEF T
  <2> QED  BY <1>1 DEF Founded
<1>3. x \in S /\ Below(S, R, x) \subseteq D \cap E
  BY DEF SolvesOn
<1>4. \A y \in Below(S, R, x) : g[y] = h[y]
  BY <1>2, <1>3 DEF Below
<1>5. step[<<x, g>>] = step[<<x, h>>]
  BY <1>3, <1>4 DEF Local
<1> QED
  BY <1>5 DEF SolvesOn

\* A recursion over an order in which everything comes down to something has a solution.
LEMMA Recursion ==
  ASSUME NEW S, NEW V, NEW R, NEW step, V # {}, Founded(S, R), Local(S, V, R, step)
  PROVE  \E f \in [S -> V] : \A x \in S : f[x] = step[<<x, f>>]
<1> DEFINE Solves(D, g) == SolvesOn(S, R, step, D, g)
           Good(x) == \E D, g : x \in D /\ g \in [S -> V] /\ Solves(D, g)
           T == {x \in S : ~Good(x)}
<1>1. ASSUME T # {} PROVE FALSE
  <2>1. PICK x \in T : \A y \in T : <<y, x>> \notin R
    <3> HIDE DEF T
    <3>1. T \in SUBSET S
      BY DEF T
    <3> QED  BY <1>1, <3>1 DEF Founded
  <2>2. x \in S /\ ~Good(x)
    OBVIOUS
  <2>3. \A y \in Below(S, R, x) : Good(y)
    BY <2>1 DEF Below
  <2> HIDE DEF Good
  <2> DEFINE DD == [y \in Below(S, R, x) |->
                     CHOOSE p : y \in p[1] /\ p[2] \in [S -> V] /\ Solves(p[1], p[2])]
             D == UNION {DD[y][1] : y \in Below(S, R, x)}
             v0 == CHOOSE v \in V : TRUE
             G == [z \in S |-> IF z \in D
                               THEN DD[CHOOSE y \in Below(S, R, x) : z \in DD[y][1]][2][z]
                               ELSE v0]
             H == [z \in S |-> IF z = x THEN step[<<x, G>>] ELSE G[z]]
  <2>4. \A y \in Below(S, R, x) :
          y \in DD[y][1] /\ DD[y][2] \in [S -> V] /\ Solves(DD[y][1], DD[y][2])
    <3> SUFFICES ASSUME NEW y \in Below(S, R, x)
                 PROVE  y \in DD[y][1] /\ DD[y][2] \in [S -> V] /\ Solves(DD[y][1], DD[y][2])
      OBVIOUS
    <3> HIDE DEF Solves
    <3>1. PICK A, g : y \in A /\ g \in [S -> V] /\ Solves(A, g)
      BY <2>3 DEF Good
    <3> DEFINE p == <<A, g>>
    <3>2. y \in p[1] /\ p[2] \in [S -> V] /\ Solves(p[1], p[2])
      BY <3>1
    <3>3. \E q : y \in q[1] /\ q[2] \in [S -> V] /\ Solves(q[1], q[2])
      <4> HIDE DEF p
      <4> QED BY <3>2
    <3> QED
      BY <3>3
  <2> HIDE DEF DD
  <2>5. v0 \in V
    OBVIOUS
  <2>6. ASSUME NEW y \in Below(S, R, x), NEW z \in DD[y][1] PROVE z \in S /\ G[z] = DD[y][2][z]
    <3> DEFINE w == CHOOSE q \in Below(S, R, x) : z \in DD[q][1]
    <3>1. z \in S
      BY <2>4 DEF SolvesOn
    <3>2. w \in Below(S, R, x) /\ z \in DD[w][1]
      OBVIOUS
    <3>3. G[z] = DD[w][2][z]
      BY <3>1
    <3>4. DD[w][2][z] = DD[y][2][z]
      <4> HIDE DEF w
      <4> DEFINE A == DD[w][1]  g == DD[w][2]  B == DD[y][1]  h == DD[y][2]
      <4>1. g \in [S -> V] /\ h \in [S -> V] /\ SolvesOn(S, R, step, A, g)
            /\ SolvesOn(S, R, step, B, h) /\ z \in A \cap B
        BY <2>4, <3>2
      <4> HIDE DEF A, g, B, h
      <4>2. \A q \in A \cap B : g[q] = h[q]
        BY <4>1, SolutionsAgree
      <4>3. g[z] = h[z]
        BY <4>1, <4>2
      <4> QED  BY <4>3 DEF g, h
    <3> QED
      BY <3>1, <3>3, <3>4
  <2>7. G \in [S -> V]
    <3> SUFFICES ASSUME NEW z \in S PROVE G[z] \in V
      OBVIOUS
    <3>1. CASE z \notin D
      BY <2>5, <3>1
    <3>2. CASE z \in D
      <4>1. PICK y \in Below(S, R, x) : z \in DD[y][1]
        BY <3>2
      <4> HIDE DEF G
      <4> QED  BY <2>4, <2>6, <4>1
    <3> QED  BY <3>1, <3>2
  <2>8. SolvesOn(S, R, step, D, G)
    <3>1. D \subseteq S
      <4> HIDE DEF G
      <4> QED  BY <2>6
    <3>2. ASSUME NEW z \in D PROVE Below(S, R, z) \subseteq D /\ G[z] = step[<<z, G>>]
      <4>1. PICK y \in Below(S, R, x) : z \in DD[y][1]
        OBVIOUS
      <4> DEFINE A == DD[y][1]  g == DD[y][2]
      <4>2. g \in [S -> V] /\ Below(S, R, z) \subseteq A /\ g[z] = step[<<z, g>>] /\ z \in S
        BY <2>4, <4>1 DEF SolvesOn
      <4>3. A \subseteq D
        OBVIOUS
      <4> HIDE DEF G
      <4>4. \A q \in A : G[q] = g[q]
        BY <2>6
      <4> HIDE DEF A, g, D
      <4>5. \A q \in Below(S, R, z) : G[q] = g[q]
        BY <4>2, <4>4
      <4>6. step[<<z, G>>] = step[<<z, g>>]
        BY <2>7, <4>2, <4>5 DEF Local
      <4>7. G[z] = g[z]
        BY <4>1, <4>4 DEF A
      <4> QED  BY <4>2, <4>3, <4>6, <4>7
    <3> QED
      BY <3>1, <3>2 DEF SolvesOn
  <2>9. Below(S, R, x) \subseteq D
    BY <2>4
  <2>10. x \notin D
    <3> HIDE DEF D, G
    <3> QED  BY <2>2, <2>7, <2>8 DEF Good
  <2> HIDE DEF D, G, v0
  <2>11. step[<<x, G>>] \in V
    BY <2>2, <2>7 DEF Local
  <2>12. H \in [S -> V]
    BY <2>7, <2>11
  <2>13. \A z \in D : H[z] = G[z]
    BY <2>8, <2>10 DEF SolvesOn
  <2>14. ASSUME NEW z \in D \cup {x}
         PROVE  Below(S, R, z) \subseteq D \cup {x} /\ H[z] = step[<<z, H>>]
    <3>1. Below(S, R, z) \subseteq D
      BY <2>8, <2>9 DEF SolvesOn
    <3>2. H[z] = step[<<z, G>>]
      BY <2>2, <2>8, <2>13 DEF SolvesOn
    <3>3. z \in S
      BY <2>2, <2>8 DEF SolvesOn
    <3> HIDE DEF H
    <3>4. \A q \in Below(S, R, z) : G[q] = H[q]
      BY <2>13, <3>1
    <3>5. step[<<z, G>>] = step[<<z, H>>]
      BY <2>7, <2>12, <3>3, <3>4 DEF Local
    <3> QED  BY <3>1, <3>2, <3>5
  <2>15. SolvesOn(S, R, step, D \cup {x}, H)
    <3> HIDE DEF H
    <3> QED  BY <2>2, <2>8, <2>14 DEF SolvesOn
  <2> HIDE DEF H
  <2> QED
    BY <2>2, <2>12, <2>15 DEF Good
<1>2. \A x \in S : Good(x)
  BY <1>1
<1> DEFINE F == [x \in S |-> CHOOSE p : x \in p[1] /\ p[2] \in [S -> V] /\ Solves(p[1], p[2])]
           f == [x \in S |-> F[x][2][x]]
<1>3. \A x \in S : x \in F[x][1] /\ F[x][2] \in [S -> V] /\ Solves(F[x][1], F[x][2])
  <2> SUFFICES ASSUME NEW x \in S
               PROVE  x \in F[x][1] /\ F[x][2] \in [S -> V] /\ Solves(F[x][1], F[x][2])
    OBVIOUS
  <2> HIDE DEF Solves
  <2>1. PICK A, g : x \in A /\ g \in [S -> V] /\ Solves(A, g)
    BY <1>2
  <2> DEFINE p == <<A, g>>
  <2>2. x \in p[1] /\ p[2] \in [S -> V] /\ Solves(p[1], p[2])
    BY <2>1
  <2>3. \E q : x \in q[1] /\ q[2] \in [S -> V] /\ Solves(q[1], q[2])
    <3> HIDE DEF p
    <3> QED BY <2>2
  <2> QED
    BY <2>3
<1> HIDE DEF F, Good, T
<1>4. f \in [S -> V]
  BY <1>3
<1>5. ASSUME NEW x \in S PROVE f[x] = step[<<x, f>>]
  <2> DEFINE A == F[x][1]  g == F[x][2]
  <2>1. g \in [S -> V] /\ Below(S, R, x) \subseteq A /\ g[x] = step[<<x, g>>]
        /\ SolvesOn(S, R, step, A, g)
    BY <1>3 DEF SolvesOn
  <2>2. ASSUME NEW y \in Below(S, R, x) PROVE f[y] = g[y]
    <3> DEFINE B == F[y][1]  h == F[y][2]
    <3>1. y \in S
      BY DEF Below
    <3>2. h \in [S -> V] /\ SolvesOn(S, R, step, B, h) /\ y \in B /\ f[y] = h[y]
      BY <1>3, <3>1
    <3> HIDE DEF A, B, g, h, f
    <3>3. \A q \in A \cap B : g[q] = h[q]
      BY <2>1, <3>2, SolutionsAgree
    <3> QED  BY <2>1, <3>2, <3>3
  <2>3. f[x] = g[x]
    OBVIOUS
  <2> HIDE DEF f, g, A
  <2>4. step[<<x, f>>] = step[<<x, g>>]
    BY <1>4, <2>1, <2>2 DEF Local
  <2> QED  BY <2>1, <2>3, <2>4
<1> HIDE DEF f
<1> QED
  BY <1>4, <1>5

\* The naturals in their order are such an order.
LEMMA NatFounded == Founded(Nat, OpToRel(<, Nat))
<1>1. IsWellFoundedOn(OpToRel(<, Nat), Nat)
  BY NatLessThanWellFounded
<1> DEFINE R == OpToRel(<, Nat)
<1>2. IsWellFoundedOn(R, Nat)
  BY <1>1
<1> HIDE DEF R
<1>3. \A T \in SUBSET Nat : T # {} => \E x \in T : \A y \in T : ~ (<<y, x>> \in R)
  BY <1>2, WFMin
<1> QED  BY <1>3 DEF Founded, R

-----------------------------------------------------------------------------
(* Scripts that run scripts *)

\* The recursion of Nested.
LEMMA NestedDef ==
  /\ Nested \in [Nat -> SUBSET Scripts]
  /\ \A depth \in Nat : Nested[depth] = IF depth = 0 THEN {} ELSE Calling(Nested[depth - 1])
<1> DEFINE R == OpToRel(<, Nat)
           V == SUBSET Scripts
           step == [p \in Nat \X [Nat -> V] |->
                      IF p[1] = 0 THEN {} ELSE Calling(p[2][p[1] - 1])]
<1>1. Founded(Nat, R)
  BY NatFounded
<1>2. Local(Nat, V, R, step)
  <2>1. step \in [Nat \X [Nat -> V] -> V]
    BY DEF Calling
  <2>2. ASSUME NEW x \in Nat, NEW g \in [Nat -> V], NEW h \in [Nat -> V],
               \A y \in Below(Nat, R, x) : g[y] = h[y]
        PROVE  step[<<x, g>>] = step[<<x, h>>]
    <3>1. CASE x = 0
      BY <3>1
    <3>2. CASE x # 0
      <4>1. x - 1 \in Nat /\ x - 1 < x
        BY <3>2
      <4>2. x - 1 \in Below(Nat, R, x)
        BY <4>1 DEF Below, OpToRel
      <4>3. g[x - 1] = h[x - 1]
        BY <2>2, <4>2
      <4> QED  BY <3>2, <4>3
    <3> QED  BY <3>1, <3>2
  <2> HIDE DEF step, V
  <2> QED  BY <2>1, <2>2 DEF Local
<1>3. V # {}
  OBVIOUS
<1>4. PICK f \in [Nat -> V] : \A x \in Nat : f[x] = step[<<x, f>>]
  <2> HIDE DEF step, V, R
  <2> QED  BY <1>1, <1>2, <1>3, Recursion
<1>5. \A x \in Nat : f[x] = IF x = 0 THEN {} ELSE Calling(f[x - 1])
  BY <1>4
<1>6. f = [depth \in Nat |-> IF depth = 0 THEN {} ELSE Calling(f[depth - 1])]
  BY <1>5, Zenon
<1>7. Nested = [depth \in Nat |-> IF depth = 0 THEN {} ELSE Calling(Nested[depth - 1])]
  <2> HIDE DEF V, step, R
  <2> QED  BY <1>6, Zenon DEF Nested
<1>8. \A depth \in Nat : Nested[depth] = IF depth = 0 THEN {} ELSE Calling(Nested[depth - 1])
  BY <1>7, Zenon
<1>9. \A depth \in Nat : Nested[depth] \in SUBSET Scripts
  BY <1>8 DEF Calling
<1> QED  BY <1>7, <1>8, <1>9, Zenon

\* A script that has no errors runs others to some depth; those that it runs, to less.
LEMMA Depths ==
  \E level \in [Sound -> Nat] :
    \A s \in Sound : \A k \in DOMAIN Actions[s] :
      Actions[s][k].type = "run_script" =>
        Actions[s][k].script \in Sound /\ level[Actions[s][k].script] < level[s]
<1> DEFINE N == Cardinality(Scripts)
           Within(s) == {d \in 0 .. N : s \in Nested[d]}
           level == [s \in Sound |-> CHOOSE d \in Within(s) : \A m \in Within(s) : d <= m]
<1>1. N \in Nat
  BY ActionsAssumption, FS_CardinalityType
<1>2. ASSUME NEW s \in Sound
      PROVE  level[s] \in Within(s) /\ \A m \in Within(s) : level[s] <= m
  <2>1. Within(s) # {} /\ Within(s) \subseteq Nat
    BY <1>1 DEF Sound
  <2>2. level[s] = CHOOSE d \in Within(s) : \A m \in Within(s) : d <= m
    OBVIOUS
  <2> HIDE DEF Within, level
  <2>3. \E d \in Within(s) : \A m \in Within(s) : d <= m
    BY <2>1, LeastNat
  <2> QED  BY <2>2, <2>3
<1>3. level \in [Sound -> Nat]
  <2>1. \A s \in Sound : Within(s) \subseteq Nat
    BY <1>1
  <2>2. \A s \in Sound : level[s] \in Nat
    <3> HIDE DEF Within, level
    <3> QED  BY <1>2, <2>1
  <2> QED  BY <2>2
<1>4. ASSUME NEW s \in Sound, NEW k \in DOMAIN Actions[s], Actions[s][k].type = "run_script"
      PROVE  Actions[s][k].script \in Sound /\ level[Actions[s][k].script] < level[s]
  <2> DEFINE d == level[s]
             t == Actions[s][k].script
  <2>1. d \in 0 .. N /\ s \in Nested[d]
    BY <1>2, Zenon
  <2>2. \A n \in Within(t) : level[t] <= n /\ t \in Sound /\ level[t] \in Nat
    <3> SUFFICES ASSUME NEW n \in Within(t) PROVE level[t] <= n /\ t \in Sound /\ level[t] \in Nat
      OBVIOUS
    <3>1. t \in Sound
      BY DEF Sound
    <3> HIDE DEF level, Within, t
    <3> QED  BY <1>2, <1>3, <3>1
  <2>3. Actions[s][k].script = t
    OBVIOUS
  <2> HIDE DEF level, d, t
  <2>4. d # 0 /\ d - 1 \in 0 .. N /\ t \in Nested[d - 1] /\ d \in Nat
    BY <1>1, <1>4, <2>1, <2>3, NestedDef DEF Calling
  <2>5. d - 1 \in Within(t)
    BY <2>4
  <2>6. level[t] <= d - 1 /\ t \in Sound /\ level[t] \in Nat
    <3> HIDE DEF Within
    <3> QED  BY <2>2, <2>5
  <2> QED  BY <2>3, <2>4, <2>6 DEF d
<1> HIDE DEF level
<1> QED  BY <1>3, <1>4

\* In an order of the places, one in a script comes after those further on in it and those in
\* the scripts that it runs.
Orders(R) ==
  /\ Founded(Place, R)
  /\ \A p \in Place :
       ~AtEnd(p) =>
         /\ Following(p) \in Place /\ <<Following(p), p>> \in R
         /\ ActionOf(Following(p)) \in Action
         /\ ActionOf(Following(p)).type = "run_script" =>
              LET c == Called(ActionOf(Following(p)).script) IN c \in Place /\ <<c, p>> \in R

\* There is one: to run a script goes down in depth, and to go on is to come to its end.
LEMMA PlaceOrder == \E R : Orders(R)
<1>1. PICK level \in [Sound -> Nat] :
        \A s \in Sound : \A k \in DOMAIN Actions[s] :
          Actions[s][k].type = "run_script" =>
            Actions[s][k].script \in Sound /\ level[Actions[s][k].script] < level[s]
  BY Depths
<1> DEFINE Rel(q, p) == \/ level[q.script] < level[p.script]
                        \/ q.script = p.script /\ q.current_action > p.current_action
           R == {qp \in Place \X Place : Rel(qp[1], qp[2])}
<1>2. ASSUME NEW s \in Sound PROVE Actions[s] \in Seq(Action) /\ Len(Actions[s]) \in Nat
  <2>1. s \in Scripts
    <3>1. Cardinality(Scripts) \in Nat
      BY ActionsAssumption, FS_CardinalityType
    <3> QED  BY <3>1, NestedDef DEF Sound
  <2>2. Actions[s] \in Seq(Action)
    BY <2>1, ActionsAssumption
  <2> QED  BY <2>2, LenProperties
<1>3. ASSUME NEW p \in Place
      PROVE  /\ p.script \in Sound /\ p.current_action \in 0 .. Len(Actions[p.script])
             /\ p = [script |-> p.script, current_action |-> p.current_action]
  BY DEF Place
<1>4. ASSUME NEW s \in Sound, NEW k \in 0 .. Len(Actions[s])
      PROVE  [script |-> s, current_action |-> k] \in Place
  BY DEF Place
<1>5. Founded(Place, R)
  <2> SUFFICES ASSUME NEW T \in SUBSET Place, T # {}
               PROVE  \E x \in T : \A y \in T : <<y, x>> \notin R
    BY DEF Founded
  <2> DEFINE L == {level[p.script] : p \in T}
  <2>1. \A p \in T : p.script \in Sound /\ level[p.script] \in Nat
    BY <1>3
  <2>2. PICK l \in L : \A m \in L : l <= m
    <3>1. L \subseteq Nat /\ L # {}
      BY <2>1
    <3> HIDE DEF L
    <3> QED  BY <3>1, LeastNat
  <2>3. PICK p \in T : level[p.script] = l
    BY <2>2
  <2> DEFINE n == Len(Actions[p.script])
             U == {q \in T : q.script = p.script}
             M == {n - q.current_action : q \in U}
  <2>4. n \in Nat
    BY <1>2, <2>1
  <2>5. \A q \in U : q.current_action \in 0 .. n
    BY <1>3
  <2>6. PICK m \in M : \A k \in M : m <= k
    <3>1. M \subseteq Nat /\ M # {}
      <4>1. p \in U
        OBVIOUS
      <4> HIDE DEF n, U
      <4> QED  BY <4>1, <2>4, <2>5
    <3> HIDE DEF M
    <3> QED  BY <3>1, LeastNat
  <2>7. PICK q \in U : n - q.current_action = m
    BY <2>6
  <2>8. q \in T /\ q.script = p.script
    OBVIOUS
  <2>9. ASSUME NEW y \in T PROVE ~Rel(y, q)
    <3>1. ~(level[y.script] < level[q.script])
      <4>1. l <= level[y.script]
        BY <2>2
      <4>2. l \in Nat /\ level[y.script] \in Nat /\ level[q.script] = l
        BY <2>1, <2>3, <2>8
      <4> QED  BY <4>1, <4>2
    <3>2. ASSUME y.script = q.script PROVE ~(y.current_action > q.current_action)
      <4>1. y \in U
        BY <2>8, <3>2
      <4> HIDE DEF U, n
      <4>2. m <= n - y.current_action
        BY <2>6, <4>1
      <4> QED  BY <2>4, <2>5, <2>7, <4>1, <4>2
    <3> QED  BY <3>1, <3>2
  <2>10. \A y \in T : <<y, q>> \notin R
    <3> HIDE DEF Rel
    <3> QED  BY <2>9
  <2> QED  BY <2>8, <2>10
<1>6. ASSUME NEW p \in Place, ~AtEnd(p)
      PROVE  /\ Following(p) \in Place /\ <<Following(p), p>> \in R
             /\ ActionOf(Following(p)) \in Action
             /\ ActionOf(Following(p)).type = "run_script" =>
                  LET c == Called(ActionOf(Following(p)).script)
                  IN  c \in Place /\ <<c, p>> \in R
  <2> DEFINE s == p.script
             k == p.current_action
  <2>1. s \in Sound /\ k \in 0 .. Len(Actions[s]) /\ k # Len(Actions[s])
    BY <1>3, <1>6 DEF AtEnd
  <2>2. Len(Actions[s]) \in Nat /\ Actions[s] \in Seq(Action)
    BY <1>2, <2>1
  <2>3. Following(p) = [script |-> s, current_action |-> k + 1]
    BY <1>3 DEF Following
  <2>4. k + 1 \in 1 .. Len(Actions[s]) /\ k + 1 > k
    BY <2>1, <2>2
  <2>5. DOMAIN Actions[s] = 1 .. Len(Actions[s])
    BY <2>2, LenProperties
  <2>6. ActionOf(Following(p)) = Actions[s][k + 1] /\ Actions[s][k + 1] \in Action
    <3>1. ActionOf(Following(p)) = Actions[s][k + 1]
      BY <2>3 DEF ActionOf
    <3>2. Actions[s][k + 1] \in Action
      BY <2>2, <2>4, ElementOfSeq
    <3> QED  BY <3>1, <3>2
  <2>7. Following(p) \in Place
    BY <1>4, <2>1, <2>2, <2>3, <2>4
  <2>8. Rel(Following(p), p)
    BY <2>3, <2>4
  <2>9. ASSUME Actions[s][k + 1].type = "run_script"
        PROVE  LET c == Called(Actions[s][k + 1].script) IN c \in Place /\ Rel(c, p)
    <3> DEFINE t == Actions[s][k + 1].script
    <3>1. t \in Sound /\ level[t] < level[s]
      BY <1>1, <2>1, <2>4, <2>5, <2>9
    <3>2. Len(Actions[t]) \in Nat
      BY <1>2, <3>1
    <3> HIDE DEF t
    <3>3. Called(t) \in Place
      BY <1>4, <3>1, <3>2 DEF Called
    <3>4. Called(t).script = t
      BY DEF Called
    <3>5. Rel(Called(t), p)
      BY <3>1, <3>4
    <3> HIDE DEF Rel
    <3> QED  BY <3>3, <3>5 DEF t
  <2> HIDE DEF Rel, s, k
  <2> QED  BY <2>6, <2>7, <2>8, <2>9
<1>7. Orders(R)
  <2> HIDE DEF R
  <2> QED  BY <1>5, <1>6, Zenon DEF Orders
<1> QED  BY <1>7, Zenon

\* The recursion of Listed, which is Rest.
ListedStep(p, g) ==
  IF AtEnd(p) THEN <<>>
  ELSE LET next   == Following(p)
           action == ActionOf(next)
       IN  (IF action.type = "run_script" THEN g[Called(action.script)] ELSE <<action>>)
             \o g[next]

\* Listed ends, and gives lists of actions.
LEMMA RestDef ==
  /\ Rest \in [Place -> Seq(Action)]
  /\ \A p \in Place : Rest[p] = ListedStep(p, Rest)
<1> DEFINE V == Seq(Action)
           step == [x \in Place \X [Place -> V] |-> ListedStep(x[1], x[2])]
<1>1. PICK R : Orders(R)
  BY PlaceOrder
<1>2. ASSUME NEW p \in Place, NEW g \in [Place -> V] PROVE ListedStep(p, g) \in V
  <2>1. CASE AtEnd(p)
    BY <2>1 DEF ListedStep
  <2>2. CASE ~AtEnd(p)
    <3> DEFINE next == Following(p)
               action == ActionOf(next)
               first == IF action.type = "run_script" THEN g[Called(action.script)]
                        ELSE <<action>>
    <3>1. next \in Place /\ action \in Action
      BY <1>1, <2>2 DEF Orders
    <3>2. first \in Seq(Action)
      <4>1. action.type = "run_script" => Called(action.script) \in Place
        BY <1>1, <2>2 DEF Orders
      <4> HIDE DEF action
      <4> QED  BY <3>1, <4>1
    <3>3. g[next] \in Seq(Action)
      BY <3>1
    <3>4. first \o g[next] \in Seq(Action)
      <4> HIDE DEF first, next
      <4> QED  BY <3>2, <3>3, ConcatProperties
    <3> QED  BY <2>2, <3>4 DEF ListedStep
  <2> QED  BY <2>1, <2>2
<1>3. Local(Place, V, R, step)
  <2>1. step \in [Place \X [Place -> V] -> V]
    <3> HIDE DEF V
    <3> QED  BY <1>2
  <2>2. ASSUME NEW p \in Place, NEW g \in [Place -> V], NEW h \in [Place -> V],
               \A y \in Below(Place, R, p) : g[y] = h[y]
        PROVE  step[<<p, g>>] = step[<<p, h>>]
    <3> HIDE DEF V
    <3>1. ~AtEnd(p) =>
            /\ g[Following(p)] = h[Following(p)]
            /\ ActionOf(Following(p)).type = "run_script" =>
                 g[Called(ActionOf(Following(p)).script)] =
                   h[Called(ActionOf(Following(p)).script)]
      BY <1>1, <2>2 DEF Below, Orders
    <3>2. ListedStep(p, g) = ListedStep(p, h)
      BY <3>1, Zenon DEF ListedStep
    <3> QED  BY <3>2
  <2> HIDE DEF step, V
  <2> QED  BY <2>1, <2>2 DEF Local
<1>4. V # {}
  <2>1. <<>> \in V
    OBVIOUS
  <2> QED  BY <2>1
<1>5. PICK f \in [Place -> V] : \A p \in Place : f[p] = step[<<p, f>>]
  <2> HIDE DEF step, V
  <2> QED  BY <1>1, <1>3, <1>4, Recursion DEF Orders
<1>6. f = [place \in Place |-> ListedStep(place, f)]
  <2> HIDE DEF V
  <2> QED  BY <1>5
<1>7. Listed = [place \in Place |-> ListedStep(place, Listed)]
  <2> HIDE DEF V, step
  <2> QED  BY <1>6, Zenon DEF Listed, ListedStep
<1>8. Rest = Listed
  BY <1>7, Zenon DEF Rest
<1>9. Listed = f
  <2> HIDE DEF V
  <2>1. ASSUME {p \in Place : Listed[p] # f[p]} # {} PROVE FALSE
    <3> DEFINE T == {p \in Place : Listed[p] # f[p]}
    <3>1. PICK p \in T : \A y \in T : <<y, p>> \notin R
      <4>1. T \in SUBSET Place /\ T # {}
        BY <2>1
      <4> HIDE DEF T
      <4> QED  BY <1>1, <4>1 DEF Founded, Orders
    <3>2. p \in Place /\ Listed[p] # f[p]
      OBVIOUS
    <3>3. \A y \in Place : <<y, p>> \in R => Listed[y] = f[y]
      BY <3>1
    <3> HIDE DEF T
    <3>4. ListedStep(p, Listed) = ListedStep(p, f)
      <4>1. ~AtEnd(p) =>
              /\ Listed[Following(p)] = f[Following(p)]
              /\ ActionOf(Following(p)).type = "run_script" =>
                   Listed[Called(ActionOf(Following(p)).script)] =
                     f[Called(ActionOf(Following(p)).script)]
        BY <1>1, <3>2, <3>3 DEF Orders
      <4> QED  BY <4>1, Zenon DEF ListedStep
    <3>5. Listed[p] = ListedStep(p, Listed) /\ f[p] = ListedStep(p, f)
      BY <1>6, <1>7, <3>2, Zenon
    <3> QED  BY <3>2, <3>4, <3>5
  <2>2. \A p \in Place : Listed[p] = f[p]
    BY <2>1
  <2> QED  BY <1>6, <1>7, <2>2, Zenon
<1> HIDE DEF V
<1>10. Rest \in [Place -> V]
  BY <1>5, <1>8, <1>9
<1>11. \A p \in Place : Rest[p] = ListedStep(p, Rest)
  BY <1>7, <1>8, Zenon
<1> QED  BY <1>10, <1>11 DEF V

\* The recursion of Search, which is Found.
SearchStep(p, g) ==
  IF AtEnd(p) THEN <<>>
  ELSE LET next      == Following(p)
           action    == ActionOf(next)
           subscript == IF action.type = "run_script" THEN g[Called(action.script)]
                        ELSE <<>>
       IN  IF action.type # "run_script" \/ subscript # <<>> THEN <<next>> \o subscript
           ELSE g[next]

\* Search ends, and gives nested contexts.
LEMMA FoundDef ==
  /\ Found \in [Place -> Seq(Place)]
  /\ \A p \in Place : Found[p] = SearchStep(p, Found)
<1> DEFINE V == Seq(Place)
           step == [x \in Place \X [Place -> V] |-> SearchStep(x[1], x[2])]
<1>1. PICK R : Orders(R)
  BY PlaceOrder
<1>2. ASSUME NEW p \in Place, NEW g \in [Place -> V] PROVE SearchStep(p, g) \in V
  <2>1. CASE AtEnd(p)
    BY <2>1 DEF SearchStep
  <2>2. CASE ~AtEnd(p)
    <3> DEFINE next == Following(p)
               action == ActionOf(next)
               subscript == IF action.type = "run_script" THEN g[Called(action.script)]
                            ELSE <<>>
    <3>1. next \in Place
      BY <1>1, <2>2 DEF Orders
    <3>2. subscript \in Seq(Place)
      <4>1. action.type = "run_script" => Called(action.script) \in Place
        BY <1>1, <2>2 DEF Orders
      <4>2. <<>> \in Seq(Place)
        OBVIOUS
      <4> HIDE DEF action
      <4> QED  BY <4>1, <4>2
    <3>3. g[next] \in Seq(Place)
      BY <3>1
    <3>4. <<next>> \o subscript \in Seq(Place)
      <4> HIDE DEF subscript, next
      <4>1. <<next>> \in Seq(Place)
        BY <3>1
      <4> QED  BY <3>2, <4>1, ConcatProperties
    <3>5. SearchStep(p, g) \in {<<next>> \o subscript, g[next]}
      BY <2>2, Zenon DEF SearchStep
    <3> HIDE DEF next, subscript, action, V
    <3> QED  BY <3>3, <3>4, <3>5 DEF V
  <2> QED  BY <2>1, <2>2
<1>3. Local(Place, V, R, step)
  <2>1. step \in [Place \X [Place -> V] -> V]
    <3> HIDE DEF V
    <3> QED  BY <1>2
  <2>2. ASSUME NEW p \in Place, NEW g \in [Place -> V], NEW h \in [Place -> V],
               \A y \in Below(Place, R, p) : g[y] = h[y]
        PROVE  step[<<p, g>>] = step[<<p, h>>]
    <3> HIDE DEF V
    <3>1. ~AtEnd(p) =>
            /\ g[Following(p)] = h[Following(p)]
            /\ ActionOf(Following(p)).type = "run_script" =>
                 g[Called(ActionOf(Following(p)).script)] =
                   h[Called(ActionOf(Following(p)).script)]
      BY <1>1, <2>2 DEF Below, Orders
    <3>2. SearchStep(p, g) = SearchStep(p, h)
      BY <3>1, Zenon DEF SearchStep
    <3> QED  BY <3>2
  <2> HIDE DEF step, V
  <2> QED  BY <2>1, <2>2 DEF Local
<1>4. V # {}
  <2>1. <<>> \in V
    OBVIOUS
  <2> QED  BY <2>1
<1>5. PICK f \in [Place -> V] : \A p \in Place : f[p] = step[<<p, f>>]
  <2> HIDE DEF step, V
  <2> QED  BY <1>1, <1>3, <1>4, Recursion DEF Orders
<1>6. f = [place \in Place |-> SearchStep(place, f)]
  <2> HIDE DEF V
  <2> QED  BY <1>5
<1>7. Search = [place \in Place |-> SearchStep(place, Search)]
  <2> HIDE DEF V, step
  <2> QED  BY <1>6, Zenon DEF Search, SearchStep
<1>8. Found = Search
  BY <1>7, Zenon DEF Found
<1>9. Search = f
  <2> HIDE DEF V
  <2>1. ASSUME {p \in Place : Search[p] # f[p]} # {} PROVE FALSE
    <3> DEFINE T == {p \in Place : Search[p] # f[p]}
    <3>1. PICK p \in T : \A y \in T : <<y, p>> \notin R
      <4>1. T \in SUBSET Place /\ T # {}
        BY <2>1
      <4> HIDE DEF T
      <4> QED  BY <1>1, <4>1 DEF Founded, Orders
    <3>2. p \in Place /\ Search[p] # f[p]
      OBVIOUS
    <3>3. \A y \in Place : <<y, p>> \in R => Search[y] = f[y]
      BY <3>1
    <3> HIDE DEF T
    <3>4. SearchStep(p, Search) = SearchStep(p, f)
      <4>1. ~AtEnd(p) =>
              /\ Search[Following(p)] = f[Following(p)]
              /\ ActionOf(Following(p)).type = "run_script" =>
                   Search[Called(ActionOf(Following(p)).script)] =
                     f[Called(ActionOf(Following(p)).script)]
        BY <1>1, <3>2, <3>3 DEF Orders
      <4> QED  BY <4>1, Zenon DEF SearchStep
    <3>5. Search[p] = SearchStep(p, Search) /\ f[p] = SearchStep(p, f)
      BY <1>6, <1>7, <3>2, Zenon
    <3> QED  BY <3>2, <3>4, <3>5
  <2>2. \A p \in Place : Search[p] = f[p]
    BY <2>1
  <2> QED  BY <1>6, <1>7, <2>2, Zenon
<1> HIDE DEF V
<1>10. Found \in [Place -> V]
  BY <1>5, <1>8, <1>9
<1>11. \A p \in Place : Found[p] = SearchStep(p, Found)
  BY <1>7, <1>8, Zenon
<1> QED  BY <1>10, <1>11 DEF V

-----------------------------------------------------------------------------

\* Front and Last take a sequence of places apart.
LEMMA FrontLast ==
  ASSUME NEW s \in Seq(Place), s # <<>>
  PROVE  /\ Front(s) \in Seq(Place) /\ Last(s) \in Place
         /\ Len(s) \in Nat /\ Len(Front(s)) \in Nat /\ Len(Front(s)) < Len(s)
         /\ s = Front(s) \o <<Last(s)>>
<1>1. Len(s) \in Nat \ {0}
  BY EmptySeq
<1>2. Last(s) \in Place
  BY <1>1, ElementOfSeq DEF Last
<1>3. s = SubSeq(s, 1, Len(s))
  BY SubSeqFull
<1>4. SubSeq(s, 1, Len(s)) = SubSeq(s, 1, Len(s) - 1) \o <<s[Len(s)]>>
  BY <1>1, SubSeqRecursiveSecond
<1>5. Front(s) \in Seq(Place) /\ Len(Front(s)) = Len(s) - 1
  <2>1. \A i \in 1 .. Len(s) - 1 : s[i] \in Place
    BY <1>1, ElementOfSeq
  <2>2. Len(s) - 1 \in Int /\ 1 \in Int
    BY <1>1
  <2>3. SubSeq(s, 1, Len(s) - 1) \in Seq(Place)
        /\ Len(SubSeq(s, 1, Len(s) - 1)) = IF 1 <= Len(s) - 1 THEN Len(s) - 1 - 1 + 1 ELSE 0
    BY <2>1, <2>2, SubSeqProperties
  <2>4. Front(s) = SubSeq(s, 1, Len(s) - 1)
    BY DEF Front
  <2> DEFINE n == Len(s)
  <2>5. n \in Nat \ {0} /\ Front(s) \in Seq(Place)
        /\ Len(Front(s)) = IF 1 <= n - 1 THEN n - 1 - 1 + 1 ELSE 0
    BY <1>1, <2>3, <2>4
  <2> HIDE DEF n
  <2>6. Len(Front(s)) = n - 1
    BY <2>5
  <2> QED  BY <2>5, <2>6 DEF n
<1>6. Front(s) = SubSeq(s, 1, Len(s) - 1) /\ Last(s) = s[Len(s)]
  BY DEF Front, Last
<1>7. s = Front(s) \o <<Last(s)>>
  BY <1>3, <1>4, <1>6, Zenon
<1>8. Len(Front(s)) \in Nat /\ Len(Front(s)) < Len(s)
  <2> DEFINE n == Len(s)  m == Len(Front(s))
  <2>1. n \in Nat \ {0} /\ m = n - 1
    BY <1>1, <1>5
  <2> HIDE DEF n, m
  <2>2. m \in Nat /\ m < n
    BY <2>1
  <2> QED  BY <2>2 DEF n, m
<1> QED  BY <1>1, <1>2, <1>5, <1>7, <1>8

\* A place put after others is the last.
LEMMA AppendedLast ==
  ASSUME NEW s \in Seq(Place), NEW p \in Place
  PROVE  /\ s \o <<p>> \in Seq(Place) /\ s \o <<p>> # <<>>
         /\ Front(s \o <<p>>) = s /\ Last(s \o <<p>>) = p
<1> DEFINE t == s \o <<p>>
<1>1. <<p>> \in Seq(Place) /\ Len(<<p>>) = 1 /\ <<p>>[1] = p
  OBVIOUS
<1>2. /\ t \in Seq(Place) /\ Len(t) = Len(s) + 1
      /\ \A i \in 1 .. Len(s) + 1 : t[i] = IF i <= Len(s) THEN s[i] ELSE <<p>>[i - Len(s)]
  <2> DEFINE one == <<p>>
  <2>1. one \in Seq(Place) /\ Len(one) = 1
    BY <1>1
  <2> HIDE DEF one
  <2>2. s \o one \in Seq(Place) /\ Len(s \o one) = Len(s) + Len(one)
        /\ \A i \in 1 .. Len(s) + Len(one) :
             (s \o one)[i] = IF i <= Len(s) THEN s[i] ELSE one[i - Len(s)]
    BY <2>1, ConcatProperties
  <2> QED  BY <2>1, <2>2 DEF one
<1> HIDE DEF t
<1>3. Len(s) \in Nat
  BY LenProperties
<1>4. t[Len(s) + 1] = p
  <2> DEFINE n == Len(s)
  <2>1. n \in Nat /\ n + 1 \in 1 .. n + 1 /\ ~(n + 1 <= n) /\ n + 1 - n = 1
    <3>1. n \in Nat
      BY <1>3
    <3> HIDE DEF n
    <3> QED  BY <3>1
  <2>2. t[n + 1] = <<p>>[1]
    BY <1>2, <2>1
  <2> QED  BY <1>1, <2>2
<1>5. Last(t) = p /\ t # <<>>
  <2>1. t # <<>>
    BY <1>2, <1>3, EmptySeq
  <2> QED  BY <2>1, <1>2, <1>4 DEF Last
<1>6. Front(t) \in Seq(Place) /\ t = Front(t) \o <<p>>
  BY <1>2, <1>5, FrontLast
<1>7. Front(t) = s
  <2>1. Front(t) \o <<p>> = s \o <<p>>
    BY <1>6 DEF t
  <2> DEFINE one == <<p>>  f == Front(t)
  <2>2. one \in Seq(Place) /\ f \in Seq(Place) /\ f \o one = s \o one
    BY <1>1, <1>6, <2>1
  <2> HIDE DEF one, f
  <2>3. f = s
    BY <2>2, ConcatSimplifications
  <2> QED  BY <2>3 DEF f
<1> QED  BY <1>2, <1>5, <1>7 DEF t

\* The shorter sequences come first.
Shorter == {st \in Seq(Place) \X Seq(Place) : Len(st[1]) < Len(st[2])}

\* Sequences in the order of their lengths have a shortest.
LEMMA LengthsFounded == Founded(Seq(Place), Shorter)
<1> SUFFICES ASSUME NEW T \in SUBSET Seq(Place), T # {}
             PROVE  \E x \in T : \A y \in T : <<y, x>> \notin Shorter
  BY DEF Founded
<1> DEFINE L == {Len(s) : s \in T}
<1>1. \A s \in T : Len(s) \in Nat
  BY LenProperties
<1>2. PICK l \in L : \A m \in L : l <= m
  <2>1. L \subseteq Nat /\ L # {}
    BY <1>1
  <2> HIDE DEF L
  <2> QED  BY <2>1, LeastNat
<1>3. PICK x \in T : Len(x) = l
  BY <1>2
<1>4. ASSUME NEW y \in T PROVE ~(Len(y) < Len(x))
  <2>1. l <= Len(y)
    BY <1>2
  <2>2. l \in Nat /\ Len(y) \in Nat
    BY <1>1, <1>3
  <2> QED  BY <1>3, <2>1, <2>2
<1> QED  BY <1>4 DEF Shorter

\* The recursion of Remaining.
RemainingStep(s, g) == IF s = <<>> THEN <<>> ELSE Rest[Last(s)] \o g[Front(s)]

\* Remaining gives lists of actions.
LEMMA RemainingDef ==
  /\ Remaining \in [Seq(Place) -> Seq(Action)]
  /\ \A s \in Seq(Place) : Remaining[s] = RemainingStep(s, Remaining)
<1> DEFINE S == Seq(Place)
           V == Seq(Action)
           step == [x \in S \X [S -> V] |-> RemainingStep(x[1], x[2])]
<1>1. ASSUME NEW s \in S, s # <<>>
      PROVE  Front(s) \in S /\ Last(s) \in Place /\ <<Front(s), s>> \in Shorter
  BY <1>1, FrontLast DEF Shorter
<1>2. ASSUME NEW s \in S, NEW g \in [S -> V] PROVE RemainingStep(s, g) \in V
  <2>1. CASE s = <<>>
    BY <2>1 DEF RemainingStep
  <2>2. CASE s # <<>>
    <3>1. Rest[Last(s)] \in V /\ g[Front(s)] \in V
      <4> HIDE DEF V, S
      <4> QED  BY <1>1, <2>2, RestDef DEF V
    <3>2. RemainingStep(s, g) = Rest[Last(s)] \o g[Front(s)]
      BY <2>2, Zenon DEF RemainingStep
    <3> QED  BY <3>1, <3>2, ConcatProperties
  <2> QED  BY <2>1, <2>2
<1>3. Local(S, V, Shorter, step)
  <2>1. step \in [S \X [S -> V] -> V]
    <3> HIDE DEF V, S
    <3> QED  BY <1>2
  <2>2. ASSUME NEW s \in S, NEW g \in [S -> V], NEW h \in [S -> V],
               \A y \in Below(S, Shorter, s) : g[y] = h[y]
        PROVE  step[<<s, g>>] = step[<<s, h>>]
    <3> HIDE DEF V, S
    <3>1. s # <<>> => g[Front(s)] = h[Front(s)]
      BY <1>1, <2>2 DEF Below
    <3>2. RemainingStep(s, g) = RemainingStep(s, h)
      BY <3>1, Zenon DEF RemainingStep
    <3> QED  BY <3>2
  <2> HIDE DEF step, V, S
  <2> QED  BY <2>1, <2>2 DEF Local
<1>4. V # {} /\ Founded(S, Shorter)
  <2>1. <<>> \in V
    OBVIOUS
  <2> QED  BY <2>1, LengthsFounded
<1> HIDE DEF S, V
<1>5. PICK f \in [S -> V] : \A s \in S : f[s] = step[<<s, f>>]
  <2> HIDE DEF step
  <2> QED  BY <1>3, <1>4, Recursion
<1>6. f = [s \in S |-> RemainingStep(s, f)]
  BY <1>5
<1>7. Remaining = [s \in S |-> RemainingStep(s, Remaining)]
  <2> HIDE DEF step
  <2> QED  BY <1>6, Zenon DEF Remaining, RemainingStep, S
<1>8. Remaining = f
  <2>1. ASSUME {s \in S : Remaining[s] # f[s]} # {} PROVE FALSE
    <3> DEFINE T == {s \in S : Remaining[s] # f[s]}
    <3>1. PICK s \in T : \A y \in T : <<y, s>> \notin Shorter
      <4>1. T \in SUBSET S /\ T # {}
        BY <2>1
      <4> HIDE DEF T
      <4> QED  BY <1>4, <4>1 DEF Founded
    <3>2. s \in S /\ Remaining[s] # f[s]
      OBVIOUS
    <3>3. \A y \in S : <<y, s>> \in Shorter => Remaining[y] = f[y]
      BY <3>1
    <3> HIDE DEF T
    <3>4. RemainingStep(s, Remaining) = RemainingStep(s, f)
      <4>1. s # <<>> => Remaining[Front(s)] = f[Front(s)]
        BY <1>1, <3>2, <3>3
      <4> QED  BY <4>1, Zenon DEF RemainingStep
    <3>5. Remaining[s] = RemainingStep(s, Remaining) /\ f[s] = RemainingStep(s, f)
      BY <1>6, <1>7, <3>2, Zenon
    <3> QED  BY <3>2, <3>4, <3>5
  <2>2. \A s \in S : Remaining[s] = f[s]
    BY <2>1
  <2> QED  BY <1>6, <1>7, <2>2, Zenon
<1>9. Remaining \in [S -> V]
  BY <1>5, <1>8
<1>10. \A s \in S : Remaining[s] = RemainingStep(s, Remaining)
  BY <1>7, Zenon
<1> QED  BY <1>9, <1>10 DEF V, S

\* What remains of one context more, and of one or none.
LEMMA RemainingOfOne ==
  /\ Remaining[<<>>] = <<>>
  /\ \A s \in Seq(Place), p \in Place :
       /\ s \o <<p>> \in Seq(Place)
       /\ Remaining[s] \in Seq(Action) /\ Rest[p] \in Seq(Action)
       /\ Remaining[s \o <<p>>] = Rest[p] \o Remaining[s]
  /\ \A p \in Place : <<p>> \in Seq(Place) /\ Remaining[<<p>>] = Rest[p]
<1>1. <<>> \in Seq(Place) /\ Remaining[<<>>] = <<>>
  <2>1. <<>> \in Seq(Place)
    OBVIOUS
  <2> QED  BY <2>1, RemainingDef DEF RemainingStep
<1>2. ASSUME NEW s \in Seq(Place), NEW p \in Place
      PROVE  /\ s \o <<p>> \in Seq(Place)
             /\ Remaining[s] \in Seq(Action) /\ Rest[p] \in Seq(Action)
             /\ Remaining[s \o <<p>>] = Rest[p] \o Remaining[s]
  <2> DEFINE t == s \o <<p>>
  <2>1. t \in Seq(Place) /\ t # <<>> /\ Front(t) = s /\ Last(t) = p
    BY AppendedLast
  <2> HIDE DEF t
  <2>2. Remaining[t] = Rest[p] \o Remaining[s]
    <3>1. Remaining[t] = RemainingStep(t, Remaining)
      BY <2>1, RemainingDef
    <3> QED  BY <2>1, <3>1, Zenon DEF RemainingStep
  <2>3. Remaining[s] \in Seq(Action) /\ Rest[p] \in Seq(Action)
    BY RemainingDef, RestDef
  <2> QED  BY <2>1, <2>2, <2>3 DEF t
<1>3. ASSUME NEW p \in Place PROVE <<p>> \in Seq(Place) /\ Remaining[<<p>>] = Rest[p]
  <2> DEFINE one == <<p>>
  <2>1. one \in Seq(Place)
    OBVIOUS
  <2> HIDE DEF one
  <2>2. <<>> \o one = one
    BY <2>1, ConcatEmptySeq
  <2>3. Remaining[<<>> \o <<p>>] = Rest[p] \o Remaining[<<>>] /\ Rest[p] \in Seq(Action)
    BY <1>1, <1>2
  <2>4. Rest[p] \o <<>> = Rest[p]
    BY <2>3, ConcatEmptySeq
  <2>5. Remaining[<<p>>] = Rest[p]
    BY <1>1, <2>2, <2>3, <2>4, Zenon DEF one
  <2> QED  BY <2>1, <2>5 DEF one
<1> QED  BY <1>1, <1>2, <1>3

\* Lists that follow one another may be put together in any order.
LEMMA Associative ==
  ASSUME NEW S, NEW a \in Seq(S), NEW b \in Seq(S), NEW c \in Seq(S)
  PROVE  a \o (b \o c) = (a \o b) \o c
OBVIOUS

\* What remains of contexts within others.
LEMMA RemainingOfBoth ==
  ASSUME NEW s \in Seq(Place), NEW t \in Seq(Place)
  PROVE  /\ s \o t \in Seq(Place)
         /\ Remaining[s] \in Seq(Action) /\ Remaining[t] \in Seq(Action)
         /\ Remaining[s \o t] = Remaining[t] \o Remaining[s]
<1> DEFINE T == {u \in Seq(Place) : Remaining[s \o u] # Remaining[u] \o Remaining[s]}
<1>1. ASSUME T # {} PROVE FALSE
  <2>1. PICK u \in T : \A y \in T : <<y, u>> \notin Shorter
    <3>1. T \in SUBSET Seq(Place)
      OBVIOUS
    <3> HIDE DEF T
    <3> QED  BY <1>1, <3>1, LengthsFounded DEF Founded
  <2>2. u \in Seq(Place) /\ Remaining[s \o u] # Remaining[u] \o Remaining[s]
    OBVIOUS
  <2>3. \A y \in Seq(Place) :
          <<y, u>> \in Shorter => Remaining[s \o y] = Remaining[y] \o Remaining[s]
    BY <2>1
  <2> HIDE DEF T
  <2>4. Remaining[s] \in Seq(Action)
    BY RemainingDef
  <2>5. CASE u = <<>>
    <3>1. s \o <<>> = s
      BY ConcatEmptySeq
    <3>2. <<>> \o Remaining[s] = Remaining[s]
      BY <2>4, ConcatEmptySeq
    <3> QED  BY <2>2, <2>5, <3>1, <3>2, RemainingOfOne, Zenon
  <2>6. CASE u # <<>>
    <3> DEFINE v == Front(u)
               p == Last(u)
    <3>1. v \in Seq(Place) /\ p \in Place /\ u = v \o <<p>> /\ <<v, u>> \in Shorter
      BY <2>2, <2>6, FrontLast DEF Shorter
    <3> HIDE DEF v, p
    <3>2. <<p>> \in Seq(Place) /\ s \o v \in Seq(Place)
      BY <3>1, RemainingOfOne, ConcatProperties
    <3>3. s \o (v \o <<p>>) = (s \o v) \o <<p>>
      <4> DEFINE one == <<p>>
      <4>1. one \in Seq(Place)
        BY <3>2
      <4> HIDE DEF one
      <4>2. s \o (v \o one) = (s \o v) \o one
        BY <3>1, <4>1, Associative
      <4> QED  BY <4>2 DEF one
    <3>4. Remaining[(s \o v) \o <<p>>] = Rest[p] \o Remaining[s \o v]
      BY <3>1, <3>2, RemainingOfOne, Zenon
    <3>5. Remaining[s \o v] = Remaining[v] \o Remaining[s]
      BY <2>3, <3>1
    <3>6. Remaining[v \o <<p>>] = Rest[p] \o Remaining[v]
      BY <3>1, RemainingOfOne, Zenon
    <3>7. Rest[p] \o (Remaining[v] \o Remaining[s]) = (Rest[p] \o Remaining[v]) \o Remaining[s]
      <4>1. Rest[p] \in Seq(Action) /\ Remaining[v] \in Seq(Action)
        BY <3>1, RemainingOfOne
      <4> DEFINE a == Rest[p]  b == Remaining[v]  c == Remaining[s]
      <4>2. a \in Seq(Action) /\ b \in Seq(Action) /\ c \in Seq(Action)
        BY <2>4, <4>1
      <4> HIDE DEF a, b, c
      <4>3. a \o (b \o c) = (a \o b) \o c
        BY <4>2, Associative
      <4> QED  BY <4>3 DEF a, b, c
    <3>8. Remaining[s \o u] = Remaining[u] \o Remaining[s]
      BY <3>1, <3>3, <3>4, <3>5, <3>6, <3>7, Zenon
    <3> QED  BY <2>2, <3>8
  <2> QED  BY <2>5, <2>6
<1>2. \A u \in Seq(Place) : Remaining[s \o u] = Remaining[u] \o Remaining[s]
  BY <1>1
<1>3. s \o t \in Seq(Place)
  BY ConcatProperties
<1>4. Remaining[s] \in Seq(Action) /\ Remaining[t] \in Seq(Action)
  BY RemainingDef
<1> QED  BY <1>2, <1>3, <1>4

\* The innermost of contexts within others.
LEMMA LastOfBoth ==
  ASSUME NEW s \in Seq(Place), NEW t \in Seq(Place), t # <<>>
  PROVE  Last(s \o t) = Last(t) /\ s \o t # <<>>
<1>1. Len(s) \in Nat /\ Len(t) \in Nat \ {0}
  BY LenProperties, EmptySeq
<1>2. /\ Len(s \o t) = Len(s) + Len(t) /\ s \o t \in Seq(Place)
      /\ \A i \in 1 .. Len(s) + Len(t) :
           (s \o t)[i] = IF i <= Len(s) THEN s[i] ELSE t[i - Len(s)]
  BY ConcatProperties
<1> DEFINE m == Len(s)  n == Len(t)  u == s \o t
<1>3. m \in Nat /\ n \in Nat \ {0} /\ Len(u) = m + n
      /\ \A i \in 1 .. m + n : u[i] = IF i <= m THEN s[i] ELSE t[i - m]
  BY <1>1, <1>2
<1>4. Last(u) = u[Len(u)] /\ Last(t) = t[n]
  BY DEF Last
<1>5. u \in Seq(Place)
  BY <1>2
<1> HIDE DEF m, n, u
<1>6. m + n \in 1 .. m + n /\ ~(m + n <= m) /\ m + n - m = n /\ m + n # 0
  BY <1>3
<1>7. u[m + n] = t[n]
  BY <1>3, <1>6
<1>8. Len(u) # 0 /\ Last(u) = Last(t)
  BY <1>3, <1>4, <1>6, <1>7
<1>9. u # <<>>
  BY <1>8, EmptySeq
<1> QED  BY <1>8, <1>9 DEF u

\* The search from a place finds the first of the actions that are left, and what is left
\* after it.
Finds(p) ==
  IF Found[p] = <<>> THEN Rest[p] = <<>>
  ELSE /\ ActionAt(Found[p]) \in Action
       /\ Rest[p] = <<ActionAt(Found[p])>> \o Remaining[Found[p]]

\* It does so from every place.
LEMMA SearchFinds == \A p \in Place : Finds(p)
<1>1. PICK R : Orders(R)
  BY PlaceOrder
<1> DEFINE T == {p \in Place : ~Finds(p)}
<1> SUFFICES ASSUME T # {} PROVE FALSE
  OBVIOUS
<1>2. PICK p \in T : \A y \in T : <<y, p>> \notin R
  <2>1. T \in SUBSET Place
    OBVIOUS
  <2> HIDE DEF T
  <2> QED  BY <1>1, <2>1 DEF Founded, Orders
<1>3. p \in Place /\ ~Finds(p)
  OBVIOUS
<1>4. \A y \in Place : <<y, p>> \in R => Finds(y)
  BY <1>2
<1> HIDE DEF T
<1>5. Found[p] = SearchStep(p, Found) /\ Rest[p] = ListedStep(p, Rest)
  BY <1>3, FoundDef, RestDef
<1>6. CASE AtEnd(p)
  <2>1. Found[p] = <<>> /\ Rest[p] = <<>>
    BY <1>5, <1>6, Zenon DEF SearchStep, ListedStep
  <2> QED  BY <1>3, <2>1 DEF Finds
<1>7. CASE ~AtEnd(p)
  <2> DEFINE next   == Following(p)
             action == ActionOf(next)
  <2>1. /\ next \in Place /\ action \in Action /\ Finds(next)
        /\ Found[next] \in Seq(Place) /\ Rest[next] \in Seq(Action)
    <3>1. next \in Place /\ action \in Action /\ Finds(next)
      BY <1>1, <1>3, <1>4, <1>7 DEF Orders
    <3> HIDE DEF next, action
    <3> QED  BY <3>1, FoundDef, RestDef
  <2>2. <<next>> \in Seq(Place) /\ Remaining[<<next>>] = Rest[next]
    <3> HIDE DEF next
    <3> QED  BY <2>1, RemainingOfOne
  <2>3. CASE action.type # "run_script"
    <3>1. Rest[p] = <<action>> \o Rest[next]
      BY <1>5, <1>7, <2>3, Zenon DEF ListedStep
    <3>2. Found[p] = <<next>> \o <<>>
      BY <1>5, <1>7, <2>3, Zenon DEF SearchStep
    <3>3. Found[p] = <<next>>
      <4> DEFINE one == <<next>>
      <4> HIDE DEF one
      <4>1. one \o <<>> = one
        BY <2>2, ConcatEmptySeq DEF one
      <4> QED  BY <3>2, <4>1, Zenon DEF one
    <3>4. ActionAt(<<next>>) = action /\ <<next>> # <<>>
      <4>1. Last(<<next>>) = next
        BY DEF Last
      <4> QED  BY <4>1, Zenon DEF ActionAt
    <3> HIDE DEF next, action
    <3>5. Rest[p] = <<ActionAt(Found[p])>> \o Remaining[Found[p]]
      BY <2>2, <3>1, <3>3, <3>4, Zenon
    <3>6. ActionAt(Found[p]) \in Action /\ Found[p] # <<>>
      BY <2>1, <3>3, <3>4, Zenon
    <3> QED  BY <1>3, <3>5, <3>6, Zenon DEF Finds
  <2>4. CASE action.type = "run_script"
    <3> DEFINE c == Called(action.script)
               sub == Found[c]
    <3>1. c \in Place /\ Finds(c)
      BY <1>1, <1>3, <1>4, <1>7, <2>4 DEF Orders
    <3>2. Rest[p] = Rest[c] \o Rest[next]
      BY <1>5, <1>7, <2>4, Zenon DEF ListedStep
    <3>3. Found[p] = IF sub # <<>> THEN <<next>> \o sub ELSE Found[next]
      BY <1>5, <1>7, <2>4, Zenon DEF SearchStep
    <3> HIDE DEF c, next, action
    <3>4. sub \in Seq(Place) /\ Rest[c] \in Seq(Action)
      BY <3>1, FoundDef, RestDef
    <3>5. CASE sub = <<>>
      <4>1. Rest[c] = <<>> /\ Found[p] = Found[next]
        BY <3>1, <3>3, <3>5, Zenon DEF Finds
      <4>2. <<>> \o Rest[next] = Rest[next]
        BY <2>1, ConcatEmptySeq
      <4>3. Rest[p] = Rest[next]
        BY <3>2, <4>1, <4>2, Zenon
      <4> QED  BY <1>3, <2>1, <4>1, <4>3, Zenon DEF Finds
    <3>6. CASE sub # <<>>
      <4> DEFINE one == <<next>>
                 a == ActionAt(sub)
      <4>1. one \in Seq(Place) /\ Found[p] = one \o sub /\ Remaining[one] = Rest[next]
        BY <2>2, <3>3, <3>6
      <4>2. a \in Action /\ Rest[c] = <<a>> \o Remaining[sub]
        BY <3>1, <3>6, Zenon DEF Finds
      <4> HIDE DEF one, sub
      <4>3. Last(one \o sub) = Last(sub) /\ one \o sub # <<>>
        BY <3>4, <3>6, <4>1, LastOfBoth
      <4>4. ActionAt(Found[p]) = a /\ Found[p] # <<>>
        BY <4>1, <4>3, Zenon DEF ActionAt
      <4>5. Remaining[one \o sub] = Remaining[sub] \o Rest[next] /\ Remaining[sub] \in Seq(Action)
        BY <3>4, <4>1, RemainingOfBoth
      <4>6. <<a>> \in Seq(Action)
        <5> HIDE DEF a
        <5> QED  BY <4>2
      <4>7. <<a>> \o (Remaining[sub] \o Rest[next]) = (<<a>> \o Remaining[sub]) \o Rest[next]
        <5> DEFINE x == <<a>>  y == Remaining[sub]  z == Rest[next]
        <5>1. x \in Seq(Action) /\ y \in Seq(Action) /\ z \in Seq(Action)
          BY <2>1, <4>5, <4>6
        <5> HIDE DEF x, y, z
        <5>2. x \o (y \o z) = (x \o y) \o z
          BY <5>1, Associative
        <5> QED  BY <5>2 DEF x, y, z
      <4> HIDE DEF a
      <4>8. Rest[p] = <<ActionAt(Found[p])>> \o Remaining[Found[p]]
        BY <3>2, <4>1, <4>2, <4>4, <4>5, <4>7, Zenon
      <4> QED  BY <1>3, <4>2, <4>4, <4>8, Zenon DEF Finds
    <3> QED  BY <3>5, <3>6
  <2> QED  BY <2>3, <2>4
<1> QED  BY <1>6, <1>7

\* When none of the contexts goes on, nothing is left.
LEMMA NoneLeft ==
  ASSUME NEW s \in Seq(Place), \A n \in DOMAIN s : Found[s[n]] = <<>>
  PROVE  Remaining[s] = <<>>
<1> DEFINE T == {u \in Seq(Place) : (\A n \in DOMAIN u : Found[u[n]] = <<>>)
                                    /\ Remaining[u] # <<>>}
<1>1. ASSUME T # {} PROVE FALSE
  <2>1. PICK u \in T : \A y \in T : <<y, u>> \notin Shorter
    <3>1. T \in SUBSET Seq(Place)
      OBVIOUS
    <3> HIDE DEF T
    <3> QED  BY <1>1, <3>1, LengthsFounded DEF Founded
  <2>2. u \in Seq(Place) /\ (\A n \in DOMAIN u : Found[u[n]] = <<>>) /\ Remaining[u] # <<>>
    OBVIOUS
  <2>3. \A y \in Seq(Place) :
          <<y, u>> \in Shorter /\ (\A n \in DOMAIN y : Found[y[n]] = <<>>) => Remaining[y] = <<>>
    BY <2>1
  <2> HIDE DEF T
  <2>4. u # <<>>
    BY <2>2, RemainingOfOne
  <2> DEFINE v == Front(u)
             p == Last(u)
  <2>5. v \in Seq(Place) /\ p \in Place /\ u = v \o <<p>> /\ <<v, u>> \in Shorter
    BY <2>2, <2>4, FrontLast DEF Shorter
  <2>6. Len(u) \in Nat \ {0} /\ DOMAIN u = 1 .. Len(u)
    BY <2>2, <2>4, LenProperties, EmptySeq
  <2>7. Found[p] = <<>>
    <3>1. Len(u) \in DOMAIN u
      BY <2>6
    <3> QED  BY <2>2, <3>1 DEF Last
  <2>8. \A n \in DOMAIN v : Found[v[n]] = <<>>
    <3>1. Len(u) - 1 \in Int /\ 1 \in Int /\ \A i \in 1 .. Len(u) - 1 : u[i] \in Place
      BY <2>2, <2>6, ElementOfSeq
    <3>2. /\ Len(SubSeq(u, 1, Len(u) - 1)) = IF 1 <= Len(u) - 1 THEN Len(u) - 1 - 1 + 1 ELSE 0
          /\ \A i \in 1 .. Len(u) - 1 - 1 + 1 : SubSeq(u, 1, Len(u) - 1)[i] = u[1 + i - 1]
      BY <3>1, SubSeqProperties
    <3>3. v = SubSeq(u, 1, Len(u) - 1) /\ DOMAIN v = 1 .. Len(v)
      BY <2>5, LenProperties DEF Front
    <3> DEFINE n == Len(u)
    <3> HIDE DEF v
    <3>4. /\ n \in Nat \ {0} /\ DOMAIN u = 1 .. n
          /\ DOMAIN v = 1 .. (IF 1 <= n - 1 THEN n - 1 - 1 + 1 ELSE 0)
          /\ \A i \in 1 .. n - 1 - 1 + 1 : v[i] = u[1 + i - 1]
      BY <2>6, <3>2, <3>3
    <3> HIDE DEF n
    <3>5. \A i \in DOMAIN v : i \in DOMAIN u /\ v[i] = u[i]
      BY <3>4
    <3> QED  BY <2>2, <3>5
  <2> HIDE DEF v, p
  <2>9. Rest[p] = <<>> /\ Remaining[v] = <<>>
    BY <2>3, <2>5, <2>7, <2>8, SearchFinds DEF Finds
  <2>10. Remaining[v \o <<p>>] = Rest[p] \o Remaining[v]
    BY <2>5, RemainingOfOne, Zenon
  <2>11. <<>> \o <<>> = <<>>
    OBVIOUS
  <2> QED  BY <2>2, <2>5, <2>9, <2>10, <2>11, Zenon
<1> QED  BY <1>1

\* A set of naturals up to N that is not empty has a greatest element.
LEMMA GreatestNat ==
  ASSUME NEW N \in Nat, NEW T, T \subseteq 1 .. N, T # {}
  PROVE  \E n \in T : \A k \in T : k <= n
<1> DEFINE U == {m \in Nat : \A k \in T : k <= m}
<1>1. PICK u \in U : \A m \in U : u <= m
  <2>1. N \in U /\ U \subseteq Nat
    OBVIOUS
  <2> HIDE DEF U
  <2> QED  BY <2>1, LeastNat
<1>2. u \in Nat /\ \A k \in T : k <= u
  OBVIOUS
<1>3. ASSUME u \notin T PROVE FALSE
  <2>1. \A k \in T : k <= u - 1 /\ k \in Nat /\ 1 <= k
    BY <1>2, <1>3
  <2>2. u - 1 \in Nat
    <3>1. PICK k \in T : TRUE
      OBVIOUS
    <3>2. k \in Nat /\ 1 <= k /\ k <= u - 1
      BY <2>1, <3>1
    <3> QED  BY <1>2, <3>2
  <2>3. u - 1 \in U
    BY <2>1, <2>2
  <2>4. u <= u - 1
    BY <1>1, <2>3
  <2> QED  BY <1>2, <2>4
<1> QED  BY <1>2, <1>3

\* The first of a list, and the others.
LEMMA FirstAndOthers ==
  ASSUME NEW S, NEW x \in S, NEW r \in Seq(S)
  PROVE  <<x>> \o r # <<>> /\ Head(<<x>> \o r) = x /\ Tail(<<x>> \o r) = r
<1>1. Len(<<x>> \o r) = 1 + Len(r) /\ <<x>> \o r \in Seq(S) /\ Len(r) \in Nat
  OBVIOUS
<1>2. <<x>> \o r # <<>>
  BY <1>1, EmptySeq
<1>3. Head(<<x>> \o r) = x
  OBVIOUS
<1>4. Tail(<<x>> \o r) = r
  OBVIOUS
<1> QED  BY <1>2, <1>3, <1>4

\* get_next_action moves on to the first of the actions that are left, unless none is.
MovesOn(s, next) ==
  IF next = <<>> THEN Remaining[s] = <<>>
  ELSE /\ next \in Seq(Place) /\ ActionAt(next) \in Action
       /\ Remaining[s] = <<ActionAt(next)>> \o Remaining[next]

\* It does so from any contexts.
LEMMA NextIsFirst == ASSUME NEW s \in Seq(Place) PROVE MovesOn(s, GetNextAction(s))
<1> DEFINE going == {n \in DOMAIN s : Found[s[n]] # <<>>}
           n == CHOOSE m \in going : \A k \in going : k <= m
           F == Found[s[n]]
           before == SubSeq(s, 1, n - 1)
           upto == SubSeq(s, 1, n)
           after == SubSeq(s, n + 1, Len(s))
<1>1. Len(s) \in Nat /\ DOMAIN s = 1 .. Len(s)
  BY LenProperties
<1>2. CASE going = {}
  <2>1. GetNextAction(s) = <<>>
    BY <1>2, Zenon DEF GetNextAction
  <2>2. Remaining[s] = <<>>
    BY <1>2, NoneLeft
  <2> QED  BY <2>1, <2>2, Zenon DEF MovesOn
<1>3. CASE going # {}
  <2>1. GetNextAction(s) = before \o F
    BY <1>3, Zenon DEF GetNextAction
  <2>2. n \in going /\ \A k \in going : k <= n
    <3>1. going \subseteq 1 .. Len(s)
      BY <1>1
    <3> HIDE DEF going
    <3> QED  BY <1>1, <1>3, <3>1, GreatestNat
  <2>3. n \in 1 .. Len(s) /\ F # <<>> /\ s[n] \in Place
    <3>1. n \in DOMAIN s /\ F # <<>>
      <4> HIDE DEF n
      <4> QED  BY <2>2
    <3> HIDE DEF n, F
    <3> QED  BY <1>1, <3>1, ElementOfSeq
  <2>4. \A k \in DOMAIN s : k > n => Found[s[k]] = <<>>
    <3> HIDE DEF n
    <3>1. n \in Nat
      BY <1>1, <2>3
    <3>2. \A k \in DOMAIN s : k > n => k \notin going
      <4> HIDE DEF going
      <4> QED  BY <1>1, <2>2, <3>1
    <3> QED  BY <3>2
  <2> HIDE DEF n, going
  <2>5. F \in Seq(Place)
    BY <2>3, FoundDef
  <2>6. /\ before \in Seq(Place) /\ upto \in Seq(Place) /\ after \in Seq(Place)
        /\ \A k \in DOMAIN after : Found[after[k]] = <<>>
    <3> DEFINE l == Len(s)
    <3>1. l \in Nat /\ n \in 1 .. l /\ n \in Int /\ n - 1 \in Int /\ n + 1 \in Int
          /\ 1 \in Int /\ l \in Int
      <4>1. l \in Nat /\ n \in 1 .. l
        BY <1>1, <2>3
      <4> HIDE DEF l
      <4> QED  BY <4>1
    <3>2. \A k \in 1 .. l : s[k] \in Place
      BY ElementOfSeq
    <3> HIDE DEF l
    <3>3. /\ \A k \in 1 .. n - 1 : s[k] \in Place
          /\ \A k \in 1 .. n : s[k] \in Place
          /\ \A k \in n + 1 .. l : s[k] \in Place
      BY <3>1, <3>2
    <3>4. before \in Seq(Place) /\ upto \in Seq(Place)
      BY <3>1, <3>3, SubSeqProperties
    <3> DEFINE rest == SubSeq(s, n + 1, l)
    <3>5. /\ rest \in Seq(Place)
          /\ Len(rest) = IF n + 1 <= l THEN l - (n + 1) + 1 ELSE 0
          /\ \A i \in 1 .. l - (n + 1) + 1 : rest[i] = s[n + 1 + i - 1]
      BY <3>1, <3>3, SubSeqProperties
    <3>6. after = rest
      BY DEF l
    <3> HIDE DEF rest, after, before, upto
    <3>7. DOMAIN rest = 1 .. Len(rest)
      BY <3>5, LenProperties
    <3>8. DOMAIN s = 1 .. l
      BY <1>1 DEF l
    <3>9. \A k \in DOMAIN rest :
            rest[k] = s[n + 1 + k - 1] /\ n + 1 + k - 1 \in DOMAIN s /\ n + 1 + k - 1 > n
      BY <3>1, <3>5, <3>7, <3>8
    <3>10. \A k \in DOMAIN rest : Found[rest[k]] = <<>>
      BY <2>4, <3>9
    <3> QED  BY <3>4, <3>5, <3>6, <3>10
  <2>7. s = upto \o after
    <3> DEFINE l == Len(s)
    <3>1. l \in Nat /\ n \in 1 .. l
      BY <1>1, <2>3
    <3> HIDE DEF l
    <3>2. 1 \in 1 .. l + 1 /\ n \in 1 - 1 .. l /\ l \in n .. l
      BY <3>1
    <3>3. SubSeq(s, 1, n) \o SubSeq(s, n + 1, l) = SubSeq(s, 1, l)
      BY <3>2, ConcatAdjacentSubSeq DEF l
    <3>4. SubSeq(s, 1, l) = s
      BY SubSeqFull DEF l
    <3> QED  BY <3>3, <3>4, Zenon DEF l
  <2>8. upto = before \o <<s[n]>>
    <3>1. 1 \in 1 .. Len(s) /\ n \in 1 .. Len(s)
      BY <1>1, <2>3
    <3> QED  BY <3>1, SubSeqRecursiveSecond
  <2> HIDE DEF before, upto, after
  <2>9. Remaining[after] = <<>> /\ Remaining[before] \in Seq(Action)
        /\ Remaining[upto] \in Seq(Action)
    BY <2>6, NoneLeft, RemainingDef
  <2>10. Remaining[s] = Remaining[upto]
    <3>1. Remaining[upto \o after] = Remaining[after] \o Remaining[upto]
      BY <2>6, RemainingOfBoth
    <3>2. <<>> \o Remaining[upto] = Remaining[upto]
      BY <2>9, ConcatEmptySeq
    <3> QED  BY <2>7, <2>9, <3>1, <3>2, Zenon
  <2>11. Remaining[upto] = Rest[s[n]] \o Remaining[before]
    BY <2>3, <2>6, <2>8, RemainingOfOne, Zenon
  <2> DEFINE x == ActionAt(F)
  <2>12. x \in Action /\ Rest[s[n]] = <<x>> \o Remaining[F]
    BY <2>3, SearchFinds, Zenon DEF Finds
  <2> HIDE DEF F
  <2>13. /\ before \o F \in Seq(Place) /\ Remaining[F] \in Seq(Action)
         /\ Remaining[before \o F] = Remaining[F] \o Remaining[before]
    BY <2>5, <2>6, RemainingOfBoth
  <2>14. before \o F # <<>> /\ ActionAt(before \o F) = x
    <3>1. before \o F # <<>> /\ Last(before \o F) = Last(F)
      BY <2>3, <2>5, <2>6, LastOfBoth DEF F
    <3> QED  BY <3>1, Zenon DEF ActionAt
  <2> HIDE DEF x
  <2>15. <<x>> \o (Remaining[F] \o Remaining[before]) =
           (<<x>> \o Remaining[F]) \o Remaining[before]
    <3> DEFINE a == <<x>>  b == Remaining[F]  c == Remaining[before]
    <3>1. a \in Seq(Action) /\ b \in Seq(Action) /\ c \in Seq(Action)
      BY <2>9, <2>12, <2>13
    <3> HIDE DEF a, b, c
    <3>2. a \o (b \o c) = (a \o b) \o c
      BY <3>1, Associative
    <3> QED  BY <3>2 DEF a, b, c
  <2>16. Remaining[s] = <<x>> \o Remaining[before \o F]
    BY <2>10, <2>11, <2>12, <2>13, <2>15, Zenon
  <2> QED  BY <2>1, <2>12, <2>13, <2>14, <2>16, Zenon DEF MovesOn
<1> QED  BY <1>2, <1>3

-----------------------------------------------------------------------------

\* The contexts of the active script are places in scripts that have no errors.
InPlace == active.context \in Seq(Place)

\* What follows an action says nothing of the contexts or of what was performed.
LEMMA FollowedKeeps ==
  ASSUME NEW e, IsExecution(e), NEW action, NEW cmds, NEW cs,
         NEW next \in Followed(e, action, cmds, cs)
  PROVE  next.context = e.context /\ next.performed = e.performed /\ next.outcome = e.outcome
<1> DEFINE waits == [e EXCEPT !.waitingOn = cmds, !.waitingFor = action.wait]
           moves == [e EXCEPT !.timers = @ + 1]
<1>1. next \in {moves, waits, Checked(waits, cs)}
  BY DEF Followed
<1>2. moves.context = e.context /\ moves.performed = e.performed /\ moves.outcome = e.outcome
  BY DEF IsExecution
<1>3. /\ waits.context = e.context /\ waits.performed = e.performed
      /\ waits.outcome = e.outcome /\ IsExecution(waits)
  <2>1. waits = [context |-> e.context, waitingOn |-> cmds, waitingFor |-> action.wait,
                 timers |-> e.timers, performed |-> e.performed,
                 disturbed |-> e.disturbed, outcome |-> e.outcome]
    BY WaitingFields
  <2>2. e.timers \in Nat
    BY DEF IsExecution
  <2> HIDE DEF waits
  <2> QED  BY <2>1, <2>2 DEF IsExecution
<1> HIDE DEF waits, moves
<1>4. LET c == Checked(waits, cs)
      IN  c.context = waits.context /\ c.performed = waits.performed
            /\ c.outcome = waits.outcome
  BY <1>3 DEF Checked, IsExecution
<1> QED  BY <1>1, <1>2, <1>3, <1>4

\* _execute_next_script_action performs the first action that is left, or ends the script.
LEMMA ExecuteNextPerforms ==
  ASSUME NEW e, IsExecution(e), NEW left, e.context \in Seq(Place), ExecuteNext(e, left)
  PROVE  IF Remaining[e.context] = <<>> THEN active' = [Idle EXCEPT !.outcome = "finished"]
         ELSE /\ active'.context \in Seq(Place) /\ active'.context # <<>>
              /\ active'.performed = Append(e.performed, Head(Remaining[e.context]))
              /\ Remaining[active'.context] = Tail(Remaining[e.context])
              /\ active'.outcome = e.outcome
<1> DEFINE next   == GetNextAction(e.context)
           action == ActionAt(next)
           cmds   == action.cmds \cap known
           acted  == [i \in Ids |-> IF i \in cmds THEN Acted(action.type, commands[i])
                                   ELSE commands[i]]
           moved  == [e EXCEPT !.context = next, !.performed = Append(@, action)]
<1>1. MovesOn(e.context, next)
  BY NextIsFirst
<1>2. CASE next = <<>>
  <2>1. active' = [Idle EXCEPT !.outcome = "finished"]
    BY <1>2 DEF ExecuteNext, FinishScript
  <2> QED  BY <1>1, <1>2, <2>1, Zenon DEF MovesOn
<1>3. CASE next # <<>>
  <2>1. active' \in Followed(moved, action, cmds, acted)
    BY <1>3 DEF ExecuteNext
  <2>2. /\ next \in Seq(Place) /\ action \in Action
        /\ Remaining[e.context] = <<action>> \o Remaining[next]
    BY <1>1, <1>3, Zenon DEF MovesOn
  <2> HIDE DEF next, action, cmds, acted
  <2>3. /\ IsExecution(moved) /\ moved.context = next /\ moved.outcome = e.outcome
        /\ moved.performed = Append(e.performed, action)
    <3>1. moved = [context |-> next, waitingOn |-> e.waitingOn, waitingFor |-> e.waitingFor,
                   timers |-> e.timers, performed |-> Append(e.performed, action),
                   disturbed |-> e.disturbed, outcome |-> e.outcome]
      BY MovingFields
    <3>2. e.timers \in Nat
      BY DEF IsExecution
    <3> DEFINE list == Append(e.performed, action)
    <3> HIDE DEF moved, list
    <3>3. IsExecution(moved) /\ moved.context = next /\ moved.outcome = e.outcome
            /\ moved.performed = list
      BY <3>1, <3>2 DEF IsExecution, list
    <3> QED  BY <3>3 DEF list
  <2> HIDE DEF moved
  <2>4. /\ active'.context = next /\ active'.performed = Append(e.performed, action)
        /\ active'.outcome = e.outcome
    <3>1. \A n \in Followed(moved, action, cmds, acted) :
            n.context = moved.context /\ n.performed = moved.performed
              /\ n.outcome = moved.outcome
      BY <2>3, FollowedKeeps
    <3> QED  BY <2>1, <2>3, <3>1, Zenon
  <2>5. Remaining[next] \in Seq(Action)
    BY <2>2, RemainingDef
  <2>6. /\ Remaining[e.context] # <<>> /\ Head(Remaining[e.context]) = action
        /\ Tail(Remaining[e.context]) = Remaining[next]
    <3> DEFINE r == Remaining[next]
    <3>1. r \in Seq(Action)
      BY <2>5
    <3> HIDE DEF r
    <3>2. <<action>> \o r # <<>> /\ Head(<<action>> \o r) = action /\ Tail(<<action>> \o r) = r
      BY <2>2, <3>1, FirstAndOthers
    <3> QED  BY <2>2, <3>2, Zenon DEF r
  <2> QED  BY <1>3, <2>2, <2>4, <2>6, Zenon
<1> QED  BY <1>2, <1>3

\* The variables of Run, by name.
LEMMA RunVars == Run!vars = <<Running(active), active.performed, Remaining[active.context],
                              active.outcome, executions>>
BY DEF Run!vars

\* No script is active at first.
LEMMA InitRuns == Init => InPlace /\ Run!Init
<1> SUFFICES ASSUME Init PROVE InPlace /\ Run!Init
  OBVIOUS
<1>1. active.context = <<>> /\ active.performed = <<>> /\ active.outcome = "none"
      /\ executions = 0
  BY DEF Init, Idle
<1>2. <<>> \in Seq(Place) /\ Remaining[<<>>] = <<>>
  BY RemainingOfOne
<1> QED  BY <1>1, <1>2 DEF InPlace, Run!Init, Running

\* What ends a script ends it there.
LEMMA FinishRuns ==
  ASSUME NEW outcome, active' = [Idle EXCEPT !.outcome = outcome]
  PROVE  InPlace' /\ Run!End(outcome)
<1>1. active'.context = <<>> /\ active'.performed = <<>> /\ active'.outcome = outcome
  BY DEF Idle
<1>2. <<>> \in Seq(Place) /\ Remaining[<<>>] = <<>>
  BY RemainingOfOne
<1> QED  BY <1>1, <1>2 DEF InPlace, Run!End, Running

\* A source that comes due performs the next action of the script that is active, or ends it.
LEMMA MovingRuns ==
  ASSUME InPlace, Running(active), UNCHANGED executions,
         NEW e, IsExecution(e), e.context = active.context, e.performed = active.performed,
         e.outcome = active.outcome, NEW left, ExecuteNext(e, left)
  PROVE  InPlace' /\ Run!Next
<1> DEFINE todo == Remaining[active.context]
<1>1. IF todo = <<>> THEN active' = [Idle EXCEPT !.outcome = "finished"]
      ELSE /\ active'.context \in Seq(Place) /\ active'.context # <<>>
           /\ active'.performed = Append(active.performed, Head(todo))
           /\ Remaining[active'.context] = Tail(todo)
           /\ active'.outcome = active.outcome
  <2>1. e.context \in Seq(Place)
    BY DEF InPlace
  <2> QED  BY <2>1, ExecuteNextPerforms
<1>2. CASE todo = <<>>
  <2>1. InPlace' /\ Run!End("finished")
    BY <1>1, <1>2, FinishRuns
  <2>2. Run!Finish
    BY <1>2, <2>1 DEF Run!Finish
  <2> QED  BY <2>1, <2>2 DEF Run!Next
<1>3. CASE todo # <<>>
  <2>1. InPlace' /\ Running(active)'
    BY <1>1, <1>3 DEF InPlace, Running
  <2>2. Run!Perform
    BY <1>1, <1>3, <2>1 DEF Run!Perform
  <2> QED  BY <2>1, <2>2 DEF Run!Next
<1> QED  BY <1>2, <1>3

\* execute_script aborts the active script and begins another, unless it has errors.
LEMMA ExecuteScriptRuns ==
  ASSUME IInv, InPlace, NEW script \in Scripts, ExecuteScript(script)
  PROVE  InPlace' /\ Run!Next
<1>1. executions' = executions + 1
  BY DEF ExecuteScript
<1>2. CASE HasErrors(script)
  <2>1. active' = [Idle EXCEPT !.outcome = "aborted"]
    BY <1>2 DEF ExecuteScript, FinishScript
  <2>2. InPlace' /\ Run!End("aborted")
    BY <2>1, FinishRuns
  <2>3. Run!Begin(<<>>)
    BY <1>1, <2>2 DEF Run!Begin
  <2>4. <<>> \in Lists
    BY DEF Lists
  <2> QED  BY <2>2, <2>3, <2>4 DEF Run!Next
<1>3. CASE ~HasErrors(script)
  <2> DEFINE c == Called(script)
             e == [Idle EXCEPT !.context = <<c>>]
             list == Rest[c]
  <2>1. ExecuteNext(e, stale + active.timers)
    BY <1>3 DEF ExecuteScript
  <2>2. script \in Sound
    BY <1>3 DEF HasErrors
  <2>3. c \in Place /\ list \in Lists
    <3>1. Actions[script] \in Seq(Action)
      BY ActionsAssumption
    <3>2. 0 \in 0 .. Len(Actions[script])
      BY <3>1, LenProperties
    <3>3. c \in Place
      BY <2>2, <3>2 DEF Place, Called
    <3> QED  BY <2>2, <3>3 DEF Lists
  <2> HIDE DEF c
  <2>4. /\ IsExecution(e) /\ e.context = <<c>> /\ e.performed = <<>>
        /\ e.outcome = "none"
    <3>1. IsExecution(e)
      BY IdleFields
    <3>2. e.context = <<c>> /\ e.performed = <<>> /\ e.outcome = "none"
      BY DEF Idle
    <3> QED  BY <3>1, <3>2
  <2>5. <<c>> \in Seq(Place) /\ Remaining[<<c>>] = list
    BY <2>3, RemainingOfOne
  <2> HIDE DEF e, list
  <2>6. IF list = <<>> THEN active' = [Idle EXCEPT !.outcome = "finished"]
        ELSE /\ active'.context \in Seq(Place) /\ active'.context # <<>>
             /\ active'.performed = Append(<<>>, Head(list))
             /\ Remaining[active'.context] = Tail(list)
             /\ active'.outcome = "none"
    BY <2>1, <2>4, <2>5, ExecuteNextPerforms
  <2>7. CASE list = <<>>
    <3>1. InPlace' /\ Run!End("finished")
      BY <2>6, <2>7, FinishRuns
    <3>2. Run!Begin(list)
      BY <1>1, <2>7, <3>1 DEF Run!Begin
    <3> QED  BY <2>3, <3>1, <3>2 DEF Run!Next
  <2>8. CASE list # <<>>
    <3>1. InPlace' /\ Running(active)'
      BY <2>6, <2>8 DEF InPlace, Running
    <3>2. Append(<<>>, Head(list)) = <<Head(list)>>
      OBVIOUS
    <3>3. Run!Begin(list)
      BY <1>1, <2>6, <2>8, <3>1, <3>2 DEF Run!Begin
    <3> QED  BY <2>3, <3>1, <3>3 DEF Run!Next
  <2> QED  BY <2>7, <2>8
<1> QED  BY <1>2, <1>3

\* Infos, commands and sources of scripts that are over leave the script where it is.
LEMMA StaysRuns ==
  ASSUME InPlace, UNCHANGED executions, active'.context = active.context,
         active'.performed = active.performed, active'.outcome = active.outcome
  PROVE  InPlace' /\ UNCHANGED Run!vars
BY RunVars DEF InPlace, Run!vars, Running

\* Every step is one of Run, or none.
LEMMA NextRuns == IInv /\ InPlace /\ [Next]_vars => InPlace' /\ [Run!Next]_Run!vars
<1> SUFFICES ASSUME IInv, InPlace, [Next]_vars PROVE InPlace' /\ [Run!Next]_Run!vars
  OBVIOUS
<1>1. IsExecution(active)
  BY DEF IInv, Types
<1>2. ASSUME NEW script \in Scripts, ExecuteScript(script)
      PROVE  InPlace' /\ Run!Next
  BY <1>2, ExecuteScriptRuns
<1>3. CASE AbortScript
  <2>1. InPlace' /\ Run!End("aborted")
    BY <1>3, FinishRuns DEF AbortScript, FinishScript
  <2>2. Run!Abort
    BY <1>3, <2>1 DEF AbortScript, Run!Abort
  <2> QED  BY <2>1, <2>2 DEF Run!Next
<1>4. CASE TimerFires
  <2> DEFINE e == [active EXCEPT !.timers = @ - 1]
  <2>1. ExecuteNext(e, stale) /\ UNCHANGED executions /\ active.timers > 0
    BY <1>4 DEF TimerFires
  <2>2. Running(active)
    BY <2>1 DEF IInv, Places
  <2>3. /\ IsExecution(e) /\ e.context = active.context /\ e.performed = active.performed
        /\ e.outcome = active.outcome
    <3>1. e = [context |-> active.context, waitingOn |-> active.waitingOn,
               waitingFor |-> active.waitingFor, timers |-> active.timers - 1,
               performed |-> active.performed, disturbed |-> active.disturbed,
               outcome |-> active.outcome]
      BY <1>1 DEF IsExecution
    <3>2. active.timers - 1 \in Nat
      BY <1>1, <2>1 DEF IsExecution
    <3> HIDE DEF e
    <3> QED  BY <3>1, <3>2 DEF IsExecution
  <2> HIDE DEF e
  <2> QED  BY <2>1, <2>2, <2>3, MovingRuns
<1>5. CASE StaleTimerFires /\ Running(active)
  <2> DEFINE e == [active EXCEPT !.disturbed = TRUE]
  <2>1. ExecuteNext(e, stale - 1) /\ UNCHANGED executions
    BY <1>5 DEF StaleTimerFires
  <2>2. /\ IsExecution(e) /\ e.context = active.context /\ e.performed = active.performed
        /\ e.outcome = active.outcome
    <3>1. e = [context |-> active.context, waitingOn |-> active.waitingOn,
               waitingFor |-> active.waitingFor, timers |-> active.timers,
               performed |-> active.performed, disturbed |-> TRUE,
               outcome |-> active.outcome]
      BY <1>1, DisturbedFields
    <3>2. active.timers \in Nat
      BY <1>1 DEF IsExecution
    <3> HIDE DEF e
    <3> QED  BY <3>1, <3>2 DEF IsExecution
  <2> HIDE DEF e
  <2> QED  BY <1>5, <2>1, <2>2, MovingRuns
<1>6. CASE StaleTimerFires /\ ~Running(active)
  BY <1>6, StaysRuns DEF StaleTimerFires
<1>7. CASE ReceiveInfo
  <2>1. PICK cs : active' \in {active, Checked(active, cs)}
    BY <1>7 DEF ReceiveInfo
  <2>2. /\ active'.context = active.context /\ active'.performed = active.performed
        /\ active'.outcome = active.outcome
    BY <1>1, <2>1 DEF Checked, IsExecution
  <2> QED  BY <1>7, <2>2, StaysRuns DEF ReceiveInfo
<1>8. CASE DeputyReports
  BY <1>8, StaysRuns DEF DeputyReports
<1>9. ASSUME NEW i \in Ids, RemoveCommand(i) \/ DeputyObeys(i) \/ ProcessExits(i)
      PROVE  InPlace' /\ UNCHANGED Run!vars
  BY <1>9, StaysRuns DEF RemoveCommand, DeputyObeys, ProcessExits
<1>10. CASE UNCHANGED vars
  BY <1>10, StaysRuns DEF vars
<1> QED  BY <1>2, <1>3, <1>4, <1>5, <1>6, <1>7, <1>8, <1>9, <1>10 DEF Next

\* The nested contexts of get_next_action, whichever timers and infos advance them, perform the
\* actions of the script and of those it runs in order and each of them once: for any scripts
\* that call one another to any depth, and also when a source of an earlier script interferes.
THEOREM ScriptsRunAsWritten == Spec => RunsAsWritten
<1>1. Init => InPlace /\ Run!Init
  BY InitRuns
<1>2. IInv /\ InPlace /\ [Next]_vars => InPlace' /\ [Run!Next]_Run!vars
  BY NextRuns
<1> QED  BY <1>1, <1>2, Invariance, PTL DEF Spec, RunsAsWritten, Run!Spec
=============================================================================
