------------------------------ MODULE Procman ------------------------------
(***************************************************************************)
(* A sheriff and one of its deputies, joined by LCM's multicast: orders    *)
(* one way, infos the other.  A message may be lost (a lost packet, a full *)
(* buffer, orders that the deputy finds stale); messages between the two   *)
(* hosts are not reordered.                                                *)
(***************************************************************************)
EXTENDS Naturals, Sequences

CONSTANTS
  Ids,             \* sheriff_ids
  MaxRunid,        \* bound on run ids
  Respawns,        \* the auto_respawn settings that users choose
  Text,            \* what the command of each id looks like
  MaxInFlight,     \* bound on the messages under way in one direction
  MaxRestarts      \* bound on the restarts of the sheriff and the deputy

ASSUME MaxRunidAssumption == MaxRunid \in Nat

ASSUME RespawnsAssumption == Respawns \subseteq BOOLEAN

ASSUME MaxInFlightAssumption == MaxInFlight \in Nat \ {0}

ASSUME MaxRestartsAssumption == MaxRestarts \in Nat

VARIABLES
  managed, cmds, mode, sigchld, dangling, wanted,   \* the deputy
  known, commands, heard, fate,                     \* the sheriff
  orders,          \* orders under way
  infos,           \* infos under way
  restarts         \* how often the sheriff or the deputy was restarted

deputyVars  == <<managed, cmds, mode, sigchld, dangling, wanted>>
sheriffVars == <<known, commands, heard, fate>>
vars == <<deputyVars, sheriffVars, orders, infos, restarts>>

Deputy  == INSTANCE ProcmanDeputy
Sheriff == INSTANCE Sheriff

-----------------------------------------------------------------------------
(* The network *)

\* The channels that sending a message may leave.
Sent(channel, message) ==
  {channel} \cup (IF Len(channel) < MaxInFlight THEN {Append(channel, message)} ELSE {})

\* send_orders: only to a deputy that was heard from.
SendOrders ==
  orders' \in IF heard' THEN Sent(orders, Sheriff!MakeOrders') ELSE {orders}

\* What transmit_proc_info reports of the commands in listed.
Report(listed) ==
  [i \in listed |-> [pid          |-> Deputy!HasPid(cmds[i]),
                     actual_runid |-> cmds[i].actual_runid,
                     auto_respawn |-> cmds[i].auto_respawn]]

-----------------------------------------------------------------------------
(* The sheriff's host *)

UserActs ==
  /\ Sheriff!UserOrders
  /\ SendOrders
  /\ UNCHANGED <<deputyVars, infos, restarts>>

UserSetsAutoRespawn ==
  /\ \E i \in Ids, auto_respawn \in Respawns : Sheriff!SetAutoRespawn(i, auto_respawn)
  /\ UNCHANGED <<deputyVars, orders, infos, restarts>>

\* Defect: orders are sent when a user acts, and never again.
RepeatOrdersOff == FALSE /\ UNCHANGED vars

\* The timer that repeats the orders every second.
RepeatOrders ==
  /\ UNCHANGED <<deputyVars, sheriffVars, infos, restarts>>
  /\ SendOrders

ReceiveInfo ==
  /\ infos # <<>>
  /\ infos' = Tail(infos)
  /\ Sheriff!ReceiveInfo(Head(infos))
  /\ UNCHANGED <<deputyVars, orders, restarts>>

\* A new process receives nothing that was sent before it subscribed, and what
\* the old one sent has arrived or is lost by the time the new one runs.
RestartSheriff ==
  /\ restarts < MaxRestarts
  /\ orders = <<>> /\ infos = <<>>
  /\ restarts' = restarts + 1
  /\ Sheriff!SheriffRestarts
  /\ UNCHANGED <<deputyVars, orders, infos>>

-----------------------------------------------------------------------------
(* The deputy's host *)

\* action_taken in _handle_orders2: the deputy adds, starts, stops or culls.
TakesAction(named) ==
  \/ DOMAIN named # managed
  \/ \E i \in DOMAIN named :
       LET rerun == named[i].desired_runid # cmds[i].actual_runid
       IN  IF Deputy!HasPid(cmds[i]) THEN named[i].force_quit \/ rerun
           ELSE rerun /\ ~named[i].force_quit

ReceiveOrders(forks) ==
  /\ orders # <<>>
  /\ mode = "running"
  /\ orders' = Tail(orders)
  /\ Deputy!HandleOrders(Head(orders), forks)
  /\ infos' \in IF TakesAction(Head(orders)) THEN Sent(infos, Report(managed)') ELSE {infos}
  /\ UNCHANGED <<sheriffVars, restarts>>

\* "ignore orders if we're exiting"; with no deputy, nobody receives them.
IgnoreOrders ==
  /\ orders # <<>>
  /\ mode # "running"
  /\ orders' = Tail(orders)
  /\ UNCHANGED <<deputyVars, sheriffVars, infos, restarts>>

\* check_for_dead_children transmits after each child.  Only the last report
\* omits every command that is freed; one of the reports may get through.
HandleSigchld ==
  /\ Deputy!HandleSigchld
  /\ infos' \in
       IF Deputy!Exited = {} THEN {infos}
       ELSE UNION {Sent(infos, [i \in managed' \cup kept |->
                                  IF i \in kept
                                  THEN [Report({i})[i] EXCEPT !.pid = FALSE]
                                  ELSE Report(managed)'[i]])
                   : kept \in (SUBSET (managed \ managed')) \ {Deputy!Exited}}
  /\ UNCHANGED <<sheriffVars, orders, restarts>>

\* one_second_timeout.
ReportEverySecond ==
  /\ Deputy!Up
  /\ infos' \in Sent(infos, Report(managed))
  /\ UNCHANGED <<deputyVars, sheriffVars, orders, restarts>>

DeputyActs ==
  /\ Deputy!Timers \/ \E i \in Ids : Deputy!ChildExits(i) \/ Deputy!StopTimePasses(i)
  /\ UNCHANGED <<sheriffVars, orders, infos, restarts>>

\* The deputy is told to quit, and is started again once it has.  It spends
\* its first moments on discovery, so no message under way survives a restart.
QuitDeputy ==
  /\ restarts < MaxRestarts
  /\ restarts' = restarts + 1
  /\ Deputy!HandleQuitSignal
  /\ UNCHANGED <<sheriffVars, orders, infos>>

RestartDeputy ==
  /\ mode = "quit"
  /\ orders = <<>> /\ infos = <<>>
  /\ managed' = {} /\ wanted' = {}
  /\ cmds' = [i \in Ids |-> Deputy!NewCommand]
  /\ mode' = "running"
  /\ sigchld' = FALSE /\ dangling' = FALSE
  /\ UNCHANGED <<sheriffVars, orders, infos, restarts>>

-----------------------------------------------------------------------------

Init ==
  /\ Deputy!Init
  /\ Sheriff!Init
  /\ orders = <<>> /\ infos = <<>>
  /\ restarts = 0

Next ==
  \/ UserActs \/ UserSetsAutoRespawn
  \/ RepeatOrders \/ ReceiveInfo
  \/ (\E forks \in SUBSET Ids : ReceiveOrders(forks)) \/ IgnoreOrders
  \/ HandleSigchld
  \/ ReportEverySecond
  \/ DeputyActs
  \/ RestartSheriff \/ QuitDeputy \/ RestartDeputy

Spec == Init /\ [][Next]_vars

\* What is repeated gets through in the end; what arrived is handled; forkpty
\* succeeds in the end.
Fairness ==
  /\ SF_vars(RepeatOrders /\ orders' # orders)
  /\ SF_vars(ReportEverySecond /\ infos' # infos)
  /\ WF_vars(ReceiveInfo)
  /\ WF_vars(\E forks \in SUBSET Ids : ReceiveOrders(forks))
  /\ SF_vars(ReceiveOrders(Ids))
  /\ WF_vars(IgnoreOrders)
  /\ WF_vars(HandleSigchld)
  /\ \A i \in Ids : WF_vars(DeputyActs /\ cmds[i].signal = "kill" /\ Deputy!ChildExits(i))
  /\ \A i \in Ids : WF_vars(DeputyActs /\ Deputy!StopTimePasses(i))

FairSpec == Spec /\ Fairness

-----------------------------------------------------------------------------
(* Properties *)

InfoEntry == [pid : BOOLEAN, actual_runid : Deputy!RunIds, auto_respawn : BOOLEAN]

Infos == UNION {[S -> InfoEntry] : S \in SUBSET Ids}

\* Every variable has its type, and only messages of their types are under way.
TypeOK ==
  /\ Deputy!TypeOK /\ Sheriff!TypeOK
  /\ orders \in Seq(Deputy!Orders) /\ Len(orders) <= MaxInFlight
  /\ infos \in Seq(Infos) /\ Len(infos) <= MaxInFlight
  /\ restarts \in 0 .. MaxRestarts

\* Orders that arrive start a process of command i.
OrdersStart(i) ==
  orders' # orders /\ ~Deputy!HasPid(cmds[i]) /\ Deputy!HasPid(cmds[i])'

\* Each run happens once: orders start a command only for a later run than the
\* one it last had, however often they are repeated.
RunsAdvance ==
  [][\A i \in Ids : OrdersStart(i) /\ fate[i] # "dropped" =>
                     cmds[i].actual_runid < cmds[i].actual_runid']_vars

\* The commands of the list that were never off it.
Steady == {i \in known : fate[i] \in {"used", "disturbed"}}

\* A command that does not respawn and that the sheriff shows as stopped is
\* not running, although what the sheriff knows and the orders under way may
\* both be old.
StoppedIsStopped ==
  \A i \in Steady : Sheriff!Status(commands[i]) = "stopped" =>
                      ~Deputy!HasPid(cmds[i])

\* The deputy never runs ahead of the sheriff: no run id that the deputy has,
\* or that an order or an info under way carries, is later than the one the
\* sheriff wants, so a start always asks for a run that is new to the deputy.
RunidsAgree ==
  \A i \in Steady :
    /\ cmds[i].actual_runid <= commands[i].desired_runid
    /\ \A k \in 1 .. Len(orders) :
         i \in DOMAIN orders[k] => orders[k][i].desired_runid <= commands[i].desired_runid
    /\ \A k \in 1 .. Len(infos) :
         i \in DOMAIN infos[k] => infos[k][i].actual_runid <= commands[i].desired_runid

\* The removal of a command that some info had shown is final: once the sheriff
\* has taken it off its list, neither the deputy nor any message has it.
RemovalIsFinal ==
  \A i \in Ids : fate[i] = "removed" =>
    /\ i \notin known \cup managed
    /\ \A k \in 1 .. Len(orders) : i \notin DOMAIN orders[k]
    /\ \A k \in 1 .. Len(infos) : i \notin DOMAIN infos[k]

\* A process whose command was only ever added and started once is left alone:
\* lost messages, old infos, completed runs, a sheriff that restarts and takes
\* the command over, or a deputy that restarts never make the deputy stop it.
Undisturbed ==
  \A i \in Ids : fate[i] = "used" /\ mode = "running" => cmds[i].signal = "none"

Listed(i)   == i \in known /\ ~commands[i].scheduled_for_removal
Stopping(i) == Listed(i) /\ commands[i].force_quit

\* A command that the user stops, and does not start again, stops, even if it
\* ignores its stop signal: the repeated orders drive the deputy to SIGKILL.
StopTakesEffect ==
  \A i \in Ids : Stopping(i) ~> ~Stopping(i) \/ ~Deputy!HasPid(cmds[i])

\* A command that the user removes disappears from the sheriff's list.
RemovalCompletes ==
  \A i \in Ids : i \in known /\ commands[i].scheduled_for_removal ~> i \notin known

\* A run that the user asks for takes place, or the user changes his mind: the
\* deputy gets to that run id even if the previous run has to be killed first.
StartTakesEffect ==
  \A i \in Ids, r \in Deputy!RunIds :
    Listed(i) /\ ~commands[i].force_quit /\ commands[i].desired_runid = r
      ~> \/ cmds[i].actual_runid = r
         \/ ~Listed(i) \/ commands[i].force_quit \/ commands[i].desired_runid # r

-----------------------------------------------------------------------------
(* What the sheriff's documentation claims *)

\* A command that was removed stays removed (sheriff.py:1085-1088: the sheriff
\* "needs to wait for removal confirmation from the deputy").  An info that was
\* sent before the deputy had heard of the command counts as confirmation.
RemovedStaysRemoved == \A i \in known : fate[i] \notin {"dropped", "removed"}

\* Every info is taken in (sheriff.py:329-331: last_update_utime is "Zero if no
\* info has ever been received").  Reconciling the first one raises.
EveryInfoIsHeard == [][ReceiveInfo => heard']_vars
====
