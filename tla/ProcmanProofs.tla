--------------------------- MODULE ProcmanProofs ---------------------------
(***************************************************************************)
(* What is proved of the sheriff and the deputy together.  First, what each *)
(* step of either and of the network does to one command, and that every    *)
(* variable keeps its type, for any number of commands, messages and         *)
(* restarts.  Then, of a sheriff and a deputy that are not restarted: run    *)
(* ids agree, a removal is final, each run happens once, what is shown as   *)
(* stopped is stopped, and a process that was started once is left alone.   *)
(***************************************************************************)
EXTENDS Procman, TLAPS

DP == INSTANCE ProcmanDeputyProofs

-----------------------------------------------------------------------------
(* The deputy, as its own proofs know it *)

\* The deputy of this system has the types that its proofs are about,
LEMMA SameTypes ==
  /\ DP!Command = Deputy!Command /\ DP!Order = Deputy!Order
  /\ DP!Orders = Deputy!Orders /\ DP!NewCommand = Deputy!NewCommand
BY DEF DP!Command, DP!Process, DP!RunIds, DP!Order, DP!Orders, DP!NewCommand,
       Deputy!Command, Deputy!Process, Deputy!RunIds, Deputy!Order, Deputy!Orders,
       Deputy!NewCommand

\* the operations on one command,
LEMMA SameOperations ==
  /\ \A c : DP!HasPid(c) = Deputy!HasPid(c)
  /\ \A c : DP!LeavesTimer(c) = Deputy!LeavesTimer(c)
  /\ \A c : DP!MaybeScheduleRespawn(c) = Deputy!MaybeScheduleRespawn(c)
  /\ \A c : DP!Reaped(c) = Deputy!Reaped(c)
  /\ \A c : DP!StopCmd(c) = Deputy!StopCmd(c)
  /\ \A c : DP!RequestRemoval(c) = Deputy!RequestRemoval(c)
  /\ \A i : DP!Alive(i) = Deputy!Alive(i)
  /\ DP!Exited = Deputy!Exited
  /\ DP!Up = Deputy!Up
  /\ \A ids, cs : DP!AllDead(ids, cs) = Deputy!AllDead(ids, cs)
BY DEF DP!HasPid, DP!LeavesTimer, DP!MaybeScheduleRespawn, DP!Reaped, DP!StopCmd,
       DP!RequestRemoval, DP!Alive, DP!Exited, DP!Up, DP!AllDead,
       Deputy!HasPid, Deputy!LeavesTimer, Deputy!MaybeScheduleRespawn,
       Deputy!Reaped, Deputy!StopCmd, Deputy!RequestRemoval,
       Deputy!Alive, Deputy!Exited, Deputy!Up, Deputy!AllDead

\* the starting of a command (the mode is the same variable),
LEMMA SameStartCmd ==
  ASSUME NEW c, NEW r, NEW forks
  PROVE  DP!StartCmd(c, r, forks) = Deputy!StartCmd(c, r, forks)
BY SameOperations DEF DP!StartCmd, DP!StartFails, Deputy!StartCmd, Deputy!StartFails

\* what the operations together do to a command,
LEMMA SameCommandSteps ==
  /\ \A c, o, forks : DP!Obey(c, o, forks) = Deputy!Obey(c, o, forks)
  /\ \A c, forks : DP!Respawned(c, forks) = Deputy!Respawned(c, forks)
BY SameOperations, SameStartCmd
   DEF DP!Obey, DP!Respawned, Deputy!Obey, Deputy!Respawned

\* the handler of orders,
LEMMA SameHandleOrders ==
  ASSUME NEW os, NEW forks
  PROVE  DP!HandleOrders(os, forks) <=> Deputy!HandleOrders(os, forks)
BY SameOperations, SameCommandSteps, SameTypes DEF DP!HandleOrders, Deputy!HandleOrders

\* the handler of ended children,
LEMMA SameHandleSigchld ==
  DP!HandleSigchld <=> Deputy!HandleSigchld
BY SameOperations, SameTypes DEF DP!HandleSigchld, Deputy!HandleSigchld
\* the handler of a signal to quit,
LEMMA SameQuit ==
  /\ DP!HandleQuitSignal <=> Deputy!HandleQuitSignal
BY SameOperations, SameTypes DEF DP!HandleQuitSignal, Deputy!HandleQuitSignal
\* the end of quitting,
LEMMA SameQuitTimeout ==
  /\ DP!OnQuitTimeout <=> Deputy!OnQuitTimeout
BY SameOperations, SameTypes DEF DP!OnQuitTimeout, Deputy!OnQuitTimeout
\* and the timers.
LEMMA SameTimers ==
  /\ \A i, f : DP!RespawnTimer(i, f) <=> Deputy!RespawnTimer(i, f)
  /\ \A i, l, f : DP!StrayTimer(i, l, f) <=> Deputy!StrayTimer(i, l, f)
  /\ \A l, f : DP!DanglingTimer(l, f) <=> Deputy!DanglingTimer(l, f)
  /\ \A i : DP!ChildExits(i) <=> Deputy!ChildExits(i)
  /\ \A i : DP!StopTimePasses(i) <=> Deputy!StopTimePasses(i)
BY SameOperations, SameCommandSteps
DEF DP!RespawnTimer, DP!StrayTimer, DP!DanglingTimer, DP!ChildExits, DP!StopTimePasses,
    Deputy!RespawnTimer, Deputy!StrayTimer, Deputy!DanglingTimer, Deputy!ChildExits,
    Deputy!StopTimePasses

-----------------------------------------------------------------------------
(* What the deputy's operations do to the fields that orders and infos show *)

\* Two records of a command that differ in nothing that an info shows.
SameReport(c, d) ==
  /\ d.actual_runid = c.actual_runid
  /\ d.auto_respawn = c.auto_respawn
  /\ d.remove_requested = c.remove_requested

\* Scheduling a respawn leaves what is reported of a command as it is.
LEMMA MaybeScheduleRespawnReports ==
  ASSUME NEW c \in Deputy!Command
  PROVE  LET d == Deputy!MaybeScheduleRespawn(c)
         IN  d \in Deputy!Command /\ SameReport(c, d) /\ d.child = c.child /\ d.signal = c.signal
BY DEF Deputy!MaybeScheduleRespawn, Deputy!Command, SameReport

\* Starting a command changes its run id, and its process if that starts.
LEMMA StartCmdReports ==
  ASSUME NEW c \in Deputy!Command, NEW r \in Deputy!RunIds, NEW forks \in BOOLEAN
  PROVE  LET d == Deputy!StartCmd(c, r, forks)
         IN  /\ d \in Deputy!Command
             /\ d.auto_respawn = c.auto_respawn /\ d.remove_requested = c.remove_requested
             /\ \/ /\ d.child = c.child /\ d.signal = c.signal
                   /\ d.actual_runid = c.actual_runid
                \/ /\ ~Deputy!HasPid(c) /\ d.child = "alive" /\ d.signal = "none"
                   /\ d.actual_runid = r
<1> DEFINE attempt == [c EXCEPT !.should_be_stopped = FALSE,
                                !.timer = "unset",
                                !.stray = c.stray \/ c.timer = "pending"]
           failed  == Deputy!MaybeScheduleRespawn(attempt)
           forked  == [attempt EXCEPT !.child = "alive", !.signal = "none",
                                      !.actual_runid = r, !.first_kill = "unset"]
<1>1. /\ attempt \in Deputy!Command /\ SameReport(c, attempt)
      /\ attempt.child = c.child /\ attempt.signal = c.signal
  BY DEF Deputy!Command, SameReport
<1> HIDE DEF attempt
<1>2. /\ failed \in Deputy!Command /\ SameReport(c, failed)
      /\ failed.child = c.child /\ failed.signal = c.signal
  BY <1>1, MaybeScheduleRespawnReports DEF SameReport
<1>3. /\ forked \in Deputy!Command /\ forked.child = "alive" /\ forked.signal = "none"
      /\ forked.actual_runid = r /\ forked.auto_respawn = c.auto_respawn
      /\ forked.remove_requested = c.remove_requested
  BY <1>1 DEF Deputy!Command, Deputy!Process, SameReport
<1>4. Deputy!StartCmd(c, r, forks) =
        IF mode # "running" THEN c
        ELSE IF Deputy!HasPid(c) \/ ~forks THEN failed ELSE forked
  BY DEF Deputy!StartCmd, Deputy!StartFails, attempt
<1> HIDE DEF failed, forked
<1> QED  BY <1>2, <1>3, <1>4 DEF SameReport

\* Stopping a command leaves its run id and its process as they are.
LEMMA StopCmdReports ==
  ASSUME NEW c \in Deputy!Command
  PROVE  LET d == Deputy!StopCmd(c)
         IN  d \in Deputy!Command /\ SameReport(c, d) /\ d.child = c.child
BY DEF Deputy!StopCmd, Deputy!Command, Deputy!HasPid, SameReport

\* So does a request for its removal.
LEMMA RequestRemovalReports ==
  ASSUME NEW c \in Deputy!Command
  PROVE  LET d == Deputy!RequestRemoval(c)
         IN  /\ d \in Deputy!Command /\ d.child = c.child /\ d.remove_requested
             /\ d.actual_runid = c.actual_runid /\ d.auto_respawn = c.auto_respawn
<1> DEFINE marked == [c EXCEPT !.remove_requested = TRUE]
<1>1. /\ marked \in Deputy!Command /\ marked.child = c.child /\ marked.remove_requested
      /\ marked.actual_runid = c.actual_runid /\ marked.auto_respawn = c.auto_respawn
  BY DEF Deputy!Command
<1> HIDE DEF marked
<1> QED  BY <1>1, StopCmdReports DEF Deputy!RequestRemoval, SameReport, marked

\* A respawn keeps the run id, and starts only a command that respawns.
LEMMA RespawnedReports ==
  ASSUME NEW c \in Deputy!Command, NEW forks \in BOOLEAN
  PROVE  LET d == Deputy!Respawned(c, forks)
         IN  /\ d \in Deputy!Command /\ SameReport(c, d)
             /\ Deputy!HasPid(d) /\ ~Deputy!HasPid(c) => c.auto_respawn
             /\ Deputy!HasPid(c) => Deputy!HasPid(d)
             /\ d.signal = c.signal \/ d.signal = "none"
<1>1. c.actual_runid \in Deputy!RunIds
  BY DEF Deputy!Command
<1> QED  BY <1>1, StartCmdReports DEF Deputy!Respawned, SameReport, Deputy!HasPid

\* Reaping keeps the run id.
LEMMA ReapedReports ==
  ASSUME NEW c \in Deputy!Command
  PROVE  LET d == Deputy!MaybeScheduleRespawn(Deputy!Reaped(c))
         IN  /\ d \in Deputy!Command /\ SameReport(c, d)
             /\ ~Deputy!HasPid(d) /\ d.signal = "none"
<1>1. /\ Deputy!Reaped(c) \in Deputy!Command /\ SameReport(c, Deputy!Reaped(c))
      /\ Deputy!Reaped(c).child = "none" /\ Deputy!Reaped(c).signal = "none"
  BY DEF Deputy!Reaped, Deputy!Command, Deputy!Process, SameReport
<1> QED  BY <1>1, MaybeScheduleRespawnReports DEF SameReport, Deputy!HasPid

\* What obeying one order does to what is reported.
LEMMA ObeyReports ==
  ASSUME NEW c \in Deputy!Command, NEW o \in Deputy!Order, NEW forks \in BOOLEAN
  PROVE  LET d == Deputy!Obey(c, o, forks)
         IN  /\ d \in Deputy!Command
             /\ d.auto_respawn = o.auto_respawn
             /\ d.remove_requested = c.remove_requested
             /\ Deputy!HasPid(c) =>
                  /\ Deputy!HasPid(d) /\ d.actual_runid = c.actual_runid
                  /\ ~o.force_quit /\ o.desired_runid = c.actual_runid => d.signal = c.signal
             /\ ~Deputy!HasPid(c) =>
                  \/ /\ ~Deputy!HasPid(d) /\ d.signal = c.signal
                     /\ d.actual_runid \in {c.actual_runid, o.desired_runid}
                     /\ o.force_quit => d.actual_runid = o.desired_runid
                  \/ /\ Deputy!HasPid(d) /\ d.signal = "none"
                     /\ ~o.force_quit /\ o.desired_runid # c.actual_runid
                     /\ d.actual_runid = o.desired_runid
<1> DEFINE told  == [c EXCEPT !.auto_respawn = o.auto_respawn,
                              !.should_be_stopped = o.force_quit]
           rerun == o.desired_runid # c.actual_runid
           started == Deputy!StartCmd(told, o.desired_runid, forks)
           stopped == Deputy!StopCmd(told)
           renamed == [told EXCEPT !.actual_runid = o.desired_runid]
<1>1. /\ told \in Deputy!Command /\ told.child = c.child /\ told.signal = c.signal
      /\ told.actual_runid = c.actual_runid /\ told.auto_respawn = o.auto_respawn
      /\ told.remove_requested = c.remove_requested
      /\ Deputy!HasPid(told) <=> Deputy!HasPid(c)
  BY RespawnsAssumption DEF Deputy!Order, Deputy!Command, Deputy!HasPid
<1>2. o.desired_runid \in Deputy!RunIds /\ o.force_quit \in BOOLEAN
  BY DEF Deputy!Order
<1>3. Deputy!Obey(c, o, forks) =
        IF ~Deputy!HasPid(c) /\ rerun /\ ~o.force_quit THEN started
        ELSE IF Deputy!HasPid(c) /\ (o.force_quit \/ rerun) THEN stopped
        ELSE renamed
  BY DEF Deputy!Obey
<1> HIDE DEF told
<1>4. /\ started \in Deputy!Command
      /\ started.auto_respawn = told.auto_respawn
      /\ started.remove_requested = told.remove_requested
      /\ \/ /\ started.child = told.child /\ started.signal = told.signal
            /\ started.actual_runid = told.actual_runid
         \/ /\ ~Deputy!HasPid(told) /\ started.child = "alive" /\ started.signal = "none"
            /\ started.actual_runid = o.desired_runid
  BY <1>1, <1>2, StartCmdReports
<1>5. stopped \in Deputy!Command /\ SameReport(told, stopped) /\ stopped.child = told.child
  BY <1>1, StopCmdReports
<1>6. /\ renamed \in Deputy!Command
      /\ renamed.child = told.child /\ renamed.signal = told.signal
      /\ renamed.auto_respawn = told.auto_respawn
      /\ renamed.remove_requested = told.remove_requested
      /\ renamed.actual_runid = o.desired_runid
  BY <1>1, <1>2 DEF Deputy!Command
<1> HIDE DEF started, stopped, renamed
<1> QED  BY <1>1, <1>2, <1>3, <1>4, <1>5, <1>6 DEF SameReport, Deputy!HasPid

-----------------------------------------------------------------------------
(* The channels *)

\* Sending appends to a channel with room, or loses the message.
LEMMA SentFacts ==
  ASSUME NEW T, NEW channel \in Seq(T), NEW message \in T, Len(channel) <= MaxInFlight,
         NEW after \in Sent(channel, message)
  PROVE  /\ after \in Seq(T) /\ Len(after) <= MaxInFlight
         /\ \/ after = channel
            \/ /\ Len(after) = Len(channel) + 1
               /\ \A k \in 1 .. Len(channel) : after[k] = channel[k]
               /\ after[Len(after)] = message
BY MaxInFlightAssumption DEF Sent

\* Receiving takes the first message off a channel.
LEMMA TailFacts ==
  ASSUME NEW T, NEW channel \in Seq(T), channel # <<>>
  PROVE  /\ Head(channel) = channel[1] /\ channel[1] \in T
         /\ Tail(channel) \in Seq(T) /\ Len(Tail(channel)) = Len(channel) - 1
         /\ Len(channel) \in Nat \ {0}
         /\ \A k \in 1 .. Len(Tail(channel)) : Tail(channel)[k] = channel[k + 1]
OBVIOUS

\* What is used of the deputy's own invariant.
LEMMA DeputyInvariant ==
  DP!IInv => /\ Deputy!TypeOK
             /\ \A i \in Ids \ managed : cmds[i] = Deputy!NewCommand
BY SameTypes DEF DP!IInv, DP!TypeOK, DP!FreeIsBlank, DP!Mode, Deputy!TypeOK, Deputy!Mode

\* A deputy that starts satisfies it.
LEMMA DeputyStarts == DP!Init => DP!IInv
BY DP!InitIInv, MaxRunidAssumption, RespawnsAssumption

\* It holds initially,
LEMMA InitDeputyIInv == Init => DP!IInv
BY DeputyStarts, SameTypes DEF Init, Deputy!Init, DP!Init

\* and every step of the system keeps it, restarts included.
LEMMA NextDeputyIInv ==
  ASSUME DP!IInv, TypeOK, [Next]_vars
  PROVE  DP!IInv'
<1> USE MaxRunidAssumption, RespawnsAssumption
<1>1. DP!IInv /\ [DP!Next]_(DP!vars) => DP!IInv'
  BY DP!NextIInv
<1>2. CASE UNCHANGED deputyVars
  BY <1>1, <1>2 DEF deputyVars, DP!vars
<1>3. ASSUME NEW forks \in SUBSET Ids, ReceiveOrders(forks) PROVE DP!Next
  <2>1. Head(orders) \in Deputy!Orders /\ Deputy!HandleOrders(Head(orders), forks)
    BY <1>3 DEF ReceiveOrders, TypeOK
  <2> QED  BY <2>1, SameTypes, SameHandleOrders DEF DP!Next
<1>4. CASE HandleSigchld
  BY <1>1, <1>4, SameHandleSigchld DEF DP!Next, HandleSigchld
<1>5. CASE DeputyActs
  BY <1>1, <1>5, SameTimers, SameQuitTimeout DEF DP!Next, DP!Timers, DeputyActs, Deputy!Timers
<1>6. CASE QuitDeputy
  BY <1>1, <1>6, SameQuit DEF DP!Next, QuitDeputy
<1>7. CASE RestartDeputy
  <2>1. DP!Init'
    BY <1>7, SameTypes DEF RestartDeputy, DP!Init
  <2> QED  BY <2>1, DeputyStarts, PTL
<1> QED
  BY <1>1, <1>2, <1>3, <1>4, <1>5, <1>6, <1>7
     DEF Next, vars, UserActs, UserSetsAutoRespawn, RepeatOrders, ReceiveInfo, IgnoreOrders,
         ReportEverySecond, RestartSheriff

-----------------------------------------------------------------------------
(* What each kind of step does to one command *)

\* The settings of auto_respawn under way are ones that users choose.
SettingsChosen ==
  /\ \A i \in managed : cmds[i].auto_respawn \in Respawns
  /\ \A i \in known : commands[i].auto_respawn \in Respawns
  /\ \A k \in 1 .. Len(infos) :
       \A i \in DOMAIN infos[k] : infos[k][i].auto_respawn \in Respawns

Base == TypeOK /\ DP!IInv /\ SettingsChosen

\* The sheriff may send the orders that its list now makes.
OrdersSent ==
  \/ orders' = orders
  \/ /\ heard' /\ Len(orders') = Len(orders) + 1
     /\ \A k \in 1 .. Len(orders) : orders'[k] = orders[k]
     /\ \A i \in Ids :
          LET last == orders'[Len(orders')]
          IN  /\ i \in DOMAIN last <=> i \in known' /\ ~commands'[i].scheduled_for_removal
              /\ i \in DOMAIN last =>
                   /\ last[i].desired_runid = commands'[i].desired_runid
                   /\ last[i].force_quit = commands'[i].force_quit

\* A user leaves command i alone, adds it, changes it, or takes it off the list.
LeavesAlone(i) ==
  /\ i \in known' <=> i \in known
  /\ i \in known => commands'[i] = commands[i]
  /\ fate'[i] = fate[i]

Adds(i) ==
  /\ fate[i] = "unused" /\ fate'[i] = "used" /\ i \in known'
  /\ \E a \in Respawns : commands'[i] = Sheriff!NewCommand(a)

Changes(i) ==
  LET c == commands[i]
      d == commands'[i]
  IN  /\ i \in known /\ i \in known'
      /\ fate'[i] = fate[i] \/ (fate[i] = "used" /\ fate'[i] = "disturbed")
      /\ d.pid = c.pid /\ d.actual_runid = c.actual_runid
      /\ d.auto_respawn \in Respawns
      /\ c.scheduled_for_removal => d.scheduled_for_removal
      /\ ~heard => d.scheduled_for_removal = c.scheduled_for_removal
      /\ \/ d.desired_runid = c.desired_runid /\ (c.force_quit => d.force_quit)
         \/ d.desired_runid = c.desired_runid + 1 /\ ~d.force_quit
      /\ fate'[i] = "used" =>
           /\ d.scheduled_for_removal = c.scheduled_for_removal
           /\ \/ d.desired_runid = c.desired_runid /\ d.force_quit = c.force_quit
              \/ c.desired_runid = 0

Drops(i) ==
  ~heard /\ i \notin known' /\ fate'[i] = "dropped" /\ commands'[i] = Sheriff!NoCommand

SheriffStep ==
  /\ UNCHANGED <<managed, cmds, mode, infos, restarts, heard>>
  /\ OrdersSent
  /\ \A i \in Ids : LeavesAlone(i) \/ Adds(i) \/ Changes(i) \/ Drops(i)

\* The orders that the sheriff makes are of their type and say what its list says.
LEMMA MakeOrdersFacts ==
  ASSUME Sheriff!TypeOK', \A i \in known' : commands'[i].auto_respawn \in Respawns
  PROVE  LET made == Sheriff!MakeOrders'
         IN  /\ made \in Deputy!Orders
             /\ \A i \in Ids :
                  /\ i \in DOMAIN made <=> i \in known' /\ ~commands'[i].scheduled_for_removal
                  /\ i \in DOMAIN made =>
                       /\ made[i].desired_runid = commands'[i].desired_runid
                       /\ made[i].force_quit = commands'[i].force_quit
<1> DEFINE listed == {j \in known' : ~commands'[j].scheduled_for_removal}
           order(i) == [desired_runid |-> commands'[i].desired_runid,
                        force_quit    |-> commands'[i].force_quit,
                        auto_respawn  |-> commands'[i].auto_respawn]
<1>1. Sheriff!MakeOrders' = [i \in listed |-> order(i)]
  BY DEF Sheriff!MakeOrders
<1>2. known' \subseteq Ids /\ \A i \in Ids : commands'[i] \in Sheriff!SheriffCommand
  BY DEF Sheriff!TypeOK
<1>3. \A i \in listed : order(i) \in Deputy!Order
  BY <1>2 DEF Sheriff!SheriffCommand, Sheriff!RunIds, Deputy!Order, Deputy!RunIds
<1> HIDE DEF order
<1>4. listed \in SUBSET Ids /\ [i \in listed |-> order(i)] \in [listed -> Deputy!Order]
  BY <1>2, <1>3
<1>5. [i \in listed |-> order(i)] \in Deputy!Orders
  BY <1>4 DEF Deputy!Orders
<1> QED  BY <1>1, <1>5 DEF order

\* Sending them adds them to the channel, or does not.
LEMMA SendOrdersFacts ==
  ASSUME TypeOK, Sheriff!TypeOK', SendOrders,
         \A i \in known' : commands'[i].auto_respawn \in Respawns
  PROVE  /\ orders' \in Seq(Deputy!Orders) /\ Len(orders') <= MaxInFlight
         /\ OrdersSent
<1> DEFINE made == Sheriff!MakeOrders'
<1>1. made \in Deputy!Orders
  BY MakeOrdersFacts
<1>2. orders \in Seq(Deputy!Orders) /\ Len(orders) <= MaxInFlight
  BY DEF TypeOK
<1>3. \/ orders' = orders
      \/ heard' /\ orders' \in Sent(orders, made)
  BY DEF SendOrders, Sent
<1> HIDE DEF made
<1>4. CASE orders' = orders
  BY <1>2, <1>4 DEF OrdersSent
<1>5. CASE heard' /\ orders' \in Sent(orders, made)
  <2>1. /\ orders' \in Seq(Deputy!Orders) /\ Len(orders') <= MaxInFlight
        /\ \/ orders' = orders
           \/ /\ Len(orders') = Len(orders) + 1
              /\ \A k \in 1 .. Len(orders) : orders'[k] = orders[k]
              /\ orders'[Len(orders')] = made
    BY <1>1, <1>2, <1>5, SentFacts
  <2> QED  BY <1>5, <2>1, MakeOrdersFacts DEF OrdersSent, made
<1> QED  BY <1>3, <1>4, <1>5

\* A user's operation on command i does not touch the others.
LEMMA UpdateFacts ==
  ASSUME Sheriff!TypeOK, NEW i \in Ids, NEW d \in Sheriff!SheriffCommand,
         Sheriff!Update(i, d), fate' \in {fate, [fate EXCEPT ![i] = "disturbed"]}
  PROVE  /\ Sheriff!TypeOK'
         /\ i \in known /\ known' = known /\ heard' = heard /\ commands'[i] = d
         /\ \A j \in Ids \ {i} : LeavesAlone(j)
BY DEF Sheriff!Update, Sheriff!TypeOK, Sheriff!Fate, LeavesAlone

\* A restart asks for the next run, and nothing else of the command changes.
LEMMA RestartFacts ==
  ASSUME NEW c \in Sheriff!SheriffCommand, c.desired_runid < MaxRunid
  PROVE  LET d == Sheriff!Restart(c)
         IN  /\ d \in Sheriff!SheriffCommand
             /\ d.pid = c.pid /\ d.actual_runid = c.actual_runid
             /\ d.auto_respawn = c.auto_respawn /\ d.desired_runid = c.desired_runid + 1
             /\ ~d.force_quit /\ d.scheduled_for_removal = c.scheduled_for_removal
<1> DEFINE next == c.desired_runid + 1
<1>1. next \in Sheriff!RunIds
  BY MaxRunidAssumption DEF Sheriff!SheriffCommand, Sheriff!RunIds
<1>2. Sheriff!Restart(c) = [c EXCEPT !.desired_runid = next, !.force_quit = FALSE]
  BY DEF Sheriff!Restart
<1> HIDE DEF next
<1>3. /\ Sheriff!Restart(c) \in Sheriff!SheriffCommand
      /\ Sheriff!Restart(c).desired_runid = next /\ ~Sheriff!Restart(c).force_quit
  BY <1>1, <1>2 DEF Sheriff!SheriffCommand
<1>4. /\ Sheriff!Restart(c).pid = c.pid
      /\ Sheriff!Restart(c).actual_runid = c.actual_runid
      /\ Sheriff!Restart(c).auto_respawn = c.auto_respawn
      /\ Sheriff!Restart(c).scheduled_for_removal = c.scheduled_for_removal
  BY <1>2 DEF Sheriff!SheriffCommand
<1> QED  BY <1>3, <1>4 DEF next

\* A start or a restart of a command asks for a new run, or leaves it alone.
LEMMA StartCommandSteps ==
  ASSUME Base, NEW i \in Ids, Sheriff!StartCommand(i) \/ Sheriff!RestartCommand(i)
  PROVE  /\ Sheriff!TypeOK' /\ heard' = heard
         /\ Changes(i) /\ \A j \in Ids \ {i} : LeavesAlone(j)
<1> DEFINE c == commands[i]
           d == IF Sheriff!RestartCommand(i) THEN Sheriff!Restart(c) ELSE Sheriff!Start(c)
           more == Sheriff!Restart(c)
<1>1. /\ c \in Sheriff!SheriffCommand /\ c.desired_runid < MaxRunid
      /\ Sheriff!TypeOK /\ \A j \in known : commands[j].auto_respawn \in Respawns
  BY DEF Base, TypeOK, SettingsChosen, Sheriff!TypeOK, Sheriff!StartCommand, Sheriff!RestartCommand
<1>2. /\ Sheriff!Update(i, d)
      /\ \/ fate' = fate /\ (d = more => c.desired_runid = 0)
         \/ Sheriff!Disturb(i)
  BY DEF Sheriff!StartCommand, Sheriff!RestartCommand
<1>3. d = c \/ d = more
  BY DEF Sheriff!Start, Sheriff!Restart
<1> HIDE DEF c, d
<1>4. /\ more \in Sheriff!SheriffCommand
      /\ more.pid = c.pid /\ more.actual_runid = c.actual_runid
      /\ more.auto_respawn = c.auto_respawn /\ more.desired_runid = c.desired_runid + 1
      /\ ~more.force_quit /\ more.scheduled_for_removal = c.scheduled_for_removal
  BY <1>1, RestartFacts
<1>5. /\ fate' \in {fate, [fate EXCEPT ![i] = "disturbed"]}
      /\ fate'[i] = fate[i] \/ (fate[i] = "used" /\ fate'[i] = "disturbed")
      /\ fate'[i] = "used" => fate' = fate /\ (d = more => c.desired_runid = 0)
  BY <1>1, <1>2 DEF Sheriff!Disturb, Sheriff!TypeOK, c
<1>6. d \in Sheriff!SheriffCommand
  BY <1>1, <1>3, <1>4
<1>7. /\ Sheriff!TypeOK'
      /\ i \in known /\ known' = known /\ heard' = heard /\ commands'[i] = d
      /\ \A j \in Ids \ {i} : LeavesAlone(j)
  BY <1>1, <1>2, <1>5, <1>6, UpdateFacts DEF c
<1>8. Changes(i)
  <2> HIDE DEF more
  <2>1. /\ d.pid = c.pid /\ d.actual_runid = c.actual_runid
        /\ d.auto_respawn = c.auto_respawn
        /\ d.scheduled_for_removal = c.scheduled_for_removal
        /\ \/ d.desired_runid = c.desired_runid /\ d.force_quit = c.force_quit
           \/ d.desired_runid = c.desired_runid + 1 /\ ~d.force_quit
      BY <1>3, <1>4
  <2>2. d = more \/ (d.desired_runid = c.desired_runid /\ d.force_quit = c.force_quit)
      BY <1>3
  <2> QED  BY <1>1, <1>5, <1>7, <2>1, <2>2 DEF Changes, c
<1> QED  BY <1>7, <1>8

\* A stop keeps the run that is asked for.
LEMMA StopCommandSteps ==
  ASSUME Base, NEW i \in Ids, Sheriff!StopCommand(i)
  PROVE  /\ Sheriff!TypeOK' /\ heard' = heard
         /\ Changes(i) /\ \A j \in Ids \ {i} : LeavesAlone(j)
<1> DEFINE c == commands[i]
           d == Sheriff!Stop(c)
<1>1. /\ c \in Sheriff!SheriffCommand
      /\ Sheriff!TypeOK /\ \A j \in known : commands[j].auto_respawn \in Respawns
  BY DEF Base, TypeOK, SettingsChosen, Sheriff!TypeOK
<1>2. Sheriff!Update(i, d) /\ Sheriff!Disturb(i)
  BY DEF Sheriff!StopCommand
<1>3. /\ d \in Sheriff!SheriffCommand
      /\ d.pid = c.pid /\ d.actual_runid = c.actual_runid
      /\ d.auto_respawn = c.auto_respawn /\ d.desired_runid = c.desired_runid
      /\ d.force_quit /\ d.scheduled_for_removal = c.scheduled_for_removal
  BY <1>1 DEF Sheriff!Stop, Sheriff!SheriffCommand
<1> HIDE DEF d
<1>4. /\ fate' \in {fate, [fate EXCEPT ![i] = "disturbed"]}
      /\ fate'[i] = fate[i] \/ (fate[i] = "used" /\ fate'[i] = "disturbed")
      /\ fate'[i] # "used"
  BY <1>1, <1>2 DEF Sheriff!Disturb, Sheriff!TypeOK
<1>5. /\ Sheriff!TypeOK'
      /\ i \in known /\ known' = known /\ heard' = heard /\ commands'[i] = d
      /\ \A j \in Ids \ {i} : LeavesAlone(j)
  BY <1>1, <1>2, <1>3, <1>4, UpdateFacts
<1> QED  BY <1>1, <1>3, <1>4, <1>5 DEF Changes

\* So does a change of auto_respawn.
LEMMA SetAutoRespawnSteps ==
  ASSUME Base, NEW i \in Ids, NEW a \in Respawns, Sheriff!SetAutoRespawn(i, a)
  PROVE  /\ Sheriff!TypeOK' /\ heard' = heard
         /\ Changes(i) /\ \A j \in Ids \ {i} : LeavesAlone(j)
<1> DEFINE c == commands[i]
           d == [c EXCEPT !.auto_respawn = a]
<1>1. c \in Sheriff!SheriffCommand /\ Sheriff!TypeOK
  BY DEF Base, TypeOK, Sheriff!TypeOK
<1>2. Sheriff!Update(i, d) /\ fate' = fate
  BY DEF Sheriff!SetAutoRespawn
<1>3. /\ d \in Sheriff!SheriffCommand
      /\ d.pid = c.pid /\ d.actual_runid = c.actual_runid
      /\ d.auto_respawn = a /\ d.desired_runid = c.desired_runid
      /\ d.force_quit = c.force_quit /\ d.scheduled_for_removal = c.scheduled_for_removal
  BY <1>1, RespawnsAssumption DEF Sheriff!SheriffCommand
<1> HIDE DEF d
<1>5. /\ Sheriff!TypeOK'
      /\ i \in known /\ known' = known /\ heard' = heard /\ commands'[i] = d
      /\ \A j \in Ids \ {i} : LeavesAlone(j)
  BY <1>1, <1>2, <1>3, UpdateFacts
<1> QED  BY <1>1, <1>2, <1>3, <1>5 DEF Changes

\* A removal marks the command, or takes it off a list no deputy has heard of.
LEMMA RemovalSteps ==
  ASSUME Base, NEW i \in Ids, Sheriff!ScheduleCommandForRemoval(i)
  PROVE  /\ Sheriff!TypeOK' /\ heard' = heard
         /\ Changes(i) \/ Drops(i)
         /\ \A j \in Ids \ {i} : LeavesAlone(j)
<1> DEFINE c == commands[i]
           d == [c EXCEPT !.scheduled_for_removal = TRUE]
<1>1. /\ c \in Sheriff!SheriffCommand
      /\ Sheriff!TypeOK /\ \A j \in known : commands[j].auto_respawn \in Respawns
  BY DEF Base, TypeOK, SettingsChosen, Sheriff!TypeOK
<1>2. CASE heard
  <2>1. Sheriff!Update(i, d) /\ Sheriff!Disturb(i)
    BY <1>2 DEF Sheriff!ScheduleCommandForRemoval
  <2>2. /\ d \in Sheriff!SheriffCommand
        /\ d.pid = c.pid /\ d.actual_runid = c.actual_runid
        /\ d.auto_respawn = c.auto_respawn /\ d.desired_runid = c.desired_runid
        /\ d.force_quit = c.force_quit /\ d.scheduled_for_removal
    BY <1>1 DEF Sheriff!SheriffCommand
  <2> HIDE DEF d
  <2>3. /\ fate' \in {fate, [fate EXCEPT ![i] = "disturbed"]}
        /\ fate'[i] = fate[i] \/ (fate[i] = "used" /\ fate'[i] = "disturbed")
        /\ fate'[i] # "used"
    BY <1>1, <2>1 DEF Sheriff!Disturb, Sheriff!TypeOK
  <2>4. /\ Sheriff!TypeOK'
        /\ i \in known /\ known' = known /\ heard' = heard /\ commands'[i] = d
        /\ \A j \in Ids \ {i} : LeavesAlone(j)
    BY <1>1, <2>1, <2>2, <2>3, UpdateFacts
  <2> QED  BY <1>1, <1>2, <2>2, <2>3, <2>4 DEF Changes
<1>3. CASE ~heard
  <2>1. /\ known' = known \ {i} /\ commands' = [commands EXCEPT ![i] = Sheriff!NoCommand]
        /\ fate' = [fate EXCEPT ![i] = "dropped"] /\ heard' = heard
    BY <1>3 DEF Sheriff!ScheduleCommandForRemoval
  <2>2. Sheriff!NoCommand \in Sheriff!SheriffCommand
    BY MaxRunidAssumption
       DEF Sheriff!NoCommand, Sheriff!NewCommand, Sheriff!SheriffCommand, Sheriff!RunIds
  <2> QED  BY <1>1, <1>3, <2>1, <2>2 DEF Sheriff!TypeOK, Sheriff!Fate, Drops, LeavesAlone
<1> QED  BY <1>2, <1>3

\* A command is added under an id that was not used.
LEMMA AddCommandSteps ==
  ASSUME Base, NEW i \in Ids, NEW a \in Respawns, Sheriff!AddCommand(i, a)
  PROVE  /\ Sheriff!TypeOK' /\ heard' = heard
         /\ Adds(i) /\ \A j \in Ids \ {i} : LeavesAlone(j)
<1>1. Sheriff!TypeOK
  BY DEF Base, TypeOK
<1>2. /\ fate[i] = "unused" /\ known' = known \cup {i}
      /\ commands' = [commands EXCEPT ![i] = Sheriff!NewCommand(a)]
      /\ fate' = [fate EXCEPT ![i] = "used"] /\ heard' = heard
  BY DEF Sheriff!AddCommand
<1>3. Sheriff!NewCommand(a) \in Sheriff!SheriffCommand
  BY MaxRunidAssumption, RespawnsAssumption
     DEF Sheriff!NewCommand, Sheriff!SheriffCommand, Sheriff!RunIds
<1> QED  BY <1>1, <1>2, <1>3 DEF Sheriff!TypeOK, Sheriff!Fate, Adds, LeavesAlone

\* Every operation of a user, and every repetition of the orders.
LEMMA SheriffSteps ==
  ASSUME Base, UserActs \/ UserSetsAutoRespawn \/ RepeatOrders
  PROVE  SheriffStep /\ TypeOK' /\ SettingsChosen'
<1>1. /\ Sheriff!TypeOK' /\ heard' = heard
      /\ \A i \in Ids : LeavesAlone(i) \/ Adds(i) \/ Changes(i) \/ Drops(i)
  <2>1. CASE UserActs
    <3>1. \E i \in Ids :
            \/ \E auto_respawn \in Respawns : Sheriff!AddCommand(i, auto_respawn)
            \/ Sheriff!StartCommand(i) \/ Sheriff!RestartCommand(i)
            \/ Sheriff!StopCommand(i) \/ Sheriff!ScheduleCommandForRemoval(i)
      BY <2>1 DEF UserActs, Sheriff!UserOrders
    <3> QED  BY <3>1, AddCommandSteps, StartCommandSteps, StopCommandSteps, RemovalSteps
  <2>2. CASE UserSetsAutoRespawn
    BY <2>2, SetAutoRespawnSteps DEF UserSetsAutoRespawn
  <2>3. CASE RepeatOrders
    BY <2>3 DEF RepeatOrders, sheriffVars, Sheriff!TypeOK, Base, TypeOK, LeavesAlone
  <2> QED  BY <2>1, <2>2, <2>3
<1>2. UNCHANGED <<deputyVars, infos, restarts>>
  BY DEF UserActs, UserSetsAutoRespawn, RepeatOrders
<1>3. \A i \in known' : commands'[i].auto_respawn \in Respawns
  <2> SUFFICES ASSUME NEW i \in known' PROVE commands'[i].auto_respawn \in Respawns
    OBVIOUS
  <2>1. i \in Ids
    BY <1>1 DEF Sheriff!TypeOK
  <2>2. CASE LeavesAlone(i)
    BY <2>2 DEF LeavesAlone, Base, SettingsChosen
  <2>3. CASE Adds(i)
    BY <2>3 DEF Adds, Sheriff!NewCommand
  <2>4. CASE Changes(i) \/ Drops(i)
    BY <2>4 DEF Changes, Drops
  <2> QED  BY <1>1, <2>1, <2>2, <2>3, <2>4
<1>4. SendOrders \/ orders' = orders
  BY DEF UserActs, UserSetsAutoRespawn, RepeatOrders
<1>5. /\ orders' \in Seq(Deputy!Orders) /\ Len(orders') <= MaxInFlight
      /\ OrdersSent
  BY <1>1, <1>3, <1>4, SendOrdersFacts DEF Base, TypeOK, OrdersSent
<1>6. TypeOK'
  BY <1>1, <1>2, <1>5 DEF Base, TypeOK, deputyVars, Deputy!TypeOK
<1>7. SettingsChosen'
  BY <1>2, <1>3 DEF Base, SettingsChosen, deputyVars
<1> QED  BY <1>1, <1>2, <1>5, <1>6, <1>7 DEF SheriffStep, deputyVars

\* The sheriff takes in what the first info says of command i.
Updates(i) ==
  LET info == infos[1]
      c    == commands[i]
      d    == commands'[i]
  IN  /\ i \in DOMAIN info /\ i \in known'
      /\ d.pid = IF info[i].pid THEN "some" ELSE "none"
      /\ d.actual_runid = info[i].actual_runid
      /\ i \in known => /\ d.desired_runid = c.desired_runid
                        /\ d.scheduled_for_removal = c.scheduled_for_removal
                        /\ d.auto_respawn = c.auto_respawn
      /\ i \notin known => /\ d.desired_runid = info[i].actual_runid
                           /\ ~d.scheduled_for_removal
                           /\ d.auto_respawn = info[i].auto_respawn
      /\ d.force_quit <=> \/ i \in known /\ c.force_quit
                          \/ /\ ~info[i].pid /\ info[i].actual_runid = d.desired_runid
                             /\ ~d.auto_respawn

\* It takes the command off its list.
Forgets(i) ==
  /\ i \in known /\ i \notin DOMAIN infos[1] /\ commands[i].scheduled_for_removal
  /\ i \notin known'
  /\ fate'[i] = IF commands[i].pid = "unknown" \/ fate[i] = "dropped"
                THEN "dropped" ELSE "removed"

NotShown(i) == i \notin DOMAIN infos[1] /\ LeavesAlone(i)

InfoStep ==
  /\ UNCHANGED <<managed, cmds, mode, orders, restarts>>
  /\ infos # <<>> /\ infos' = Tail(infos)
  /\ heard' = TRUE
  /\ \A i \in Ids : (Updates(i) /\ fate'[i] = fate[i]) \/ Forgets(i) \/ NotShown(i)

\* An info reports on commands that the deputy has.
LEMMA HeadInfo ==
  ASSUME TypeOK, infos # <<>>
  PROVE  /\ Head(infos) = infos[1] /\ DOMAIN infos[1] \subseteq Ids
         /\ \A i \in DOMAIN infos[1] : infos[1][i] \in InfoEntry
         /\ infos' = Tail(infos) => infos' \in Seq(Infos) /\ Len(infos') <= MaxInFlight
<1>1. infos \in Seq(Infos) /\ Len(infos) <= MaxInFlight
  BY DEF TypeOK
<1>2. /\ Head(infos) = infos[1] /\ infos[1] \in Infos
      /\ Tail(infos) \in Seq(Infos) /\ Len(Tail(infos)) = Len(infos) - 1
      /\ Len(infos) \in Nat \ {0}
  BY <1>1, TailFacts
<1> QED  BY <1>1, <1>2, MaxInFlightAssumption DEF Infos

\* What update_from_cmd_info does.
LEMMA UpdateFromCmdInfoFacts ==
  ASSUME NEW c \in Sheriff!SheriffCommand, NEW e \in InfoEntry
  PROVE  LET d == Sheriff!UpdateFromCmdInfo(c, e)
         IN  /\ d \in Sheriff!SheriffCommand
             /\ d.pid = IF e.pid THEN "some" ELSE "none"
             /\ d.actual_runid = e.actual_runid
             /\ d.desired_runid = c.desired_runid
             /\ d.scheduled_for_removal = c.scheduled_for_removal
             /\ d.auto_respawn = c.auto_respawn
             /\ d.force_quit <=> \/ c.force_quit
                                 \/ /\ ~e.pid /\ e.actual_runid = c.desired_runid
                                    /\ ~c.auto_respawn
<1> DEFINE pid == IF e.pid THEN "some" ELSE "none"
           quit == \/ c.force_quit
                   \/ ~e.pid /\ e.actual_runid = c.desired_runid /\ ~c.auto_respawn
           d == [c EXCEPT !.pid = pid, !.actual_runid = e.actual_runid, !.force_quit = quit]
<1>1. pid \in {"unknown", "none", "some"} /\ quit \in BOOLEAN
      /\ e.actual_runid \in Sheriff!RunIds
  BY DEF InfoEntry, Sheriff!SheriffCommand, Sheriff!RunIds, Deputy!RunIds
<1>2. Sheriff!UpdateFromCmdInfo(c, e) = d
  BY DEF Sheriff!UpdateFromCmdInfo
<1> HIDE DEF pid, quit
<1>3. /\ d \in Sheriff!SheriffCommand /\ d.pid = pid /\ d.force_quit = quit
      /\ d.actual_runid = e.actual_runid /\ d.desired_runid = c.desired_runid
      /\ d.scheduled_for_removal = c.scheduled_for_removal
      /\ d.auto_respawn = c.auto_respawn
  BY <1>1 DEF Sheriff!SheriffCommand
<1> HIDE DEF d
<1> QED  BY <1>2, <1>3 DEF pid, quit

\* A command that is taken over is one that no user has asked anything of.
LEMMA AdoptedFacts ==
  ASSUME NEW e \in InfoEntry
  PROVE  LET d == Sheriff!Adopted(e)
         IN  /\ d \in Sheriff!SheriffCommand /\ ~d.force_quit
             /\ d.desired_runid = e.actual_runid
             /\ ~d.scheduled_for_removal /\ d.auto_respawn = e.auto_respawn
<1> DEFINE blank == Sheriff!NewCommand(e.auto_respawn)
<1>1. /\ blank \in Sheriff!SheriffCommand /\ ~blank.force_quit
      /\ ~blank.scheduled_for_removal /\ blank.auto_respawn = e.auto_respawn
  BY MaxRunidAssumption
     DEF Sheriff!NewCommand, Sheriff!SheriffCommand, Sheriff!RunIds, InfoEntry
<1>2. e.actual_runid \in Sheriff!RunIds
  BY DEF InfoEntry, Deputy!RunIds, Sheriff!RunIds
<1>3. Sheriff!Adopted(e) = [blank EXCEPT !.desired_runid = e.actual_runid]
  BY DEF Sheriff!Adopted
<1> HIDE DEF blank
<1> QED  BY <1>1, <1>2, <1>3 DEF Sheriff!SheriffCommand

\* An info that need not be reconciled.
LEMMA InfoSteps ==
  ASSUME Base, ReceiveInfo, ~Sheriff!MustReconcile(Head(infos))
  PROVE  InfoStep /\ Sheriff!TypeOK'
<1> DEFINE info  == infos[1]
           shown == DOMAIN info \ Sheriff!Gone(info)
           gone  == Sheriff!Gone(info)
           entry(i) == IF i \in known THEN commands[i] ELSE Sheriff!Adopted(info[i])
           next(i) == CASE i \in shown -> Sheriff!UpdateFromCmdInfo(entry(i), info[i])
                        [] i \in known \ (shown \cup gone) -> commands[i]
                        [] OTHER -> Sheriff!NoCommand
           destiny(i) == IF i \notin gone THEN fate[i]
                         ELSE IF commands[i].pid = "unknown" \/ fate[i] = "dropped"
                         THEN "dropped" ELSE "removed"
<1>0. TypeOK /\ Sheriff!TypeOK
  BY DEF Base, TypeOK
<1>1. /\ infos # <<>> /\ infos' = Tail(infos)
      /\ UNCHANGED <<deputyVars, orders, restarts>>
      /\ Sheriff!UpdateFromDeputyInfo(Head(infos))
  BY DEF ReceiveInfo, Sheriff!ReceiveInfo
<1>2. /\ Head(infos) = info /\ DOMAIN info \subseteq Ids
      /\ \A i \in DOMAIN info : info[i] \in InfoEntry
  BY <1>0, <1>1, HeadInfo
<1>3. gone = {i \in known \ DOMAIN info : commands[i].scheduled_for_removal}
  BY DEF Sheriff!Gone
<1>4. shown = DOMAIN info
  BY <1>3
<1> HIDE DEF shown, gone, info
<1>5. /\ heard' = TRUE
      /\ known' = (known \cup shown) \ gone
      /\ commands' = [i \in Ids |-> next(i)]
      /\ fate' = [i \in Ids |-> destiny(i)]
  BY <1>1, <1>2 DEF Sheriff!UpdateFromDeputyInfo, gone, shown
<1>6. \A i \in DOMAIN info : entry(i) \in Sheriff!SheriffCommand
  BY <1>0, <1>2, AdoptedFacts DEF Sheriff!TypeOK
<1> HIDE DEF entry
<1>7. Sheriff!NoCommand \in Sheriff!SheriffCommand
  BY MaxRunidAssumption
     DEF Sheriff!NoCommand, Sheriff!NewCommand, Sheriff!SheriffCommand, Sheriff!RunIds
<1>8. \A i \in Ids : next(i) \in Sheriff!SheriffCommand
  BY <1>0, <1>2, <1>4, <1>6, <1>7, UpdateFromCmdInfoFacts DEF Sheriff!TypeOK
<1>9. \A i \in Ids : destiny(i) \in Sheriff!Fate
  BY <1>0 DEF Sheriff!TypeOK, Sheriff!Fate
<1>10. known' \subseteq Ids
  BY <1>0, <1>2, <1>4, <1>5 DEF Sheriff!TypeOK
<1>11. Sheriff!TypeOK'
  <2> HIDE DEF next, destiny
  <2> QED  BY <1>5, <1>8, <1>9, <1>10 DEF Sheriff!TypeOK
<1>12. ASSUME NEW i \in Ids
       PROVE  (Updates(i) /\ fate'[i] = fate[i]) \/ Forgets(i) \/ NotShown(i)
  <2>1. CASE i \in DOMAIN info
    <3>1. /\ i \in known' /\ fate'[i] = fate[i]
          /\ commands'[i] = Sheriff!UpdateFromCmdInfo(entry(i), info[i])
      BY <1>3, <1>4, <1>5, <2>1
    <3>2. /\ i \in known => entry(i) = commands[i]
          /\ i \notin known => entry(i) = Sheriff!Adopted(info[i])
      BY DEF entry
    <3> QED
      BY <1>2, <1>6, <2>1, <3>1, <3>2, UpdateFromCmdInfoFacts, AdoptedFacts DEF Updates, info
  <2>2. CASE i \in gone
    BY <1>3, <1>5, <2>2 DEF Forgets, info
  <2>3. CASE i \notin DOMAIN info /\ i \notin gone
    BY <1>3, <1>4, <1>5, <2>3 DEF NotShown, LeavesAlone, info
  <2> QED  BY <2>1, <2>2, <2>3
<1> QED  BY <1>1, <1>5, <1>11, <1>12 DEF InfoStep, deputyVars

\* The deputy may send a report: of what it has after the step, and of what it
\* let go of in the step.
InfosSent ==
  \/ infos' = infos
  \/ /\ Len(infos') = Len(infos) + 1
     /\ \A k \in 1 .. Len(infos) : infos'[k] = infos[k]
     /\ \A i \in Ids :
          LET last == infos'[Len(infos')]
          IN  /\ i \in managed' =>
                   /\ i \in DOMAIN last
                   /\ last[i].pid = Deputy!HasPid(cmds'[i])
                   /\ last[i].actual_runid = cmds'[i].actual_runid
              /\ i \in DOMAIN last /\ i \notin managed' =>
                   /\ i \in managed /\ ~last[i].pid
                   /\ last[i].actual_runid = cmds[i].actual_runid

\* The deputy obeys what the first orders say of command i.
Obeys(i) ==
  LET o == orders[1][i]
      c == cmds[i]
      d == cmds'[i]
  IN  /\ i \in DOMAIN orders[1] /\ i \in managed'
      /\ d.auto_respawn = o.auto_respawn
      /\ d.remove_requested = c.remove_requested
      /\ Deputy!HasPid(c) =>
           /\ Deputy!HasPid(d) /\ d.actual_runid = c.actual_runid
           /\ ~o.force_quit /\ o.desired_runid = c.actual_runid => d.signal = c.signal
      /\ ~Deputy!HasPid(c) =>
           \/ /\ ~Deputy!HasPid(d) /\ d.signal = c.signal
              /\ d.actual_runid \in {c.actual_runid, o.desired_runid}
              /\ o.force_quit => d.actual_runid = o.desired_runid
           \/ /\ Deputy!HasPid(d) /\ d.signal = "none"
              /\ ~o.force_quit /\ o.desired_runid # c.actual_runid
              /\ d.actual_runid = o.desired_runid

\* It stops a command that they do not name, or no longer has it.
Culls(i) ==
  /\ i \notin DOMAIN orders[1]
  /\ \/ /\ i \in managed /\ i \in managed' /\ Deputy!HasPid(cmds[i])
        /\ cmds'[i].child = cmds[i].child /\ cmds'[i].remove_requested
        /\ cmds'[i].actual_runid = cmds[i].actual_runid
        /\ cmds'[i].auto_respawn = cmds[i].auto_respawn
     \/ i \notin managed' /\ cmds'[i] = Deputy!NewCommand

OrdersStep ==
  /\ UNCHANGED <<known, commands, heard, fate, mode, restarts>>
  /\ orders # <<>> /\ orders' = Tail(orders)
  /\ InfosSent
  /\ \A i \in Ids : Obeys(i) \/ Culls(i)

\* Between orders a command keeps its run, unless its process has ended and it
\* was to be removed.
Keeps(i) ==
  /\ i \in managed /\ i \in managed'
  /\ SameReport(cmds[i], cmds'[i])
  /\ Deputy!HasPid(cmds'[i]) /\ ~Deputy!HasPid(cmds[i]) => cmds[i].auto_respawn
  /\ cmds'[i].signal = cmds[i].signal \/ cmds'[i].signal = "none"

Frees(i) ==
  /\ i \in managed /\ i \notin managed' /\ cmds'[i] = Deputy!NewCommand
  /\ cmds[i].remove_requested /\ Deputy!HasPid(cmds[i])

QuietStep ==
  /\ UNCHANGED <<known, commands, heard, fate, restarts>>
  /\ mode' \in {mode, "crashed"}
  /\ orders' = orders \/ (orders # <<>> /\ orders' = Tail(orders))
  /\ InfosSent
  /\ \A i \in Ids : Keeps(i) \/ Frees(i) \/ (i \notin managed \cup managed' /\ cmds'[i] = cmds[i])

-----------------------------------------------------------------------------

\* What the deputy reports of one of its commands.
Entry(c) == [pid |-> Deputy!HasPid(c), actual_runid |-> c.actual_runid,
             auto_respawn |-> c.auto_respawn]

\* It is an entry of an info.
LEMMA EntryType ==
  ASSUME NEW c \in Deputy!Command PROVE Entry(c) \in InfoEntry
BY DEF Entry, InfoEntry, Deputy!Command, Deputy!HasPid

\* A report that may be lost.
LEMMA ReportFacts ==
  ASSUME TypeOK, cmds' \in [Ids -> Deputy!Command], managed' \subseteq Ids,
         NEW kept \in SUBSET Ids,
         \A i \in kept : i \in managed /\ cmds[i].auto_respawn \in Respawns,
         \A i \in managed' : cmds'[i].auto_respawn \in Respawns,
         NEW message,
         message = [i \in managed' \cup kept |->
                      IF i \in kept THEN [Entry(cmds[i]) EXCEPT !.pid = FALSE]
                      ELSE Entry(cmds'[i])],
         kept \cap managed' = {},
         infos' \in Sent(infos, message),
         \A k \in 1 .. Len(infos) :
           \A i \in DOMAIN infos[k] : infos[k][i].auto_respawn \in Respawns
  PROVE  /\ InfosSent /\ infos' \in Seq(Infos) /\ Len(infos') <= MaxInFlight
         /\ \A k \in 1 .. Len(infos') :
              \A i \in DOMAIN infos'[k] : infos'[k][i].auto_respawn \in Respawns
<1> DEFINE ended(c) == [Entry(c) EXCEPT !.pid = FALSE]
<1>1. \A c \in Deputy!Command :
        /\ Entry(c) \in InfoEntry /\ ended(c) \in InfoEntry
        /\ Entry(c).pid = Deputy!HasPid(c) /\ ended(c).pid = FALSE
        /\ Entry(c).actual_runid = c.actual_runid /\ ended(c).actual_runid = c.actual_runid
        /\ Entry(c).auto_respawn = c.auto_respawn /\ ended(c).auto_respawn = c.auto_respawn
  BY EntryType DEF Entry, InfoEntry
<1>2. \A i \in Ids : cmds[i] \in Deputy!Command /\ cmds'[i] \in Deputy!Command
  BY DEF TypeOK, Deputy!TypeOK
<1> DEFINE entry(i) == IF i \in kept THEN ended(cmds[i]) ELSE Entry(cmds'[i])
<1> HIDE DEF ended
<1>3. message = [i \in managed' \cup kept |-> entry(i)]
  BY DEF ended
<1>4. \A i \in managed' \cup kept : entry(i) \in InfoEntry
  BY <1>1, <1>2
<1>5. message \in [managed' \cup kept -> InfoEntry]
  <2> HIDE DEF entry
  <2> QED  BY <1>3, <1>4
<1>6. message \in Infos
  BY <1>5 DEF Infos
<1>7. \A i \in DOMAIN message : message[i].auto_respawn \in Respawns
  BY <1>1, <1>2, <1>3
<1>8. infos \in Seq(Infos) /\ Len(infos) <= MaxInFlight
  BY DEF TypeOK
<1>9. /\ infos' \in Seq(Infos) /\ Len(infos') <= MaxInFlight
      /\ \/ infos' = infos
         \/ /\ Len(infos') = Len(infos) + 1
            /\ \A k \in 1 .. Len(infos) : infos'[k] = infos[k]
            /\ infos'[Len(infos')] = message
  BY <1>6, <1>8, SentFacts
<1>10. InfosSent
  <2>1. \A i \in Ids :
          /\ i \in managed' => /\ i \in DOMAIN message
                               /\ message[i].pid = Deputy!HasPid(cmds'[i])
                               /\ message[i].actual_runid = cmds'[i].actual_runid
          /\ i \in DOMAIN message /\ i \notin managed' =>
               /\ i \in managed /\ ~message[i].pid
               /\ message[i].actual_runid = cmds[i].actual_runid
    BY <1>1, <1>2, <1>3
  <2> QED  BY <1>9, <2>1 DEF InfosSent
<1>11. \A k \in 1 .. Len(infos') :
         infos'[k] = message \/ (k \in 1 .. Len(infos) /\ infos'[k] = infos[k])
  BY <1>8, <1>9
<1> QED  BY <1>7, <1>9, <1>10, <1>11

\* No report.
LEMMA NoReport ==
  ASSUME TypeOK, infos' = infos, SettingsChosen
  PROVE  /\ InfosSent /\ infos' \in Seq(Infos) /\ Len(infos') <= MaxInFlight
         /\ \A k \in 1 .. Len(infos') :
              \A i \in DOMAIN infos'[k] : infos'[k][i].auto_respawn \in Respawns
BY DEF TypeOK, InfosSent, SettingsChosen

\* What every step of the deputy leaves to be shown: its own invariant (see
\* NextDeputyIInv) and the settings of its commands.
LEMMA OrdersSteps ==
  ASSUME Base, DP!IInv', NEW forks \in SUBSET Ids, ReceiveOrders(forks)
  PROVE  OrdersStep /\ TypeOK' /\ SettingsChosen'
<1> DEFINE os == orders[1]
<1>0. /\ TypeOK /\ Deputy!TypeOK /\ SettingsChosen
      /\ Deputy!TypeOK' /\ (\A i \in Ids \ managed : cmds[i] = Deputy!NewCommand)
  BY DeputyInvariant, PTL DEF Base
<1>1. /\ orders # <<>> /\ mode = "running" /\ orders' = Tail(orders)
      /\ Deputy!HandleOrders(Head(orders), forks)
      /\ infos' \in IF TakesAction(Head(orders)) THEN Sent(infos, Report(managed)') ELSE {infos}
      /\ UNCHANGED <<sheriffVars, restarts>>
  BY DEF ReceiveOrders
<1>2. orders \in Seq(Deputy!Orders) /\ Len(orders) <= MaxInFlight
  BY <1>0 DEF TypeOK
<1>3. /\ Head(orders) = os /\ os \in Deputy!Orders
      /\ orders' \in Seq(Deputy!Orders) /\ Len(orders') <= MaxInFlight
  BY <1>1, <1>2, TailFacts, MaxInFlightAssumption
<1>4. DOMAIN os \subseteq Ids /\ \A i \in DOMAIN os : os[i] \in Deputy!Order
  BY <1>3 DEF Deputy!Orders
<1>5. /\ mode' = mode
      /\ managed' = DOMAIN os \cup {i \in managed \ DOMAIN os : Deputy!HasPid(cmds[i])}
      /\ \A i \in Ids :
           /\ i \in DOMAIN os => cmds'[i] = Deputy!Obey(cmds[i], os[i], i \in forks)
           /\ i \in managed \ DOMAIN os /\ Deputy!HasPid(cmds[i]) =>
                cmds'[i] = Deputy!RequestRemoval(cmds[i])
           /\ i \notin managed' => cmds'[i] = Deputy!NewCommand
  BY <1>1, <1>3 DEF Deputy!HandleOrders
<1> HIDE DEF os
<1>6. \A i \in Ids : cmds[i] \in Deputy!Command
  BY <1>0 DEF Deputy!TypeOK
<1>7. ASSUME NEW i \in Ids, i \in DOMAIN os PROVE Obeys(i) /\ cmds'[i].auto_respawn \in Respawns
  <2> DEFINE fork == i \in forks
  <2>1. i \in managed' /\ cmds'[i] = Deputy!Obey(cmds[i], os[i], fork)
    BY <1>5, <1>7
  <2>2. fork \in BOOLEAN /\ os[i] \in Deputy!Order /\ cmds[i] \in Deputy!Command
    BY <1>4, <1>6, <1>7
  <2>3. os[i].auto_respawn \in Respawns
    BY <2>2 DEF Deputy!Order
  <2> HIDE DEF fork
  <2> QED  BY <1>7, <2>1, <2>2, <2>3, ObeyReports DEF Obeys, os
<1>8. ASSUME NEW i \in Ids, i \notin DOMAIN os
      PROVE  Culls(i) /\ (i \in managed' => cmds'[i].auto_respawn \in Respawns)
  <2>1. CASE i \in managed /\ Deputy!HasPid(cmds[i])
    <3>1. i \in managed' /\ cmds'[i] = Deputy!RequestRemoval(cmds[i])
      BY <1>5, <1>8, <2>1
    <3>2. cmds[i].auto_respawn \in Respawns
      BY <1>0, <2>1 DEF SettingsChosen
    <3> QED  BY <1>6, <1>8, <2>1, <3>1, <3>2, RequestRemovalReports DEF Culls, os
  <2>2. CASE ~(i \in managed /\ Deputy!HasPid(cmds[i]))
    <3>1. i \notin managed'
      BY <1>5, <1>8, <2>2
    <3> QED  BY <1>5, <1>8, <3>1 DEF Culls, os
  <2> QED  BY <2>1, <2>2
<1>9. cmds' \in [Ids -> Deputy!Command] /\ managed' \subseteq Ids
  BY <1>0 DEF Deputy!TypeOK
<1>10. \A i \in managed' : cmds'[i].auto_respawn \in Respawns
  BY <1>7, <1>8, <1>9
<1>11. /\ InfosSent /\ infos' \in Seq(Infos) /\ Len(infos') <= MaxInFlight
       /\ \A k \in 1 .. Len(infos') :
            \A i \in DOMAIN infos'[k] : infos'[k][i].auto_respawn \in Respawns
  <2>1. CASE infos' = infos
    BY <1>0, <2>1, NoReport
  <2>2. CASE infos' \in Sent(infos, Report(managed)')
    <3> DEFINE message == Report(managed)'
               kept    == {}
    <3>1. message = [i \in managed' \cup kept |->
                       IF i \in kept THEN [Entry(cmds[i]) EXCEPT !.pid = FALSE]
                       ELSE Entry(cmds'[i])]
      BY DEF Report, Entry
    <3>2. \A k \in 1 .. Len(infos) :
            \A i \in DOMAIN infos[k] : infos[k][i].auto_respawn \in Respawns
      BY <1>0 DEF SettingsChosen
    <3>3. /\ kept \in SUBSET Ids /\ kept \cap managed' = {}
          /\ \A i \in kept : i \in managed /\ cmds[i].auto_respawn \in Respawns
          /\ infos' \in Sent(infos, message)
      BY <2>2
    <3> HIDE DEF message, kept
    <3> QED  BY <1>0, <1>9, <1>10, <3>1, <3>2, <3>3, ReportFacts
  <2> QED  BY <1>1, <2>1, <2>2
<1>12. TypeOK'
  BY <1>0, <1>1, <1>3, <1>11 DEF TypeOK, Sheriff!TypeOK, sheriffVars
<1>13. SettingsChosen'
  BY <1>0, <1>1, <1>10, <1>11 DEF SettingsChosen, sheriffVars
<1> QED  BY <1>1, <1>5, <1>7, <1>8, <1>11, <1>12, <1>13 DEF OrdersStep, sheriffVars, os

\* A respawn source touches one command, and leaves its run as it is.
LEMMA RespawnKeeps ==
  ASSUME Base, NEW i \in managed, NEW c \in Deputy!Command, NEW forks \in BOOLEAN,
         SameReport(cmds[i], c), c.child = cmds[i].child, c.signal = cmds[i].signal,
         cmds' = [cmds EXCEPT ![i] = Deputy!Respawned(c, forks)], managed' = managed
  PROVE  \A j \in Ids : Keeps(j) \/ (j \notin managed /\ cmds'[j] = cmds[j])
<1> DEFINE d == Deputy!Respawned(c, forks)
<1>1. /\ d \in Deputy!Command /\ SameReport(c, d)
      /\ Deputy!HasPid(d) /\ ~Deputy!HasPid(c) => c.auto_respawn
      /\ d.signal = c.signal \/ d.signal = "none"
  BY RespawnedReports
<1> HIDE DEF d
<1>2. \A j \in Ids : cmds'[j] = IF j = i THEN d ELSE cmds[j]
  BY DEF Base, TypeOK, Deputy!TypeOK, d
<1>3. \A j \in Ids \ {i} : Keeps(j) \/ (j \notin managed /\ cmds'[j] = cmds[j])
  BY <1>2 DEF Keeps, SameReport
<1>4. i \in Ids
  BY DEF Base, TypeOK, Deputy!TypeOK
<1>5. Keeps(i)
  BY <1>1, <1>2, <1>4 DEF Keeps, SameReport, Deputy!HasPid
<1> QED  BY <1>3, <1>5

\* The deputy's timers, and what happens to its processes, are quiet.
LEMMA DeputyActsSteps ==
  ASSUME Base, DeputyActs, ~Deputy!OnQuitTimeout
  PROVE  QuietStep
<1>0. /\ \A i \in Ids : cmds[i] \in Deputy!Command
      /\ \A i \in Ids \ managed : cmds[i] = Deputy!NewCommand
      /\ cmds \in [Ids -> Deputy!Command]
  BY DeputyInvariant DEF Base, Deputy!TypeOK
<1>1. UNCHANGED <<known, commands, heard, fate, orders, infos, restarts>> /\ InfosSent
  BY DEF DeputyActs, sheriffVars, InfosSent
<1>2. ASSUME NEW i \in Ids, NEW forks \in BOOLEAN, Deputy!RespawnTimer(i, forks)
      PROVE  QuietStep
  <2> DEFINE c == [cmds[i] EXCEPT !.timer = "stale"]
  <2>1. /\ c \in Deputy!Command /\ SameReport(cmds[i], c)
        /\ c.child = cmds[i].child /\ c.signal = cmds[i].signal
    BY <1>0 DEF Deputy!Command, SameReport
  <2>2. /\ i \in managed /\ cmds' = [cmds EXCEPT ![i] = Deputy!Respawned(c, forks)]
        /\ UNCHANGED <<managed, mode>>
    BY <1>2 DEF Deputy!RespawnTimer
  <2> HIDE DEF c
  <2> QED  BY <1>1, <2>1, <2>2, RespawnKeeps DEF QuietStep
<1>3. ASSUME NEW i \in Ids, NEW left \in BOOLEAN, NEW forks \in BOOLEAN,
             Deputy!StrayTimer(i, left, forks)
      PROVE  QuietStep
  <2> DEFINE c == [cmds[i] EXCEPT !.stray = left]
  <2>1. /\ c \in Deputy!Command /\ SameReport(cmds[i], c)
        /\ c.child = cmds[i].child /\ c.signal = cmds[i].signal
    BY <1>0 DEF Deputy!Command, SameReport
  <2>2. /\ i \in managed /\ cmds' = [cmds EXCEPT ![i] = Deputy!Respawned(c, forks)]
        /\ UNCHANGED <<managed, mode>>
    BY <1>3 DEF Deputy!StrayTimer
  <2> HIDE DEF c
  <2> QED  BY <1>1, <2>1, <2>2, RespawnKeeps DEF QuietStep
<1>4. CASE \E left, faults \in BOOLEAN : Deputy!DanglingTimer(left, faults)
  <2>1. UNCHANGED <<managed, cmds>> /\ mode' \in {mode, "crashed"}
    BY <1>4 DEF Deputy!DanglingTimer
  <2> QED  BY <1>1, <2>1 DEF QuietStep, Keeps, SameReport
<1>5. ASSUME NEW i \in Ids, Deputy!ChildExits(i) \/ Deputy!StopTimePasses(i)
      PROVE  QuietStep
  <2> DEFINE d == IF Deputy!ChildExits(i) THEN [cmds[i] EXCEPT !.child = "dead"]
                  ELSE [cmds[i] EXCEPT !.first_kill = "overdue"]
  <2>1. /\ UNCHANGED <<managed, mode>> /\ cmds' = [cmds EXCEPT ![i] = d]
        /\ \/ Deputy!HasPid(cmds[i])
           \/ d = [cmds[i] EXCEPT !.first_kill = "overdue"]
        /\ cmds[i] # Deputy!NewCommand
    BY <1>5 DEF Deputy!ChildExits, Deputy!StopTimePasses, Deputy!Alive, Deputy!HasPid,
                Deputy!NewCommand
  <2>2. i \in managed
    BY <1>0, <2>1
  <2>3. /\ SameReport(cmds[i], d) /\ d.signal = cmds[i].signal
        /\ Deputy!HasPid(d) => Deputy!HasPid(cmds[i])
    BY <1>0, <2>1 DEF Deputy!Command, SameReport, Deputy!HasPid
  <2> HIDE DEF d
  <2>4. \A j \in Ids : cmds'[j] = IF j = i THEN d ELSE cmds[j]
    BY <1>0, <2>1
  <2>5. \A j \in Ids : Keeps(j) \/ (j \notin managed /\ cmds'[j] = cmds[j])
    BY <2>1, <2>2, <2>3, <2>4 DEF Keeps, SameReport
  <2> QED  BY <1>1, <2>1, <2>5 DEF QuietStep
<1> QED  BY <1>2, <1>3, <1>4, <1>5 DEF DeputyActs, Deputy!Timers

\* The report that may follow the reaping of children, or be the last of one
\* per child.
LEMMA ReapingSteps ==
  ASSUME Base, DP!IInv', HandleSigchld
  PROVE  /\ mode # "exiting" => QuietStep
         /\ TypeOK' /\ SettingsChosen'
<1> DEFINE freed == {i \in Deputy!Exited : cmds[i].remove_requested}
<1>a. Deputy!TypeOK'
  BY DeputyInvariant, PTL
<1>0. /\ TypeOK /\ SettingsChosen /\ Deputy!TypeOK'
      /\ \A i \in Ids : cmds[i] \in Deputy!Command
      /\ \A i \in Ids \ managed : cmds[i] = Deputy!NewCommand
      /\ managed \subseteq Ids
  BY <1>a, DeputyInvariant DEF Base, TypeOK, Deputy!TypeOK
<1>1. /\ Deputy!HandleSigchld
      /\ infos' \in
           IF Deputy!Exited = {} THEN {infos}
           ELSE UNION {Sent(infos, [i \in managed' \cup kept |->
                                      IF i \in kept
                                      THEN [Report({i})[i] EXCEPT !.pid = FALSE]
                                      ELSE Report(managed)'[i]])
                       : kept \in (SUBSET (managed \ managed')) \ {Deputy!Exited}}
      /\ UNCHANGED <<known, commands, heard, fate, orders, restarts>>
  BY DEF HandleSigchld, sheriffVars
<1>2. /\ managed' = managed \ freed
      /\ \A i \in Ids : cmds'[i] =
           IF i \in freed THEN Deputy!NewCommand
           ELSE IF i \in Deputy!Exited
                THEN Deputy!MaybeScheduleRespawn(Deputy!Reaped(cmds[i]))
                ELSE cmds[i]
      /\ mode # "exiting" => mode' = mode
  BY <1>1 DEF Deputy!HandleSigchld
<1>3. \A i \in Ids : Keeps(i) \/ Frees(i) \/ (i \notin managed \cup managed' /\ cmds'[i] = cmds[i])
  <2> TAKE i \in Ids
  <2>1. CASE i \in freed
    BY <1>2, <2>1 DEF Frees, Deputy!Exited, Deputy!HasPid
  <2>2. CASE i \in Deputy!Exited \ freed
    BY <1>0, <1>2, <2>2, ReapedReports DEF Keeps, Deputy!Exited
  <2>3. CASE i \notin Deputy!Exited
    BY <1>2, <2>3 DEF Keeps, SameReport
  <2> QED  BY <2>1, <2>2, <2>3
<1>4. cmds' \in [Ids -> Deputy!Command] /\ managed' \subseteq Ids
  BY <1>0 DEF Deputy!TypeOK
<1>5. \A i \in managed' : i \in managed /\ cmds'[i].auto_respawn \in Respawns
  <2> TAKE i \in managed'
  <2>1. i \in managed /\ i \in Ids
    BY <1>2, <1>4
  <2> QED  BY <1>0, <1>3, <2>1 DEF Keeps, Frees, SameReport, SettingsChosen
<1>6. /\ InfosSent /\ infos' \in Seq(Infos) /\ Len(infos') <= MaxInFlight
      /\ \A k \in 1 .. Len(infos') :
           \A i \in DOMAIN infos'[k] : infos'[k][i].auto_respawn \in Respawns
  <2>1. CASE infos' = infos
    BY <1>0, <2>1, NoReport
  <2>2. CASE infos' # infos
    <3>1. PICK kept \in SUBSET (managed \ managed') :
            infos' \in Sent(infos, [i \in managed' \cup kept |->
                                      IF i \in kept
                                      THEN [Report({i})[i] EXCEPT !.pid = FALSE]
                                      ELSE Report(managed)'[i]])
      BY <1>1, <2>2
    <3> DEFINE message == [i \in managed' \cup kept |->
                             IF i \in kept THEN [Entry(cmds[i]) EXCEPT !.pid = FALSE]
                             ELSE Entry(cmds'[i])]
    <3>2. /\ \A i \in kept : Report({i})[i] = Entry(cmds[i])
          /\ \A i \in managed' : Report(managed)'[i] = Entry(cmds'[i])
      BY DEF Report, Entry
    <3>3. infos' \in Sent(infos, message)
      <4>1. [i \in managed' \cup kept |->
               IF i \in kept THEN [Report({i})[i] EXCEPT !.pid = FALSE]
               ELSE Report(managed)'[i]] = message
        BY <3>2
      <4> QED  BY <3>1, <4>1
    <3>4. /\ kept \in SUBSET Ids /\ kept \cap managed' = {}
          /\ \A i \in kept : i \in managed /\ cmds[i].auto_respawn \in Respawns
          /\ \A k \in 1 .. Len(infos) :
               \A i \in DOMAIN infos[k] : infos[k][i].auto_respawn \in Respawns
      BY <1>0, <3>1 DEF SettingsChosen
    <3>5. message = [i \in managed' \cup kept |->
                             IF i \in kept THEN [Entry(cmds[i]) EXCEPT !.pid = FALSE]
                             ELSE Entry(cmds'[i])]
      OBVIOUS
    <3> HIDE DEF message
    <3> QED  BY <1>0, <1>4, <1>5, <3>3, <3>4, <3>5, ReportFacts
  <2> QED  BY <2>1, <2>2
<1>7. TypeOK'
  BY <1>0, <1>1, <1>6 DEF TypeOK, Sheriff!TypeOK
<1>8. SettingsChosen'
  BY <1>0, <1>1, <1>5, <1>6 DEF SettingsChosen
<1> QED  BY <1>1, <1>2, <1>3, <1>6, <1>7, <1>8 DEF QuietStep

\* The types, and the settings, are right initially.
LEMMA InitBase == Init => Base
<1> SUFFICES ASSUME Init PROVE Base
  OBVIOUS
<1>1. DP!IInv /\ Deputy!TypeOK
  BY InitDeputyIInv, DeputyInvariant
<1>2. Sheriff!NoCommand \in Sheriff!SheriffCommand
  BY MaxRunidAssumption
     DEF Sheriff!NoCommand, Sheriff!NewCommand, Sheriff!SheriffCommand, Sheriff!RunIds
<1>3. Sheriff!TypeOK
  BY <1>2 DEF Init, Sheriff!Init, Sheriff!TypeOK, Sheriff!Fate
<1>4. /\ orders \in Seq(Deputy!Orders) /\ Len(orders) = 0
      /\ infos \in Seq(Infos) /\ Len(infos) = 0
  BY DEF Init
<1>5. TypeOK
  BY <1>1, <1>3, <1>4, MaxInFlightAssumption, MaxRestartsAssumption DEF Init, TypeOK
<1>6. SettingsChosen
  BY <1>4 DEF Init, Deputy!Init, Sheriff!Init, SettingsChosen
<1> QED  BY <1>1, <1>5, <1>6 DEF Base

\* The report of every second is a quiet step.
LEMMA ReportSteps ==
  ASSUME Base, ReportEverySecond
  PROVE  QuietStep /\ TypeOK' /\ SettingsChosen'
<1>0. TypeOK /\ SettingsChosen /\ cmds' \in [Ids -> Deputy!Command] /\ managed' \subseteq Ids
  BY DEF Base, TypeOK, Deputy!TypeOK, ReportEverySecond, deputyVars
<1>1. /\ UNCHANGED <<deputyVars, sheriffVars, orders, restarts>>
      /\ infos' \in Sent(infos, Report(managed))
  BY DEF ReportEverySecond
<1> DEFINE message == Report(managed)
           kept    == {}
<1>2. message = [i \in managed' \cup kept |->
                   IF i \in kept THEN [Entry(cmds[i]) EXCEPT !.pid = FALSE]
                   ELSE Entry(cmds'[i])]
  BY <1>1 DEF Report, Entry, deputyVars
<1>3. /\ kept \in SUBSET Ids /\ kept \cap managed' = {}
      /\ \A i \in kept : i \in managed /\ cmds[i].auto_respawn \in Respawns
      /\ infos' \in Sent(infos, message)
      /\ \A i \in managed' : cmds'[i].auto_respawn \in Respawns
      /\ \A k \in 1 .. Len(infos) :
           \A i \in DOMAIN infos[k] : infos[k][i].auto_respawn \in Respawns
  BY <1>0, <1>1 DEF SettingsChosen, deputyVars
<1> HIDE DEF message, kept
<1>4. /\ InfosSent /\ infos' \in Seq(Infos) /\ Len(infos') <= MaxInFlight
      /\ \A k \in 1 .. Len(infos') :
           \A i \in DOMAIN infos'[k] : infos'[k][i].auto_respawn \in Respawns
  BY <1>0, <1>2, <1>3, ReportFacts
<1>5. QuietStep
  BY <1>1, <1>4 DEF QuietStep, deputyVars, sheriffVars, Keeps, SameReport
<1>6. TypeOK'
  BY <1>0, <1>1, <1>4 DEF TypeOK, deputyVars, sheriffVars, Deputy!TypeOK, Sheriff!TypeOK
<1>7. SettingsChosen'
  BY <1>0, <1>1, <1>4 DEF SettingsChosen, deputyVars, sheriffVars
<1> QED  BY <1>5, <1>6, <1>7

\* So is ignoring orders.
LEMMA IgnoreSteps ==
  ASSUME Base, IgnoreOrders
  PROVE  QuietStep /\ TypeOK' /\ SettingsChosen'
<1>1. /\ UNCHANGED <<deputyVars, sheriffVars, infos, restarts>>
      /\ orders # <<>> /\ orders' = Tail(orders)
  BY DEF IgnoreOrders
<1>2. orders' \in Seq(Deputy!Orders) /\ Len(orders') <= MaxInFlight
  BY <1>1, TailFacts, MaxInFlightAssumption DEF Base, TypeOK
<1>3. QuietStep
  BY <1>1 DEF QuietStep, deputyVars, sheriffVars, Keeps, SameReport, InfosSent
<1>4. TypeOK'
  BY <1>1, <1>2 DEF Base, TypeOK, deputyVars, sheriffVars, Deputy!TypeOK, Sheriff!TypeOK
<1>5. SettingsChosen'
  BY <1>1 DEF Base, SettingsChosen, deputyVars, sheriffVars
<1> QED  BY <1>3, <1>4, <1>5

\* Reconciling renames commands of the list; it invents none.
LEMMA ReconcileSteps ==
  ASSUME Base, infos # <<>>, Sheriff!Reconcile(Head(infos))
  PROVE  Sheriff!TypeOK' /\ \A i \in known' : commands'[i].auto_respawn \in Respawns
<1>1. /\ known \subseteq Ids /\ heard \in BOOLEAN /\ fate \in [Ids -> Sheriff!Fate]
      /\ \A i \in Ids : commands[i] \in Sheriff!SheriffCommand
      /\ \A i \in known : commands[i].auto_respawn \in Respawns
  BY DEF Base, TypeOK, SettingsChosen, Sheriff!TypeOK
<1>2. PICK r \in [known -> Ids] :
        /\ known' = {r[i] : i \in known}
        /\ commands' = [j \in Ids |->
                          IF \E i \in known : r[i] = j
                          THEN commands[CHOOSE i \in known : r[i] = j] ELSE Sheriff!NoCommand]
        /\ UNCHANGED <<heard, fate>>
  BY DEF Sheriff!Reconcile, Sheriff!Renamings
<1>3. known' \subseteq Ids
  BY <1>2
<1>4. Sheriff!NoCommand \in Sheriff!SheriffCommand
  BY MaxRunidAssumption
     DEF Sheriff!NoCommand, Sheriff!NewCommand, Sheriff!SheriffCommand, Sheriff!RunIds
<1>5. \A j \in Ids : \/ \E i \in known : commands'[j] = commands[i]
                     \/ commands'[j] = Sheriff!NoCommand /\ j \notin known'
  <2> TAKE j \in Ids
  <2>1. CASE \E i \in known : r[i] = j
    <3> DEFINE i == CHOOSE x \in known : r[x] = j
    <3>1. i \in known
      BY <2>1
    <3> QED  BY <1>2, <2>1, <3>1
  <2>2. CASE ~ \E i \in known : r[i] = j
    BY <1>2, <2>2
  <2> QED  BY <2>1, <2>2
<1>6. commands' \in [Ids -> Sheriff!SheriffCommand]
  <2>1. \A j \in Ids : commands'[j] \in Sheriff!SheriffCommand
    BY <1>1, <1>4, <1>5
  <2> QED  BY <1>2, <2>1
<1>7. \A i \in known' : commands'[i].auto_respawn \in Respawns
  BY <1>1, <1>3, <1>5
<1> QED  BY <1>1, <1>2, <1>3, <1>6, <1>7 DEF Sheriff!TypeOK

\* Taking in an info keeps the types and the settings.
LEMMA InfoBase ==
  ASSUME Base, ReceiveInfo
  PROVE  TypeOK' /\ SettingsChosen'
<1>0. TypeOK /\ SettingsChosen
  BY DEF Base
<1>1. /\ UNCHANGED <<deputyVars, orders, restarts>>
      /\ infos # <<>> /\ infos' = Tail(infos)
  BY DEF ReceiveInfo
<1>2. /\ infos' \in Seq(Infos) /\ Len(infos') <= MaxInFlight
      /\ \A k \in 1 .. Len(infos') : infos'[k] = infos[k + 1]
      /\ Len(infos) \in Nat \ {0} /\ Len(infos') = Len(infos) - 1
  BY <1>0, <1>1, TailFacts, HeadInfo DEF TypeOK
<1>3. Sheriff!TypeOK' /\ \A i \in known' : commands'[i].auto_respawn \in Respawns
  <2>1. CASE Sheriff!MustReconcile(Head(infos))
    BY <1>1, <2>1, ReconcileSteps DEF ReceiveInfo, Sheriff!ReceiveInfo
  <2>2. CASE ~Sheriff!MustReconcile(Head(infos))
    <3>1. InfoStep /\ Sheriff!TypeOK'
      BY <2>2, InfoSteps
    <3>2. \A i \in DOMAIN infos[1] : infos[1][i].auto_respawn \in Respawns
      BY <1>0, <1>2 DEF SettingsChosen
    <3>3. ASSUME NEW i \in known' PROVE commands'[i].auto_respawn \in Respawns
      <4>1. i \in Ids
        BY <3>1 DEF Sheriff!TypeOK
      <4>2. CASE Updates(i)
        BY <1>0, <3>2, <4>2 DEF Updates, SettingsChosen
      <4>3. CASE Forgets(i)
        BY <4>3 DEF Forgets
      <4>4. CASE NotShown(i)
        BY <1>0, <4>4 DEF NotShown, LeavesAlone, SettingsChosen
      <4> QED  BY <3>1, <4>1, <4>2, <4>3, <4>4 DEF InfoStep
    <3> QED  BY <3>1, <3>3
  <2> QED  BY <2>1, <2>2
<1>4. TypeOK'
  BY <1>0, <1>1, <1>2, <1>3 DEF TypeOK, deputyVars, Deputy!TypeOK
<1>5. SettingsChosen'
  BY <1>0, <1>1, <1>2, <1>3 DEF SettingsChosen, deputyVars
<1> QED  BY <1>4, <1>5

\* Every step keeps them.
LEMMA NextBase == Base /\ [Next]_vars => Base'
<1> SUFFICES ASSUME Base, [Next]_vars PROVE Base'
  OBVIOUS
<1>1. DP!IInv'
  BY NextDeputyIInv DEF Base
<1>2. Deputy!TypeOK'
  BY <1>1, DeputyInvariant, PTL
<1>3. TypeOK /\ SettingsChosen /\ Deputy!TypeOK
  BY DEF Base, TypeOK
<1>4. CASE UserActs \/ UserSetsAutoRespawn \/ RepeatOrders
  BY <1>1, <1>4, SheriffSteps DEF Base
<1>5. CASE ReceiveInfo
  BY <1>1, <1>5, InfoBase DEF Base
<1>6. CASE \E forks \in SUBSET Ids : ReceiveOrders(forks)
  BY <1>1, <1>6, OrdersSteps DEF Base
<1>7. CASE IgnoreOrders \/ ReportEverySecond \/ HandleSigchld
  BY <1>1, <1>7, IgnoreSteps, ReportSteps, ReapingSteps DEF Base
<1>8. CASE DeputyActs
  <2>1. UNCHANGED <<sheriffVars, orders, infos, restarts>>
    BY <1>8 DEF DeputyActs
  <2>2. TypeOK'
    BY <1>2, <1>3, <2>1 DEF TypeOK, sheriffVars, Sheriff!TypeOK
  <2>3. \A i \in managed' : cmds'[i].auto_respawn \in Respawns
    <3>1. CASE ~Deputy!OnQuitTimeout
      <4>1. \A i \in Ids :
              Keeps(i) \/ Frees(i) \/ (i \notin managed \cup managed' /\ cmds'[i] = cmds[i])
        BY <1>8, <3>1, DeputyActsSteps DEF QuietStep
      <4>2. managed' \subseteq Ids
        BY <1>2 DEF Deputy!TypeOK
      <4> QED  BY <1>3, <4>1, <4>2 DEF Keeps, Frees, SameReport, SettingsChosen
    <3>2. CASE Deputy!OnQuitTimeout
      <4>1. \A i \in managed' : i \in managed /\ cmds'[i] = [cmds[i] EXCEPT !.signal = "kill"]
        BY <1>3, <3>2 DEF Deputy!OnQuitTimeout, Deputy!TypeOK
      <4>2. \A i \in managed : cmds[i] \in Deputy!Command
        BY <1>3 DEF Deputy!TypeOK
      <4>3. \A c \in Deputy!Command : [c EXCEPT !.signal = "kill"].auto_respawn = c.auto_respawn
        BY DEF Deputy!Command
      <4> QED  BY <1>3, <4>1, <4>2, <4>3 DEF SettingsChosen
    <3> QED  BY <3>1, <3>2
  <2>4. SettingsChosen'
    BY <1>3, <2>1, <2>3 DEF SettingsChosen, sheriffVars
  <2> QED  BY <1>1, <2>2, <2>4 DEF Base
<1>9. CASE RestartSheriff
  <2>1. /\ UNCHANGED <<deputyVars, orders, infos>> /\ restarts' = restarts + 1
        /\ restarts < MaxRestarts
        /\ known' = {} /\ commands' = [i \in Ids |-> Sheriff!NoCommand]
        /\ heard' = FALSE /\ fate' = fate
    BY <1>9 DEF RestartSheriff, Sheriff!SheriffRestarts
  <2>2. Sheriff!NoCommand \in Sheriff!SheriffCommand
    BY MaxRunidAssumption
       DEF Sheriff!NoCommand, Sheriff!NewCommand, Sheriff!SheriffCommand, Sheriff!RunIds
  <2>5. Sheriff!TypeOK'
    BY <1>3, <2>1, <2>2 DEF TypeOK, Sheriff!TypeOK
  <2>6. restarts' \in 0 .. MaxRestarts
    BY <1>3, <2>1, MaxRestartsAssumption DEF TypeOK
  <2>3. TypeOK'
    BY <1>2, <1>3, <2>1, <2>5, <2>6 DEF TypeOK
  <2>4. SettingsChosen'
    BY <1>3, <2>1 DEF SettingsChosen, deputyVars
  <2> QED  BY <1>1, <2>3, <2>4 DEF Base
<1>10. CASE QuitDeputy
  <2>1. /\ UNCHANGED <<sheriffVars, orders, infos>> /\ restarts' = restarts + 1
        /\ restarts < MaxRestarts /\ managed' = managed
        /\ Deputy!HandleQuitSignal
    BY <1>10 DEF QuitDeputy, Deputy!HandleQuitSignal
  <2>2. \A i \in Ids : cmds'[i] = cmds[i] \/ cmds'[i] = [cmds[i] EXCEPT !.signal = "stop"]
    BY <2>1 DEF Deputy!HandleQuitSignal
  <2>3. \A c \in Deputy!Command : [c EXCEPT !.signal = "stop"].auto_respawn = c.auto_respawn
    BY DEF Deputy!Command
  <2>4. \A i \in managed' : cmds'[i].auto_respawn \in Respawns
    BY <1>3, <2>1, <2>2, <2>3 DEF SettingsChosen, Deputy!TypeOK
  <2>5. TypeOK'
    BY <1>2, <1>3, <2>1, MaxRestartsAssumption DEF TypeOK, Sheriff!TypeOK, sheriffVars
  <2>6. SettingsChosen'
    BY <1>3, <2>1, <2>4 DEF SettingsChosen, sheriffVars
  <2> QED  BY <1>1, <2>5, <2>6 DEF Base
<1>11. CASE RestartDeputy
  <2>1. UNCHANGED <<sheriffVars, orders, infos, restarts>> /\ managed' = {}
    BY <1>11 DEF RestartDeputy
  <2>2. TypeOK'
    BY <1>2, <1>3, <2>1 DEF TypeOK, Sheriff!TypeOK, sheriffVars
  <2>3. SettingsChosen'
    BY <1>3, <2>1 DEF SettingsChosen, sheriffVars
  <2> QED  BY <1>1, <2>2, <2>3 DEF Base
<1>12. CASE UNCHANGED vars
  BY <1>1, <1>2, <1>3, <1>12 DEF Base, TypeOK, SettingsChosen, vars, deputyVars, sheriffVars,
     Sheriff!TypeOK
<1> QED  BY <1>4, <1>5, <1>6, <1>7, <1>8, <1>9, <1>10, <1>11, <1>12 DEF Next

\* Every variable of the sheriff, the deputy and the network keeps its type.
THEOREM TypeCorrect == Spec => []TypeOK
<1>1. Base => TypeOK
  BY DEF Base
<1>2. Spec => []Base
  BY InitBase, NextBase, PTL DEF Spec
<1> QED  BY <1>1, <1>2, PTL


-----------------------------------------------------------------------------
(* The inductive invariant of a sheriff and a deputy that were not restarted *)

\* The command is on the sheriff's list, or was taken off it after all.
Live(i) == fate[i] \in {"used", "disturbed"}

Named(i, k) == i \in DOMAIN orders[k]

Shown(i, k) == i \in DOMAIN infos[k]

NoOrders(i) == \A k \in 1 .. Len(orders) : ~Named(i, k)

NoInfos(i) == \A k \in 1 .. Len(infos) : ~Shown(i, k)

Leaving(i) == commands[i].scheduled_for_removal

\* The deputy has let go of the command, and will not hear of it again.
Left(i) == Leaving(i) /\ i \notin managed /\ NoOrders(i)

Nowhere(i) == i \notin known \cup managed /\ NoOrders(i) /\ NoInfos(i)

NotQuit == mode \in {"running", "crashed"}

\* An id that was not drawn is new to everybody.
UnusedIsNew == \A i \in Ids : fate[i] = "unused" => Nowhere(i)

\* A sheriff that has not heard from the deputy has not sent it anything.
UnheardIsIdle == ~heard => managed = {} /\ orders = <<>> /\ \A i \in Ids : NoInfos(i)

LiveIsKnown == \A i \in Ids : Live(i) => i \in known

RemovedIsGone == \A i \in Ids : fate[i] = "removed" => Nowhere(i)

\* Once a message to the deputy does not name a command that it has, or that an
\* earlier message names, the command is being removed and no later one does.
OrdersInStep == \A i \in Ids : Live(i) =>
  /\ \A k \in 1 .. Len(orders) :
       ~Named(i, k) /\ (i \in managed \/ \E j \in 1 .. k - 1 : Named(i, j)) =>
          Leaving(i) /\ \A l \in k .. Len(orders) : ~Named(i, l)
  /\ i \in managed /\ cmds[i].remove_requested => Leaving(i) /\ NoOrders(i)

\* Once a command that was shown to the sheriff is not shown again, or is on its
\* way to that, the deputy is through with it.
InfosInStep == \A i \in Ids : Live(i) =>
  /\ \A k \in 1 .. Len(infos) :
       ~Shown(i, k) /\ (commands[i].pid # "unknown" \/ \E j \in 1 .. k - 1 : Shown(i, j)) =>
          Left(i) /\ \A l \in k .. Len(infos) : ~Shown(i, l)
  /\ i \notin managed /\ (commands[i].pid # "unknown" \/ ~NoInfos(i)) => Left(i)

\* Run ids only grow from what the sheriff knows, over the deputy and the orders
\* under way, to what the sheriff wants.
RunsInStep == \A i \in Ids : Live(i) =>
  /\ commands[i].actual_runid <= commands[i].desired_runid
  /\ cmds[i].actual_runid <= commands[i].desired_runid
  /\ \A k \in 1 .. Len(infos) : Shown(i, k) =>
       infos[k][i].actual_runid <= commands[i].desired_runid
  /\ \A k \in 1 .. Len(orders) : Named(i, k) =>
       /\ cmds[i].actual_runid <= orders[k][i].desired_runid
       /\ orders[k][i].desired_runid <= commands[i].desired_runid
       /\ \A l \in k .. Len(orders) : Named(i, l) =>
            orders[k][i].desired_runid <= orders[l][i].desired_runid

Calm ==
  /\ NotQuit /\ UnusedIsNew /\ UnheardIsIdle /\ LiveIsKnown /\ RemovedIsGone
  /\ OrdersInStep /\ InfosInStep /\ RunsInStep

-----------------------------------------------------------------------------

\* The variables have values that the arithmetic below can use.
LEMMA BaseFacts ==
  ASSUME Base
  PROVE  /\ Len(orders) \in Nat /\ Len(infos) \in Nat
         /\ \A i \in Ids : /\ cmds[i].actual_runid \in Nat
                           /\ commands[i].actual_runid \in Nat
                           /\ commands[i].desired_runid \in Nat
                           /\ commands[i].pid \in {"unknown", "none", "some"}
                           /\ fate[i] \in Sheriff!Fate
                           /\ i \notin managed => cmds[i] = Deputy!NewCommand
         /\ \A k \in 1 .. Len(orders) :
              /\ DOMAIN orders[k] \subseteq Ids
              /\ \A i \in DOMAIN orders[k] : orders[k][i].desired_runid \in Nat
         /\ \A k \in 1 .. Len(infos) :
              /\ DOMAIN infos[k] \subseteq Ids
              /\ \A i \in DOMAIN infos[k] : infos[k][i].actual_runid \in Nat
         /\ managed \subseteq Ids /\ known \subseteq Ids
<1>1. /\ TypeOK /\ Deputy!TypeOK /\ Sheriff!TypeOK
      /\ \A i \in Ids \ managed : cmds[i] = Deputy!NewCommand
  BY DeputyInvariant DEF Base, TypeOK
<1>2. /\ orders \in Seq(Deputy!Orders) /\ infos \in Seq(Infos)
      /\ Len(orders) \in Nat /\ Len(infos) \in Nat
  BY <1>1 DEF TypeOK
<1>a. Deputy!RunIds \subseteq Nat /\ Sheriff!RunIds \subseteq Nat
  BY MaxRunidAssumption DEF Deputy!RunIds, Sheriff!RunIds
<1>3. \A o \in Deputy!Orders :
        DOMAIN o \subseteq Ids /\ \A i \in DOMAIN o : o[i].desired_runid \in Nat
  BY <1>a DEF Deputy!Orders, Deputy!Order
<1>4. \A o \in Infos :
        DOMAIN o \subseteq Ids /\ \A i \in DOMAIN o : o[i].actual_runid \in Nat
  BY <1>a DEF Infos, InfoEntry
<1>5. \A i \in Ids : cmds[i].actual_runid \in Nat
  BY <1>1, <1>a DEF Deputy!TypeOK, Deputy!Command
<1>6. \A i \in Ids : /\ commands[i].actual_runid \in Nat
                     /\ commands[i].desired_runid \in Nat
                     /\ commands[i].pid \in {"unknown", "none", "some"}
  <2>1. \A i \in Ids : commands[i] \in Sheriff!SheriffCommand
    BY <1>1 DEF Sheriff!TypeOK
  <2> QED  BY <2>1, <1>a DEF Sheriff!SheriffCommand
<1>7. \A k \in 1 .. Len(orders) : orders[k] \in Deputy!Orders
  BY <1>2
<1>8. \A k \in 1 .. Len(infos) : infos[k] \in Infos
  BY <1>2
<1> QED  BY <1>1, <1>2, <1>3, <1>4, <1>5, <1>6, <1>7, <1>8 DEF Deputy!TypeOK, Sheriff!TypeOK

\* Steps of a user keep the invariant.
LEMMA SheriffStepCalm ==
  ASSUME Base, Base', Calm, SheriffStep
  PROVE  Calm'
<1>0. /\ Len(orders) \in Nat /\ Len(infos) \in Nat
      /\ \A i \in Ids : /\ cmds[i].actual_runid \in Nat
                        /\ commands[i].actual_runid \in Nat
                        /\ commands[i].desired_runid \in Nat
                        /\ i \notin managed => cmds[i] = Deputy!NewCommand
      /\ \A k \in 1 .. Len(orders) :
           \A i \in DOMAIN orders[k] : orders[k][i].desired_runid \in Nat
  BY BaseFacts
<1>1. /\ UNCHANGED <<managed, cmds, mode, infos, restarts, heard>>
      /\ \A i \in Ids : LeavesAlone(i) \/ Adds(i) \/ Changes(i) \/ Drops(i)
  BY DEF SheriffStep
<1>n. PICK n \in Nat : n = Len(orders)
  BY <1>0
<1> DEFINE Appended(i) ==
      /\ heard' /\ Len(orders') = n + 1
      /\ \A k \in 1 .. n : Named(i, k)' <=> Named(i, k)
      /\ \A k \in 1 .. n : orders'[k] = orders[k]
      /\ Named(i, n + 1)' <=> i \in known' /\ ~Leaving(i)'
      /\ Named(i, n + 1)' => orders'[n + 1][i].desired_runid = commands'[i].desired_runid
<1>2. \A i \in Ids : \/ /\ orders' = orders
                        /\ \A k \in Nat : Named(i, k)' <=> Named(i, k)
                     \/ Appended(i)
  <2>1. CASE orders' = orders
    BY <2>1 DEF Named
  <2>2. CASE /\ heard' /\ Len(orders') = Len(orders) + 1
             /\ \A k \in 1 .. Len(orders) : orders'[k] = orders[k]
             /\ \A i \in Ids :
                  LET last == orders'[Len(orders')]
                  IN  /\ i \in DOMAIN last <=> i \in known' /\ ~commands'[i].scheduled_for_removal
                      /\ i \in DOMAIN last => last[i].desired_runid = commands'[i].desired_runid
    BY <1>n, <2>2 DEF Named, Leaving
  <2> QED  BY <2>1, <2>2 DEF SheriffStep, OrdersSent
<1> HIDE DEF Appended
<1>3. NotQuit' /\ UnheardIsIdle'
  <2>1. \A i \in Ids : NoInfos(i)' <=> NoInfos(i)
    BY <1>1 DEF NoInfos, Shown
  <2>2. ~heard => orders' = orders
    BY <1>1 DEF SheriffStep, OrdersSent
  <2> QED  BY <1>1, <2>1, <2>2 DEF Calm, NotQuit, UnheardIsIdle
<1>4. \A i \in Ids : NoInfos(i)' <=> NoInfos(i)
  BY <1>1 DEF NoInfos, Shown
<1>5. ASSUME NEW i \in Ids, NoOrders(i), i \notin known' \/ Leaving(i)'
      PROVE  NoOrders(i)'
  <2>1. CASE orders' = orders /\ \A k \in Nat : Named(i, k)' <=> Named(i, k)
    BY <1>0, <1>5, <2>1 DEF NoOrders
  <2>2. CASE Appended(i)
    <3>1. \A k \in 1 .. Len(orders') : k \in 1 .. n \/ k = n + 1
      BY <1>n, <2>2 DEF Appended
    <3> QED  BY <1>5, <1>n, <2>2, <3>1 DEF NoOrders, Appended
  <2> QED  BY <1>2, <2>1, <2>2
<1>6. UnusedIsNew' /\ RemovedIsGone' /\ LiveIsKnown'
  <2>1. ASSUME NEW i \in Ids, i \notin known', fate'[i] = fate[i], Nowhere(i)
        PROVE  Nowhere(i)'
    BY <1>1, <1>4, <1>5, <2>1 DEF Nowhere
  <2> QED  BY <1>1, <2>1 DEF Calm, UnusedIsNew, RemovedIsGone, LiveIsKnown, Nowhere, Live,
                         LeavesAlone, Adds, Changes, Drops
<1>7. ASSUME NEW i \in Ids, Live(i)'
      PROVE  \/ /\ fate[i] = "unused" /\ Nowhere(i) /\ Adds(i)
             \/ /\ Live(i) /\ i \in known /\ i \in known'
                /\ commands'[i].pid = commands[i].pid
                /\ commands'[i].actual_runid = commands[i].actual_runid
                /\ Leaving(i) => Leaving(i)'
                /\ \/ commands'[i].desired_runid = commands[i].desired_runid
                   \/ commands'[i].desired_runid = commands[i].desired_runid + 1
  BY <1>1, <1>7 DEF Calm, UnusedIsNew, LiveIsKnown, Live, LeavesAlone, Adds, Changes, Drops, Leaving
<1>8. ASSUME NEW i \in Ids, Adds(i)
      PROVE  /\ commands'[i].pid = "unknown" /\ ~Leaving(i)' /\ i \in known'
             /\ commands'[i].actual_runid = 0 /\ commands'[i].desired_runid = 0
  BY <1>8 DEF Adds, Sheriff!NewCommand, Leaving
<1>9. OrdersInStep'
  <2> SUFFICES ASSUME NEW i \in Ids, Live(i)'
               PROVE  /\ \A k \in 1 .. Len(orders') :
                           ~Named(i, k)' /\ (i \in managed \/ \E j \in 1 .. k - 1 : Named(i, j)') =>
                              Leaving(i)' /\ \A l \in k .. Len(orders') : ~Named(i, l)'
                      /\ i \in managed /\ cmds[i].remove_requested => Leaving(i)' /\ NoOrders(i)'
    BY <1>1 DEF OrdersInStep
  <2>1. CASE fate[i] = "unused" /\ Nowhere(i) /\ Adds(i)
    <3>1. i \notin managed /\ \A k \in 1 .. n : ~Named(i, k)
      BY <1>n, <2>1 DEF Nowhere, NoOrders
    <3>2. CASE orders' = orders /\ \A k \in Nat : Named(i, k)' <=> Named(i, k)
      <4>1. \A k \in 1 .. Len(orders') : ~Named(i, k)'
        BY <1>n, <3>1, <3>2
      <4>2. \A k \in 1 .. Len(orders') : \A j \in 1 .. k - 1 : ~Named(i, j)'
        BY <1>0, <3>2, <4>1
      <4> QED  BY <3>1, <4>2
    <3>3. CASE Appended(i)
      <4>1. \A k \in 1 .. Len(orders') : \A j \in 1 .. k - 1 : j \in 1 .. n
        BY <3>3 DEF Appended
      <4>2. \A k \in 1 .. Len(orders') : \A j \in 1 .. k - 1 : ~Named(i, j)'
        BY <3>1, <3>3, <4>1 DEF Appended
      <4> QED  BY <3>1, <4>2
    <3> QED  BY <1>2, <3>2, <3>3
  <2>2. CASE /\ Live(i) /\ i \in known'
             /\ Leaving(i) => Leaving(i)'
    <3>1. /\ \A k \in 1 .. n :
               ~Named(i, k) /\ (i \in managed \/ \E j \in 1 .. k - 1 : Named(i, j)) =>
                  Leaving(i) /\ \A l \in k .. n : ~Named(i, l)
          /\ i \in managed /\ cmds[i].remove_requested => Leaving(i) /\ NoOrders(i)
      BY <1>n, <2>2 DEF Calm, OrdersInStep
    <3>2. i \in managed /\ cmds[i].remove_requested => Leaving(i)' /\ NoOrders(i)'
      BY <1>5, <2>2, <3>1
    <3>3. CASE orders' = orders /\ \A k \in Nat : Named(i, k)' <=> Named(i, k)
      <4>1. Len(orders') = n
        BY <1>n, <3>3
      <4>2. ASSUME NEW k \in 1 .. n,
                   ~Named(i, k)', i \in managed \/ \E j \in 1 .. k - 1 : Named(i, j)'
            PROVE  Leaving(i)' /\ \A l \in k .. n : ~Named(i, l)'
        BY <2>2, <3>1, <3>3, <4>2
      <4> QED  BY <3>2, <4>1, <4>2
    <3>4. CASE Appended(i)
      <4>1. ASSUME NEW k \in 1 .. n + 1,
                   ~Named(i, k)', i \in managed \/ \E j \in 1 .. k - 1 : Named(i, j)'
            PROVE  Leaving(i)' /\ \A l \in k .. n + 1 : ~Named(i, l)'
        <5>1. CASE k = n + 1
          BY <2>2, <3>4, <4>1, <5>1 DEF Appended
        <5>2. CASE k \in 1 .. n
          <6>1. ~Named(i, k) /\ (i \in managed \/ \E j \in 1 .. k - 1 : Named(i, j))
            BY <3>4, <4>1, <5>2 DEF Appended
          <6>2. Leaving(i) /\ \A l \in k .. n : ~Named(i, l)
            BY <3>1, <5>2, <6>1
          <6>3. Leaving(i)' /\ ~Named(i, n + 1)'
            BY <2>2, <3>4, <6>2 DEF Appended
          <6>4. \A l \in k .. n : ~Named(i, l)'
            BY <3>4, <5>2, <6>2 DEF Appended
          <6>5. \A l \in k .. n + 1 : l \in k .. n \/ l = n + 1
            BY <5>2
          <6> QED  BY <6>3, <6>4, <6>5
        <5> QED  BY <5>1, <5>2
      <4> QED  BY <3>2, <3>4, <4>1 DEF Appended
    <3> QED  BY <1>2, <3>3, <3>4
  <2> QED  BY <1>7, <2>1, <2>2
<1>10. InfosInStep'
  <2> SUFFICES ASSUME NEW i \in Ids, Live(i)'
               PROVE  /\ \A k \in 1 .. Len(infos) :
                           /\ ~Shown(i, k)
                           /\ commands'[i].pid # "unknown" \/ \E j \in 1 .. k - 1 : Shown(i, j)
                           => Left(i)' /\ \A l \in k .. Len(infos) : ~Shown(i, l)
                      /\ i \notin managed /\ (commands'[i].pid # "unknown" \/ ~NoInfos(i))
                           => Left(i)'
    BY <1>1, <1>4 DEF InfosInStep, Shown
  <2>1. ASSUME Left(i), Leaving(i)'
        PROVE  Left(i)'
    BY <1>1, <1>5, <2>1 DEF Left
  <2>2. CASE fate[i] = "unused" /\ Nowhere(i) /\ Adds(i)
    <3>1. /\ commands'[i].pid = "unknown" /\ NoInfos(i)
          /\ \A k \in 1 .. Len(infos) : ~Shown(i, k)
      BY <1>8, <2>2 DEF Nowhere, NoInfos
    <3>2. \A k \in 1 .. Len(infos) : \A j \in 1 .. k - 1 : ~Shown(i, j)
      BY <1>0, <3>1
    <3> QED  BY <3>1, <3>2
  <2>3. CASE /\ Live(i) /\ commands'[i].pid = commands[i].pid
             /\ Leaving(i) => Leaving(i)'
    BY <2>1, <2>3 DEF Calm, InfosInStep, Left
  <2> QED  BY <1>7, <2>2, <2>3
<1>11. RunsInStep'
  <2> SUFFICES ASSUME NEW i \in Ids, Live(i)'
               PROVE  /\ commands'[i].actual_runid <= commands'[i].desired_runid
                      /\ cmds[i].actual_runid <= commands'[i].desired_runid
                      /\ \A k \in 1 .. Len(infos) : Shown(i, k) =>
                           infos[k][i].actual_runid <= commands'[i].desired_runid
                      /\ \A k \in 1 .. Len(orders') : Named(i, k)' =>
                           /\ cmds[i].actual_runid <= orders'[k][i].desired_runid
                           /\ orders'[k][i].desired_runid <= commands'[i].desired_runid
                           /\ \A l \in k .. Len(orders') : Named(i, l)' =>
                                orders'[k][i].desired_runid <= orders'[l][i].desired_runid
    BY <1>1 DEF RunsInStep, Shown
  <2>2. \A k \in 1 .. Len(infos) : Shown(i, k) => infos[k][i].actual_runid \in Nat
    BY BaseFacts DEF Shown
  <2>3. \A k \in 1 .. n : Named(i, k) => orders[k][i].desired_runid \in Nat
    BY <1>0, <1>n DEF Named
  <2>4. CASE Adds(i) /\ Nowhere(i)
    <3>1. cmds[i].actual_runid = 0
      BY <1>0, <2>4 DEF Nowhere, Deputy!NewCommand
    <3>2. \A k \in 1 .. n : ~Named(i, k)
      BY <1>n, <2>4 DEF Nowhere, NoOrders
    <3>3. \A k \in 1 .. Len(orders') : Named(i, k)' => orders'[k][i].desired_runid = 0
      <4>1. CASE orders' = orders /\ \A k \in Nat : Named(i, k)' <=> Named(i, k)
        BY <1>n, <3>2, <4>1
      <4>2. CASE Appended(i)
        <5>1. \A k \in 1 .. Len(orders') : k \in 1 .. n \/ k = n + 1
          BY <4>2 DEF Appended
        <5> QED  BY <1>8, <2>4, <3>2, <4>2, <5>1 DEF Appended
      <4> QED  BY <1>2, <4>1, <4>2
    <3>4. \A k \in 1 .. Len(orders') : \A l \in k .. Len(orders') : l \in 1 .. Len(orders')
      <4>1. Len(orders') \in Nat
        BY <1>2, <1>n DEF Appended
      <4> QED  BY <4>1
    <3>5. \A k \in 1 .. Len(infos) : ~Shown(i, k)
      BY <2>4 DEF Nowhere, NoInfos
    <3> QED  BY <1>8, <2>4, <3>1, <3>3, <3>4, <3>5
  <2>5. CASE /\ Live(i)
             /\ commands'[i].actual_runid = commands[i].actual_runid
             /\ \/ commands'[i].desired_runid = commands[i].desired_runid
                \/ commands'[i].desired_runid = commands[i].desired_runid + 1
    <3>1. /\ commands[i].actual_runid <= commands'[i].desired_runid
          /\ commands'[i].desired_runid \in Nat
          /\ cmds[i].actual_runid <= commands'[i].desired_runid
          /\ \A k \in 1 .. Len(infos) : Shown(i, k) =>
               infos[k][i].actual_runid <= commands'[i].desired_runid
          /\ \A k \in 1 .. n : Named(i, k) =>
               orders[k][i].desired_runid <= commands'[i].desired_runid
      BY <1>0, <1>n, <2>2, <2>3, <2>5 DEF Calm, RunsInStep
    <3>2. \A k \in 1 .. n : Named(i, k) =>
             /\ cmds[i].actual_runid <= orders[k][i].desired_runid
             /\ \A l \in k .. n : Named(i, l) =>
                  orders[k][i].desired_runid <= orders[l][i].desired_runid
      BY <1>n, <2>5 DEF Calm, RunsInStep
    <3>3. CASE orders' = orders /\ \A k \in Nat : Named(i, k)' <=> Named(i, k)
      <4>1. Len(orders') = n
        BY <1>n, <3>3
      <4>2. ASSUME NEW k \in 1 .. n, Named(i, k)'
            PROVE  /\ cmds[i].actual_runid <= orders'[k][i].desired_runid
                   /\ orders'[k][i].desired_runid <= commands'[i].desired_runid
                   /\ \A l \in k .. n : Named(i, l)' =>
                        orders'[k][i].desired_runid <= orders'[l][i].desired_runid
        BY <3>1, <3>2, <3>3, <4>2
      <4> QED  BY <2>5, <3>1, <4>1, <4>2
    <3>4. CASE Appended(i)
      <4>1. ASSUME NEW k \in 1 .. n + 1, Named(i, k)'
            PROVE  /\ cmds[i].actual_runid <= orders'[k][i].desired_runid
                   /\ orders'[k][i].desired_runid <= commands'[i].desired_runid
                   /\ \A l \in k .. n + 1 : Named(i, l)' =>
                        orders'[k][i].desired_runid <= orders'[l][i].desired_runid
        <5>1. CASE k = n + 1
          <6>1. orders'[k][i].desired_runid = commands'[i].desired_runid
            BY <3>4, <4>1, <5>1 DEF Appended
          <6>2. \A l \in k .. n + 1 : l = k
            BY <5>1
          <6> QED  BY <3>1, <6>1, <6>2
        <5>2. CASE k \in 1 .. n
          <6>1. Named(i, k) /\ orders'[k] = orders[k]
            BY <3>4, <4>1, <5>2 DEF Appended
          <6>2. \A l \in k .. n + 1 : l \in k .. n \/ l = n + 1
            BY <5>2
          <6>3. \A l \in k .. n : Named(i, l)' => Named(i, l) /\ orders'[l] = orders[l]
            BY <3>4, <5>2 DEF Appended
          <6>4. Named(i, n + 1)' => orders'[n + 1][i].desired_runid = commands'[i].desired_runid
            BY <3>4 DEF Appended
          <6> QED  BY <3>1, <3>2, <5>2, <6>1, <6>2, <6>3, <6>4
        <5> QED  BY <5>1, <5>2
      <4> QED  BY <2>5, <3>1, <3>4, <4>1 DEF Appended
    <3> QED  BY <1>2, <3>3, <3>4
  <2> QED  BY <1>7, <2>4, <2>5
<1> QED  BY <1>3, <1>6, <1>9, <1>10, <1>11 DEF Calm

\* Removing the first element of a channel.
LEMMA ShiftFacts ==
  ASSUME NEW S, NEW s \in Seq(S), s # <<>>
  PROVE  /\ Len(s) \in Nat \ {0} /\ Len(Tail(s)) = Len(s) - 1
         /\ \A k \in 1 .. Len(s) - 1 : Tail(s)[k] = s[k + 1]
OBVIOUS

\* What an info leaves as it is in the commands that stay.
LEMMA InfoStepKeeps ==
  ASSUME Base, Calm, InfoStep, NEW i \in Ids, Live(i)'
  PROVE  /\ Live(i) /\ i \in known /\ i \in known' /\ fate'[i] = fate[i]
         /\ \/ Updates(i) /\ Shown(i, 1)
            \/ commands'[i] = commands[i]
         /\ commands'[i].desired_runid = commands[i].desired_runid
         /\ Leaving(i)' <=> Leaving(i)
         /\ Left(i) => Left(i)'
<1>1. /\ UNCHANGED <<managed, cmds, mode, orders, restarts>>
      /\ (Updates(i) /\ fate'[i] = fate[i]) \/ Forgets(i) \/ NotShown(i)
  BY DEF InfoStep
<1>2. NoOrders(i)' <=> NoOrders(i)
  BY <1>1 DEF Named, NoOrders
<1>3. CASE Updates(i) /\ fate'[i] = fate[i]
  <2>1. Live(i) /\ i \in known
    BY <1>3 DEF Calm, Live, LiveIsKnown
  <2> QED  BY <1>1, <1>2, <1>3, <2>1 DEF Updates, Shown, Leaving, Left
<1>4. CASE NotShown(i)
  <2>1. Live(i) /\ i \in known
    BY <1>4 DEF NotShown, LeavesAlone, Calm, Live, LiveIsKnown
  <2> QED  BY <1>1, <1>2, <1>4, <2>1 DEF NotShown, LeavesAlone, Leaving, Left
<1>5. ~Forgets(i)
  BY DEF Forgets, Live
<1> QED  BY <1>1, <1>3, <1>4, <1>5

\* Taking in an info keeps the invariant.
LEMMA InfoStepCalm ==
  ASSUME Base, Calm, InfoStep
  PROVE  Calm'
<1>1. /\ UNCHANGED <<managed, cmds, mode, orders, restarts>>
      /\ infos # <<>> /\ infos' = Tail(infos) /\ heard'
      /\ \A i \in Ids : (Updates(i) /\ fate'[i] = fate[i]) \/ Forgets(i) \/ NotShown(i)
  BY DEF InfoStep
<1>2. PICK n \in Nat \ {0} :
        /\ n = Len(infos) /\ Len(infos') = n - 1
        /\ \A k \in 1 .. n - 1 : infos'[k] = infos[k + 1]
  BY <1>1, ShiftFacts DEF Base, TypeOK
<1>3. /\ \A i \in Ids : \A k \in 1 .. n - 1 : Shown(i, k)' <=> Shown(i, k + 1)
      /\ \A i \in Ids : Updates(i) => Shown(i, 1)
      /\ \A i \in Ids : Forgets(i) => ~Shown(i, 1)
  BY <1>2 DEF Shown, Updates, Forgets
<1>4. /\ \A i \in Ids : \A k \in Nat : Named(i, k)' <=> Named(i, k)
      /\ \A i \in Ids : NoOrders(i)' <=> NoOrders(i)
  BY <1>1 DEF Named, NoOrders
<1>5. ASSUME NEW i \in Ids, NoInfos(i) PROVE NoInfos(i)'
  BY <1>2, <1>3, <1>5 DEF NoInfos
<1>6. ASSUME NEW i \in Ids, Nowhere(i)
      PROVE  /\ i \notin known' => Nowhere(i)'
             /\ NotShown(i)
  <2>1. ~Updates(i) /\ ~Forgets(i)
    BY <1>2, <1>3, <1>6 DEF Nowhere, NoInfos, Forgets
  <2> QED  BY <1>1, <1>4, <1>5, <1>6, <2>1 DEF Nowhere
<1>7. NotQuit' /\ UnheardIsIdle'
  BY <1>1 DEF Calm, NotQuit, UnheardIsIdle
<1>8. ASSUME NEW i \in Ids, Live(i)'
      PROVE  /\ Live(i) /\ i \in known /\ i \in known'
             /\ \/ Updates(i) /\ Shown(i, 1)
                \/ commands'[i] = commands[i]
             /\ commands'[i].desired_runid = commands[i].desired_runid
             /\ Leaving(i)' <=> Leaving(i)
             /\ Left(i) => Left(i)'
  BY <1>8, InfoStepKeeps
<1>9. UnusedIsNew'
  <2> SUFFICES ASSUME NEW i \in Ids, fate'[i] = "unused" PROVE Nowhere(i)'
    BY DEF UnusedIsNew
  <2>1. fate[i] = "unused"
    BY <1>1 DEF Forgets, NotShown, LeavesAlone
  <2>2. Nowhere(i)
    BY <2>1 DEF Calm, UnusedIsNew
  <2>3. i \notin known'
    BY <1>6, <2>2 DEF NotShown, LeavesAlone, Nowhere
  <2> QED  BY <1>6, <2>2, <2>3
<1>10. RemovedIsGone'
  <2> SUFFICES ASSUME NEW i \in Ids, fate'[i] = "removed" PROVE Nowhere(i)'
    BY DEF RemovedIsGone
  <2>1. CASE Nowhere(i)
    <3>1. i \notin known'
      BY <1>6, <2>1 DEF NotShown, LeavesAlone, Nowhere
    <3> QED  BY <1>6, <2>1, <3>1
  <2>2. CASE ~Nowhere(i)
    <3>1. fate[i] \notin {"unused", "removed"}
      BY <2>2 DEF Calm, UnusedIsNew, RemovedIsGone
    <3>2. Forgets(i) /\ fate[i] # "dropped" /\ commands[i].pid # "unknown"
      BY <1>1, <3>1 DEF Forgets, NotShown, LeavesAlone
    <3>3. Live(i)
      BY <3>1, <3>2, BaseFacts DEF Live, Sheriff!Fate
    <3>4. Left(i) /\ \A l \in 1 .. n : ~Shown(i, l)
      <4>1. 1 \in 1 .. n
        OBVIOUS
      <4> QED  BY <1>2, <1>3, <3>2, <3>3, <4>1 DEF Calm, InfosInStep
    <3>5. NoInfos(i)'
      BY <1>2, <1>5, <3>4 DEF NoInfos
    <3> QED  BY <1>1, <1>4, <3>2, <3>4, <3>5 DEF Nowhere, Left, Forgets
  <2> QED  BY <2>1, <2>2
<1>11. LiveIsKnown'
  BY <1>8 DEF LiveIsKnown
<1>12. OrdersInStep'
  <2> SUFFICES ASSUME NEW i \in Ids, Live(i)'
               PROVE  /\ \A k \in 1 .. Len(orders) :
                           ~Named(i, k) /\ (i \in managed \/ \E j \in 1 .. k - 1 : Named(i, j)) =>
                              Leaving(i)' /\ \A l \in k .. Len(orders) : ~Named(i, l)
                      /\ i \in managed /\ cmds[i].remove_requested => Leaving(i)' /\ NoOrders(i)
    BY <1>1 DEF OrdersInStep, Named, NoOrders
  <2> QED  BY <1>8 DEF Calm, OrdersInStep
<1>13. InfosInStep'
  <2> SUFFICES ASSUME NEW i \in Ids, Live(i)'
               PROVE  /\ \A k \in 1 .. Len(infos') :
                           /\ ~Shown(i, k)'
                           /\ commands'[i].pid # "unknown" \/ \E j \in 1 .. k - 1 : Shown(i, j)'
                           => Left(i)' /\ \A l \in k .. Len(infos') : ~Shown(i, l)'
                      /\ i \notin managed /\ (commands'[i].pid # "unknown" \/ ~NoInfos(i)')
                           => Left(i)'
    BY <1>1 DEF InfosInStep
  <2>1. /\ \A k \in 1 .. n :
             /\ ~Shown(i, k)
             /\ commands[i].pid # "unknown" \/ \E j \in 1 .. k - 1 : Shown(i, j)
             => Left(i)' /\ \A l \in k .. n : ~Shown(i, l)
        /\ i \notin managed /\ (commands[i].pid # "unknown" \/ ~NoInfos(i)) => Left(i)'
    BY <1>2, <1>8 DEF Calm, InfosInStep
  <2>2. ASSUME NEW k \in 1 .. n - 1, ~Shown(i, k)',
               commands'[i].pid # "unknown" \/ \E j \in 1 .. k - 1 : Shown(i, j)'
        PROVE  Left(i)' /\ \A l \in k .. n - 1 : ~Shown(i, l)'
    <3>1. k + 1 \in 1 .. n /\ ~Shown(i, k + 1)
      BY <1>3, <2>2
    <3>2. commands[i].pid # "unknown" \/ \E j \in 1 .. k : Shown(i, j)
      <4>1. CASE Shown(i, 1)
        BY <4>1
      <4>2. CASE commands'[i] = commands[i] /\ commands'[i].pid # "unknown"
        BY <4>2
      <4>3. ASSUME NEW j \in 1 .. k - 1, Shown(i, j)' PROVE \E h \in 1 .. k : Shown(i, h)
        <5>1. j + 1 \in 1 .. k /\ j \in 1 .. n - 1
          OBVIOUS
        <5>2. Shown(i, j + 1)
          BY <1>3, <4>3, <5>1
        <5> QED  BY <5>1, <5>2
      <4> QED  BY <1>8, <2>2, <4>1, <4>2, <4>3
    <3>3. Left(i)' /\ \A l \in k + 1 .. n : ~Shown(i, l)
      <4>1. k = (k + 1) - 1
        OBVIOUS
      <4> QED  BY <2>1, <3>1, <3>2, <4>1
    <3>4. ASSUME NEW l \in k .. n - 1 PROVE ~Shown(i, l)'
      <4>1. l \in 1 .. n - 1 /\ l + 1 \in k + 1 .. n
        OBVIOUS
      <4> QED  BY <1>3, <3>3, <4>1
    <3> QED  BY <3>3, <3>4
  <2>3. ASSUME i \notin managed, commands'[i].pid # "unknown" \/ ~NoInfos(i)'
        PROVE  Left(i)'
    <3>1. Shown(i, 1) => ~NoInfos(i)
      BY <1>2 DEF NoInfos
    <3> QED  BY <1>5, <1>8, <2>1, <2>3, <3>1
  <2> QED  BY <1>2, <2>2, <2>3
<1>14. RunsInStep'
  <2> SUFFICES ASSUME NEW i \in Ids, Live(i)'
               PROVE  /\ commands'[i].actual_runid <= commands[i].desired_runid
                      /\ cmds[i].actual_runid <= commands[i].desired_runid
                      /\ \A k \in 1 .. Len(infos') : Shown(i, k)' =>
                           infos'[k][i].actual_runid <= commands[i].desired_runid
                      /\ \A k \in 1 .. Len(orders) : Named(i, k) =>
                           /\ cmds[i].actual_runid <= orders[k][i].desired_runid
                           /\ orders[k][i].desired_runid <= commands[i].desired_runid
                           /\ \A l \in k .. Len(orders) : Named(i, l) =>
                                orders[k][i].desired_runid <= orders[l][i].desired_runid
    BY <1>1, <1>8 DEF RunsInStep, Named
  <2>1. \A k \in 1 .. n : Shown(i, k) => infos[k][i].actual_runid <= commands[i].desired_runid
    BY <1>2, <1>8 DEF Calm, RunsInStep
  <2>2. commands'[i].actual_runid <= commands[i].desired_runid
    <3>1. 1 \in 1 .. n
      OBVIOUS
    <3>2. CASE Updates(i) /\ Shown(i, 1)
      BY <2>1, <3>1, <3>2 DEF Updates
    <3>3. CASE commands'[i] = commands[i]
      BY <1>8, <3>3 DEF Calm, RunsInStep
    <3> QED  BY <1>8, <3>2, <3>3
  <2>3. ASSUME NEW k \in 1 .. n - 1, Shown(i, k)'
        PROVE  infos'[k][i].actual_runid <= commands[i].desired_runid
    <3>1. k + 1 \in 1 .. n
      OBVIOUS
    <3> QED  BY <1>2, <1>3, <2>1, <2>3, <3>1
  <2> QED  BY <1>2, <1>8, <2>2, <2>3 DEF Calm, RunsInStep
<1> QED  BY <1>7, <1>9, <1>10, <1>11, <1>12, <1>13, <1>14 DEF Calm

\* The deputy takes the first s orders under way.
Taken(s) ==
  /\ Len(orders) >= s /\ Len(orders') = Len(orders) - s
  /\ \A k \in 1 .. Len(orders) - s : orders'[k] = orders[k + s]

\* The deputy has command i, and what it knows ends that: the command is being
\* removed, or the orders that it takes do not name it.
Through(i, s) ==
  i \in managed /\ (cmds[i].remove_requested \/ (s = 1 /\ ~Named(i, 1)))

\* What any step of the deputy does to the commands that it has.
DeputyStep(s) ==
  /\ UNCHANGED <<known, commands, heard, fate>> /\ mode' \in {mode, "crashed"}
  /\ Taken(s)
  /\ InfosSent
  /\ \A i \in Ids :
       /\ i \in managed' \ managed => s = 1 /\ Named(i, 1)
       /\ i \in managed \ managed' => Through(i, s)
       /\ i \in managed' /\ cmds'[i].remove_requested => Through(i, s)
       /\ \/ cmds'[i].actual_runid \in {0, cmds[i].actual_runid}
          \/ s = 1 /\ Named(i, 1) /\ cmds'[i].actual_runid = orders[1][i].desired_runid

\* Handling orders is such a step,
LEMMA OrdersStepIsDeputyStep ==
  ASSUME Base, OrdersStep
  PROVE  DeputyStep(1)
<1>1. /\ UNCHANGED <<known, commands, heard, fate, mode, restarts>>
      /\ orders # <<>> /\ orders' = Tail(orders) /\ InfosSent
      /\ \A i \in Ids : Obeys(i) \/ Culls(i)
  BY DEF OrdersStep
<1>2. Taken(1)
  BY <1>1, ShiftFacts DEF Base, TypeOK, Taken
<1>3. \A i \in Ids : i \notin managed => ~cmds[i].remove_requested
  BY BaseFacts DEF Deputy!NewCommand
<1>4. ASSUME NEW i \in Ids, Obeys(i)
      PROVE  /\ Named(i, 1) /\ i \in managed'
             /\ cmds'[i].remove_requested = cmds[i].remove_requested
             /\ cmds'[i].actual_runid \in {cmds[i].actual_runid, orders[1][i].desired_runid}
  BY <1>4 DEF Obeys, Named
<1>5. ASSUME NEW i \in Ids, Culls(i)
      PROVE  /\ ~Named(i, 1)
             /\ i \in managed' => i \in managed
             /\ cmds'[i].actual_runid \in {0, cmds[i].actual_runid}
  BY <1>5 DEF Culls, Named, Deputy!NewCommand
<1> QED  BY <1>1, <1>2, <1>3, <1>4, <1>5 DEF DeputyStep, Through

\* and so is everything else that the deputy does.
LEMMA QuietStepIsDeputyStep ==
  ASSUME Base, QuietStep
  PROVE  DeputyStep(0) \/ DeputyStep(1)
<1>1. /\ UNCHANGED <<known, commands, heard, fate, restarts>> /\ mode' \in {mode, "crashed"}
      /\ orders' = orders \/ (orders # <<>> /\ orders' = Tail(orders))
      /\ InfosSent
      /\ \A i \in Ids :
           Keeps(i) \/ Frees(i) \/ (i \notin managed \cup managed' /\ cmds'[i] = cmds[i])
  BY DEF QuietStep
<1>2. Taken(0) \/ Taken(1)
  BY <1>1, ShiftFacts, BaseFacts DEF Base, TypeOK, Taken
<1>3. ASSUME NEW i \in Ids
      PROVE  /\ i \in managed' => i \in managed
             /\ i \in managed \ managed' => cmds[i].remove_requested
             /\ i \in managed' /\ cmds'[i].remove_requested => cmds[i].remove_requested
             /\ cmds'[i].actual_runid \in {0, cmds[i].actual_runid}
  <2>1. CASE Keeps(i)
    BY <2>1 DEF Keeps, SameReport
  <2>2. CASE Frees(i)
    BY <2>2 DEF Frees, Deputy!NewCommand
  <2> QED  BY <1>1, <2>1, <2>2
<1> QED  BY <1>1, <1>2, <1>3 DEF DeputyStep, Through

\* Steps of the deputy keep the invariant.
LEMMA DeputyStepCalm ==
  ASSUME Base, Base', Calm, NEW s \in {0, 1}, DeputyStep(s)
  PROVE  Calm'
<1>1. /\ UNCHANGED <<known, commands, heard, fate>> /\ mode' \in {mode, "crashed"}
      /\ Taken(s) /\ InfosSent
      /\ \A i \in Ids :
           /\ i \in managed' \ managed => s = 1 /\ Named(i, 1)
           /\ i \in managed \ managed' => Through(i, s)
           /\ i \in managed' /\ cmds'[i].remove_requested => Through(i, s)
           /\ \/ cmds'[i].actual_runid \in {0, cmds[i].actual_runid}
              \/ s = 1 /\ Named(i, 1) /\ cmds'[i].actual_runid = orders[1][i].desired_runid
  BY DEF DeputyStep
<1>2. PICK n \in Nat, m \in Nat : n = Len(orders) /\ m = Len(infos)
  BY BaseFacts
<1>3. /\ s <= n /\ n - s \in Nat /\ Len(orders') = n - s
      /\ \A k \in 1 .. n - s : k + s \in 1 .. n /\ orders'[k] = orders[k + s]
  BY <1>1, <1>2 DEF Taken
<1>4. \A i \in Ids : \A k \in 1 .. n - s : Named(i, k)' <=> Named(i, k + s)
  BY <1>3 DEF Named
<1>5. \A i \in Ids : NoOrders(i) => NoOrders(i)'
  BY <1>2, <1>3, <1>4 DEF NoOrders
<1> DEFINE Reports(i) ==
      /\ Len(infos') = m + 1
      /\ \A k \in 1 .. m : (Shown(i, k)' <=> Shown(i, k)) /\ infos'[k] = infos[k]
      /\ i \in managed' => /\ Shown(i, m + 1)'
                           /\ infos'[m + 1][i].actual_runid = cmds'[i].actual_runid
      /\ Shown(i, m + 1)' /\ i \notin managed' =>
           i \in managed /\ infos'[m + 1][i].actual_runid = cmds[i].actual_runid
<1>6. \A i \in Ids : \/ infos' = infos /\ \A k \in Nat : Shown(i, k)' <=> Shown(i, k)
                     \/ Reports(i)
  BY <1>1, <1>2 DEF InfosSent, Shown
<1> HIDE DEF Reports
<1>7. ASSUME NEW i \in Ids, i \notin managed \cup managed', NoInfos(i)
      PROVE  NoInfos(i)'
  <2>1. CASE infos' = infos /\ \A k \in Nat : Shown(i, k)' <=> Shown(i, k)
    BY <1>2, <1>7, <2>1 DEF NoInfos
  <2>2. CASE Reports(i)
    <3>1. \A k \in 1 .. Len(infos') : k \in 1 .. m \/ k = m + 1
      BY <2>2 DEF Reports
    <3> QED  BY <1>2, <1>7, <2>2, <3>1 DEF NoInfos, Reports
  <2> QED  BY <1>6, <2>1, <2>2
<1>8. ASSUME NEW i \in Ids, Nowhere(i) PROVE Nowhere(i)'
  <2>1. i \notin managed /\ (s = 1 => ~Named(i, 1))
    BY <1>2, <1>3, <1>8 DEF Nowhere, NoOrders
  <2>2. i \notin managed'
    BY <1>1, <2>1
  <2> QED  BY <1>1, <1>5, <1>7, <1>8, <2>1, <2>2 DEF Nowhere
<1>9. NotQuit' /\ UnusedIsNew' /\ RemovedIsGone' /\ LiveIsKnown'
  BY <1>1, <1>8 DEF Calm, NotQuit, UnusedIsNew, RemovedIsGone, LiveIsKnown, Live
<1>10. UnheardIsIdle'
  <2> SUFFICES ASSUME ~heard
               PROVE  managed' = {} /\ orders' = <<>> /\ \A i \in Ids : NoInfos(i)'
    BY <1>1 DEF UnheardIsIdle
  <2>1. managed = {} /\ orders = <<>> /\ \A i \in Ids : NoInfos(i)
    BY DEF Calm, UnheardIsIdle
  <2>2. n = 0 /\ s = 0 /\ Len(orders') = 0
    BY <1>2, <1>3, <2>1
  <2>3. managed' \subseteq Ids /\ orders' \in Seq(Deputy!Orders)
    BY DEF Base, TypeOK, Deputy!TypeOK
  <2>4. managed' = {}
    BY <1>1, <2>1, <2>2, <2>3
  <2>5. orders' = <<>>
    BY <2>2, <2>3
  <2> QED  BY <1>7, <2>1, <2>4, <2>5
<1>11. ASSUME NEW i \in Ids, Live(i)'
       PROVE  /\ Live(i) /\ (Leaving(i)' <=> Leaving(i))
              /\ Through(i, s) => Leaving(i)' /\ NoOrders(i)'
              /\ \A k \in 1 .. n :
                   ~Named(i, k) /\ (i \in managed \/ \E j \in 1 .. k - 1 : Named(i, j)) =>
                      Leaving(i)' /\ \A l \in k .. n : ~Named(i, l)
  <2>1. Live(i) /\ (Leaving(i)' <=> Leaving(i))
    BY <1>1, <1>11 DEF Live, Leaving
  <2>2. /\ \A k \in 1 .. n :
             ~Named(i, k) /\ (i \in managed \/ \E j \in 1 .. k - 1 : Named(i, j)) =>
                Leaving(i) /\ \A l \in k .. n : ~Named(i, l)
        /\ i \in managed /\ cmds[i].remove_requested => Leaving(i) /\ NoOrders(i)
    BY <1>2, <2>1 DEF Calm, OrdersInStep
  <2>3. ASSUME s = 1, i \in managed, ~Named(i, 1)
        PROVE  Leaving(i) /\ NoOrders(i)
    <3>1. 1 \in 1 .. n
      BY <1>3, <2>3
    <3> QED  BY <1>2, <2>2, <2>3, <3>1 DEF NoOrders
  <2> QED  BY <1>5, <2>1, <2>2, <2>3 DEF Through
<1>12. OrdersInStep'
  <2> SUFFICES ASSUME NEW i \in Ids, Live(i)'
               PROVE  /\ \A k \in 1 .. n - s :
                           /\ ~Named(i, k)'
                           /\ i \in managed' \/ (\E j \in 1 .. k - 1 : Named(i, j)')
                           =>
                              Leaving(i)' /\ \A l \in k .. n - s : ~Named(i, l)'
                      /\ i \in managed' /\ cmds'[i].remove_requested => Leaving(i)' /\ NoOrders(i)'
    BY <1>3 DEF OrdersInStep
  <2>1. ASSUME NEW k \in 1 .. n - s,
               ~Named(i, k)', i \in managed' \/ \E j \in 1 .. k - 1 : Named(i, j)'
        PROVE  Leaving(i)' /\ \A l \in k .. n - s : ~Named(i, l)'
    <3>1. k + s \in 1 .. n /\ ~Named(i, k + s)
      BY <1>3, <1>4, <2>1
    <3>2. i \in managed \/ \E j \in 1 .. (k + s) - 1 : Named(i, j)
      <4>1. CASE i \in managed' \ managed
        <5>1. s = 1 /\ Named(i, 1) /\ 1 \in 1 .. (k + s) - 1
          BY <1>1, <4>1
        <5> QED  BY <5>1
      <4>2. ASSUME NEW j \in 1 .. k - 1, Named(i, j)'
            PROVE  \E h \in 1 .. (k + s) - 1 : Named(i, h)
        <5>1. j + s \in 1 .. (k + s) - 1 /\ j \in 1 .. n - s
          BY <1>3
        <5> QED  BY <1>4, <4>2, <5>1
      <4> QED  BY <2>1, <4>1, <4>2
    <3>3. Leaving(i)' /\ \A l \in k + s .. n : ~Named(i, l)
      BY <1>11, <3>1, <3>2
    <3>4. ASSUME NEW l \in k .. n - s PROVE ~Named(i, l)'
      <4>1. l \in 1 .. n - s /\ l + s \in k + s .. n
        BY <1>3
      <4> QED  BY <1>4, <3>3, <4>1
    <3> QED  BY <3>3, <3>4
  <2> QED  BY <1>1, <1>11, <2>1
<1>13. ASSUME NEW i \in Ids, Live(i)'
       PROVE  /\ Left(i) => Left(i)' /\ i \notin managed \cup managed'
              /\ i \in managed \ managed' => Left(i)'
  <2>1. Left(i) => i \notin managed' /\ NoOrders(i)'
    <3> SUFFICES ASSUME Left(i) PROVE i \notin managed' /\ NoOrders(i)'
      OBVIOUS
    <3>1. i \notin managed /\ (s = 1 => ~Named(i, 1))
      BY <1>2, <1>3 DEF Left, NoOrders
    <3> QED  BY <1>1, <1>5, <3>1 DEF Left
  <2> QED  BY <1>1, <1>11, <1>13, <2>1 DEF Left
<1>14. InfosInStep'
  <2> SUFFICES ASSUME NEW i \in Ids, Live(i)'
               PROVE  /\ \A k \in 1 .. Len(infos') :
                           /\ ~Shown(i, k)'
                           /\ commands[i].pid # "unknown" \/ \E j \in 1 .. k - 1 : Shown(i, j)'
                           => Left(i)' /\ \A l \in k .. Len(infos') : ~Shown(i, l)'
                      /\ i \notin managed' /\ (commands[i].pid # "unknown" \/ ~NoInfos(i)')
                           => Left(i)'
    BY <1>1 DEF InfosInStep
  <2>1. /\ \A k \in 1 .. m :
             /\ ~Shown(i, k)
             /\ commands[i].pid # "unknown" \/ \E j \in 1 .. k - 1 : Shown(i, j)
             => Left(i) /\ \A l \in k .. m : ~Shown(i, l)
        /\ i \notin managed /\ (commands[i].pid # "unknown" \/ ~NoInfos(i)) => Left(i)
    BY <1>2, <1>11 DEF Calm, InfosInStep
  <2>2. i \notin managed' /\ (commands[i].pid # "unknown" \/ ~NoInfos(i)') => Left(i)'
    BY <1>7, <1>13, <2>1
  <2>3. CASE infos' = infos /\ \A k \in Nat : Shown(i, k)' <=> Shown(i, k)
    <3>1. ASSUME NEW k \in 1 .. m, ~Shown(i, k)',
                 commands[i].pid # "unknown" \/ \E j \in 1 .. k - 1 : Shown(i, j)'
          PROVE  Left(i)' /\ \A l \in k .. m : ~Shown(i, l)'
      BY <1>13, <2>1, <2>3, <3>1
    <3> QED  BY <1>2, <2>2, <2>3, <3>1
  <2>4. CASE Reports(i)
    <3>1. ASSUME NEW k \in 1 .. m + 1, ~Shown(i, k)',
                 commands[i].pid # "unknown" \/ \E j \in 1 .. k - 1 : Shown(i, j)'
          PROVE  Left(i)' /\ \A l \in k .. m + 1 : ~Shown(i, l)'
      <4>1. CASE k = m + 1
        <5>1. i \notin managed'
          BY <2>4, <3>1, <4>1 DEF Reports
        <5>2. commands[i].pid # "unknown" \/ ~NoInfos(i)'
          <6>1. \A j \in 1 .. k - 1 : j \in 1 .. Len(infos')
            BY <2>4, <4>1 DEF Reports
          <6> QED  BY <3>1, <6>1 DEF NoInfos
        <5>3. \A l \in k .. m + 1 : l = k
          BY <4>1
        <5> QED  BY <2>2, <3>1, <5>1, <5>2, <5>3
      <4>2. CASE k \in 1 .. m
        <5>1. /\ ~Shown(i, k)
              /\ commands[i].pid # "unknown" \/ \E j \in 1 .. k - 1 : Shown(i, j)
          BY <2>4, <3>1, <4>2 DEF Reports
        <5>2. Left(i) /\ \A l \in k .. m : ~Shown(i, l)
          BY <2>1, <4>2, <5>1
        <5>3. Left(i)' /\ ~Shown(i, m + 1)'
          BY <1>13, <2>4, <5>2 DEF Reports
        <5>4. \A l \in k .. m : ~Shown(i, l)'
          BY <2>4, <4>2, <5>2 DEF Reports
        <5>5. \A l \in k .. m + 1 : l \in k .. m \/ l = m + 1
          BY <4>2
        <5> QED  BY <5>3, <5>4, <5>5
      <4> QED  BY <4>1, <4>2
    <3> QED  BY <2>2, <2>4, <3>1 DEF Reports
  <2> QED  BY <1>6, <2>3, <2>4
<1>15. RunsInStep'
  <2> SUFFICES ASSUME NEW i \in Ids, Live(i)'
               PROVE  /\ commands[i].actual_runid <= commands[i].desired_runid
                      /\ cmds'[i].actual_runid <= commands[i].desired_runid
                      /\ \A k \in 1 .. Len(infos') : Shown(i, k)' =>
                           infos'[k][i].actual_runid <= commands[i].desired_runid
                      /\ \A k \in 1 .. n - s : Named(i, k)' =>
                           /\ cmds'[i].actual_runid <= orders'[k][i].desired_runid
                           /\ orders'[k][i].desired_runid <= commands[i].desired_runid
                           /\ \A l \in k .. n - s : Named(i, l)' =>
                                orders'[k][i].desired_runid <= orders'[l][i].desired_runid
    BY <1>1, <1>3 DEF RunsInStep
  <2>1. /\ commands[i].actual_runid <= commands[i].desired_runid
        /\ cmds[i].actual_runid <= commands[i].desired_runid
        /\ \A k \in 1 .. m : Shown(i, k) =>
             infos[k][i].actual_runid <= commands[i].desired_runid
        /\ \A k \in 1 .. n : Named(i, k) =>
             /\ cmds[i].actual_runid <= orders[k][i].desired_runid
             /\ orders[k][i].desired_runid <= commands[i].desired_runid
             /\ \A l \in k .. n : Named(i, l) =>
                  orders[k][i].desired_runid <= orders[l][i].desired_runid
    BY <1>2, <1>11 DEF Calm, RunsInStep
  <2>2. /\ cmds[i].actual_runid \in Nat /\ commands[i].desired_runid \in Nat
        /\ \A k \in 1 .. n : Named(i, k) => orders[k][i].desired_runid \in Nat
    BY <1>2, BaseFacts DEF Named
  <2>3. cmds'[i].actual_runid <= commands[i].desired_runid
    <3>1. s = 1 => 1 \in 1 .. n
      BY <1>3
    <3> QED  BY <1>1, <2>1, <2>2, <3>1
  <2>4. ASSUME NEW k \in 1 .. Len(infos'), Shown(i, k)'
        PROVE  infos'[k][i].actual_runid <= commands[i].desired_runid
    <3>1. CASE infos' = infos /\ \A h \in Nat : Shown(i, h)' <=> Shown(i, h)
      BY <1>2, <2>1, <2>4, <3>1
    <3>2. CASE Reports(i)
      <4>1. k \in 1 .. m \/ k = m + 1
        BY <3>2 DEF Reports
      <4>2. CASE k \in 1 .. m
        BY <2>1, <2>4, <3>2, <4>2 DEF Reports
      <4>3. CASE k = m + 1
        BY <2>1, <2>3, <2>4, <3>2, <4>3 DEF Reports
      <4> QED  BY <4>1, <4>2, <4>3
    <3> QED  BY <1>6, <3>1, <3>2
  <2>5. ASSUME NEW k \in 1 .. n - s, Named(i, k)'
        PROVE  /\ cmds'[i].actual_runid <= orders'[k][i].desired_runid
               /\ orders'[k][i].desired_runid <= commands[i].desired_runid
               /\ \A l \in k .. n - s : Named(i, l)' =>
                    orders'[k][i].desired_runid <= orders'[l][i].desired_runid
    <3>1. /\ k + s \in 1 .. n /\ Named(i, k + s) /\ orders'[k] = orders[k + s]
          /\ s = 1 => 1 \in 1 .. n /\ k + s \in 1 .. n
      BY <1>3, <1>4, <2>5
    <3>2. cmds'[i].actual_runid <= orders[k + s][i].desired_runid
      BY <1>1, <2>1, <2>2, <3>1
    <3>3. ASSUME NEW l \in k .. n - s, Named(i, l)'
          PROVE  orders'[k][i].desired_runid <= orders'[l][i].desired_runid
      <4>1. l \in 1 .. n - s /\ l + s \in k + s .. n
        BY <1>3
      <4>2. Named(i, l + s) /\ orders'[l] = orders[l + s]
        BY <1>3, <1>4, <3>3, <4>1
      <4> QED  BY <2>1, <3>1, <4>1, <4>2
    <3> QED  BY <2>1, <3>1, <3>2, <3>3
  <2> QED  BY <2>1, <2>3, <2>4, <2>5
<1> QED  BY <1>9, <1>10, <1>12, <1>14, <1>15 DEF Calm

\* While nobody restarts, each step of the system is one of three kinds.
LEMMA StepKinds ==
  ASSUME Base, Calm, [Next]_vars, restarts = 0, restarts' = 0
  PROVE  SheriffStep \/ InfoStep \/ OrdersStep \/ QuietStep
<1>0. mode \in {"running", "crashed"}
  BY DEF Calm, NotQuit
<1>1. CASE UserActs \/ UserSetsAutoRespawn \/ RepeatOrders
  BY <1>1, SheriffSteps
<1>2. CASE ReceiveInfo
  <2>1. infos # <<>>
    BY <1>2 DEF ReceiveInfo
  <2>2. Head(infos) = infos[1] /\ DOMAIN infos[1] \subseteq Ids /\ 1 \in 1 .. Len(infos)
    <3>1. Len(infos) \in Nat \ {0}
      BY <2>1, ShiftFacts DEF Base, TypeOK
    <3> QED  BY <2>1, <3>1, HeadInfo DEF Base
  <2>3. ~heard => DOMAIN infos[1] = {}
    BY <2>2 DEF Calm, UnheardIsIdle, NoInfos, Shown
  <2>4. ~Sheriff!MustReconcile(Head(infos))
    BY <2>2, <2>3 DEF Sheriff!MustReconcile
  <2> QED  BY <1>2, <2>4, InfoSteps
<1>3. CASE \E forks \in SUBSET Ids : ReceiveOrders(forks)
  <2>1. DP!IInv'
    BY NextDeputyIInv DEF Base
  <2> QED  BY <1>3, <2>1, OrdersSteps
<1>4. CASE IgnoreOrders \/ ReportEverySecond \/ HandleSigchld
  <2>1. DP!IInv'
    BY NextDeputyIInv DEF Base
  <2> QED  BY <1>0, <1>4, <2>1, IgnoreSteps, ReportSteps, ReapingSteps
<1>5. CASE DeputyActs
  <2>1. ~Deputy!OnQuitTimeout
    BY <1>0 DEF Deputy!OnQuitTimeout
  <2> QED  BY <1>5, <2>1, DeputyActsSteps
<1>6. ~RestartSheriff /\ ~QuitDeputy
  BY DEF RestartSheriff, QuitDeputy
<1>7. ~RestartDeputy
  BY <1>0 DEF RestartDeputy
<1>8. CASE UNCHANGED vars
  BY <1>8 DEF QuietStep, InfosSent, Keeps, SameReport, vars, deputyVars, sheriffVars
<1> QED  BY <1>1, <1>2, <1>3, <1>4, <1>5, <1>6, <1>7, <1>8 DEF Next

\* Restarts are counted.
LEMMA RestartsOnlyGrow ==
  ASSUME Base, [Next]_vars, restarts' = 0
  PROVE  restarts = 0
<1>1. restarts \in Nat
  BY MaxRestartsAssumption DEF Base, TypeOK
<1>2. restarts' = restarts \/ restarts' = restarts + 1
  BY DEF Next, vars, UserActs, UserSetsAutoRespawn, RepeatOrders, ReceiveInfo, ReceiveOrders,
         IgnoreOrders, HandleSigchld, ReportEverySecond, DeputyActs, RestartSheriff,
         QuitDeputy, RestartDeputy
<1> QED  BY <1>1, <1>2

\* What holds until somebody is restarted.
CalmAtFirst == Base /\ (restarts = 0 => Calm)

\* It holds initially,
LEMMA InitCalm == Init => CalmAtFirst
<1> SUFFICES ASSUME Init PROVE CalmAtFirst
  OBVIOUS
<1>1. /\ managed = {} /\ mode = "running" /\ known = {} /\ orders = <<>> /\ infos = <<>>
      /\ \A i \in Ids : fate[i] = "unused"
  BY DEF Init, Deputy!Init, Sheriff!Init
<1>2. \A i \in Ids : NoOrders(i) /\ NoInfos(i) /\ ~Live(i)
  <2>1. Len(orders) = 0 /\ Len(infos) = 0
    BY <1>1
  <2>2. \A i \in Ids : NoOrders(i) /\ NoInfos(i)
    BY <2>1 DEF NoOrders, NoInfos
  <2> QED  BY <1>1, <2>2 DEF Live
<1>3. Calm
  BY <1>1, <1>2 DEF Calm, NotQuit, UnusedIsNew, UnheardIsIdle, LiveIsKnown, RemovedIsGone,
                    OrdersInStep, InfosInStep, RunsInStep, Nowhere
<1> QED  BY <1>3, InitBase DEF CalmAtFirst

\* every step keeps it,
LEMMA NextCalm == CalmAtFirst /\ [Next]_vars => CalmAtFirst'
<1> SUFFICES ASSUME CalmAtFirst, [Next]_vars PROVE CalmAtFirst'
  OBVIOUS
<1>1. Base /\ Base'
  BY NextBase DEF CalmAtFirst
<1>2. ASSUME restarts' = 0 PROVE Calm'
  <2>1. restarts = 0 /\ Calm
    BY <1>1, <1>2, RestartsOnlyGrow DEF CalmAtFirst
  <2> QED
    BY <1>1, <1>2, <2>1, StepKinds, SheriffStepCalm, InfoStepCalm, DeputyStepCalm,
       OrdersStepIsDeputyStep, QuietStepIsDeputyStep
<1> QED  BY <1>1, <1>2 DEF CalmAtFirst

\* and so it holds always.
LEMMA AlwaysCalm == Spec => []CalmAtFirst
BY InitCalm, NextCalm, PTL DEF Spec

\* As long as neither the sheriff nor the deputy restarts, no run id of the
\* deputy, and none under way, is later than the one that the sheriff wants.
THEOREM RunidsAgreeAtFirst == Spec => [](restarts = 0 => RunidsAgree)
<1>1. CalmAtFirst => (restarts = 0 => RunidsAgree)
  <2> SUFFICES ASSUME Base, Calm PROVE RunidsAgree
    BY DEF CalmAtFirst
  <2>1. Steady \subseteq Ids
    BY BaseFacts DEF Steady
  <2> QED  BY <2>1 DEF RunidsAgree, Steady, Calm, RunsInStep, Live, Named, Shown
<1> QED  BY <1>1, AlwaysCalm, PTL

\* As long as neither restarts, a removal that was confirmed is final.
THEOREM RemovalIsFinalAtFirst == Spec => [](restarts = 0 => RemovalIsFinal)
<1>1. CalmAtFirst => (restarts = 0 => RemovalIsFinal)
  <2> SUFFICES ASSUME Calm PROVE RemovalIsFinal
    BY DEF CalmAtFirst
  <2> QED  BY DEF RemovalIsFinal, Calm, RemovedIsGone, Nowhere, NoOrders, NoInfos, Named, Shown
<1> QED  BY <1>1, AlwaysCalm, PTL

\* Orders start a command only for a later run than the one it last had.
THEOREM EachRunOnce ==
  ASSUME MaxRestarts = 0
  PROVE  Spec => RunsAdvance
<1>1. CalmAtFirst /\ [Next]_vars =>
        [\A i \in Ids : OrdersStart(i) /\ fate[i] # "dropped" =>
                         cmds[i].actual_runid < cmds[i].actual_runid']_vars
  <2> SUFFICES ASSUME CalmAtFirst, Next, NEW i \in Ids, OrdersStart(i), fate[i] # "dropped"
               PROVE  cmds[i].actual_runid < cmds[i].actual_runid'
    OBVIOUS
  <2>1. Base /\ Calm
    <3>1. restarts \in 0 .. MaxRestarts
      BY DEF CalmAtFirst, Base, TypeOK
    <3>2. restarts = 0
      BY <3>1
    <3> QED  BY <3>2 DEF CalmAtFirst
  <2>2. PICK forks \in SUBSET Ids : ReceiveOrders(forks)
    <3>1. orders' # orders /\ ~UNCHANGED cmds
      BY DEF OrdersStart, Deputy!HasPid
    <3> QED
      BY <3>1 DEF Next, UserActs, UserSetsAutoRespawn, RepeatOrders, ReceiveInfo, IgnoreOrders,
             HandleSigchld, ReportEverySecond, DeputyActs, RestartSheriff, QuitDeputy,
             RestartDeputy, deputyVars
  <2>3. DP!IInv'
    BY <2>1, NextDeputyIInv DEF Base
  <2>4. OrdersStep
    BY <2>1, <2>2, <2>3, OrdersSteps
  <2>5. ~Culls(i)
    BY DEF OrdersStart, Culls, Deputy!HasPid, Deputy!NewCommand
  <2>6. /\ Named(i, 1)
        /\ orders[1][i].desired_runid # cmds[i].actual_runid
        /\ cmds'[i].actual_runid = orders[1][i].desired_runid
    BY <2>4, <2>5 DEF OrdersStart, OrdersStep, Obeys, Named
  <2>7. 1 \in 1 .. Len(orders)
    <3>1. Len(orders) \in Nat \ {0}
      BY <2>1, <2>4, ShiftFacts DEF Base, TypeOK, OrdersStep
    <3> QED  BY <3>1
  <2>8. Live(i)
    BY <2>1, <2>6, <2>7, BaseFacts
       DEF Live, Sheriff!Fate, Calm, UnusedIsNew, RemovedIsGone, Nowhere, NoOrders
  <2>9. cmds[i].actual_runid <= orders[1][i].desired_runid
    BY <2>1, <2>6, <2>7, <2>8 DEF Calm, RunsInStep
  <2>10. cmds[i].actual_runid \in Nat /\ orders[1][i].desired_runid \in Nat
    BY <2>1, <2>6, <2>7, BaseFacts DEF Named
  <2> QED  BY <2>6, <2>9, <2>10
<1> QED  BY <1>1, AlwaysCalm, PTL DEF Spec, RunsAdvance

-----------------------------------------------------------------------------
(* Commands that do not respawn *)

\* The last run that was asked for is over, and nothing that the deputy has or
\* will be told starts it again.
Over(i) ==
  /\ ~Deputy!HasPid(cmds[i])
  /\ ~Leaving(i) =>
       commands[i].force_quit \/ cmds[i].actual_runid = commands[i].desired_runid
  /\ \A k \in 1 .. Len(orders) : Named(i, k) =>
       /\ orders[k][i].desired_runid = commands[i].desired_runid
       /\ orders[k][i].force_quit \/ cmds[i].actual_runid = commands[i].desired_runid

\* Info k shows that run as stopped.
ShowsEnd(i, k) ==
  /\ Shown(i, k) /\ ~infos[k][i].pid
  /\ infos[k][i].actual_runid = commands[i].desired_runid

\* The sheriff knows that run as stopped.
KnowsEnd(i) == commands[i].pid = "none" /\ commands[i].actual_runid = commands[i].desired_runid

Ended(i) ==
  /\ KnowsEnd(i) => commands[i].force_quit /\ Over(i)
  /\ \A k \in 1 .. Len(infos) : ShowsEnd(i, k) => Over(i)

\* A command that was only ever added and started once is told to stop only
\* after that run is over.
StartedOnce(i) ==
  /\ Deputy!HasPid(cmds[i]) => cmds[i].actual_runid > 0
  /\ fate[i] = "used" =>
       /\ commands[i].desired_runid <= 1 /\ ~Leaving(i) /\ cmds[i].signal = "none"
       /\ commands[i].force_quit /\ commands[i].desired_runid = 1 => Over(i)
       /\ \A k \in 1 .. Len(orders) :
            Named(i, k) /\ orders[k][i].force_quit /\ orders[k][i].desired_runid = 1 => Over(i)

Settled == \A i \in Ids : Live(i) => Ended(i) /\ StartedOnce(i)

\* The orders that a step of the sheriff adds carry what its list says.
LEMMA LastOrders ==
  ASSUME Base, SheriffStep, NEW i \in Ids
  PROVE  \/ orders' = orders
         \/ \E n \in Nat :
              /\ n = Len(orders) /\ Len(orders') = n + 1
              /\ \A k \in 1 .. n : orders'[k] = orders[k]
              /\ i \in DOMAIN orders'[n + 1] =>
                   /\ ~Leaving(i)'
                   /\ orders'[n + 1][i].desired_runid = commands'[i].desired_runid
                   /\ orders'[n + 1][i].force_quit = commands'[i].force_quit
<1>1. Len(orders) \in Nat
  BY BaseFacts
<1>2. CASE /\ Len(orders') = Len(orders) + 1
           /\ \A k \in 1 .. Len(orders) : orders'[k] = orders[k]
           /\ LET last == orders'[Len(orders')]
              IN  /\ i \in DOMAIN last <=> i \in known' /\ ~commands'[i].scheduled_for_removal
                  /\ i \in DOMAIN last =>
                       /\ last[i].desired_runid = commands'[i].desired_runid
                       /\ last[i].force_quit = commands'[i].force_quit
  BY <1>1, <1>2 DEF Leaving
<1> QED  BY <1>2 DEF SheriffStep, OrdersSent

\* A run that is over stays over unless a user asks for another.
LEMMA SheriffStepOver ==
  ASSUME Base, SheriffStep, NEW i \in Ids, Over(i),
         commands'[i].desired_runid = commands[i].desired_runid,
         commands[i].force_quit => commands'[i].force_quit,
         Leaving(i) => Leaving(i)'
  PROVE  Over(i)'
<1>1. cmds' = cmds
  BY DEF SheriffStep
<1>2. \A k \in 1 .. Len(orders) : i \in DOMAIN orders[k] =>
        /\ orders[k][i].desired_runid = commands'[i].desired_runid
        /\ orders[k][i].force_quit \/ cmds[i].actual_runid = commands'[i].desired_runid
  BY DEF Over, Named
<1>3. ~Leaving(i)' =>
        commands'[i].force_quit \/ cmds[i].actual_runid = commands'[i].desired_runid
  BY DEF Over
<1>4. \A k \in 1 .. Len(orders') : i \in DOMAIN orders'[k] =>
        /\ orders'[k][i].desired_runid = commands'[i].desired_runid
        /\ orders'[k][i].force_quit \/ cmds[i].actual_runid = commands'[i].desired_runid
  <2>1. CASE orders' = orders
    BY <1>2, <2>1
  <2>2. ASSUME NEW n \in Nat,
               n = Len(orders), Len(orders') = n + 1,
               \A k \in 1 .. n : orders'[k] = orders[k],
               i \in DOMAIN orders'[n + 1] =>
                 /\ ~Leaving(i)'
                 /\ orders'[n + 1][i].desired_runid = commands'[i].desired_runid
                 /\ orders'[n + 1][i].force_quit = commands'[i].force_quit,
               NEW k \in 1 .. Len(orders'), i \in DOMAIN orders'[k]
        PROVE  /\ orders'[k][i].desired_runid = commands'[i].desired_runid
               /\ orders'[k][i].force_quit \/ cmds[i].actual_runid = commands'[i].desired_runid
    <3>1. k \in 1 .. n \/ k = n + 1
      BY <2>2
    <3> QED  BY <1>2, <1>3, <2>2, <3>1
  <2> QED  BY <2>1, <2>2, LastOrders
<1>5. ~Deputy!HasPid(cmds[i])
  BY DEF Over
<1> QED  BY <1>1, <1>3, <1>4, <1>5 DEF Over, Named

\* Steps of a user keep the second invariant.
LEMMA SheriffStepSettled ==
  ASSUME Base, Base', Calm, Settled, SheriffStep
  PROVE  Settled'
<1> SUFFICES ASSUME NEW i \in Ids, Live(i)'
             PROVE  Ended(i)' /\ StartedOnce(i)'
  BY DEF Settled
<1>1. UNCHANGED <<managed, cmds, mode, infos, restarts, heard>>
  BY DEF SheriffStep
<1>2. /\ Len(orders) \in Nat /\ Len(infos) \in Nat
      /\ commands[i].actual_runid \in Nat /\ commands[i].desired_runid \in Nat
      /\ i \notin managed => cmds[i] = Deputy!NewCommand
      /\ \A k \in 1 .. Len(infos) : Shown(i, k) => infos[k][i].actual_runid \in Nat
      /\ \A k \in 1 .. Len(orders) : Named(i, k) => orders[k][i].desired_runid \in Nat
  BY BaseFacts DEF Shown, Named
<1>3. CASE fate[i] = "unused" /\ Nowhere(i) /\ Adds(i)
  <2>1. /\ commands'[i].pid = "unknown" /\ ~Leaving(i)'
        /\ commands'[i].desired_runid = 0
    BY <1>3 DEF Adds, Sheriff!NewCommand, Leaving
  <2>2. ~Deputy!HasPid(cmds[i]) /\ cmds[i].signal = "none"
    BY <1>2, <1>3 DEF Nowhere, Deputy!NewCommand, Deputy!HasPid
  <2>3. \A k \in 1 .. Len(orders') :
          i \in DOMAIN orders'[k] => orders'[k][i].desired_runid = 0
    <3>0. \A k \in 1 .. Len(orders) : i \notin DOMAIN orders[k]
      BY <1>3 DEF Nowhere, NoOrders, Named
    <3>1. CASE orders' = orders
      BY <3>0, <3>1
    <3>2. ASSUME NEW n \in Nat,
                 n = Len(orders), Len(orders') = n + 1,
                 \A k \in 1 .. n : orders'[k] = orders[k],
                 i \in DOMAIN orders'[n + 1] =>
                   orders'[n + 1][i].desired_runid = commands'[i].desired_runid,
                 NEW k \in 1 .. Len(orders'), i \in DOMAIN orders'[k]
          PROVE  orders'[k][i].desired_runid = 0
      <4>1. k \in 1 .. n \/ k = n + 1
        BY <3>2
      <4> QED  BY <2>1, <3>0, <3>2, <4>1
    <3> QED  BY <3>1, <3>2, LastOrders
  <2>4. \A k \in 1 .. Len(infos) : ~Shown(i, k)
    BY <1>3 DEF Nowhere, NoInfos
  <2>5. Ended(i)'
    BY <1>1, <2>1, <2>4 DEF Ended, KnowsEnd, ShowsEnd, Shown
  <2> QED  BY <1>1, <2>1, <2>2, <2>3, <2>5 DEF StartedOnce, Named
<1>4. ASSUME Live(i),
             commands'[i].pid = commands[i].pid,
             commands'[i].actual_runid = commands[i].actual_runid,
             commands'[i].desired_runid = commands[i].desired_runid + 1,
             fate'[i] = "used" => /\ commands[i].desired_runid = 0 /\ fate[i] = "used"
                                  /\ Leaving(i)' = Leaving(i),
             ~commands'[i].force_quit
      PROVE  Ended(i)' /\ StartedOnce(i)'
  <2>1. /\ commands[i].actual_runid <= commands[i].desired_runid
        /\ \A k \in 1 .. Len(infos) : Shown(i, k) =>
             infos[k][i].actual_runid <= commands[i].desired_runid
        /\ \A k \in 1 .. Len(orders) : Named(i, k) =>
             orders[k][i].desired_runid <= commands[i].desired_runid
    BY <1>4 DEF Calm, RunsInStep
  <2>2. ~KnowsEnd(i)' /\ \A k \in 1 .. Len(infos) : ~ShowsEnd(i, k)'
    BY <1>1, <1>2, <1>4, <2>1 DEF KnowsEnd, ShowsEnd, Shown
  <2>3. Ended(i)'
    BY <1>1, <2>2 DEF Ended
  <2>4. Ended(i) /\ StartedOnce(i)
    BY <1>4 DEF Settled
  <2>5. fate'[i] = "used" =>
          \A k \in 1 .. Len(orders') : i \in DOMAIN orders'[k] =>
            ~(orders'[k][i].force_quit /\ orders'[k][i].desired_runid = 1)
    <3> SUFFICES ASSUME fate'[i] = "used", NEW k \in 1 .. Len(orders'), i \in DOMAIN orders'[k]
                 PROVE  ~(orders'[k][i].force_quit /\ orders'[k][i].desired_runid = 1)
      OBVIOUS
    <3>0. \A h \in 1 .. Len(orders) : i \in DOMAIN orders[h] =>
            orders[h][i].desired_runid \in Nat /\ orders[h][i].desired_runid <= 0
      BY <1>2, <1>4, <2>1 DEF Named
    <3>1. CASE orders' = orders
      BY <3>0, <3>1
    <3>2. ASSUME NEW n \in Nat,
                 n = Len(orders), Len(orders') = n + 1,
                 \A h \in 1 .. n : orders'[h] = orders[h],
                 i \in DOMAIN orders'[n + 1] =>
                   orders'[n + 1][i].force_quit = commands'[i].force_quit
          PROVE  ~(orders'[k][i].force_quit /\ orders'[k][i].desired_runid = 1)
      <4>1. k \in 1 .. n \/ k = n + 1
        BY <3>2
      <4>2. CASE k \in 1 .. n
        BY <3>0, <3>2, <4>2
      <4>3. CASE k = n + 1
        BY <1>4, <3>2, <4>3
      <4> QED  BY <4>1, <4>2, <4>3
    <3> QED  BY <3>1, <3>2, LastOrders
  <2> QED  BY <1>1, <1>4, <2>3, <2>4, <2>5 DEF StartedOnce, Named
<1>5. ASSUME Live(i),
             commands'[i].pid = commands[i].pid,
             commands'[i].actual_runid = commands[i].actual_runid,
             commands'[i].desired_runid = commands[i].desired_runid,
             commands[i].force_quit => commands'[i].force_quit,
             Leaving(i) => Leaving(i)',
             fate'[i] = "used" => /\ fate[i] = "used" /\ Leaving(i)' = Leaving(i)
                                  /\ \/ commands'[i].force_quit = commands[i].force_quit
                                     \/ commands[i].desired_runid = 0
      PROVE  Ended(i)' /\ StartedOnce(i)'
  <2>1. Ended(i) /\ StartedOnce(i)
    BY <1>5 DEF Settled
  <2>2. Over(i) => Over(i)'
    BY <1>5, SheriffStepOver
  <2>3. /\ KnowsEnd(i)' => KnowsEnd(i)
        /\ \A k \in 1 .. Len(infos) : ShowsEnd(i, k)' => ShowsEnd(i, k)
    BY <1>1, <1>5 DEF KnowsEnd, ShowsEnd, Shown
  <2>4. Ended(i)'
    BY <1>1, <1>5, <2>1, <2>2, <2>3 DEF Ended
  <2>5. ASSUME fate'[i] = "used", commands'[i].force_quit, commands'[i].desired_runid = 1
        PROVE  Over(i)'
    <3>1. commands[i].desired_runid = 1 /\ 1 # 0
      BY <1>5, <2>5
    <3>2. commands'[i].force_quit = commands[i].force_quit
      BY <1>5, <2>5, <3>1
    <3>3. commands[i].force_quit
      BY <2>5, <3>2
    <3> QED  BY <1>5, <2>1, <2>2, <2>5, <3>1, <3>3 DEF StartedOnce
  <2>6. ASSUME fate'[i] = "used", NEW k \in 1 .. Len(orders'), i \in DOMAIN orders'[k],
               orders'[k][i].force_quit, orders'[k][i].desired_runid = 1
        PROVE  Over(i)'
    <3>0. \A h \in 1 .. Len(orders) :
            i \in DOMAIN orders[h] /\ orders[h][i].force_quit /\ orders[h][i].desired_runid = 1
              => Over(i)
      BY <1>5, <2>1, <2>6 DEF StartedOnce, Named
    <3>1. CASE orders' = orders
      BY <2>2, <2>6, <3>0, <3>1
    <3>2. ASSUME NEW n \in Nat,
                 n = Len(orders), Len(orders') = n + 1,
                 \A h \in 1 .. n : orders'[h] = orders[h],
                 i \in DOMAIN orders'[n + 1] =>
                   /\ orders'[n + 1][i].desired_runid = commands'[i].desired_runid
                   /\ orders'[n + 1][i].force_quit = commands'[i].force_quit
          PROVE  Over(i)'
      <4>1. k \in 1 .. n \/ k = n + 1
        BY <3>2
      <4>2. CASE k \in 1 .. n
        BY <2>2, <2>6, <3>0, <3>2, <4>2
      <4>3. CASE k = n + 1
        BY <2>5, <2>6, <3>2, <4>3
      <4> QED  BY <4>1, <4>2, <4>3
    <3> QED  BY <3>1, <3>2, LastOrders
  <2>7. StartedOnce(i)'
    BY <1>1, <1>5, <2>1, <2>5, <2>6 DEF StartedOnce, Named
  <2> QED  BY <2>4, <2>7
<1>6. CASE Changes(i) /\ Live(i)
  <2>1. fate'[i] = "used" => fate[i] = "used" /\ Leaving(i)' = Leaving(i)
    BY <1>6 DEF Changes, Leaving
  <2>2. CASE commands'[i].desired_runid = commands[i].desired_runid + 1 /\ ~commands'[i].force_quit
    <3>1. fate'[i] = "used" => commands[i].desired_runid = 0
      BY <1>2, <1>6, <2>2 DEF Changes
    <3> QED  BY <1>4, <1>6, <2>1, <2>2, <3>1 DEF Changes
  <2>3. CASE /\ commands'[i].desired_runid = commands[i].desired_runid
             /\ commands[i].force_quit => commands'[i].force_quit
    BY <1>5, <1>6, <2>1, <2>3 DEF Changes, Leaving
  <2> QED  BY <1>6, <2>2, <2>3 DEF Changes
<1>7. CASE LeavesAlone(i) /\ Live(i) /\ i \in known
  BY <1>5, <1>7 DEF LeavesAlone, Leaving
<1>8. \/ fate[i] = "unused" /\ Nowhere(i) /\ Adds(i)
      \/ Changes(i) /\ Live(i)
      \/ LeavesAlone(i) /\ Live(i) /\ i \in known
  BY DEF SheriffStep, Calm, UnusedIsNew, LiveIsKnown, Live, LeavesAlone, Adds, Changes, Drops
<1> QED  BY <1>3, <1>6, <1>7, <1>8

\* Taking in an info keeps it.
LEMMA InfoStepSettled ==
  ASSUME Base, Base', Calm, Settled, InfoStep, Respawns = {FALSE}
  PROVE  Settled'
<1> SUFFICES ASSUME NEW i \in Ids, Live(i)'
             PROVE  Ended(i)' /\ StartedOnce(i)'
  BY DEF Settled
<1>1. /\ UNCHANGED <<managed, cmds, mode, orders, restarts>>
      /\ infos # <<>> /\ infos' = Tail(infos)
  BY DEF InfoStep
<1>2. PICK n \in Nat \ {0} :
        /\ n = Len(infos) /\ Len(infos') = n - 1
        /\ \A k \in 1 .. n - 1 : infos'[k] = infos[k + 1]
  BY <1>1, ShiftFacts DEF Base, TypeOK
<1>3. /\ Live(i) /\ i \in known /\ i \in known' /\ fate'[i] = fate[i]
      /\ (Updates(i) /\ Shown(i, 1)) \/ commands'[i] = commands[i]
      /\ commands'[i].desired_runid = commands[i].desired_runid
      /\ Leaving(i)' <=> Leaving(i)
  BY InfoStepKeeps
<1>4. Ended(i) /\ StartedOnce(i)
  BY <1>3 DEF Settled
<1>5. /\ commands'[i].force_quit => commands[i].force_quit \/ ShowsEnd(i, 1)
      /\ commands[i].force_quit => commands'[i].force_quit
  BY <1>3 DEF Updates, ShowsEnd
<1>6. KnowsEnd(i)' => commands'[i].force_quit /\ (KnowsEnd(i) \/ ShowsEnd(i, 1))
  <2>1. CASE Updates(i) /\ Shown(i, 1)
    <3>1. commands'[i].auto_respawn = FALSE
      BY <1>3 DEF Base, SettingsChosen
    <3>2. KnowsEnd(i)' => ShowsEnd(i, 1)
      BY <1>3, <2>1 DEF KnowsEnd, ShowsEnd, Updates
    <3>3. ShowsEnd(i, 1) => commands'[i].force_quit
      BY <1>3, <2>1, <3>1 DEF ShowsEnd, Updates
    <3> QED  BY <3>2, <3>3
  <2>2. CASE commands'[i] = commands[i]
    BY <1>4, <2>2 DEF KnowsEnd, Ended
  <2> QED  BY <1>3, <2>1, <2>2
<1>7. 1 \in 1 .. n /\ \A k \in 1 .. n - 1 : k + 1 \in 1 .. n
  OBVIOUS
<1>8. ASSUME NEW k \in 1 .. n - 1, ShowsEnd(i, k)'
      PROVE  ShowsEnd(i, k + 1)
  BY <1>2, <1>3, <1>8 DEF ShowsEnd, Shown
<1>9. Over(i) => Over(i)'
  BY <1>1, <1>3, <1>5 DEF Over, Named
<1>10. ShowsEnd(i, 1) => Over(i)
  BY <1>2, <1>4, <1>7 DEF Ended
<1>11. Ended(i)'
  <2>1. ASSUME NEW k \in 1 .. n - 1, ShowsEnd(i, k)' PROVE Over(i)'
    BY <1>2, <1>4, <1>7, <1>8, <1>9, <2>1 DEF Ended
  <2>2. KnowsEnd(i)' => commands'[i].force_quit /\ Over(i)'
    BY <1>4, <1>6, <1>9, <1>10 DEF Ended
  <2> QED  BY <1>2, <2>1, <2>2 DEF Ended
<1>12. StartedOnce(i)'
  <2>1. /\ Deputy!HasPid(cmds[i]) => cmds[i].actual_runid > 0
        /\ fate[i] = "used" =>
             /\ commands[i].desired_runid <= 1 /\ ~Leaving(i) /\ cmds[i].signal = "none"
             /\ \A k \in 1 .. Len(orders) :
                  Named(i, k) /\ orders[k][i].force_quit /\ orders[k][i].desired_runid = 1
                    => Over(i)
    BY <1>4 DEF StartedOnce
  <2>2. fate[i] = "used" /\ commands'[i].force_quit /\ commands[i].desired_runid = 1 => Over(i)'
    BY <1>4, <1>5, <1>9, <1>10 DEF StartedOnce
  <2> QED  BY <1>1, <1>3, <1>9, <2>1, <2>2 DEF StartedOnce, Named
<1> QED  BY <1>11, <1>12

-----------------------------------------------------------------------------

\* What a step of the deputy does to a command that does not respawn.
Acts(i, s) ==
  LET o == orders[1][i]
      c == cmds[i]
      d == cmds'[i]
  IN  /\ ~Deputy!HasPid(c) /\ Deputy!HasPid(d) =>
           /\ s = 1 /\ Named(i, 1) /\ ~o.force_quit
           /\ o.desired_runid # c.actual_runid /\ d.actual_runid = o.desired_runid
      /\ Deputy!HasPid(c) /\ Deputy!HasPid(d) => d.actual_runid = c.actual_runid
      /\ ~Deputy!HasPid(d) /\ i \in managed' =>
           \/ d.actual_runid = c.actual_runid
           \/ s = 1 /\ Named(i, 1) /\ d.actual_runid = o.desired_runid
      /\ \/ d.signal \in {"none", c.signal}
         \/ Through(i, s)
         \/ /\ s = 1 /\ Named(i, 1) /\ Deputy!HasPid(c)
            /\ o.force_quit \/ o.desired_runid # c.actual_runid

\* Handling orders acts on a command in this way,
LEMMA OrdersStepActs ==
  ASSUME Base, OrdersStep, NEW i \in Ids
  PROVE  Acts(i, 1)
<1>1. CASE Obeys(i)
  BY <1>1 DEF Obeys, Acts, Named
<1>2. CASE Culls(i)
  BY <1>2 DEF Culls, Acts, Named, Through, Deputy!HasPid, Deputy!NewCommand
<1> QED  BY <1>1, <1>2 DEF OrdersStep

\* and so does everything else that the deputy does.
LEMMA QuietStepActs ==
  ASSUME Base, QuietStep, Respawns = {FALSE}, NEW i \in Ids, NEW s \in {0, 1}
  PROVE  Acts(i, s)
<1>1. CASE Keeps(i)
  <2>1. cmds[i].auto_respawn = FALSE
    BY <1>1 DEF Keeps, Base, SettingsChosen
  <2> QED  BY <1>1, <2>1 DEF Keeps, SameReport, Acts
<1>2. CASE Frees(i)
  BY <1>2 DEF Frees, Acts, Deputy!HasPid, Deputy!NewCommand
<1>3. CASE i \notin managed \cup managed' /\ cmds'[i] = cmds[i]
  BY <1>3 DEF Acts
<1> QED  BY <1>1, <1>2, <1>3 DEF QuietStep

\* The part of BaseFacts that is used of the next state.
Numbers ==
  /\ \A i \in Ids : /\ cmds[i].actual_runid \in Nat
                    /\ i \notin managed => cmds[i] = Deputy!NewCommand
  /\ \A k \in 1 .. Len(orders) :
       \A i \in DOMAIN orders[k] : orders[k][i].desired_runid \in Nat

\* It follows from the types.
LEMMA NumbersHold == Base => Numbers
BY BaseFacts DEF Numbers

\* Steps of the deputy keep the second invariant.
LEMMA DeputyStepSettled ==
  ASSUME Base, Base', Calm, Calm', Settled, NEW s \in {0, 1}, DeputyStep(s),
         \A i \in Ids : Acts(i, s)
  PROVE  Settled'
<1> SUFFICES ASSUME NEW i \in Ids, Live(i)'
             PROVE  Ended(i)' /\ StartedOnce(i)'
  BY DEF Settled
<1>1. /\ UNCHANGED <<known, commands, heard, fate>>
      /\ Taken(s) /\ InfosSent
      /\ i \in managed' \ managed => s = 1 /\ Named(i, 1)
      /\ i \in managed \ managed' => Through(i, s)
  BY DEF DeputyStep
<1>2. PICK n \in Nat, m \in Nat : n = Len(orders) /\ m = Len(infos)
  BY BaseFacts
<1>3. /\ s <= n /\ Len(orders') = n - s
      /\ \A k \in 1 .. n - s : k + s \in 1 .. n /\ orders'[k] = orders[k + s]
  BY <1>1, <1>2 DEF Taken
<1>4. /\ cmds[i].actual_runid \in Nat /\ commands[i].desired_runid \in Nat
      /\ \A k \in 1 .. n : Named(i, k) => orders[k][i].desired_runid \in Nat
      /\ i \notin managed => cmds[i] = Deputy!NewCommand
  BY <1>2, BaseFacts DEF Named
<1>5. /\ cmds'[i].actual_runid \in Nat
      /\ i \notin managed' => cmds'[i] = Deputy!NewCommand
      /\ \A k \in 1 .. n - s : Named(i, k)' => orders'[k][i].desired_runid \in Nat
  <2>1. Numbers'
    BY NumbersHold, PTL
  <2> QED  BY <1>3, <2>1 DEF Named, Numbers
<1>6. Live(i) /\ Ended(i) /\ StartedOnce(i) /\ (Leaving(i)' <=> Leaving(i))
  BY <1>1 DEF Settled, Live, Leaving
<1>7. /\ \A k \in 1 .. n : Named(i, k) =>
           /\ cmds[i].actual_runid <= orders[k][i].desired_runid
           /\ orders[k][i].desired_runid <= commands[i].desired_runid
      /\ \A k \in 1 .. n - s : Named(i, k)' =>
           /\ cmds'[i].actual_runid <= orders'[k][i].desired_runid
           /\ orders'[k][i].desired_runid <= commands[i].desired_runid
  BY <1>1, <1>2, <1>3, <1>6 DEF Calm, RunsInStep
<1>8. s = 1 => 1 \in 1 .. n
  BY <1>3
<1>9. i \notin managed' => ~Deputy!HasPid(cmds'[i])
  BY <1>5 DEF Deputy!HasPid, Deputy!NewCommand
<1>10. Through(i, s) => Leaving(i)' /\ \A k \in 1 .. n - s : ~Named(i, k)'
  <2> SUFFICES ASSUME Through(i, s) PROVE Leaving(i) /\ \A k \in 1 .. n : ~Named(i, k)
    BY <1>3, <1>6 DEF Named
  <2>1. /\ \A k \in 1 .. n : ~Named(i, k) /\ i \in managed =>
                               Leaving(i) /\ \A l \in k .. n : ~Named(i, l)
        /\ i \in managed /\ cmds[i].remove_requested => Leaving(i) /\ NoOrders(i)
    BY <1>2, <1>6 DEF Calm, OrdersInStep
  <2> QED  BY <1>2, <1>8, <2>1 DEF Through, NoOrders
<1>11. Through(i, s) /\ ~Deputy!HasPid(cmds'[i]) => Over(i)'
  BY <1>3, <1>10 DEF Over
<1>12. ~Deputy!HasPid(cmds'[i]) /\ cmds'[i].actual_runid = commands[i].desired_runid => Over(i)'
  <2> SUFFICES ASSUME ~Deputy!HasPid(cmds'[i]),
                      cmds'[i].actual_runid = commands[i].desired_runid
               PROVE  Over(i)'
    OBVIOUS
  <2>1. \A k \in 1 .. n - s : Named(i, k)' =>
          orders'[k][i].desired_runid = commands[i].desired_runid
    BY <1>4, <1>5, <1>7
  <2> QED  BY <1>1, <1>3, <2>1 DEF Over
<1>13. Over(i) => Over(i)'
  <2> SUFFICES ASSUME Over(i) PROVE Over(i)'
    OBVIOUS
  <2>1. /\ ~Deputy!HasPid(cmds[i])
        /\ ~Leaving(i) =>
             commands[i].force_quit \/ cmds[i].actual_runid = commands[i].desired_runid
        /\ \A k \in 1 .. n : Named(i, k) =>
             /\ orders[k][i].desired_runid = commands[i].desired_runid
             /\ orders[k][i].force_quit \/ cmds[i].actual_runid = commands[i].desired_runid
    BY <1>2 DEF Over
  <2>2. ~Deputy!HasPid(cmds'[i])
    BY <1>8, <2>1 DEF Acts
  <2>3. CASE cmds'[i].actual_runid = cmds[i].actual_runid
    <3>1. \A k \in 1 .. n - s : i \in DOMAIN orders'[k] =>
            /\ orders'[k][i].desired_runid = commands[i].desired_runid
            /\ orders'[k][i].force_quit \/ cmds[i].actual_runid = commands[i].desired_runid
      BY <1>3, <2>1 DEF Named
    <3> QED  BY <1>1, <1>3, <1>6, <2>1, <2>2, <2>3, <3>1 DEF Over, Named
  <2>4. CASE cmds'[i].actual_runid = commands[i].desired_runid
    BY <1>12, <2>2, <2>4
  <2>5. CASE i \in managed \ managed'
    BY <1>1, <1>11, <2>2, <2>5
  <2>6. CASE i \notin managed \cup managed'
    BY <1>4, <1>5, <2>3, <2>6
  <2>7. CASE i \in managed'
    BY <1>8, <2>1, <2>2, <2>3, <2>4, <2>7 DEF Acts
  <2> QED  BY <2>5, <2>6, <2>7
<1>14. Ended(i)'
  <2>1. ASSUME NEW k \in 1 .. Len(infos'), ShowsEnd(i, k)' PROVE Over(i)'
    <3>1. CASE k \in 1 .. m /\ infos'[k] = infos[k]
      BY <1>1, <1>2, <1>6, <1>13, <2>1, <3>1 DEF Ended, ShowsEnd, Shown
    <3>2. CASE /\ k = m + 1
               /\ LET last == infos'[m + 1]
                  IN  /\ i \in managed' =>
                           /\ last[i].pid = Deputy!HasPid(cmds'[i])
                           /\ last[i].actual_runid = cmds'[i].actual_runid
                      /\ i \in DOMAIN last /\ i \notin managed' => i \in managed
      <4>1. CASE i \in managed'
        BY <1>1, <1>12, <2>1, <3>2, <4>1 DEF ShowsEnd, Shown
      <4>2. CASE i \notin managed'
        BY <1>1, <1>9, <1>11, <2>1, <3>2, <4>2 DEF ShowsEnd, Shown
      <4> QED  BY <4>1, <4>2
    <3>3. CASE infos' = infos
      BY <1>2, <3>1, <3>3
    <3>4. CASE /\ Len(infos') = Len(infos) + 1
               /\ \A h \in 1 .. Len(infos) : infos'[h] = infos[h]
               /\ LET last == infos'[Len(infos')]
                  IN  /\ i \in managed' =>
                           /\ last[i].pid = Deputy!HasPid(cmds'[i])
                           /\ last[i].actual_runid = cmds'[i].actual_runid
                      /\ i \in DOMAIN last /\ i \notin managed' => i \in managed
      <4>1. k \in 1 .. m \/ k = m + 1
        BY <1>2, <3>4
      <4> QED  BY <1>2, <3>1, <3>2, <3>4, <4>1
    <3> QED  BY <1>1, <3>3, <3>4 DEF InfosSent
  <2>2. KnowsEnd(i)' => commands[i].force_quit /\ Over(i)'
    BY <1>1, <1>6, <1>13 DEF Ended, KnowsEnd
  <2> QED  BY <1>1, <2>1, <2>2 DEF Ended
<1>15. StartedOnce(i)'
  <2>1. Deputy!HasPid(cmds[i]) => cmds[i].actual_runid > 0
    BY <1>6 DEF StartedOnce
  <2>2. ASSUME Deputy!HasPid(cmds'[i]) PROVE cmds'[i].actual_runid > 0
    BY <1>4, <1>7, <1>8, <2>1, <2>2 DEF Acts
  <2>3. ASSUME fate[i] = "used"
        PROVE  /\ commands[i].desired_runid <= 1 /\ ~Leaving(i) /\ cmds[i].signal = "none"
               /\ commands[i].force_quit /\ commands[i].desired_runid = 1 => Over(i)
               /\ \A k \in 1 .. n :
                    Named(i, k) /\ orders[k][i].force_quit /\ orders[k][i].desired_runid = 1
                      => Over(i)
    BY <1>2, <1>6, <2>3 DEF StartedOnce
  <2>4. ASSUME fate[i] = "used" PROVE cmds'[i].signal = "none"
    <3>1. ~Through(i, s)
      BY <1>6, <1>10, <2>3, <2>4
    <3>2. ASSUME s = 1, Named(i, 1), Deputy!HasPid(cmds[i]),
                 orders[1][i].force_quit \/ orders[1][i].desired_runid # cmds[i].actual_runid
          PROVE  FALSE
      <4>1. orders[1][i].desired_runid = 1 /\ cmds[i].actual_runid = 1
        BY <1>4, <1>7, <1>8, <2>1, <2>3, <2>4, <3>2
      <4>2. Over(i)
        BY <1>8, <2>3, <2>4, <3>2, <4>1
      <4> QED  BY <3>2, <4>2 DEF Over
    <3> QED  BY <2>3, <2>4, <3>1, <3>2 DEF Acts
  <2>5. ASSUME fate[i] = "used", NEW k \in 1 .. n - s,
               i \in DOMAIN orders'[k], orders'[k][i].force_quit, orders'[k][i].desired_runid = 1
        PROVE  Over(i)'
    <3>1. k + s \in 1 .. n /\ orders'[k] = orders[k + s]
      BY <1>3
    <3> QED  BY <1>13, <2>3, <2>5, <3>1 DEF Named
  <2> QED  BY <1>1, <1>3, <1>6, <1>13, <2>2, <2>3, <2>4, <2>5 DEF StartedOnce, Named
<1> QED  BY <1>14, <1>15

\* What holds, besides, until somebody is restarted, of commands that do not
\* respawn.
SettledAtFirst == CalmAtFirst /\ (restarts = 0 => Settled)

\* It holds initially,
LEMMA InitSettled == Init => SettledAtFirst
<1> SUFFICES ASSUME Init PROVE SettledAtFirst
  OBVIOUS
<1>1. \A i \in Ids : ~Live(i)
  BY DEF Init, Sheriff!Init, Live
<1> QED  BY <1>1, InitCalm DEF SettledAtFirst, Settled

\* and every step keeps it.
LEMMA NextSettled ==
  ASSUME Respawns = {FALSE}
  PROVE  SettledAtFirst /\ [Next]_vars => SettledAtFirst'
<1> SUFFICES ASSUME SettledAtFirst, [Next]_vars PROVE SettledAtFirst'
  OBVIOUS
<1>1. CalmAtFirst /\ CalmAtFirst' /\ Base /\ Base'
  BY NextCalm DEF SettledAtFirst, CalmAtFirst
<1>2. ASSUME restarts' = 0 PROVE Settled'
  <2>1. restarts = 0 /\ Calm /\ Calm' /\ Settled
    BY <1>1, <1>2, RestartsOnlyGrow DEF CalmAtFirst, SettledAtFirst
  <2>2. CASE SheriffStep
    BY <1>1, <2>1, <2>2, SheriffStepSettled
  <2>3. CASE InfoStep
    BY <1>1, <2>1, <2>3, InfoStepSettled
  <2>4. CASE OrdersStep
    BY <1>1, <2>1, <2>4, OrdersStepIsDeputyStep, OrdersStepActs, DeputyStepSettled
  <2>5. CASE QuietStep
    BY <1>1, <2>1, <2>5, QuietStepIsDeputyStep, QuietStepActs, DeputyStepSettled
  <2> QED  BY <1>1, <1>2, <2>1, <2>2, <2>3, <2>4, <2>5, StepKinds
<1> QED  BY <1>1, <1>2 DEF SettledAtFirst

\* As long as neither the sheriff nor the deputy restarts, a command that does
\* not respawn and that the sheriff shows as stopped is not running.
THEOREM StoppedIsStoppedAtFirst ==
  ASSUME Respawns = {FALSE}
  PROVE  Spec => [](restarts = 0 => StoppedIsStopped)
<1>1. SettledAtFirst => (restarts = 0 => StoppedIsStopped)
  <2> SUFFICES ASSUME Base, Settled, NEW i \in Steady, Sheriff!Status(commands[i]) = "stopped"
               PROVE  ~Deputy!HasPid(cmds[i])
    BY DEF SettledAtFirst, CalmAtFirst, StoppedIsStopped
  <2>1. i \in Ids /\ Live(i) /\ commands[i].pid \in {"unknown", "none", "some"}
    BY BaseFacts DEF Steady, Live
  <2>2. KnowsEnd(i)
    BY <2>1 DEF Sheriff!Status, KnowsEnd
  <2> QED  BY <2>1, <2>2 DEF Settled, Ended, Over
<1>2. SettledAtFirst /\ [Next]_vars => SettledAtFirst'
  BY NextSettled
<1> QED  BY <1>1, <1>2, InitSettled, PTL DEF Spec

\* As long as neither restarts, the deputy never stops a process whose command
\* was only ever added and started once.
THEOREM UndisturbedAtFirst ==
  ASSUME Respawns = {FALSE}
  PROVE  Spec => [](restarts = 0 => Undisturbed)
<1>1. SettledAtFirst => (restarts = 0 => Undisturbed)
  BY DEF SettledAtFirst, Undisturbed, Settled, Live, StartedOnce
<1>2. SettledAtFirst /\ [Next]_vars => SettledAtFirst'
  BY NextSettled
<1> QED  BY <1>1, <1>2, InitSettled, PTL DEF Spec

=============================================================================
