------------------------ MODULE ProcmanDeputyProofs ------------------------
(***************************************************************************)
(* Proofs about ProcmanDeputy, for every set of commands and every bound   *)
(* on the run ids.  Each operation on one command has a lemma that says    *)
(* what it changes; the inductive invariant is preserved handler by        *)
(* handler from these lemmas, and the theorems follow from it.             *)
(***************************************************************************)
EXTENDS ProcmanDeputy, TLAPS

-----------------------------------------------------------------------------
(* What the operations on one command do *)

\* The record that calloc yields is a command.
LEMMA NewCommandType == NewCommand \in Command
BY MaxRunidAssumption DEF NewCommand, Command, Process, RunIds

\* Scheduling a respawn touches the timers only.
LEMMA MaybeScheduleRespawnFacts ==
  ASSUME NEW c \in Command
  PROVE  LET d == MaybeScheduleRespawn(c)
         IN  /\ d \in Command
             /\ d.child = c.child /\ d.signal = c.signal
             /\ d.actual_runid = c.actual_runid
             /\ d.should_be_stopped = c.should_be_stopped
             /\ d.first_kill = c.first_kill
BY DEF MaybeScheduleRespawn, Command

\* start_cmd either forks a process whose stop clock is not running, or
\* leaves the process, if there is one, as it is.
LEMMA StartCmdFacts ==
  ASSUME NEW c \in Command, NEW r \in RunIds, NEW forks \in BOOLEAN
  PROVE  LET d == StartCmd(c, r, forks)
         IN  /\ d \in Command
             /\ mode # "running" => d = c
             /\ HasPid(c) => /\ d.child = c.child /\ d.signal = c.signal
                             /\ d.actual_runid = c.actual_runid
                             /\ d.first_kill = c.first_kill
             /\ ~HasPid(c) => \/ d.child = "none"
                              \/ d.child = "alive" /\ d.first_kill = "unset"
<1> DEFINE attempt == [c EXCEPT !.should_be_stopped = FALSE,
                                !.timer = "unset",
                                !.stray = c.stray \/ c.timer = "pending"]
           failed  == MaybeScheduleRespawn(attempt)
           forked  == [attempt EXCEPT !.child = "alive", !.signal = "none",
                                      !.actual_runid = r, !.first_kill = "unset"]
<1>1. /\ attempt \in Command
      /\ attempt.child = c.child /\ attempt.signal = c.signal
      /\ attempt.actual_runid = c.actual_runid
      /\ attempt.first_kill = c.first_kill
  BY DEF Command
<1>2. /\ failed \in Command
      /\ failed.child = c.child /\ failed.signal = c.signal
      /\ failed.actual_runid = c.actual_runid
      /\ failed.first_kill = c.first_kill
  BY <1>1, MaybeScheduleRespawnFacts
<1>3. forked \in Command /\ forked.child = "alive" /\ forked.first_kill = "unset"
  <2> HIDE DEF attempt
  <2> QED  BY <1>1 DEF Command, Process
<1>4. StartCmd(c, r, forks) = IF mode # "running" THEN c
                              ELSE IF HasPid(c) \/ ~forks THEN failed ELSE forked
  BY DEF StartCmd, StartFails
<1> HIDE DEF attempt, failed, forked
<1> QED
  BY <1>2, <1>3, <1>4 DEF HasPid

\* stop_cmd leaves a command that has no process as it is; it never ends or
\* renames a run, and marks what it stops.
LEMMA StopCmdFacts ==
  ASSUME NEW c \in Command
  PROVE  LET d == StopCmd(c)
         IN  /\ d \in Command
             /\ ~HasPid(c) => d = c
             /\ d.child = c.child
             /\ d.actual_runid = c.actual_runid
             /\ HasPid(c) => d.should_be_stopped
             /\ d.signal = c.signal \/ d.signal = "stop" \/ c.first_kill = "overdue"
             /\ HasPid(c) /\ c.first_kill = "unset" => d.signal # "none"
             /\ c.signal # "none" => d.signal # "none"
BY DEF StopCmd, HasPid, Command

\* A process whose stop clock is running has been sent a signal.
Warned(c) == HasPid(c) /\ c.first_kill # "unset" => c.signal # "none"

\* d is what an operation may make of the process of c.
KeepsRun(c, d) ==
  HasPid(c) => /\ d.child = c.child
               /\ d.actual_runid = c.actual_runid
               /\ c.signal # "none" => d.signal # "none"
               /\ d.signal = "kill" => c.signal # "none"

\* stop_cmd sends SIGKILL only after the stop signal, and keeps the run.
LEMMA StopCmdKeepsRun ==
  ASSUME NEW c \in Command, Warned(c)
  PROVE  Warned(StopCmd(c)) /\ KeepsRun(c, StopCmd(c))
BY DEF StopCmd, HasPid, Command, Warned, KeepsRun

\* start_cmd never touches the process that a command already has.
LEMMA StartCmdKeepsRun ==
  ASSUME NEW c \in Command, NEW r \in RunIds, NEW forks \in BOOLEAN, Warned(c)
  PROVE  Warned(StartCmd(c, r, forks)) /\ KeepsRun(c, StartCmd(c, r, forks))
<1> DEFINE d == StartCmd(c, r, forks)
<1>1. /\ d \in Command
      /\ mode # "running" => d = c
      /\ HasPid(c) => /\ d.child = c.child /\ d.signal = c.signal
                      /\ d.actual_runid = c.actual_runid
                      /\ d.first_kill = c.first_kill
      /\ ~HasPid(c) => \/ d.child = "none"
                       \/ d.child = "alive" /\ d.first_kill = "unset"
  BY StartCmdFacts
<1> HIDE DEF d
<1>2. Warned(d) /\ KeepsRun(c, d)
  BY <1>1 DEF Warned, KeepsRun, HasPid, Command
<1> QED  BY <1>2 DEF d

\* The orders loop: a process keeps its record, and one is forked only for a
\* command that the orders want.
LEMMA ObeyFacts ==
  ASSUME NEW c \in Command, NEW o \in Order, NEW forks \in BOOLEAN, Warned(c)
  PROVE  LET d == Obey(c, o, forks)
         IN  /\ d \in Command
             /\ Warned(d) /\ KeepsRun(c, d)
             /\ o.force_quit => d.should_be_stopped
             /\ ~HasPid(c) /\ HasPid(d) => ~o.force_quit
<1> DEFINE told  == [c EXCEPT !.auto_respawn = o.auto_respawn,
                              !.should_be_stopped = o.force_quit]
           rerun == o.desired_runid # c.actual_runid
           started == StartCmd(told, o.desired_runid, forks)
           stopped == StopCmd(told)
           renamed == [told EXCEPT !.actual_runid = o.desired_runid]
<1>1. /\ told \in Command /\ Warned(told)
      /\ told.child = c.child /\ told.signal = c.signal
      /\ told.actual_runid = c.actual_runid
      /\ told.should_be_stopped = o.force_quit
      /\ HasPid(told) <=> HasPid(c)
  BY RespawnsAssumption DEF Order, Command, Warned, HasPid
<1>2. o.desired_runid \in RunIds /\ o.force_quit \in BOOLEAN
  BY DEF Order
<1>3. Obey(c, o, forks) = IF ~HasPid(c) /\ rerun /\ ~o.force_quit THEN started
                          ELSE IF HasPid(c) /\ (o.force_quit \/ rerun) THEN stopped
                          ELSE renamed
  BY DEF Obey
<1>4. started \in Command /\ Warned(started)
  <2> HIDE DEF told
  <2> QED  BY <1>1, <1>2, StartCmdFacts, StartCmdKeepsRun
<1>5. /\ stopped \in Command /\ Warned(stopped) /\ KeepsRun(told, stopped)
      /\ HasPid(c) => stopped.should_be_stopped
  <2> HIDE DEF told
  <2> QED  BY <1>1, StopCmdFacts, StopCmdKeepsRun
<1>6. /\ renamed \in Command
      /\ renamed.child = told.child /\ renamed.signal = told.signal
      /\ renamed.should_be_stopped = told.should_be_stopped
      /\ renamed.first_kill = told.first_kill
      /\ renamed.actual_runid = o.desired_runid
  <2> HIDE DEF told
  <2> QED  BY <1>1, <1>2 DEF Command
<1> HIDE DEF told, started, stopped, renamed
<1>7. CASE ~HasPid(c) /\ rerun /\ ~o.force_quit
  BY <1>3, <1>4, <1>7 DEF KeepsRun
<1>8. CASE HasPid(c) /\ (o.force_quit \/ rerun)
  BY <1>1, <1>3, <1>5, <1>8 DEF KeepsRun
<1>9. CASE ~(~HasPid(c) /\ rerun /\ ~o.force_quit) /\ ~(HasPid(c) /\ (o.force_quit \/ rerun))
  <2>1. Obey(c, o, forks) = renamed
    BY <1>3, <1>9
  <2>2. Warned(renamed) /\ (HasPid(renamed) <=> HasPid(c))
    BY <1>1, <1>6 DEF Warned, HasPid
  <2>3. KeepsRun(c, renamed)
    BY <1>1, <1>6, <1>9 DEF KeepsRun, Warned, Command
  <2> QED  BY <2>1, <2>2, <2>3, <1>1, <1>6
<1> QED  BY <1>7, <1>8, <1>9

\* A respawn source that has fired launches only what is not being stopped.
LEMMA RespawnedFacts ==
  ASSUME NEW c \in Command, NEW forks \in BOOLEAN, Warned(c)
  PROVE  LET d == Respawned(c, forks)
         IN  /\ d \in Command
             /\ Warned(d) /\ KeepsRun(c, d)
             /\ c.should_be_stopped => d = c
             /\ mode # "running" => d = c
<1>1. c.actual_runid \in RunIds
  BY DEF Command
<1>2. KeepsRun(c, c)
  BY DEF KeepsRun, Warned, Command
<1> QED  BY <1>1, <1>2, StartCmdFacts, StartCmdKeepsRun DEF Respawned

-----------------------------------------------------------------------------
(* The inductive invariant *)

\* A free entry of cmds is blank: a command that is added starts from scratch.
FreeIsBlank == \A i \in Ids \ managed : cmds[i] = NewCommand

\* should_be_stopped covers every command that the last orders do not want:
\* this is what keeps late respawn timers from running it.
UnwantedIsStopped == \A i \in managed \ wanted : cmds[i].should_be_stopped

\* A process whose stop clock runs was sent its stop signal.
EveryWarned == \A i \in Ids : Warned(cmds[i])

\* After a quit signal every process has been sent a signal, and none is new.
QuitWarned == mode = "exiting" => \A i \in Ids : HasPid(cmds[i]) => cmds[i].signal # "none"

IInv ==
  /\ TypeOK
  /\ FreeIsBlank
  /\ UnwantedIsStopped
  /\ EveryWarned
  /\ QuitWarned
  /\ ExitLeavesNothingRunning

\* A command that was just added has no process.
LEMMA NewCommandIdle ==
  ~HasPid(NewCommand) /\ Warned(NewCommand) /\ NewCommand.child = "none"
BY DEF NewCommand, HasPid, Warned

\* A deputy that has just started satisfies the invariant.
LEMMA InitIInv == Init => IInv
<1> SUFFICES ASSUME Init PROVE IInv
  OBVIOUS
<1>1. \A i \in Ids : cmds[i] = NewCommand
  BY DEF Init
<1>2. TypeOK
  BY NewCommandType DEF Init, TypeOK, Mode
<1> QED
  BY <1>1, <1>2, NewCommandIdle
     DEF Init, IInv, FreeIsBlank, UnwantedIsStopped, EveryWarned, QuitWarned,
         ExitLeavesNothingRunning

\* A handler that changes one command and keeps its process preserves IInv.
LEMMA OneCommandStep ==
  ASSUME IInv, Up, NEW i \in managed, NEW d \in Command,
         cmds' = [cmds EXCEPT ![i] = d],
         UNCHANGED <<managed, mode, wanted>>, sigchld' \in BOOLEAN, dangling' \in BOOLEAN,
         Warned(d),
         i \notin wanted => d.should_be_stopped,
         mode = "exiting" /\ HasPid(d) => d.signal # "none"
  PROVE  IInv'
<1> USE DEF IInv
<1>1. i \in Ids /\ cmds'[i] = d /\ \A j \in Ids : j # i => cmds'[j] = cmds[j]
  BY DEF TypeOK
<1>2. TypeOK'
  BY DEF TypeOK
<1>3. FreeIsBlank' /\ UnwantedIsStopped'
  BY <1>1 DEF FreeIsBlank, UnwantedIsStopped, TypeOK
<1>4. EveryWarned' /\ QuitWarned'
  BY <1>1 DEF EveryWarned, QuitWarned, Warned, HasPid
<1>5. ExitLeavesNothingRunning'
  BY DEF ExitLeavesNothingRunning, Up
<1> QED  BY <1>2, <1>3, <1>4, <1>5

\* The source that respawn_timeout_id names preserves the invariant.
LEMMA RespawnTimerIInv ==
  ASSUME IInv, NEW i \in Ids, NEW forks \in BOOLEAN, RespawnTimer(i, forks)
  PROVE  IInv'
<1> DEFINE c == [cmds[i] EXCEPT !.timer = "stale"]
           d == Respawned(c, forks)
<1>1. /\ c \in Command /\ Warned(c)
      /\ c.should_be_stopped = cmds[i].should_be_stopped
      /\ c.signal = cmds[i].signal /\ c.child = cmds[i].child
      /\ HasPid(c) <=> HasPid(cmds[i])
  BY DEF IInv, TypeOK, EveryWarned, Command, Warned, HasPid
<1>2. /\ Up /\ i \in managed /\ cmds' = [cmds EXCEPT ![i] = d]
      /\ UNCHANGED <<managed, mode, sigchld, dangling, wanted>>
  BY DEF RespawnTimer
<1> HIDE DEF c
<1>3. /\ d \in Command /\ Warned(d)
      /\ c.should_be_stopped => d = c
      /\ mode # "running" => d = c
  BY <1>1, RespawnedFacts
<1> HIDE DEF d
<1>4. i \notin wanted => d.should_be_stopped
  BY <1>1, <1>2, <1>3 DEF IInv, UnwantedIsStopped
<1>5. mode = "exiting" /\ HasPid(d) => d.signal # "none"
  BY <1>1, <1>3 DEF IInv, QuitWarned
<1>6. sigchld' \in BOOLEAN /\ dangling' \in BOOLEAN
  BY <1>2 DEF IInv, TypeOK
<1> QED  BY <1>2, <1>3, <1>4, <1>5, <1>6, OneCommandStep

\* So does a source whose id was overwritten.
LEMMA StrayTimerIInv ==
  ASSUME IInv, NEW i \in Ids, NEW left \in BOOLEAN, NEW forks \in BOOLEAN,
         StrayTimer(i, left, forks)
  PROVE  IInv'
<1> DEFINE c == [cmds[i] EXCEPT !.stray = left]
           d == Respawned(c, forks)
<1>1. /\ c \in Command /\ Warned(c)
      /\ c.should_be_stopped = cmds[i].should_be_stopped
      /\ c.signal = cmds[i].signal /\ c.child = cmds[i].child
      /\ HasPid(c) <=> HasPid(cmds[i])
  BY DEF IInv, TypeOK, EveryWarned, Command, Warned, HasPid
<1>2. /\ Up /\ i \in managed /\ cmds' = [cmds EXCEPT ![i] = d]
      /\ UNCHANGED <<managed, mode, sigchld, dangling, wanted>>
  BY DEF StrayTimer
<1> HIDE DEF c
<1>3. /\ d \in Command /\ Warned(d)
      /\ c.should_be_stopped => d = c
      /\ mode # "running" => d = c
  BY <1>1, RespawnedFacts
<1> HIDE DEF d
<1>4. i \notin wanted => d.should_be_stopped
  BY <1>1, <1>2, <1>3 DEF IInv, UnwantedIsStopped
<1>5. mode = "exiting" /\ HasPid(d) => d.signal # "none"
  BY <1>1, <1>3 DEF IInv, QuitWarned
<1>6. sigchld' \in BOOLEAN /\ dangling' \in BOOLEAN
  BY <1>2 DEF IInv, TypeOK
<1> QED  BY <1>2, <1>3, <1>4, <1>5, <1>6, OneCommandStep

\* A command that the orders no longer name is stopped and keeps its run.
LEMMA RequestRemovalFacts ==
  ASSUME NEW c \in Command, Warned(c)
  PROVE  LET d == RequestRemoval(c)
         IN  /\ d \in Command
             /\ Warned(d) /\ KeepsRun(c, d)
             /\ d.child = c.child
             /\ HasPid(c) => d.should_be_stopped
<1> DEFINE marked == [c EXCEPT !.remove_requested = TRUE]
<1>1. /\ marked \in Command /\ Warned(marked)
      /\ marked.child = c.child /\ marked.signal = c.signal
      /\ marked.actual_runid = c.actual_runid
      /\ HasPid(marked) <=> HasPid(c)
  BY DEF Command, Warned, HasPid
<1>2. RequestRemoval(c) = StopCmd(marked)
  BY DEF RequestRemoval
<1> HIDE DEF marked
<1>3. /\ StopCmd(marked) \in Command /\ Warned(StopCmd(marked))
      /\ KeepsRun(marked, StopCmd(marked))
      /\ StopCmd(marked).child = marked.child
      /\ HasPid(marked) => StopCmd(marked).should_be_stopped
  BY <1>1, StopCmdFacts, StopCmdKeepsRun
<1> QED  BY <1>1, <1>2, <1>3 DEF KeepsRun

\* Orders name known ids and say of each what an order says.
LEMMA OrdersType ==
  ASSUME NEW orders \in Orders
  PROVE  DOMAIN orders \subseteq Ids /\ \A i \in DOMAIN orders : orders[i] \in Order
BY DEF Orders

\* Orders preserve the invariant: what they do not want ends up stopped.
LEMMA HandleOrdersIInv ==
  ASSUME IInv, NEW orders \in Orders, NEW forks \in SUBSET Ids,
         HandleOrders(orders, forks)
  PROVE  IInv'
<1> DEFINE named  == DOMAIN orders
           culled == managed \ named
           freed  == {i \in culled : ~HasPid(cmds[i])}
           next(i) == CASE i \in named          -> Obey(cmds[i], orders[i], i \in forks)
                        [] i \in culled \ freed -> RequestRemoval(cmds[i])
                        [] OTHER                -> NewCommand
<1>1. /\ mode = "running"
      /\ managed' = named \cup (culled \ freed)
      /\ cmds' = [i \in Ids |-> next(i)]
      /\ dangling' = (dangling \/ \E i \in freed : LeavesTimer(cmds[i]))
      /\ wanted' = {i \in named : ~orders[i].force_quit}
      /\ UNCHANGED <<mode, sigchld>>
  BY DEF HandleOrders
<1>2. named \subseteq Ids /\ \A i \in named : orders[i] \in Order
  BY OrdersType
<1>3. /\ managed \subseteq Ids
      /\ \A i \in Ids : cmds[i] \in Command /\ Warned(cmds[i])
  BY DEF IInv, TypeOK, EveryWarned
<1>4. \A i \in named : LET d == Obey(cmds[i], orders[i], i \in forks)
                       IN  /\ d \in Command /\ Warned(d)
                           /\ orders[i].force_quit => d.should_be_stopped
  <2> TAKE i \in named
  <2> DEFINE fork == i \in forks
  <2>1. cmds[i] \in Command /\ Warned(cmds[i]) /\ orders[i] \in Order
    BY <1>2, <1>3
  <2>2. fork \in BOOLEAN
    OBVIOUS
  <2> HIDE DEF fork
  <2>3. LET d == Obey(cmds[i], orders[i], fork)
        IN  /\ d \in Command /\ Warned(d)
            /\ orders[i].force_quit => d.should_be_stopped
    BY <2>1, <2>2, ObeyFacts
  <2> QED  BY <2>3 DEF fork
<1>5. \A i \in culled \ freed : LET d == RequestRemoval(cmds[i])
                                IN  d \in Command /\ Warned(d) /\ d.should_be_stopped
  BY <1>3, RequestRemovalFacts
<1>6. \A i \in Ids : next(i) \in Command /\ Warned(next(i))
  BY <1>4, <1>5, NewCommandType, NewCommandIdle
<1>7. TypeOK'
  BY <1>1, <1>2, <1>3, <1>6 DEF IInv, TypeOK, LeavesTimer
<1>8. FreeIsBlank'
  BY <1>1, <1>2, <1>3 DEF FreeIsBlank
<1>9. UnwantedIsStopped'
  <2> SUFFICES ASSUME NEW i \in managed', i \notin wanted'
               PROVE  next(i).should_be_stopped
    BY <1>1, <1>2, <1>3 DEF UnwantedIsStopped
  <2>1. CASE i \in named
    BY <1>1, <1>2, <1>4, <2>1
  <2>2. CASE i \in culled \ freed
    BY <1>5, <2>2
  <2> QED  BY <1>1, <2>1, <2>2
<1>10. EveryWarned'
  BY <1>1, <1>6 DEF EveryWarned
<1>11. QuitWarned' /\ ExitLeavesNothingRunning'
  BY <1>1 DEF QuitWarned, ExitLeavesNothingRunning
<1> QED  BY <1>7, <1>8, <1>9, <1>10, <1>11 DEF IInv

\* The record of a child that has been reaped.
LEMMA ReapedFacts ==
  ASSUME NEW c \in Command
  PROVE  LET d == MaybeScheduleRespawn(Reaped(c))
         IN  /\ d \in Command
             /\ d.child = "none"
             /\ d.should_be_stopped = c.should_be_stopped
<1> DEFINE r == Reaped(c)
<1>1. r \in Command /\ r.child = "none" /\ r.should_be_stopped = c.should_be_stopped
  BY DEF Reaped, Command, Process
<1> HIDE DEF r
<1>2. /\ MaybeScheduleRespawn(r) \in Command
      /\ MaybeScheduleRespawn(r).child = r.child
      /\ MaybeScheduleRespawn(r).should_be_stopped = r.should_be_stopped
  BY <1>1, MaybeScheduleRespawnFacts
<1> QED  BY <1>1, <1>2 DEF r

\* Reaping preserves the invariant: a reaped command has no process to warn.
LEMMA HandleSigchldIInv ==
  ASSUME IInv, HandleSigchld
  PROVE  IInv'
<1> DEFINE dead  == {i \in managed : cmds[i].child = "dead"}
           freed == {i \in dead : cmds[i].remove_requested}
           next(i) == IF i \in freed THEN NewCommand
                      ELSE IF i \in dead THEN MaybeScheduleRespawn(Reaped(cmds[i]))
                      ELSE cmds[i]
<1>1. /\ Up
      /\ sigchld' = FALSE
      /\ managed' = managed \ freed
      /\ cmds' = [i \in Ids |-> next(i)]
      /\ dangling' = (dangling \/ \E i \in freed : LeavesTimer(cmds[i]))
      /\ mode' = IF mode = "exiting" /\ \A i \in managed' : ~HasPid(cmds'[i])
                 THEN "quit" ELSE mode
      /\ UNCHANGED wanted
  BY DEF HandleSigchld, Exited, AllDead
<1>2. /\ managed \subseteq Ids
      /\ \A i \in Ids : cmds[i] \in Command /\ Warned(cmds[i])
  BY DEF IInv, TypeOK, EveryWarned
<1>3. \A i \in dead : LET d == MaybeScheduleRespawn(Reaped(cmds[i]))
                     IN  /\ d \in Command /\ d.child = "none"
                         /\ d.should_be_stopped = cmds[i].should_be_stopped
  BY <1>2, ReapedFacts
<1>4. \A i \in Ids : /\ next(i) \in Command /\ Warned(next(i))
                     /\ i \in dead => ~HasPid(next(i)) /\ next(i).child = "none"
                     /\ i \notin dead => next(i) = cmds[i]
  BY <1>2, <1>3, NewCommandType, NewCommandIdle DEF Warned, HasPid
<1>5. /\ cmds' \in [Ids -> Command]
      /\ \A i \in Ids : /\ Warned(cmds'[i])
                        /\ i \in dead => ~HasPid(cmds'[i])
                        /\ i \notin dead => cmds'[i] = cmds[i]
  <2>1. \A i \in Ids : cmds'[i] = next(i)
    BY <1>1
  <2>2. cmds' \in [Ids -> Command]
    BY <1>1, <1>4
  <2> HIDE DEF next
  <2> QED  BY <1>4, <2>1, <2>2 DEF Warned, HasPid
<1> HIDE DEF next
<1>51. TypeOK'
  BY <1>1, <1>2, <1>5 DEF IInv, TypeOK, Mode, LeavesTimer
<1>6. FreeIsBlank'
  BY <1>1, <1>2 DEF IInv, FreeIsBlank, next
<1>7. UnwantedIsStopped'
  BY <1>1, <1>2, <1>3 DEF IInv, UnwantedIsStopped, next
<1>8. EveryWarned'
  BY <1>5 DEF EveryWarned, Warned, HasPid
<1>9. QuitWarned'
  BY <1>1, <1>5 DEF IInv, QuitWarned, HasPid, Up
<1>10. ExitLeavesNothingRunning'
  <2> SUFFICES ASSUME mode' = "quit", NEW i \in Ids
               PROVE  ~HasPid(cmds'[i])
    BY DEF ExitLeavesNothingRunning, Alive, HasPid
  <2>1. \A j \in managed' : ~HasPid(cmds'[j])
    BY <1>1 DEF Up
  <2>2. CASE i \in managed'
    BY <2>1, <2>2
  <2>3. CASE i \notin managed'
    BY <1>6, <2>3, NewCommandIdle DEF FreeIsBlank
  <2> QED  BY <2>2, <2>3
<1> QED  BY <1>51, <1>6, <1>7, <1>8, <1>9, <1>10 DEF IInv

\* The quit signal preserves the invariant: it warns every process.
LEMMA HandleQuitSignalIInv ==
  ASSUME IInv, HandleQuitSignal
  PROVE  IInv'
<1> DEFINE warn(c) == [c EXCEPT !.signal = "stop"]
           next(i) == IF i \in managed /\ HasPid(cmds[i]) /\ cmds[i].signal # "kill"
                      THEN warn(cmds[i]) ELSE cmds[i]
<1>1. /\ Up
      /\ cmds' = [i \in Ids |-> next(i)]
      /\ mode' = IF \A i \in managed : ~HasPid(cmds[i]) THEN "quit" ELSE "exiting"
      /\ UNCHANGED <<managed, sigchld, dangling, wanted>>
  BY DEF HandleQuitSignal, AllDead
<1>2. /\ \A i \in Ids : cmds[i] \in Command /\ Warned(cmds[i])
      /\ \A i \in Ids : i \notin managed => ~HasPid(cmds[i])
  BY NewCommandIdle DEF IInv, TypeOK, EveryWarned, FreeIsBlank
<1>3. ASSUME NEW c \in Command
      PROVE  /\ warn(c) \in Command /\ warn(c).signal = "stop"
             /\ warn(c).child = c.child
             /\ warn(c).should_be_stopped = c.should_be_stopped
  BY DEF Command
<1> HIDE DEF warn
<1>4. \A i \in Ids : /\ next(i) \in Command
                     /\ next(i).child = cmds[i].child
                     /\ next(i).should_be_stopped = cmds[i].should_be_stopped
                     /\ HasPid(cmds[i]) => next(i).signal # "none"
                     /\ ~HasPid(cmds[i]) => next(i) = cmds[i]
  BY <1>2, <1>3
<1>5. /\ cmds' \in [Ids -> Command]
      /\ \A i \in Ids : cmds'[i] = next(i)
  BY <1>1, <1>4
<1> HIDE DEF next
<1>6. TypeOK'
  BY <1>1, <1>5 DEF IInv, TypeOK, Mode
<1>7. FreeIsBlank' /\ UnwantedIsStopped'
  BY <1>1, <1>2, <1>4, <1>5 DEF IInv, FreeIsBlank, UnwantedIsStopped, TypeOK
<1>8. EveryWarned' /\ QuitWarned'
  BY <1>2, <1>4, <1>5 DEF EveryWarned, QuitWarned, Warned, HasPid
<1>9. ExitLeavesNothingRunning'
  BY <1>1, <1>2, <1>4, <1>5 DEF ExitLeavesNothingRunning, Alive, HasPid
<1> QED  BY <1>6, <1>7, <1>8, <1>9 DEF IInv

\* The quit timer preserves the invariant: it kills what is left.
LEMMA OnQuitTimeoutIInv ==
  ASSUME IInv, OnQuitTimeout
  PROVE  IInv'
<1> DEFINE freed == {i \in managed : ~HasPid(cmds[i])}
           kill(c) == [c EXCEPT !.signal = "kill"]
           next(i) == IF i \in managed \ freed THEN kill(cmds[i]) ELSE NewCommand
<1>1. /\ managed' = managed \ freed
      /\ cmds' = [i \in Ids |-> next(i)]
      /\ dangling' = (dangling \/ \E i \in managed : LeavesTimer(cmds[i]))
      /\ mode' = "quit"
      /\ UNCHANGED <<sigchld, wanted>>
  BY DEF OnQuitTimeout
<1>2. managed \subseteq Ids /\ \A i \in Ids : cmds[i] \in Command
  BY DEF IInv, TypeOK
<1>3. ASSUME NEW c \in Command
      PROVE  /\ kill(c) \in Command /\ kill(c).signal = "kill"
             /\ kill(c).should_be_stopped = c.should_be_stopped
  BY DEF Command
<1> HIDE DEF kill
<1>4. \A i \in Ids : /\ next(i) \in Command
                     /\ i \in managed \ freed =>
                          /\ next(i).should_be_stopped = cmds[i].should_be_stopped
                          /\ next(i).signal = "kill"
                     /\ i \notin managed \ freed => next(i) = NewCommand
  BY <1>2, <1>3, NewCommandType
<1>5. /\ cmds' \in [Ids -> Command]
      /\ \A i \in Ids : cmds'[i] = next(i)
  BY <1>1, <1>4
<1> HIDE DEF next
<1>6. TypeOK'
  BY <1>1, <1>2, <1>5 DEF IInv, TypeOK, Mode, LeavesTimer
<1>7. FreeIsBlank' /\ UnwantedIsStopped'
  BY <1>1, <1>2, <1>4, <1>5 DEF IInv, FreeIsBlank, UnwantedIsStopped
<1>8. EveryWarned' /\ QuitWarned' /\ ExitLeavesNothingRunning'
  <2>1. \A i \in Ids : cmds'[i].signal = "kill" \/ cmds'[i] = NewCommand
    BY <1>4, <1>5
  <2> QED  BY <1>1, <2>1, NewCommandIdle
              DEF EveryWarned, QuitWarned, ExitLeavesNothingRunning, Warned, HasPid, Alive
<1> QED  BY <1>6, <1>7, <1>8 DEF IInv

\* A source of a freed command preserves the invariant: no process changes.
LEMMA DanglingTimerIInv ==
  ASSUME IInv, NEW left \in BOOLEAN, NEW faults \in BOOLEAN,
         DanglingTimer(left, faults)
  PROVE  IInv'
<1>1. mode' \in {"running", "exiting", "crashed"} /\ (mode' = "exiting" => mode = "exiting")
  BY DEF DanglingTimer, Up
<1>2. UNCHANGED <<managed, cmds, sigchld, wanted>> /\ dangling' \in BOOLEAN
  BY DEF DanglingTimer
<1> QED
  BY <1>1, <1>2 DEF IInv, TypeOK, Mode, FreeIsBlank, UnwantedIsStopped, EveryWarned,
                    QuitWarned, ExitLeavesNothingRunning, Warned, HasPid

\* A process that exits, or that is past its stop_time_allowed, was warned if
\* it was warned before; a free entry has none.
LEMMA ChildExitsIInv ==
  ASSUME IInv, NEW i \in Ids, ChildExits(i)
  PROVE  IInv'
<1> DEFINE d == [cmds[i] EXCEPT !.child = "dead"]
<1>1. /\ Up /\ cmds[i].child = "alive" /\ cmds' = [cmds EXCEPT ![i] = d]
      /\ UNCHANGED <<managed, mode, wanted, dangling>> /\ sigchld' = TRUE
  BY DEF ChildExits, Alive
<1>2. i \in managed
  BY <1>1, NewCommandIdle DEF IInv, FreeIsBlank
<1>3. cmds[i] \in Command /\ Warned(cmds[i]) /\ HasPid(cmds[i])
  BY <1>1 DEF IInv, TypeOK, EveryWarned, HasPid
<1>4. /\ d \in Command /\ Warned(d)
      /\ d.should_be_stopped = cmds[i].should_be_stopped
      /\ d.signal = cmds[i].signal
  BY <1>3 DEF Command, Process, Warned, HasPid
<1> HIDE DEF d
<1>5. /\ i \notin wanted => d.should_be_stopped
      /\ mode = "exiting" /\ HasPid(d) => d.signal # "none"
      /\ sigchld' \in BOOLEAN /\ dangling' \in BOOLEAN
  BY <1>1, <1>2, <1>3, <1>4 DEF IInv, TypeOK, UnwantedIsStopped, QuitWarned
<1> QED  BY <1>1, <1>2, <1>4, <1>5, OneCommandStep

\* Time preserves the invariant: only a process that was warned has a clock.
LEMMA StopTimePassesIInv ==
  ASSUME IInv, NEW i \in Ids, StopTimePasses(i)
  PROVE  IInv'
<1> DEFINE d == [cmds[i] EXCEPT !.first_kill = "overdue"]
<1>1. /\ Up /\ cmds[i].first_kill = "recent" /\ cmds' = [cmds EXCEPT ![i] = d]
      /\ UNCHANGED <<managed, mode, sigchld, dangling, wanted>>
  BY DEF StopTimePasses
<1>2. i \in managed
  BY <1>1 DEF IInv, FreeIsBlank, NewCommand
<1>3. cmds[i] \in Command /\ Warned(cmds[i])
  BY DEF IInv, TypeOK, EveryWarned
<1>4. /\ d \in Command /\ Warned(d)
      /\ d.should_be_stopped = cmds[i].should_be_stopped
      /\ d.signal = cmds[i].signal /\ d.child = cmds[i].child
  BY <1>1, <1>3 DEF Command, Warned, HasPid
<1> HIDE DEF d
<1>5. /\ i \notin wanted => d.should_be_stopped
      /\ mode = "exiting" /\ HasPid(d) => d.signal # "none"
      /\ sigchld' \in BOOLEAN /\ dangling' \in BOOLEAN
  BY <1>1, <1>2, <1>4 DEF IInv, TypeOK, UnwantedIsStopped, QuitWarned, HasPid
<1> QED  BY <1>1, <1>2, <1>4, <1>5, OneCommandStep

\* Every step of the deputy or of its processes preserves the invariant.
LEMMA NextIInv == IInv /\ [Next]_vars => IInv'
<1> SUFFICES ASSUME IInv, [Next]_vars PROVE IInv'
  OBVIOUS
<1>1. CASE \E orders \in Orders, forks \in SUBSET Ids : HandleOrders(orders, forks)
  BY <1>1, HandleOrdersIInv
<1>2. CASE HandleSigchld
  BY <1>2, HandleSigchldIInv
<1>3. CASE HandleQuitSignal
  BY <1>3, HandleQuitSignalIInv
<1>4. CASE Timers
  BY <1>4, RespawnTimerIInv, StrayTimerIInv, DanglingTimerIInv, OnQuitTimeoutIInv DEF Timers
<1>5. CASE \E i \in Ids : ChildExits(i) \/ StopTimePasses(i)
  BY <1>5, ChildExitsIInv, StopTimePassesIInv
<1>6. CASE UNCHANGED vars
  BY <1>6 DEF vars, IInv, TypeOK, FreeIsBlank, UnwantedIsStopped, EveryWarned,
              QuitWarned, ExitLeavesNothingRunning, Warned, HasPid, Alive
<1> QED  BY <1>1, <1>2, <1>3, <1>4, <1>5, <1>6 DEF Next

-----------------------------------------------------------------------------
(* The theorems *)

\* The inductive invariant holds in every state the deputy reaches: free entries
\* are blank, unwanted commands are marked, and warnings precede kills.
THEOREM Invariance == Spec => []IInv
BY InitIInv, NextIInv, PTL DEF Spec

\* Every variable keeps its type, for every set of commands and every bound on
\* the run ids.
THEOREM TypeCorrect == Spec => []TypeOK
<1>1. IInv => TypeOK
  BY DEF IInv
<1> QED  BY <1>1, Invariance, PTL

\* A deputy that was asked to quit never leaves a process behind that it has
\* not sent SIGKILL, whatever happens between the signal and the end.
THEOREM QuitIsClean == Spec => []ExitLeavesNothingRunning
<1>1. IInv => ExitLeavesNothingRunning
  BY DEF IInv
<1> QED  BY <1>1, Invariance, PTL

\* What one step may do to the processes that live.
KeepsLiveRuns ==
  \A i \in Ids : Alive(i) =>
     /\ i \in managed'
     /\ HasPid(cmds'[i])
     /\ cmds'[i].actual_runid = cmds[i].actual_runid
     /\ cmds'[i].signal = "kill" => cmds[i].signal # "none"

\* Every live process belongs to a command on the list.
LEMMA AliveIsManaged == IInv => \A i \in Ids : Alive(i) => i \in managed
BY NewCommandIdle DEF IInv, FreeIsBlank, Alive

\* A handler that changes one command, as an operation on it may.
LEMMA OneCommandKeepsLiveRuns ==
  ASSUME IInv, NEW i \in managed, NEW d,
         cmds' = [cmds EXCEPT ![i] = d], UNCHANGED managed,
         KeepsRun(cmds[i], d)
  PROVE  KeepsLiveRuns
<1>1. \A j \in Ids : cmds'[j] = cmds[j] \/ (j = i /\ cmds'[j] = d)
  BY DEF IInv, TypeOK
<1>2. \A j \in Ids : KeepsRun(cmds[j], cmds'[j])
  BY <1>1 DEF IInv, EveryWarned, KeepsRun, HasPid
<1> QED  BY <1>2, AliveIsManaged DEF KeepsLiveRuns, KeepsRun, Alive, HasPid

\* No step renames, forgets, or kills unwarned the run of a live process.
LEMMA NextKeepsLiveRuns == IInv /\ [Next]_vars => KeepsLiveRuns
<1> SUFFICES ASSUME IInv, [Next]_vars PROVE KeepsLiveRuns
  OBVIOUS
<1>0. /\ managed \subseteq Ids
      /\ \A i \in Ids : /\ cmds[i] \in Command /\ Warned(cmds[i])
                        /\ Alive(i) => i \in managed
                        /\ KeepsRun(cmds[i], cmds[i])
  BY AliveIsManaged DEF IInv, TypeOK, EveryWarned, KeepsRun
<1>1. ASSUME NEW orders \in Orders, NEW forks \in SUBSET Ids, HandleOrders(orders, forks)
      PROVE  KeepsLiveRuns
  <2> SUFFICES ASSUME NEW i \in Ids, Alive(i)
               PROVE  /\ i \in managed'
                      /\ KeepsRun(cmds[i], cmds'[i])
    BY DEF KeepsLiveRuns, KeepsRun, Alive, HasPid
  <2>1. CASE i \in DOMAIN orders
    <3> DEFINE fork == i \in forks
    <3>1. i \in managed' /\ cmds'[i] = Obey(cmds[i], orders[i], fork)
      BY <1>1, <2>1 DEF HandleOrders
    <3>2. fork \in BOOLEAN /\ orders[i] \in Order
      BY <2>1, OrdersType
    <3> HIDE DEF fork
    <3>3. KeepsRun(cmds[i], Obey(cmds[i], orders[i], fork))
      BY <1>0, <3>2, ObeyFacts
    <3> QED  BY <3>1, <3>3
  <2>2. CASE i \notin DOMAIN orders
    <3>1. i \in managed /\ HasPid(cmds[i])
      BY <1>0 DEF Alive, HasPid
    <3>2. i \in managed' /\ cmds'[i] = RequestRemoval(cmds[i])
      BY <1>1, <2>2, <3>1 DEF HandleOrders
    <3>3. KeepsRun(cmds[i], RequestRemoval(cmds[i]))
      BY <1>0, RequestRemovalFacts
    <3> QED  BY <3>2, <3>3
  <2> QED  BY <2>1, <2>2
<1>2. CASE HandleSigchld
  <2>1. \A i \in Ids : Alive(i) => i \in managed' /\ cmds'[i] = cmds[i]
    BY <1>0, <1>2 DEF HandleSigchld, Exited, AllDead, Alive
  <2> QED  BY <1>0, <2>1 DEF KeepsLiveRuns, KeepsRun, Alive, HasPid
<1>3. CASE HandleQuitSignal
  <2> SUFFICES ASSUME NEW i \in Ids, Alive(i)
               PROVE  /\ i \in managed'
                      /\ KeepsRun(cmds[i], cmds'[i])
    BY DEF KeepsLiveRuns, KeepsRun, Alive, HasPid
  <2>1. /\ i \in managed'
        /\ \/ cmds'[i] = cmds[i]
           \/ cmds'[i] = [cmds[i] EXCEPT !.signal = "stop"]
    BY <1>0, <1>3 DEF HandleQuitSignal, AllDead
  <2> QED  BY <1>0, <2>1 DEF KeepsRun, Command
<1>4. CASE OnQuitTimeout
  <2> SUFFICES ASSUME NEW i \in Ids, Alive(i)
               PROVE  /\ i \in managed'
                      /\ KeepsRun(cmds[i], cmds'[i])
    BY DEF KeepsLiveRuns, KeepsRun, Alive, HasPid
  <2>1. i \in managed /\ HasPid(cmds[i])
    BY <1>0 DEF Alive, HasPid
  <2>2. i \in managed' /\ cmds'[i] = [cmds[i] EXCEPT !.signal = "kill"]
    BY <1>4, <2>1 DEF OnQuitTimeout
  <2>3. cmds[i].signal # "none"
    BY <1>4, <2>1 DEF IInv, QuitWarned, OnQuitTimeout
  <2> QED  BY <1>0, <2>2, <2>3 DEF KeepsRun, Command
<1>5. ASSUME NEW i \in Ids, NEW forks \in BOOLEAN, RespawnTimer(i, forks)
      PROVE  KeepsLiveRuns
  <2> DEFINE c == [cmds[i] EXCEPT !.timer = "stale"]
             d == Respawned(c, forks)
  <2>1. c \in Command /\ Warned(c) /\ (KeepsRun(c, d) => KeepsRun(cmds[i], d))
    BY <1>0 DEF Command, Warned, KeepsRun, HasPid
  <2>2. i \in managed /\ cmds' = [cmds EXCEPT ![i] = d] /\ UNCHANGED managed
    BY <1>5 DEF RespawnTimer
  <2> HIDE DEF c
  <2>3. KeepsRun(c, d)
    BY <2>1, RespawnedFacts
  <2> QED  BY <2>1, <2>2, <2>3, OneCommandKeepsLiveRuns
<1>6. ASSUME NEW i \in Ids, NEW left \in BOOLEAN, NEW forks \in BOOLEAN,
             StrayTimer(i, left, forks)
      PROVE  KeepsLiveRuns
  <2> DEFINE c == [cmds[i] EXCEPT !.stray = left]
             d == Respawned(c, forks)
  <2>1. c \in Command /\ Warned(c) /\ (KeepsRun(c, d) => KeepsRun(cmds[i], d))
    BY <1>0 DEF Command, Warned, KeepsRun, HasPid
  <2>2. i \in managed /\ cmds' = [cmds EXCEPT ![i] = d] /\ UNCHANGED managed
    BY <1>6 DEF StrayTimer
  <2> HIDE DEF c
  <2>3. KeepsRun(c, d)
    BY <2>1, RespawnedFacts
  <2> QED  BY <2>1, <2>2, <2>3, OneCommandKeepsLiveRuns
<1>7. CASE \/ \E left, faults \in BOOLEAN : DanglingTimer(left, faults)
           \/ UNCHANGED vars
  <2>1. UNCHANGED <<managed, cmds>>
    BY <1>7 DEF DanglingTimer, vars
  <2> QED  BY <1>0, <2>1 DEF KeepsLiveRuns, KeepsRun, Alive, HasPid
<1>8. ASSUME NEW i \in Ids, ChildExits(i) \/ StopTimePasses(i)
      PROVE  KeepsLiveRuns
  <2>1. /\ UNCHANGED managed
        /\ \A j \in Ids : /\ cmds'[j].signal = cmds[j].signal
                          /\ cmds'[j].actual_runid = cmds[j].actual_runid
                          /\ Alive(j) => HasPid(cmds'[j])
    BY <1>0, <1>8 DEF ChildExits, StopTimePasses, IInv, TypeOK, Command, Alive, HasPid
  <2> QED  BY <1>0, <2>1 DEF KeepsLiveRuns, KeepsRun, Alive, HasPid
<1> QED  BY <1>1, <1>2, <1>3, <1>4, <1>5, <1>6, <1>7, <1>8 DEF Next, Timers

\* While a process lives its command stays on the deputy's list under the run
\* id it was forked with.
THEOREM RunKept == Spec => RunKeepsItsRecord
<1>1. IInv /\ [Next]_vars =>
        [\A i \in Ids : Alive(i) =>
           /\ i \in managed'
           /\ HasPid(cmds'[i])
           /\ cmds'[i].actual_runid = cmds[i].actual_runid]_vars
  BY NextKeepsLiveRuns DEF KeepsLiveRuns
<1> QED  BY <1>1, Invariance, PTL DEF Spec, RunKeepsItsRecord

\* No process is sent SIGKILL before its stop signal.
THEOREM KillIsSecond == Spec => WarnedBeforeKilled
<1>1. IInv /\ [Next]_vars =>
        [\A i \in Ids :
           Alive(i) /\ cmds'[i].signal = "kill" => cmds[i].signal # "none"]_vars
  BY NextKeepsLiveRuns DEF KeepsLiveRuns
<1> QED  BY <1>1, Invariance, PTL DEF Spec, WarnedBeforeKilled

-----------------------------------------------------------------------------
(* The deputy implements the Supervisor *)

Running == {i \in Ids : Alive(i)}

\* A deputy that has just started is a supervisor that has just started.
LEMMA InitRefines == Init => Abstract!Init
BY DEF Init, Abstract!Init, Alive, NewCommand

\* A respawn source, late or not, launches its command only when it is wanted.
LEMMA RespawnRefines ==
  ASSUME IInv, NEW i \in managed, NEW c \in Command, NEW forks \in BOOLEAN,
         Warned(c), c.child = cmds[i].child,
         c.should_be_stopped = cmds[i].should_be_stopped,
         cmds' = [cmds EXCEPT ![i] = Respawned(c, forks)],
         UNCHANGED <<managed, mode, wanted>>
  PROVE  Abstract!Launch(i) \/ UNCHANGED Abstract!vars
<1> DEFINE d == Respawned(c, forks)
<1>1. /\ d \in Command /\ KeepsRun(c, d)
      /\ c.should_be_stopped => d = c
      /\ mode # "running" => d = c
  BY RespawnedFacts
<1> HIDE DEF d
<1>2. i \in Ids /\ \A j \in Ids : cmds'[j] = IF j = i THEN d ELSE cmds[j]
  BY DEF IInv, TypeOK, d
<1>3. \A j \in Ids : j # i => (Alive(j)' <=> Alive(j))
  BY <1>2 DEF Alive
<1>4. Alive(i)' <=> d.child = "alive"
  BY <1>2 DEF Alive
<1>5. Alive(i) => Alive(i)'
  BY <1>1, <1>4 DEF KeepsRun, HasPid, Alive
<1>6. CASE Alive(i)' <=> Alive(i)
  BY <1>3, <1>6 DEF Abstract!vars
<1>7. CASE Alive(i)' /\ ~Alive(i)
  <2>1. d # c
    BY <1>4, <1>7 DEF Alive
  <2>2. mode = "running" /\ i \in wanted
    BY <1>1, <2>1 DEF IInv, UnwantedIsStopped
  <2>3. Running' = Running \cup {i}
    BY <1>2, <1>3, <1>7 DEF Running
  <2> QED  BY <2>2, <2>3 DEF Abstract!Launch, Running
<1> QED  BY <1>5, <1>6, <1>7

\* Every step of the deputy is a step of the supervisor, or none.
LEMMA NextRefines == IInv /\ [Next]_vars => [Abstract!Next]_(Abstract!vars)
<1> SUFFICES ASSUME IInv, [Next]_vars
             PROVE  Abstract!Next \/ UNCHANGED Abstract!vars
  OBVIOUS
<1>0. /\ managed \subseteq Ids
      /\ \A i \in Ids : cmds[i] \in Command /\ Warned(cmds[i])
      /\ \A i \in Ids \ managed : cmds[i] = NewCommand
  BY DEF IInv, TypeOK, EveryWarned, FreeIsBlank
<1>1. ASSUME NEW orders \in Orders, NEW forks \in SUBSET Ids, HandleOrders(orders, forks)
      PROVE  Abstract!Next
  <2>1. /\ mode = "running" /\ UNCHANGED mode
        /\ wanted' = {i \in DOMAIN orders : ~orders[i].force_quit}
    BY <1>1 DEF HandleOrders
  <2>2. \A i \in Ids : Alive(i) => Alive(i)'
    <3> SUFFICES ASSUME NEW i \in Ids, Alive(i) PROVE cmds'[i].child = cmds[i].child
      BY DEF Alive
    <3>1. CASE i \in DOMAIN orders
      <4> DEFINE fork == i \in forks
      <4>1. cmds'[i] = Obey(cmds[i], orders[i], fork)
        BY <1>1, <3>1 DEF HandleOrders
      <4>2. fork \in BOOLEAN /\ orders[i] \in Order
        BY <3>1, OrdersType
      <4> HIDE DEF fork
      <4>3. KeepsRun(cmds[i], Obey(cmds[i], orders[i], fork))
        BY <1>0, <4>2, ObeyFacts
      <4> QED  BY <4>1, <4>3 DEF KeepsRun, Alive, HasPid
    <3>2. CASE i \notin DOMAIN orders
      <4>1. i \in managed /\ HasPid(cmds[i])
        BY <1>0, NewCommandIdle DEF Alive, HasPid
      <4>2. cmds'[i] = RequestRemoval(cmds[i])
        BY <1>1, <3>2, <4>1 DEF HandleOrders
      <4> QED  BY <1>0, <4>2, RequestRemovalFacts
    <3> QED  BY <3>1, <3>2
  <2>3. \A i \in Ids : Alive(i)' => Alive(i) \/ i \in wanted'
    <3> SUFFICES ASSUME NEW i \in Ids, Alive(i)', ~Alive(i) PROVE i \in wanted'
      OBVIOUS
    <3>1. CASE i \in DOMAIN orders
      <4> DEFINE fork == i \in forks
                 d    == Obey(cmds[i], orders[i], fork)
      <4>1. cmds'[i] = d
        BY <1>1, <3>1 DEF HandleOrders
      <4>2. fork \in BOOLEAN /\ orders[i] \in Order
        BY <3>1, OrdersType
      <4> HIDE DEF fork
      <4>3. /\ KeepsRun(cmds[i], d)
            /\ ~HasPid(cmds[i]) /\ HasPid(d) => ~orders[i].force_quit
        BY <1>0, <4>2, ObeyFacts
      <4> HIDE DEF d
      <4>4. ~HasPid(cmds[i]) /\ HasPid(d)
        BY <4>1, <4>3 DEF KeepsRun, Alive, HasPid
      <4> QED  BY <2>1, <3>1, <4>3, <4>4
    <3>2. CASE i \notin DOMAIN orders
      <4>1. cmds'[i] = NewCommand \/ cmds'[i] = RequestRemoval(cmds[i])
        BY <1>1, <3>2 DEF HandleOrders
      <4>2. RequestRemoval(cmds[i]).child = cmds[i].child
        BY <1>0, RequestRemovalFacts
      <4> QED  BY <4>1, <4>2, NewCommandIdle DEF Alive
    <3> QED  BY <3>1, <3>2
  <2>4. Running \subseteq Running' /\ Running' \subseteq Running \cup wanted'
    BY <2>2, <2>3 DEF Running
  <2>5. wanted' \in SUBSET Ids
    BY <2>1, OrdersType
  <2>6. Abstract!Ordered(wanted')
    BY <2>1, <2>4 DEF Abstract!Ordered, Running
  <2> QED  BY <2>5, <2>6 DEF Abstract!Next
<1>2. CASE HandleSigchld
  <2>1. /\ mode' = mode \/ (mode = "exiting" /\ mode' = "quit")
        /\ UNCHANGED wanted
    BY <1>2 DEF HandleSigchld, Exited, AllDead
  <2>2. \A i \in Ids : Alive(i)' <=> Alive(i)
    <3> SUFFICES ASSUME NEW i \in Ids
                 PROVE  cmds'[i].child = "alive" <=> cmds[i].child = "alive"
      BY DEF Alive
    <3>1. CASE i \in managed /\ cmds[i].child = "dead"
      <4>1. cmds'[i] = NewCommand \/ cmds'[i] = MaybeScheduleRespawn(Reaped(cmds[i]))
        BY <1>2, <3>1 DEF HandleSigchld, Exited, AllDead
      <4> QED  BY <1>0, <3>1, <4>1, ReapedFacts, NewCommandIdle
    <3>2. CASE ~(i \in managed /\ cmds[i].child = "dead")
      BY <1>2, <3>2 DEF HandleSigchld, Exited, AllDead
    <3> QED  BY <3>1, <3>2
  <2> QED  BY <2>1, <2>2 DEF Abstract!vars
<1>3. CASE HandleQuitSignal
  <2>1. mode' # "running" /\ UNCHANGED wanted
    BY <1>3 DEF HandleQuitSignal, AllDead
  <2>2. \A i \in Ids : Alive(i)' <=> Alive(i)
    BY <1>0, <1>3 DEF HandleQuitSignal, AllDead, Alive, Command
  <2> QED  BY <2>1, <2>2 DEF Abstract!vars, Abstract!Next, Abstract!Close
<1>4. CASE OnQuitTimeout
  <2>1. mode = "exiting" /\ mode' = "quit" /\ UNCHANGED wanted
    BY <1>4 DEF OnQuitTimeout
  <2>2. \A i \in Ids : Alive(i)' <=> Alive(i)
    BY <1>0, <1>4, NewCommandIdle DEF OnQuitTimeout, Alive, Command, HasPid
  <2> QED  BY <2>1, <2>2 DEF Abstract!vars
<1>5. ASSUME NEW i \in Ids, NEW forks \in BOOLEAN, RespawnTimer(i, forks)
      PROVE  Abstract!Next \/ UNCHANGED Abstract!vars
  <2> DEFINE c == [cmds[i] EXCEPT !.timer = "stale"]
  <2>1. /\ c \in Command /\ Warned(c) /\ c.child = cmds[i].child
        /\ c.should_be_stopped = cmds[i].should_be_stopped
    BY <1>0 DEF Command, Warned, HasPid
  <2>2. /\ i \in managed /\ cmds' = [cmds EXCEPT ![i] = Respawned(c, forks)]
        /\ UNCHANGED <<managed, mode, wanted>>
    BY <1>5 DEF RespawnTimer
  <2> HIDE DEF c
  <2>3. Abstract!Launch(i) \/ UNCHANGED Abstract!vars
    BY <2>1, <2>2, RespawnRefines
  <2> QED  BY <2>3 DEF Abstract!Next
<1>6. ASSUME NEW i \in Ids, NEW left \in BOOLEAN, NEW forks \in BOOLEAN,
             StrayTimer(i, left, forks)
      PROVE  Abstract!Next \/ UNCHANGED Abstract!vars
  <2> DEFINE c == [cmds[i] EXCEPT !.stray = left]
  <2>1. /\ c \in Command /\ Warned(c) /\ c.child = cmds[i].child
        /\ c.should_be_stopped = cmds[i].should_be_stopped
    BY <1>0 DEF Command, Warned, HasPid
  <2>2. /\ i \in managed /\ cmds' = [cmds EXCEPT ![i] = Respawned(c, forks)]
        /\ UNCHANGED <<managed, mode, wanted>>
    BY <1>6 DEF StrayTimer
  <2> HIDE DEF c
  <2>3. Abstract!Launch(i) \/ UNCHANGED Abstract!vars
    BY <2>1, <2>2, RespawnRefines
  <2> QED  BY <2>3 DEF Abstract!Next
<1>7. CASE \E left, faults \in BOOLEAN : DanglingTimer(left, faults)
  <2>1. UNCHANGED <<cmds, wanted>> /\ (mode' = mode \/ mode' = "crashed")
    BY <1>7 DEF DanglingTimer
  <2>2. \A i \in Ids : Alive(i)' <=> Alive(i)
    BY <2>1 DEF Alive
  <2> QED  BY <2>1, <2>2 DEF Abstract!vars, Abstract!Next, Abstract!Close
<1>8. ASSUME NEW i \in Ids, ChildExits(i)
      PROVE  Abstract!Next
  <2>1. UNCHANGED <<mode, wanted>> /\ \A j \in Ids : Alive(j)' <=> Alive(j) /\ j # i
    BY <1>0, <1>8 DEF ChildExits, Alive, IInv, TypeOK, Command
  <2>2. Abstract!Ends(i)
    BY <2>1 DEF Abstract!Ends
  <2> QED  BY <2>2 DEF Abstract!Next
<1>9. CASE (\E i \in Ids : StopTimePasses(i)) \/ UNCHANGED vars
  <2>1. UNCHANGED <<mode, wanted>> /\ \A j \in Ids : Alive(j)' <=> Alive(j)
    BY <1>0, <1>9 DEF StopTimePasses, Alive, IInv, TypeOK, Command, vars
  <2> QED  BY <2>1 DEF Abstract!vars
<1> QED  BY <1>1, <1>2, <1>3, <1>4, <1>5, <1>6, <1>7, <1>8, <1>9 DEF Next, Timers

\* A deputy forks only what its last orders want, and nothing once it has been
\* told to quit, however late its respawn timers fire.
THEOREM Refinement == Spec => ImplementsSupervisor
BY InitRefines, NextRefines, Invariance, PTL DEF Spec, ImplementsSupervisor, Abstract!Spec
====
