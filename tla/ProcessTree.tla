---------------------------- MODULE ProcessTree ----------------------------
(***************************************************************************)
(* The processes of a command: the deputy signals the one that it started    *)
(* and its descendants (procman_kill_cmd), which it finds by reading /proc,    *)
(* one process after the other, while they go on (procinfo.c).  When its own    *)
(* child has ended it kills those of the descendants that were left behind      *)
(* (procman_check_for_dead_children).                                        *)
(***************************************************************************)
EXTENDS Integers, Sequences, FiniteSets, TLC, SequencesExt, FiniteSetsExt

CONSTANTS
  Machines,         \* [pids: the numbers of processes, 1 for init; blank: those whose names have
                    \*  a blank in them; last: given last; forks: bound on processes]
  Kill,             \* SIGKILL; another signal need not end a process
  Signals,          \* those that the deputy sends to a command
  MaxSignals        \* bound: how often

Initd == 1          \* adopts the children of those that end

VARIABLES
  machine,
  procs,            \* procs[q]: the process q, with what /proc tells of it
  last_pid,         \* the number that was given last
  pid,              \* the child of the deputy, 0 if there is none
  zombie,           \* whether it has ended
  descendants_to_kill,
  doing,            \* what the deputy is in the middle of
  killed,           \* killed[q]: the run of the command for which q was killed
  runs, forks, signals,
  seen,             \* descendants that stayed where they were while they were read (history)
  orphans           \* of these, those left behind when the child was reaped (history)

vars == <<machine, procs, last_pid, pid, zombie, descendants_to_kill, doing, killed, runs,
          forks, signals,
          seen, orphans>>

\* A process has a parent, a session (and process group in it), and descends from a run of the
\* command, or from none.
Process(parent, session, run) == [parent |-> parent, session |-> session, run |-> run]
Idle == [what |-> "idle", taken |-> {}]

Init ==
  /\ machine \in Machines
  /\ procs = [q \in {Initd} |-> Process(0, Initd, 0)] /\ last_pid = machine.last
  /\ pid = 0 /\ zombie = FALSE /\ descendants_to_kill = << >> /\ doing = Idle
  /\ killed = << >> /\ runs = 0 /\ forks = 0 /\ signals = 0 /\ seen = {} /\ orphans = {}

-----------------------------------------------------------------------------
(* Processes. *)

With(f, q, x) == [r \in DOMAIN f \cup {q} |-> IF r = q THEN x ELSE f[r]]
Without(f, q) == [r \in DOMAIN f \ {q} |-> f[r]]

\* A number is not given again while a session has it, and not so soon that the deputy, in the
\* middle of something, would take the one process for the other.
FreePids ==
  machine.pids \ (DOMAIN procs \cup { procs[q].session : q \in DOMAIN procs } \cup doing.taken)
NextPid ==
  LET later == { q \in FreePids : q > last_pid }
  IN  IF later # {} THEN Min(later) ELSE Min(FreePids)
New(q, process) ==
  /\ forks < machine.forks /\ forks' = forks + 1
  /\ last_pid' = q
  /\ procs' = With(procs, q, process)
  /\ doing' = [doing EXCEPT !.taken = IF doing = Idle THEN {} ELSE @ \cup {q}]

\* A process starts another, in its session or as one of its own.
Fork ==
  /\ FreePids # {}
  /\ \E parent \in DOMAIN procs, leaves \in BOOLEAN :
       /\ ~(zombie /\ parent = pid)
       /\ New(NextPid, Process(parent, IF leaves THEN NextPid ELSE procs[parent].session,
                               procs[parent].run))
  /\ UNCHANGED <<machine, pid, zombie, descendants_to_kill, killed, runs, signals, seen, orphans>>

\* A process ends; init has its children, and what was its own parent reaps it.
Adopted(q) ==
  [r \in DOMAIN procs |->
    [procs[r] EXCEPT !.parent = IF @ = q THEN Initd ELSE @]]
Ends ==
  /\ \E q \in DOMAIN procs \ {Initd} :
       /\ ~(zombie /\ q = pid)
       /\ zombie' = (zombie \/ q = pid)
       /\ procs' = IF q = pid THEN Adopted(q) ELSE Without(Adopted(q), q)
       /\ killed' = Without(killed, q)
       /\ seen' = seen \ {q} /\ orphans' = orphans \ {q}
  /\ UNCHANGED <<machine, last_pid, pid, descendants_to_kill, doing, runs, forks, signals>>

-----------------------------------------------------------------------------
(* The deputy. *)

\* procman_start_cmd: the child leads a session of its own.
Start ==
  /\ doing = Idle /\ pid = 0 /\ FreePids # {}
  /\ New(NextPid, Process(0, NextPid, runs + 1))
  /\ pid' = NextPid
  /\ runs' = runs + 1 /\ zombie' = FALSE /\ orphans' = {}
  /\ UNCHANGED <<machine, descendants_to_kill, killed, signals, seen>>

\* procman_kill_cmd asks for the descendants of the child.
KillCmd ==
  /\ doing = Idle /\ pid # 0
  /\ signals < MaxSignals /\ signals' = signals + 1
  /\ \E signum \in Signals :
       doing' = [what |-> "read", signum |-> signum, last |-> 0, children |-> << >>,
                 before |-> procs, taken |-> DOMAIN procs]
  /\ UNCHANGED <<machine, procs, last_pid, pid, zombie, descendants_to_kill, killed, runs,
                 forks, seen, orphans>>

\* pid_info_new cannot make out the line of a process with a blank in its name.
IsRead(q) == q \in DOMAIN procs \ machine.blank

\* get_all_pids_and_ppids takes the next process.  Its parent hears of it if it was read before.
ReadNext ==
  /\ doing.what = "read"
  /\ \E q \in DOMAIN procs :
       /\ q > doing.last /\ \A r \in DOMAIN procs : r > doing.last => r >= q
       /\ doing' =
            [doing EXCEPT
               !.last = q,
               !.children =
                 IF ~IsRead(q) THEN @
                 ELSE With([r \in DOMAIN @ |-> IF r = procs[q].parent THEN Append(@[r], q)
                                               ELSE @[r]], q, << >>)]
  /\ UNCHANGED <<machine, procs, last_pid, pid, zombie, descendants_to_kill, killed, runs,
                 forks, signals, seen, orphans>>

\* pid_info_get_descendants: a process before its own children.
Descendants(children, root) ==
  LET below[q \in machine.pids] ==
        IF q \notin DOMAIN children THEN << >>
        ELSE FlattenSeq([k \in DOMAIN children[q] |-> <<children[q][k]>> \o below[children[q][k]]])
  IN  below[root]

\* Descendants of the child that could be read and kept their parents since the reading began.
Stayed ==
  LET linked == { link \in machine.pids \X machine.pids :
                    /\ link[1] < link[2] /\ IsRead(link[1]) /\ IsRead(link[2])
                    /\ link[2] \in DOMAIN doing.before
                    /\ procs[link[2]].parent = link[1]
                    /\ doing.before[link[2]].parent = link[1] }
      Closer(found) == found \cup { link[2] : link \in { l \in linked : l[1] \in found } }
  IN  FoldLeft(LAMBDA found, n : Closer(found), {pid}, [n \in 1..Cardinality(machine.pids) |-> n])
        \ {pid}

Sent(q, signum) ==
  IF signum = Kill /\ q \in DOMAIN procs THEN With(killed, q, runs) ELSE killed

\* All are read: the child is signalled first.
SignalChild ==
  /\ doing.what = "read" /\ \A q \in DOMAIN procs : q <= doing.last
  /\ doing' = [what |-> "signal", signum |-> doing.signum, taken |-> doing.taken,
               list |-> Descendants(doing.children, pid)]
  /\ killed' = Sent(pid, doing.signum)
  /\ seen' = seen \cup Stayed
  /\ UNCHANGED <<machine, procs, last_pid, pid, zombie, descendants_to_kill, runs, forks,
                 signals, orphans>>

\* Then its descendants, which are to be killed when the child has ended.
SignalDescendant ==
  /\ doing.what = "signal" /\ doing.list # << >>
  /\ LET q == Head(doing.list)
     IN  /\ killed' = Sent(q, doing.signum)
         /\ descendants_to_kill' =
              IF q \in Range(descendants_to_kill) THEN descendants_to_kill
              ELSE Append(descendants_to_kill, q)
  /\ doing' = [doing EXCEPT !.list = Tail(@)]
  /\ UNCHANGED <<machine, procs, last_pid, pid, zombie, runs, forks, signals, seen, orphans>>

\* procman_check_for_dead_children.  What is to be killed is not forgotten.
Reap ==
  /\ doing = Idle /\ zombie
  /\ doing' = [what |-> "reap", child |-> pid, list |-> descendants_to_kill,
               taken |-> DOMAIN procs]
  /\ orphans' = { q \in seen : procs[q].parent = Initd /\ procs[q].session = pid }
  /\ procs' = Without(procs, pid) /\ killed' = Without(killed, pid)
  /\ pid' = 0 /\ zombie' = FALSE
  /\ UNCHANGED <<machine, last_pid, descendants_to_kill, runs, forks, signals, seen>>

\* Defect: anything that init has is killed.
IsOrphan(q, child) == IsRead(q) /\ procs[q].parent = Initd

\* procinfo_is_orphaned_child_of: by its session.
IsOrphanedChildOf(q, child) ==
  IsRead(q) /\ procs[q].parent = Initd /\ procs[q].session = child

CheckOrphan ==
  /\ doing.what = "reap" /\ doing.list # << >>
  /\ LET q == Head(doing.list)
     IN  killed' = IF IsOrphanedChildOf(q, doing.child) THEN Sent(q, Kill) ELSE killed
  /\ doing' = [doing EXCEPT !.list = Tail(@)]
  /\ UNCHANGED <<machine, procs, last_pid, pid, zombie, descendants_to_kill, runs, forks,
                 signals, seen, orphans>>

Done ==
  /\ doing.what \in {"signal", "reap"} /\ doing.list = << >>
  /\ doing' = Idle
  /\ UNCHANGED <<machine, procs, last_pid, pid, zombie, descendants_to_kill, killed, runs,
                 forks, signals, seen, orphans>>

Next ==
  \/ Fork \/ Ends
  \/ Start \/ KillCmd \/ ReadNext \/ SignalChild \/ SignalDescendant
  \/ Reap \/ CheckOrphan \/ Done

Spec == Init /\ [][Next]_vars

-----------------------------------------------------------------------------
(* Properties. *)

\* Only processes of a command are killed for it, those of the run that is over or is to end,
\* although descendants of earlier runs stay in the list and their numbers come again
\* (procinfo_is_orphaned_child_of).
KillsItsOwn == \A q \in DOMAIN killed : procs[q].run = killed[q]

\* When a command has ended, none is left of its descendants that were there when it was signalled,
\* unless they are told to end: those that init has by then, in the session of the command
\* (procinfo_get_descendants, procman_check_for_dead_children).
NoOrphanIsLeft ==
  doing.what # "reap" => orphans \subseteq DOMAIN killed
=============================================================================
