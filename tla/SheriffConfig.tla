---------------------------- MODULE SheriffConfig ----------------------------
(***************************************************************************)
(* Loading and saving the commands and scripts of a sheriff (sheriff.py),    *)
(* with the files of ConfigFile.  The commands are of several deputies, of     *)
(* which some have not been heard from.  The name of a group is the sequence   *)
(* of its parts; an empty part stands for a slash too many.                   *)
(***************************************************************************)
EXTENDS Naturals, FiniteSets, SequencesExt, BagsExt, ConfigFile

CONSTANTS
  Specs,            \* what users add: [deputy, exec, id, group, auto_respawn, stop_signal]
  Groups,           \* groups that users move a command to
  ScriptLists,      \* the scripts that users may have: functions from names to actions
  Files,            \* texts of files that were written by hand
  MaxOperations     \* bound: operations of users

VARIABLES
  commands,         \* the commands of all deputies, in the order in which they were added
  heard,            \* deputies that an info has come from
  scripts,          \* the scripts by name
  running,          \* whether there is an active script context
  file,             \* the file that was saved: its text, and what it was made from (history)
  operations        \* operations of users

vars == <<commands, heard, scripts, running, file, operations>>

DeputyNames == { spec.deputy : spec \in Specs }
Nothing == [commands |-> EmptyBag, scripts |-> << >>]

\* A command as add_command makes it of a SheriffCommandSpec.
NewCommand(spec) == spec @@ [scheduled_for_removal |-> FALSE]

Live == SelectSeq(commands, LAMBDA c : ~c.scheduled_for_removal)

\* _normalize_group_name
Normalized(group) == SelectSeq(group, LAMBDA part : part # "")

\* The group as text: what a file has of "a//b" is "a/b".
Base(c) == [deputy |-> c.deputy, exec |-> c.exec, id |-> c.id, auto_respawn |-> c.auto_respawn]
AsSaved(c) == Base(c) @@ [group |-> Normalized(c.group)]
AsListed(c) == Base(c) @@ [group |-> c.group]

BagOf(seq) == FoldLeft(LAMBDA bag, x : BagAdd(bag, x), EmptyBag, seq)
Each(seq, Op(_)) == [k \in DOMAIN seq |-> Op(seq[k])]

-----------------------------------------------------------------------------
(* Saving *)

ToNode(c) ==
  [NewNode EXCEPT !.exec = c.exec, !.host = c.deputy, !.nickname = c.id,
                  !.auto_respawn = IF c.auto_respawn THEN "true" ELSE ""]

\* get_group with create: a group and those that it is in.
Place(config, c) ==
  LET path == Normalized(c.group)
      Made == FoldLeft(LAMBDA conf, n : WithGroup(conf, SubSeq(path, 1, n)), config,
                       [n \in DOMAIN path |-> n])
  IN  WithCommand(Made, path, ToNode(c))

\* save_config: every command, also one that is to be removed; its signal is not written.
SaveConfig ==
  /\ file' = [text |-> ConfigText([FoldLeft(Place, NewConfig, commands) EXCEPT !.scripts = scripts]),
              saved |-> [commands |-> BagOf(Each(commands, AsSaved)), scripts |-> scripts]]
  /\ UNCHANGED <<commands, heard, scripts, running>>

-----------------------------------------------------------------------------
(* Loading *)

\* Defect: the groups that a group is in are left out.
ToSpecShort(entry) ==
  [deputy |-> entry.node.host, exec |-> entry.node.exec, id |-> entry.node.nickname,
   group |-> IF entry.path = << >> THEN << >> ELSE <<Last(entry.path)>>,
   auto_respawn |-> entry.node.auto_respawn \in {"true", "yes"},
   stop_signal |-> IF entry.node.stop_signal = 0 THEN 2 ELSE entry.node.stop_signal]

\* add_group_commands: the SheriffCommandSpec of a node.  2 is DEFAULT_STOP_SIGNAL.
ToSpec(entry) ==
  [deputy |-> entry.node.host, exec |-> entry.node.exec, id |-> entry.node.nickname,
   group |-> entry.path, auto_respawn |-> entry.node.auto_respawn \in {"true", "yes"},
   stop_signal |-> IF entry.node.stop_signal = 0 THEN 2 ELSE entry.node.stop_signal]

\* The commands of a group, then those of the groups in it.
RECURSIVE AllCommands(_, _)
AllCommands(config, path) ==
  LET subgroups == Subgroups(config, path)
  IN  InGroup(config, path)
        \o FlattenSeq([k \in DOMAIN subgroups |-> AllCommands(config, subgroups[k])])

\* What load_config is to add.  A command is known if one of the list, to be removed or
\* not, has the same deputy, text, id, group and auto_respawn.
ToAdd(config, merge) ==
  LET index == { AsListed(commands[k]) : k \in DOMAIN commands }
  IN  SelectSeq(Each(AllCommands(config, << >>), ToSpec),
                LAMBDA spec : ~(merge /\ AsListed(spec) \in index))

\* add_command takes no command without an id or a deputy.
IsValid(spec) == spec.id # "" /\ spec.deputy # ""

\* Commands are added up to the first that is not valid, which raises an exception.
Added(specs) ==
  LET bad == { k \in DOMAIN specs : ~IsValid(specs[k]) }
      n == IF bad = {} THEN Len(specs) ELSE (CHOOSE k \in bad : \A j \in bad : k <= j) - 1
  IN  [k \in 1..n |-> NewCommand(specs[k])]

\* What is left of the list once its commands were scheduled for removal, deputy by deputy
\* in any order.  At the first deputy that was not heard from, the first command is deleted
\* while the loop is in the dictionary, and the loop raises RuntimeError.
Without(k) == [j \in 1 .. Len(commands) - 1 |-> commands[IF j < k THEN j ELSE j + 1]]
Scheduled(list, deputies) ==
  Each(list, LAMBDA c : IF c.deputy \in deputies THEN [c EXCEPT !.scheduled_for_removal = TRUE]
                        ELSE c)
Unheard == { k \in DOMAIN commands : commands[k].deputy \notin heard }

RemoveAllFails ==
  \E k \in Unheard, before \in SUBSET heard :
    /\ \A j \in Unheard : commands[j].deputy = commands[k].deputy => k <= j
    /\ commands' = Scheduled(Without(k), before)
    /\ scripts' = << >>

\* The commands and, if no exception was raised, the scripts of the configuration.
AddFrom(list, config, merge) ==
  LET specs == ToAdd(config, merge)
  IN  /\ commands' = list \o Added(specs)
      /\ scripts' = IF Len(Added(specs)) = Len(specs) THEN config.scripts ELSE << >>

\* load_config.  It changes nothing if the file cannot be parsed, or if a script runs (unless
\* there is no script to be removed: then none runs).
LoadConfig(text, merge) ==
  LET result == Parse(text)
  IN  /\ IF ~result.ok \/ running THEN UNCHANGED <<commands, scripts>>
         ELSE IF merge THEN AddFrom(commands, result.val, TRUE)
         ELSE IF Unheard # {} THEN RemoveAllFails
         ELSE AddFrom(Scheduled(commands, heard), result.val, FALSE)
      /\ UNCHANGED <<heard, running, file>>

-----------------------------------------------------------------------------
(* Users and deputies *)

AddCommand ==
  /\ \E spec \in Specs : commands' = Append(commands, NewCommand(spec))
  /\ UNCHANGED <<heard, scripts, running, file>>

\* set_command_group
SetCommandGroup ==
  /\ \E k \in DOMAIN commands, group \in Groups :
       commands' = [commands EXCEPT ![k].group = Normalized(group)]
  /\ UNCHANGED <<heard, scripts, running, file>>

\* schedule_command_for_removal
ScheduleForRemoval ==
  /\ \E k \in DOMAIN commands :
       commands' = IF k \in Unheard THEN Without(k)
                   ELSE [commands EXCEPT ![k].scheduled_for_removal = TRUE]
  /\ UNCHANGED <<heard, scripts, running, file>>

\* An info that shows what the deputy was ordered.
ReceiveInfo(deputy) ==
  /\ heard' = heard \cup {deputy}
  /\ commands' = SelectSeq(commands, LAMBDA c : ~(c.deputy = deputy /\ c.scheduled_for_removal))
  /\ UNCHANGED <<scripts, running, file, operations>>

\* add_script, remove_script
ChangeScripts ==
  /\ ~running
  /\ scripts' \in ScriptLists
  /\ UNCHANGED <<commands, heard, running, file>>

\* execute_script, and its end
RunOrEnd ==
  /\ running' = ~running
  /\ running' => scripts # << >>
  /\ UNCHANGED <<commands, heard, scripts, file>>

Init ==
  /\ commands = << >> /\ heard = {} /\ scripts \in ScriptLists /\ running = FALSE
  /\ file = [text |-> << >>, saved |-> Nothing]
  /\ operations = 0

Texts == Files \cup {file.text}

Next ==
  \/ \E deputy \in DeputyNames : ReceiveInfo(deputy)
  \/ /\ operations < MaxOperations
     /\ operations' = operations + 1
     /\ \/ AddCommand \/ SetCommandGroup \/ ScheduleForRemoval \/ ChangeScripts \/ RunOrEnd
        \/ SaveConfig
        \/ \E text \in Texts, merge \in BOOLEAN : LoadConfig(text, merge)

Spec == Init /\ [][Next]_vars

-----------------------------------------------------------------------------
(* Properties *)

\* A file that has no name which the parser does not take.
IsPlain(saved) ==
  \A c \in BagToSet(saved.commands) :
    /\ c.id \notin Slashed
    /\ ToSet(c.group) \cap (Quoted \cup Slashed \cup Blank) = {}

\* What was saved is there again when it has been loaded, in its groups and as often, with the
\* scripts; and a merge leaves the list and adds what it lacks.  A load does nothing while a
\* script runs, and fails over commands of a deputy that was not heard from (save_config,
\* load_config).
LoadsWhatWasSaved ==
  [][ \A merge \in BOOLEAN :
        LoadConfig(file.text, merge) /\ IsPlain(file.saved) /\ ~running =>
          \/ ~merge /\ Unheard # {}
          \/ /\ scripts' = file.saved.scripts
             /\ IF merge
                THEN /\ IsPrefix(commands, commands')
                     /\ \A c \in BagToSet(file.saved.commands) :
                          \E k \in DOMAIN commands' : AsSaved(commands'[k]) = c
                ELSE BagOf(Each(Live', AsSaved)) = file.saved.commands ]_vars
=============================================================================
