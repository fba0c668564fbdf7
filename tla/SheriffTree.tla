----------------------------- MODULE SheriffTree -----------------------------
(***************************************************************************)
(* The table of commands in the sheriff's window (command_model.py): a tree *)
(* in which every command is a row under the rows of its groups, brought    *)
(* up to date from the sheriff every second and after each event.  Rows are *)
(* kept sorted by name, and a reference to a row follows it until it is     *)
(* removed.  An exception leaves the table as it is at that point.          *)
(***************************************************************************)
EXTENDS Integers, Sequences, FiniteSets, TLC, SequencesExt, FiniteSetsExt

CONSTANTS
  Commands,
  Ids,              \* what commands may be called; names are numbers, as they are only sorted
  Groups,           \* groups, each the sequence of its names; two levels at most
  MaxEdits          \* bound: changes

VARIABLES
  commands,         \* commands[cmd] = [id, group], of the sheriff
  rows,             \* rows[row] = [parent, id]: a row is a command or a group
  group_row_references,   \* for the groups that were made, whether the reference is valid
  edits,            \* number of changes
  repopulated,      \* how often the table was brought up to date since, up to 2
  confused          \* whether a command was ever given an id and a group in between (history)

vars == <<commands, rows, group_row_references, edits, repopulated, confused>>

Top == << >>        \* the parent of what is in no group

IsGroup(row) == row \notin Commands

-----------------------------------------------------------------------------
(* The tree. *)

Children(tree, parent) ==
  SetToSortSeq({ row \in DOMAIN tree : tree[row].parent = parent },
               LAMBDA r, s : tree[r].id < tree[s].id)

RECURSIVE Walked(_, _)
Walked(tree, parent) ==
  FoldLeft(LAMBDA w, row : Append(w, row) \o IF IsGroup(row) THEN Walked(tree, row) ELSE << >>,
           << >>, Children(tree, parent))

Below(tree, row) == {row} \cup IF IsGroup(row) THEN Range(Walked(tree, row)) ELSE {}

\* What repopulate works on: rows that are removed make their references invalid.
Start == [rows |-> rows, refs |-> group_row_references, gone |-> {}, to_reparent |-> << >>,
          failed |-> FALSE]

Failed(w) == [w EXCEPT !.failed = TRUE]

Removed(w, row) ==
  LET removed == Below(w.rows, row)
  IN  [w EXCEPT !.rows = [r \in DOMAIN @ \ removed |-> @[r]],
                !.refs = [g \in DOMAIN @ |-> @[g] /\ g \notin removed],
                !.gone = @ \cup removed]

Appended(w, row, parent, id) ==
  [w EXCEPT !.rows = (row :> [parent |-> parent, id |-> id]) @@ @]

IsValid(w, group) == group = Top \/ w.refs[group]

\* _find_or_make_group_row_reference: the groups that are not known, from the outermost.
FindOrMake(w, group) ==
  LET known == Max({0} \cup { n \in DOMAIN group : SubSeq(group, 1, n) \in DOMAIN w.refs })
      Make(v, n) ==
        LET g == SubSeq(group, 1, n)
        IN  IF v.failed \/ ~IsValid(v, Front(g)) THEN Failed(v)
            ELSE [Appended(v, g, Front(g), Last(g)) EXCEPT !.refs = (g :> TRUE) @@ @]
  IN  FoldLeft(Make, w, [n \in 1 .. Len(group) - known |-> known + n])

-----------------------------------------------------------------------------
(* Steps of repopulate. *)

\* _update_cmd_row: the row is referred to again by the place that it had before its new
\* id was set, where another row of the same parent may be by now.
UpdateCmdRow(w, cmd) ==
  LET parent == w.rows[cmd].parent
      place == CHOOSE n \in DOMAIN Children(w.rows, parent) : Children(w.rows, parent)[n] = cmd
      set == [w EXCEPT !.rows[cmd].id = commands[cmd].id]
      row == Children(set.rows, parent)[place]
      made == FindOrMake(set, commands[cmd].group)
      correct == IF IsValid(made, commands[cmd].group) THEN commands[cmd].group ELSE Top
  IN  CASE w.failed -> w
        [] made.failed -> made
        [] correct = parent -> made
        [] OTHER -> [made EXCEPT !.to_reparent =
                       Append(@, [row |-> row, parent |-> commands[cmd].group])]

\* The row is removed, with all below it, and put where it should be as a new one.
Reparent(w, move) ==
  CASE w.failed \/ move.row \in w.gone -> Failed(w)
    [] OTHER ->
       LET removed == Removed(w, move.row)
       IN  IF IsValid(removed, move.parent)
           THEN Appended(removed, move.row, move.parent, w.rows[move.row].id)
           ELSE Failed(removed)

RemoveRow(w, cmd) ==
  IF w.failed \/ cmd \in w.gone THEN Failed(w) ELSE Removed(w, cmd)

\* Groups without children, one level of them at a time.
WithoutLonelyGroups(w) ==
  LET lonely == { row \in DOMAIN w.rows : IsGroup(row) /\ Children(w.rows, row) = << >> }
  IN  IF w.failed THEN w
      ELSE [w EXCEPT !.rows = [r \in DOMAIN @ \ lonely |-> @[r]],
                     !.refs = [g \in DOMAIN @ \ lonely |-> @[g]]]

AddRow(w, cmd) ==
  LET made == FindOrMake(w, commands[cmd].group)
  IN  IF w.failed \/ made.failed \/ ~IsValid(made, commands[cmd].group) THEN Failed(made)
      ELSE Appended(made, cmd, commands[cmd].group, commands[cmd].id)

Repopulated(new) ==
  LET walked == SelectSeq(Walked(rows, Top), LAMBDA row : ~IsGroup(row))
      to_update == SelectSeq(walked, LAMBDA cmd : cmd \in DOMAIN commands)
      to_remove == SelectSeq(walked, LAMBDA cmd : cmd \notin DOMAIN commands)
      updated == FoldLeft(UpdateCmdRow, Start, to_update)
      reparented == FoldLeft(Reparent, updated, updated.to_reparent)
      removed == FoldLeft(RemoveRow, reparented, to_remove)
  IN  FoldLeft(AddRow, WithoutLonelyGroups(removed), new)

\* Commands that have no row are added in the order of a set.
Repopulate ==
  \E new \in SetToAllKPermutations(DOMAIN commands \ DOMAIN rows) :
    /\ Len(new) = Cardinality(DOMAIN commands \ DOMAIN rows)
    /\ rows' = Repopulated(new).rows
    /\ group_row_references' = Repopulated(new).refs
    /\ repopulated' = Min({repopulated + 1, 2})
    /\ confused' = (confused \/ \E cmd \in DOMAIN commands \cap DOMAIN rows :
                                 /\ rows[cmd].id # commands[cmd].id
                                 /\ rows[cmd].parent # commands[cmd].group)
    /\ UNCHANGED <<commands, edits>>

-----------------------------------------------------------------------------
(* The sheriff. *)

Init ==
  /\ commands \in { c \in [Commands -> [id : Ids, group : Groups]] :
                      \A x, y \in Commands : x # y => c[x].id # c[y].id }
  /\ rows = << >> /\ group_row_references = << >>
  /\ edits = 0 /\ repopulated = 0 /\ confused = FALSE

Changes ==
  /\ edits < MaxEdits /\ edits' = edits + 1 /\ repopulated' = 0
  /\ UNCHANGED <<rows, group_row_references, confused>>

\* The dialog for a command; no two commands have one id.
Edit(cmd, id, group) ==
  /\ Changes
  /\ commands[cmd] # [id |-> id, group |-> group]
  /\ \A other \in DOMAIN commands \ {cmd} : commands[other].id # id
  /\ commands' = [commands EXCEPT ![cmd] = [id |-> id, group |-> group]]

\* A command that is added is another one than any whose row is still there.
AddCommand(cmd, id, group) ==
  /\ Changes
  /\ cmd \notin DOMAIN rows /\ \A other \in DOMAIN commands : commands[other].id # id
  /\ commands' = (cmd :> [id |-> id, group |-> group]) @@ commands

RemoveCommand(cmd) ==
  /\ Changes
  /\ commands' = [c \in DOMAIN commands \ {cmd} |-> commands[c]]

Next ==
  \/ \E cmd \in DOMAIN commands, id \in Ids, group \in Groups : Edit(cmd, id, group)
  \/ \E cmd \in Commands \ DOMAIN commands, id \in Ids, group \in Groups :
       AddCommand(cmd, id, group)
  \/ \E cmd \in DOMAIN commands : RemoveCommand(cmd)
  \/ Repopulate

Spec == Init /\ [][Next]_vars

-----------------------------------------------------------------------------
(* Properties. *)

\* The groups of the commands, with the groups that these are in.
GroupsShown ==
  UNION { { SubSeq(commands[cmd].group, 1, n) : n \in DOMAIN commands[cmd].group }
          : cmd \in DOMAIN commands }

\* The table shows each command under its group and id, and the groups that have
\* commands, once it was brought up to date for each of two levels of groups, whatever
\* changed before (repopulate).  A command whose id and group both changed in between is the
\* exception: another row may be moved in its place, a group with all its commands among
\* them, and every later attempt to show these fails.
ShowsTheCommands ==
  repopulated = 2 /\ ~confused =>
    /\ DOMAIN rows = DOMAIN commands \cup GroupsShown
    /\ \A row \in DOMAIN rows :
         rows[row] = IF IsGroup(row) THEN [parent |-> Front(row), id |-> Last(row)]
                     ELSE [parent |-> commands[row].group, id |-> commands[row].id]
=============================================================================
