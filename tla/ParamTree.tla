----------------------------- MODULE ParamTree -----------------------------
(***************************************************************************)
(* The tree of parameters of bot2-param (param_internal.c): named elements, *)
(* each a container of others or an array of values.  An element is known  *)
(* by its path, the sequence of names that a key "a.b.c" spells.  The order *)
(* of siblings is left out.                                                *)
(***************************************************************************)
EXTENDS Naturals, Sequences, FiniteSets, SequencesExt, FiniteSetsExt, Functions

Container == [type |-> "container", values |-> <<>>]
EmptyArray == [type |-> "array", values |-> <<>>]

\* _bot_param_new: a root that has no children.
NewParam == << >>

Ancestors(path) == { SubSeq(path, 1, n) : n \in 1..Len(path) - 1 }

\* find_key without inheritance is membership in the tree.  With it, a last name
\* that its container lacks is looked for in the containers above.
FindKey(tree, path) ==
  LET homes == { n \in 0..Len(path) - 1 :
                   Append(SubSeq(path, 1, n), Last(path)) \in DOMAIN tree }
  IN  IF Ancestors(path) \subseteq DOMAIN tree /\ homes # {}
      THEN Append(SubSeq(path, 1, Max(homes)), Last(path))
      ELSE << >>

\* bot_param_get_str and its kin: the first value of an array, or failure.
GetStr(tree, path) ==
  LET found == FindKey(tree, path)
  IN  IF found # << >> /\ tree[found].type = "array" /\ tree[found].values # << >>
      THEN Head(tree[found].values)
      ELSE "none"

\* create_key: what is missing on the way becomes a container, and what is found
\* there stays as it is, be it an array.
CreateKey(tree, path) ==
  [ p \in DOMAIN tree \cup Ancestors(path) \cup {path} |->
      IF p \in DOMAIN tree THEN tree[p]
      ELSE IF p = path THEN EmptyArray ELSE Container ]

\* set_value fails on a container and replaces the first value of an array.
CanSet(tree, path) == path \in DOMAIN tree => tree[path].type = "array"

SetStr(tree, path, value) ==
  LET values == CreateKey(tree, path)[path].values
  IN  [ CreateKey(tree, path) EXCEPT ![path] =
          [ type   |-> "array",
            values |-> [ n \in {1} \cup DOMAIN values |-> IF n = 1 THEN value ELSE values[n] ] ] ]

\* A statement of a parameter file: its path, and the values assigned to it or
\* that it opens a container.  A container comes before what is in it.
Assign(path, values) == [path |-> path, type |-> "array", values |-> values]
Open(path) == [path |-> path, type |-> "container", values |-> << >>]

\* parse_container and parse_right_side: an element that is there already is
\* taken again, its values are appended to, and its type is the last one given.
ParseStatement(tree, statement) ==
  LET before == IF statement.path \in DOMAIN tree
                THEN tree[statement.path].values ELSE << >>
  IN  [ p \in DOMAIN tree \cup {statement.path} |->
          IF p = statement.path
          THEN [type |-> statement.type, values |-> before \o statement.values]
          ELSE tree[p] ]

NewFromString(statements) == FoldLeft(ParseStatement, NewParam, statements)

\* Defect: only the arrays are written.
WrittenArrays(tree) == { p \in DOMAIN tree : tree[p].type = "array" }

\* bot_param_write: the children of a container and the values of an array.  What
\* hangs below an array is not written.  A container comes before what is in it.
WrittenPaths(tree) ==
  { p \in DOMAIN tree : \A q \in Ancestors(p) : tree[q].type = "container" }

Write(tree) ==
  LET statements == { IF tree[p].type = "array" THEN Assign(p, tree[p].values) ELSE Open(p)
                        : p \in WrittenPaths(tree) }
  IN  CHOOSE text \in SetToSeqs(statements) :
        \A j, k \in DOMAIN text : j < k => Len(text[j].path) <= Len(text[k].path)
=============================================================================
