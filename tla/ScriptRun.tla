----------------------------- MODULE ScriptRun -----------------------------
(***************************************************************************)
(* What running a script means: its actions, with those of the scripts     *)
(* that it runs in their place, are performed one after another, each of   *)
(* them once, until the list ends or the script is aborted.                *)
(***************************************************************************)
EXTENDS Naturals, Sequences

CONSTANT Lists      \* the lists of actions that scripts stand for

VARIABLES
  active,           \* a script is being executed
  performed,        \* the actions that it has performed
  todo,             \* the actions that are left
  outcome,          \* how the last script ended
  begun             \* how often a script was executed

vars == <<active, performed, todo, outcome, begun>>

Init == active = FALSE /\ performed = <<>> /\ todo = <<>> /\ outcome = "none" /\ begun = 0

End(how) ==
  /\ active' = FALSE /\ performed' = <<>> /\ todo' = <<>>
  /\ outcome' = how

\* A script starts with its first action; the one before it is aborted.  One
\* that has errors is refused.
Begin(list) ==
  /\ begun' = begun + 1
  /\ \/ End("aborted")
     \/ list = <<>> /\ End("finished")
     \/ /\ list # <<>>
        /\ active' = TRUE /\ outcome' = "none"
        /\ performed' = <<Head(list)>> /\ todo' = Tail(list)

Perform ==
  /\ active /\ todo # <<>>
  /\ performed' = Append(performed, Head(todo))
  /\ todo' = Tail(todo)
  /\ UNCHANGED <<active, outcome, begun>>

Finish == active /\ todo = <<>> /\ End("finished") /\ UNCHANGED begun

Abort == active /\ End("aborted") /\ UNCHANGED begun

Next == (\E list \in Lists : Begin(list)) \/ Perform \/ Finish \/ Abort

Spec == Init /\ [][Next]_vars
====
