----------------------------- MODULE MCProcman -----------------------------
(* Instances of the sheriff and its deputy.  One command with two messages  *)
(* under way each way shows every race between users, orders, processes and *)
(* infos; two commands that look alike show what a sheriff that restarts    *)
(* makes of the commands that it finds running.                             *)
EXTENDS Procman, TLC

\* The commands of a model look alike.
SameText == [i \in Ids |-> "command"]

Symmetry == Permutations(Ids)

\* Users add commands and start them once.
OnlyStarted == \A i \in Ids : fate[i] \in {"unused", "used"}
====
