----------------------------- MODULE Supervisor -----------------------------
(***************************************************************************)
(* What a deputy promises, with none of its machinery: it runs nothing     *)
(* that the last orders do not want to run, and it launches nothing once   *)
(* it has begun to close down.                                             *)
(***************************************************************************)
CONSTANT Ids

VARIABLES
  wanted,     \* the commands that the last orders want to run
  running,    \* the commands that have a live process
  closing     \* the supervisor has begun to close down

vars == <<wanted, running, closing>>

Init ==
  /\ wanted = {}
  /\ running = {}
  /\ closing = FALSE

\* New orders; some of the commands they want may be launched at once.
Ordered(W) ==
  /\ ~closing
  /\ wanted' = W
  /\ running \subseteq running'
  /\ running' \subseteq running \cup W
  /\ UNCHANGED closing

Launch(i) ==
  /\ ~closing
  /\ i \in wanted
  /\ running' = running \cup {i}
  /\ UNCHANGED <<wanted, closing>>

Ends(i) ==
  /\ running' = running \ {i}
  /\ UNCHANGED <<wanted, closing>>

Close ==
  /\ ~closing
  /\ closing' = TRUE
  /\ UNCHANGED <<wanted, running>>

Next ==
  \/ \E W \in SUBSET Ids : Ordered(W)
  \/ \E i \in Ids : Launch(i) \/ Ends(i)
  \/ Close

Spec == Init /\ [][Next]_vars
====
