---------------------------- MODULE ParamCopies ----------------------------
(***************************************************************************)
(* What the parameter server promises to its clients: whoever has           *)
(* parameters has the parameters of one server as they were at one moment,  *)
(* and, as long as it follows that server, never goes back to earlier ones. *)
(***************************************************************************)
EXTENDS Naturals, Sequences, SequencesExt

CONSTANTS Servers, Clients, Nothing

VARIABLES
  states,       \* the parameters that each server has had, oldest first
  copies        \* which of them each client has: a server and a position, or Nothing

vars == <<states, copies>>

Init == states = [s \in Servers |-> << >>] /\ copies = [c \in Clients |-> Nothing]

\* A server starts, or its parameters are changed, once or several times.
Change(s) ==
  /\ IsStrictPrefix(states[s], states'[s])
  /\ states' = [states EXCEPT ![s] = states'[s]]
  /\ UNCHANGED copies

\* A client takes the parameters of a server for the first time, or later ones.
Take(c, s) ==
  /\ \E n \in 1..Len(states[s]) :
        /\ copies[c] = Nothing \/ (copies[c].server = s /\ copies[c].position < n)
        /\ copies' = [copies EXCEPT ![c] =
                        [server |-> s, position |-> n, params |-> states[s][n]]]
  /\ UNCHANGED states

\* A client stops, or what it has is its own from now on.
Leave(c) == copies' = [copies EXCEPT ![c] = Nothing] /\ UNCHANGED states

Next ==
  \/ \E s \in Servers : Change(s)
  \/ \E c \in Clients : Leave(c) \/ \E s \in Servers : Take(c, s)

Spec == Init /\ [][Next]_vars
=============================================================================
