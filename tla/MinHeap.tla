------------------------------- MODULE MinHeap -------------------------------
(***************************************************************************)
(* The binary heap whose nodes know their place, so that a score can be      *)
(* lowered (minheap.c), as path searches use it.                             *)
(***************************************************************************)
EXTENDS Integers, Sequences, FiniteSets

CONSTANTS
  Scores,
  MaxNodes          \* bound: nodes added

VARIABLES
  nodes,            \* the array, by index from 0 up, of nodes [id, score, index]
  added,            \* number of nodes added; a node's id tells it from the others
  removed           \* the score that the last removal returned, with what was left

vars == <<nodes, added, removed>>

Nothing == [score |-> 0, rest |-> {}]

Init == nodes = << >> /\ added = 0 /\ removed = Nothing

-----------------------------------------------------------------------------
(* Helpers.  A sequence is numbered from 1 and the array from 0. *)

At(mh, ind) == mh[ind + 1]

SwapNodes(mh, a, b) ==
  [mh EXCEPT ![a + 1] = [At(mh, b) EXCEPT !.index = a],
             ![b + 1] = [At(mh, a) EXCEPT !.index = b]]

RECURSIVE Fixup(_, _)
Fixup(mh, parent) ==
  LET left == 2 * parent + 1
      right == left + 1
      score(ind) == At(mh, ind).score
      least == IF score(left) < score(right) THEN left ELSE right
  IN  CASE left >= Len(mh) -> mh
        [] right = Len(mh) ->
             IF score(left) < score(parent) THEN SwapNodes(mh, left, parent) ELSE mh
        [] OTHER ->
             IF score(parent) < score(left) /\ score(parent) < score(right) THEN mh
             ELSE Fixup(SwapNodes(mh, least, parent), least)

\* The loop over the parents of an index; (0 - 1) / 2 is 0 in C.
RECURSIVE FixedUp(_, _)
FixedUp(mh, ind) ==
  LET parent == IF ind = 0 THEN 0 ELSE (ind - 1) \div 2
  IN  IF parent = 0 THEN Fixup(mh, 0) ELSE FixedUp(Fixup(mh, parent), parent)

-----------------------------------------------------------------------------
(* Operations. *)

Add(score) ==
  /\ added < MaxNodes
  /\ added' = added + 1
  /\ nodes' = FixedUp(Append(nodes, [id |-> added', score |-> score, index |-> Len(nodes)]),
                      Len(nodes))
  /\ removed' = Nothing

\* The last node takes the place of the first.
RemoveMin ==
  /\ nodes # << >>
  /\ LET n == Len(nodes)
         kept == SubSeq([nodes EXCEPT ![1] = [nodes[n] EXCEPT !.index = 0]], 1, n - 1)
     IN  nodes' = Fixup(kept, 0)
  /\ removed' = [score |-> nodes[1].score,
                 rest |-> { nodes[n].score : n \in 2..Len(nodes) }]
  /\ UNCHANGED added

\* The node is found through its index; a higher score is refused.
DecreaseScore(id, score) ==
  \E n \in DOMAIN nodes :
    /\ nodes[n].id = id /\ score <= nodes[n].score
    /\ nodes' = FixedUp([nodes EXCEPT ![nodes[n].index + 1].score = score], nodes[n].index)
    /\ removed' = Nothing
    /\ UNCHANGED added

Next ==
  \/ RemoveMin
  \/ \E score \in Scores :
       \/ Add(score)
       \/ \E id \in 1..added : DecreaseScore(id, score)

Spec == Init /\ [][Next]_vars

-----------------------------------------------------------------------------
(* Property. *)

\* However nodes are added, lowered and removed, with whatever scores alike, a removal
\* returns the least score there is, and every node knows its place
\* (fixup, bot_minheap_add, _remove_min, _decrease_score).
RemovesTheLeast ==
  /\ \A score \in removed.rest : removed.score <= score
  /\ \A n \in DOMAIN nodes : nodes[n].index = n - 1
=============================================================================
