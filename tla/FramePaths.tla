----------------------------- MODULE FramePaths -----------------------------
(***************************************************************************)
(* The graph of coordinate frames and the search for a path in it           *)
(* (ctrans.c).  A graph has the frames in the order in which the hash table *)
(* lists them, and for every frame its links, [frame_from, frame_to].       *)
(***************************************************************************)
LOCAL INSTANCE Integers
LOCAL INSTANCE Sequences
LOCAL INSTANCE SequencesExt
LOCAL INSTANCE FiniteSetsExt
LOCAL INSTANCE Functions

NoPath == "no path"

Links(graph) == UNION { Range(graph.links[f]) : f \in DOMAIN graph.links }

\* bot_ctrans_add_frame of a new frame.
WithFrame(graph, frame) ==
  [frames |-> Append(graph.frames, frame),
   links |-> [f \in DOMAIN graph.links \cup {frame} |->
                IF f = frame THEN << >> ELSE graph.links[f]]]

\* bot_ctrans_link_frames of two frames that have no link yet.
WithLink(graph, link) ==
  [graph EXCEPT !.links = [f \in DOMAIN @ |->
     IF f \in {link.frame_from, link.frame_to} THEN Append(@[f], link) ELSE @[f]]]

\* The neighbour across a link of the frame, and whether the transform is inverted.
Step(link, frame) ==
  IF link.frame_from = frame
  THEN [link |-> link, invert |-> FALSE, nbr |-> link.frame_to]
  ELSE [link |-> link, invert |-> TRUE, nbr |-> link.frame_from]

-----------------------------------------------------------------------------
(* bot_ctrans_get_new_path: Dijkstra with distances in links.  A search has the *)
(* frames still in the queue, the distances found so far and, for each frame    *)
(* reached, the step and the frame it was reached from.                        *)

SearchFrom(graph, from) ==
  [queue |-> Range(graph.frames), distance |-> (from :> 0), previous |-> << >>]

Relaxed(search, link, frame) ==
  LET step == Step(link, frame)
      alt_dist == search.distance[frame] + 1
  IN  IF /\ step.nbr \in search.queue
         /\ step.nbr \in DOMAIN search.distance => alt_dist < search.distance[step.nbr]
      THEN [search EXCEPT !.distance = (step.nbr :> alt_dist) @@ @,
                          !.previous = (step.nbr :> [step |-> step, frame |-> frame]) @@ @]
      ELSE search

\* One round of the loop; a search that is over stays as it is.
Round(graph, search, to) ==
  LET reached == SelectSeq(graph.frames, LAMBDA f : f \in search.queue \cap DOMAIN search.distance)
      least == Min({ search.distance[f] : f \in Range(reached) })
      u == SelectSeq(reached, LAMBDA f : search.distance[f] = least)[1]
  IN  IF reached = << >> \/ u = to
      THEN search
      ELSE FoldLeft(LAMBDA s, link : Relaxed(s, link, u),
                    [search EXCEPT !.queue = @ \ {u}], graph.links[u])

\* The steps that lead to a frame that was reached.
StepsTo(search, to) ==
  FoldLeft(LAMBDA w, n : [at |-> search.previous[w.at].frame,
                          steps |-> <<search.previous[w.at].step>> \o w.steps],
           [at |-> to, steps |-> << >>],
           [n \in 1..search.distance[to] |-> n]).steps

GetNewPath(graph, from, to) ==
  LET search == FoldLeft(LAMBDA s, frame : Round(graph, s, to),
                         SearchFrom(graph, from), graph.frames)
  IN  IF {from, to} \subseteq Range(graph.frames) /\ to \in DOMAIN search.distance
      THEN StepsTo(search, to) ELSE NoPath

-----------------------------------------------------------------------------
(* What a path should be. *)

\* The steps lead from one frame to the other along links of the graph.
Leads(graph, steps, from, to) ==
  LET at(n) == IF n = 0 THEN from ELSE steps[n].nbr
  IN  /\ at(Len(steps)) = to
      /\ \A n \in DOMAIN steps :
           /\ steps[n].link \in Links(graph)
           /\ IF steps[n].invert
              THEN steps[n].link = [frame_from |-> at(n), frame_to |-> at(n - 1)]
              ELSE steps[n].link = [frame_from |-> at(n - 1), frame_to |-> at(n)]

\* The frames that are at most n links away.
RECURSIVE Within(_, _, _)
Within(graph, from, n) ==
  IF n = 0 THEN {from}
  ELSE LET near == Within(graph, from, n - 1)
       IN  near \cup { f \in Range(graph.frames) :
                         \E l \in Links(graph) : f \in {l.frame_from, l.frame_to}
                            /\ {l.frame_from, l.frame_to} \cap near # {} }
=============================================================================
