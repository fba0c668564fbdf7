------------------------------- MODULE CTrans -------------------------------
(***************************************************************************)
(* The graph of coordinate frames as a program builds and asks it           *)
(* (ctrans.c): paths that were computed are cached until the graph changes. *)
(* Links and cached paths are found by a text "%s-%s" of two names, and     *)
(* names may contain '-', so a name is the sequence of the parts between     *)
(* its '-', each a number in the order of strcmp.                            *)
(***************************************************************************)
EXTENDS Integers, Sequences, TLC, FiniteSets, FramePaths

CONSTANTS
  FirstFrames,      \* frames that are there from the start, as a sequence
  LaterFrames,      \* frames that may be added
  MayLink,          \* the links that a program may make, each of two frames
  MaxLinks,         \* bound: links
  MaxCached         \* bound: paths in the cache

VARIABLES
  graph,
  path_cache,       \* by the text of the two names
  crashed           \* frames have a link that was freed: nothing is defined any more
vars == <<graph, path_cache, crashed>>

Frames == { graph.frames[n] : n \in DOMAIN graph.frames }

\* "%s-%s": names with '-' can make the same text of different pairs.
Key(from, to) == from \o to

\* strcmp; '-' comes before letters, digits, '.' and '_'.
Before(s, t) ==
  \E n \in 0 .. Len(s) :
    /\ n < Len(t) /\ SubSeq(s, 1, n) = SubSeq(t, 1, n)
    /\ n = Len(s) \/ s[n + 1] < t[n + 1]

\* _make_link_id: the later name first, whichever way the link goes.
LinkId(link) ==
  IF Before(link.frame_to, link.frame_from) THEN Key(link.frame_from, link.frame_to)
  ELSE Key(link.frame_to, link.frame_from)

Init ==
  /\ graph = [frames |-> FirstFrames,
              links |-> [f \in { FirstFrames[n] : n \in DOMAIN FirstFrames } |-> << >>]]
  /\ path_cache = << >> /\ crashed = FALSE

AddFrame(frame) ==
  /\ frame \notin Frames
  /\ graph' = WithFrame(graph, frame)
  /\ path_cache' = << >> /\ UNCHANGED crashed

\* The table frees the link it has of that id, which two frames still list: of the same
\* pair, in either direction, or of another pair whose names make the same text.
Replaces(link) == \E other \in Links(graph) : LinkId(other) = LinkId(link)

\* Defect: the cache is only emptied for new frames.
LinkFramesKeepsCache(link) ==
  /\ {link.frame_from, link.frame_to} \subseteq Frames
  /\ IF Replaces(link) THEN crashed' = TRUE /\ UNCHANGED graph
     ELSE /\ Cardinality(Links(graph)) < MaxLinks
          /\ graph' = WithLink(graph, link) /\ UNCHANGED crashed
  /\ UNCHANGED path_cache

\* A link of frames that are related already, but by other links, is made all the same.
LinkFrames(link) ==
  /\ {link.frame_from, link.frame_to} \subseteq Frames
  /\ IF Replaces(link) THEN crashed' = TRUE /\ UNCHANGED <<graph, path_cache>>
     ELSE /\ Cardinality(Links(graph)) < MaxLinks
          /\ graph' = WithLink(graph, link)
          /\ path_cache' = << >> /\ UNCHANGED crashed

\* _get_path, on behalf of every question that names two frames.
GetPath(from, to) ==
  IF Key(from, to) \in DOMAIN path_cache THEN path_cache[Key(from, to)]
  ELSE GetNewPath(graph, from, to)

Ask(from, to) ==
  /\ GetPath(from, to) # NoPath
  /\ path_cache' = (Key(from, to) :> GetPath(from, to)) @@ path_cache
  /\ Cardinality(DOMAIN path_cache') <= MaxCached
  /\ UNCHANGED <<graph, crashed>>

Next ==
  /\ ~crashed
  /\ \/ \E frame \in LaterFrames : AddFrame(frame)
     \/ \E link \in MayLink : LinkFrames(link)
     \/ \E from, to \in Frames : Ask(from, to)

Spec == Init /\ [][Next]_vars

-----------------------------------------------------------------------------
(* Properties. *)

\* There is none if no links lead from one frame to the other; otherwise it follows links of
\* the graph, inverts those that it follows backwards, and has as few links as can be.
IsRight(path, from, to) ==
  LET reach == Within(graph, from, Cardinality(Frames))
  IN  /\ path = NoPath <=> to \notin reach
      /\ path # NoPath =>
           /\ Leads(graph, path, from, to)
           /\ path # << >> => to \notin Within(graph, from, Len(path) - 1)

\* The path that is used, from the cache or not, is right in the graph as it is now, also in
\* one that is overconstrained (_get_path, bot_ctrans_get_new_path), for the two frames that
\* are asked about.  The exception: if the names of other frames make the same text, it may be
\* right for those instead.  Nothing is claimed once a link was replaced.
PathsAreRight ==
  ~crashed =>
    \A from, to \in Frames :
      \E f, t \in Frames : Key(f, t) = Key(from, to) /\ IsRight(GetPath(from, to), f, t)
=============================================================================
