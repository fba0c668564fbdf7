------------------------------ MODULE BotFrames ------------------------------
(***************************************************************************)
(* The coordinate frames of a program (bot_frames.c): built from the        *)
(* parameters, updated by LCM messages, and asked at any time how one frame *)
(* lies relative to another.  Operations hold the mutex throughout, but for *)
(* the calls of the subscribers, which follow an update when it is let go.  *)
(***************************************************************************)
EXTENDS Integers, Sequences, FiniteSets, SequencesExt, FiniteSetsExt, FramePaths

-----------------------------------------------------------------------------
(* The history of one link: the transforms that it had, newest first, in a   *)
(* circular array (circular.c, the links of ctrans.c): [utime, trans].        *)

\* calloc: what a slot holds that was never written.
Zero == [utime |-> 0, trans |-> 0]

CircularNew(capacity) ==
  [array |-> [k \in 0..capacity - 1 |-> Zero], head |-> 0, len |-> 0]

Capacity(circular) == Cardinality(DOMAIN circular.array)

PeekNth(circular, i) == circular.array[(circular.head + i) % Capacity(circular)]

Clear(circular) == [circular EXCEPT !.head = 0, !.len = 0]

PushHead(circular, entry) ==
  LET head == IF circular.head = 0 THEN Capacity(circular) - 1 ELSE circular.head - 1
  IN  [array |-> [circular.array EXCEPT ![head] = entry], head |-> head,
       len |-> Min({circular.len + 1, Capacity(circular)})]

PopHead(circular) ==
  IF circular.len = 0 THEN circular
  ELSE [circular EXCEPT !.len = @ - 1, !.head = (@ + 1) % Capacity(circular)]

\* bot_ctrans_link_update looks at slot 0, whether or not there is an entry.
LinkUpdate(history, trans, utime) ==
  LET last == PeekNth(history, 0).utime
      kept == CASE utime < last -> Clear(history)
                [] utime = last -> PopHead(history)
                [] OTHER -> history
  IN  PushHead(kept, [utime |-> utime, trans |-> trans])

\* bot_trans_interpolate, of which only the arguments matter here.
Interpolated(older, newer, utime) ==
  IF older.utime = utime THEN <<older>> ELSE <<older, newer, utime>>

\* _link_get_trans_interp of a link that has a transform: between the newest entry
\* that is not after utime and the one after it, or the end nearer to utime.
LinkTrans(history, utime) ==
  LET entry(i) == PeekNth(history, i)
      reached == { i \in 0..history.len - 1 : entry(i).utime <= utime }
  IN  CASE reached = {} -> <<entry(history.len - 1)>>
        [] 0 \in reached -> <<entry(0)>>
        [] OTHER -> Interpolated(entry(Min(reached)), entry(Min(reached) - 1), utime)

-----------------------------------------------------------------------------
CONSTANTS
  Configs,          \* what the parameters may say, in their order: sequences of entries
  Root,             \* coordinate_frames.root_frame
  Unset,            \* stands for a field that the parameters do not have
  Unheard,          \* a name that no parameter has
  Utimes,           \* times of updates
  Asked,            \* times that questions are about
  DefaultHistory,   \* DEFAULT_HISTORY_LEN
  MaxUpdates,       \* bound: updates that come in
  MaxSubscribers    \* bound: subscribers

VARIABLES
  outcome,          \* of bot_frames_new and of all since: "built", "failed", "hangs", "crashed"
  graph,            \* the frames and their links
  links,            \* links[f]: the history of the link of frame f
  paths,            \* the path from each frame to each
  handles,          \* handles[f] = [num, relative_to, channel]
  num_frames,
  updates,          \* number of updates so far
  logs,             \* logs[f]: the updates of f since it last went back in time (history)
  dispatch,         \* << >> or the update that subscribers are told of, and who is next
  subscribers       \* in their order, [since, told]: the updates before, the updates told of

vars == <<outcome, graph, links, paths, handles, num_frames, updates, logs, dispatch, subscribers>>

\* bot_ctrans_get_link: the frames come in either order; their names hold no '-'.
LinkBetween(from, to) ==
  { link \in Links(graph) : {link.frame_from, link.frame_to} = {from, to} }

\* A field of the parameters: [name |-> "key"] says no more than its name.
IsKey(entry) == DOMAIN entry = {"name"}

\* By pairs of frames: the names hold no '-', so no two pairs make one text (see CTrans).
AllPaths(g) ==
  LET frames == Range(g.frames)
  IN  [ends \in frames \X frames |-> GetNewPath(g, ends[1], ends[2])]

-----------------------------------------------------------------------------
(* bot_frames_new. *)

Started ==
  [outcome |-> "built",
   graph |-> [frames |-> <<Root>>, links |-> [f \in {Root} |-> << >>]],
   links |-> [f \in {} |-> 0],
   handles |-> [f \in {Root} |-> [num |-> 0, relative_to |-> Unset, channel |-> Unset]]]

\* A frame that is there already is only warned of.
Named(made, frame) ==
  IF frame \in Range(made.graph.frames) THEN made
  ELSE [made EXCEPT !.graph = WithFrame(@, frame)]

\* One entry more than the history asks for; the initial transform, number 0, is of time 0.
Linked(made, entry) ==
  LET history == IF entry.history = Unset THEN DefaultHistory ELSE entry.history
      frame == entry.name
  IN  [made EXCEPT
        !.graph = WithLink(@, [frame_from |-> frame, frame_to |-> entry.relative_to]),
        !.links = (frame :> LinkUpdate(CircularNew(Max({history + 1, 1})), 0, 0)) @@ @,
        !.handles = (frame :> [num |-> Cardinality(DOMAIN @),
                               relative_to |-> entry.relative_to,
                               channel |-> entry.channel]) @@ @]

ChannelsOf(made) == { made.handles[f].channel : f \in DOMAIN made.handles } \ {Unset}

\* The next entry.  What a frame is relative to must have been named before: there is no
\* link to update otherwise.
NextEntry(made, entry) ==
  LET named == Named(made, entry.name)
      Ends(outcome_) == [named EXCEPT !.outcome = outcome_]
  IN  CASE made.outcome # "built" -> made
        [] IsKey(entry) -> named
        [] entry.relative_to = Unset \/ ~entry.initial_transform -> Ends("failed")
        [] entry.relative_to \notin Range(named.graph.frames) -> Ends("crashed")
        [] entry.name = entry.relative_to -> Ends("crashed")
        [] entry.name \in DOMAIN made.handles -> Ends("failed")
        [] entry.channel \in ChannelsOf(made) -> Ends("failed")
        [] OTHER -> Linked(named, entry)

\* Without a block, the frames are destroyed under the mutex that destroying them takes;
\* the root frame is defined in the block.
BotFramesNew(config) ==
  CASE config = << >> -> [Started EXCEPT !.outcome = "hangs"]
    [] \A n \in DOMAIN config : config[n].name # "root_frame" ->
         [Started EXCEPT !.outcome = "failed"]
    [] OTHER -> FoldLeft(NextEntry, Started, config)

Init ==
  \E config \in Configs :
    LET made == BotFramesNew(config)
    IN  /\ outcome = made.outcome
        /\ graph = made.graph
        /\ links = made.links
        /\ paths = AllPaths(made.graph)
        /\ handles = made.handles
        /\ num_frames = Cardinality(DOMAIN made.handles)
        /\ updates = 0
        /\ logs = [f \in DOMAIN made.links |-> << [utime |-> 0, trans |-> 0] >>]
        /\ dispatch = << >>
        /\ subscribers = << >>

-----------------------------------------------------------------------------
(* Updates, one at a time: LCM calls the handlers from one thread. *)

\* What an update makes of a log.
Logged(log, entry) ==
  CASE entry.utime < Last(log).utime -> <<entry>>
    [] entry.utime = Last(log).utime -> Append(Front(log), entry)
    [] OTHER -> Append(log, entry)

\* An update; its number stands for the transform.
Comes(frame, used) ==
  /\ outcome = "built" /\ dispatch = << >>
  /\ updates < MaxUpdates /\ updates' = updates + 1
  /\ dispatch' = <<[frame |-> frame, used |-> used, next |-> 1]>>
  /\ UNCHANGED <<outcome, num_frames, subscribers>>

Updated(frame, utime) ==
  /\ links' = [links EXCEPT ![frame] = LinkUpdate(@, updates', utime)]
  /\ logs' = [logs EXCEPT ![frame] = Logged(@, [utime |-> utime, trans |-> updates'])]
  /\ UNCHANGED <<graph, paths, handles>>

\* on_transform_update and on_pose_update: the channel tells the frame.
OnTransformUpdate(frame, utime) ==
  /\ Comes(frame, TRUE)
  /\ handles[frame].channel # Unset
  /\ Updated(frame, utime)

\* on_frames_update for a frame with a handle: ignored, but for the subscribers, when the
\* message has it relative to another frame than the parameters do.
OnFramesUpdate(frame, relative_to, utime) ==
  /\ frame \in DOMAIN links
  /\ Comes(frame, relative_to = handles[frame].relative_to)
  /\ IF relative_to = handles[frame].relative_to
     THEN Updated(frame, utime)
     ELSE UNCHANGED <<graph, links, paths, handles, logs>>

\* For a frame without a handle that the graph has, so one that is the name of a field:
\* it is linked and gets a handle with number 0, and num_frames stays.
OnNewFrameUpdate(frame, relative_to, utime) ==
  /\ frame \in Range(graph.frames) \ DOMAIN handles
  /\ relative_to \in Range(graph.frames) \ {frame}
  /\ LinkBetween(frame, relative_to) = {}
  /\ Comes(frame, TRUE)
  /\ graph' = WithLink(graph, [frame_from |-> frame, frame_to |-> relative_to])
  /\ paths' = AllPaths(graph')
  /\ links' = (frame :> LinkUpdate(CircularNew(DefaultHistory), updates', utime)) @@ links
  /\ logs' = (frame :> <<[utime |-> utime, trans |-> updates']>>) @@ logs
  /\ handles' = (frame :> [num |-> 0, relative_to |-> relative_to, channel |-> Unset]) @@ handles

\* Any other frame: there is no link to update, and the root frame is relative to none.  A
\* link the other way round is freed while both frames keep it.  Nothing is left of the
\* program.
OnUnknownFrameUpdate(frame, relative_to) ==
  /\ outcome = "built" /\ dispatch = << >>
  /\ \/ frame = Root
     \/ frame \notin DOMAIN handles
          /\ \/ ~({frame, relative_to} \subseteq Range(graph.frames)) \/ frame = relative_to
             \/ LinkBetween(frame, relative_to) # {}
  /\ outcome' = "crashed"
  /\ graph' = Started.graph /\ links' = Started.links /\ paths' = AllPaths(graph')
  /\ handles' = Started.handles /\ num_frames' = 0 /\ updates' = 0 /\ logs' = links'
  /\ dispatch' = << >> /\ subscribers' = << >>

\* What a question for the link of a frame would find now.
NewestTrans(frame) == PeekNth(links[frame], 0).trans

\* _dispatch_update_callbacks: the next subscriber is called, after the mutex is let go.
DispatchUpdateCallbacks ==
  /\ dispatch # << >>
  /\ LET n == dispatch[1].next
     IN  IF n <= Len(subscribers)
         THEN /\ dispatch' = <<[dispatch[1] EXCEPT !.next = n + 1]>>
              /\ subscribers' = [subscribers EXCEPT ![n].told =
                   Append(@, [number |-> updates, used |-> dispatch[1].used,
                              finds |-> NewestTrans(dispatch[1].frame)])]
         ELSE dispatch' = << >> /\ UNCHANGED subscribers
  /\ UNCHANGED <<outcome, graph, links, paths, handles, num_frames, updates, logs>>

\* By any thread, or by a subscriber that is being called.
AddUpdateSubscriber ==
  /\ outcome = "built" /\ Len(subscribers) < MaxSubscribers
  /\ subscribers' = Append(subscribers, [since |-> updates, told |-> << >>])
  /\ UNCHANGED <<outcome, graph, links, paths, handles, num_frames, updates, logs, dispatch>>

Next ==
  \/ \E frame \in DOMAIN links, utime \in Utimes : OnTransformUpdate(frame, utime)
  \/ \E frame, relative_to \in Range(graph.frames), utime \in Utimes :
       \/ OnFramesUpdate(frame, relative_to, utime)
       \/ OnNewFrameUpdate(frame, relative_to, utime)
  \/ \E frame, relative_to \in Range(graph.frames) \cup {Unheard} :
       OnUnknownFrameUpdate(frame, relative_to)
  \/ DispatchUpdateCallbacks
  \/ AddUpdateSubscriber

Spec == Init /\ [][Next]_vars

-----------------------------------------------------------------------------
(* Questions. *)

\* bot_ctrans_path_to_trans: the transforms along the path, one after the other.  Of
\* each it matters which it is and whether it is inverted.
PathToTrans(path, utime) ==
  [n \in DOMAIN path |->
     [trans |-> <<path[n].link, LinkTrans(links[path[n].link.frame_from], utime)>>,
      inverted |-> path[n].invert]]

GetTrans(from, to, utime) == PathToTrans(paths[from, to], utime)

\* bot_ctrans_path_to_trans_latest.
PathToTransLatest(path) ==
  [n \in DOMAIN path |->
     [trans |-> <<path[n].link, <<PeekNth(links[path[n].link.frame_from], 0)>>>>,
      inverted |-> path[n].invert]]

GetTransLatest(from, to) == PathToTransLatest(paths[from, to])

\* bot_ctrans_path_latest_timestamp: that of the link updated last, 0 from a frame to itself.
GetLatestTimestamp(from, to) ==
  LET path == paths[from, to]
  IN  IF path = << >> THEN 0
      ELSE Max({ PeekNth(links[path[n].link.frame_from], 0).utime : n \in DOMAIN path })

GetNTrans(from, to) ==
  FoldSet(LAMBDA link, n : links[link.frame_from].len, 0, LinkBetween(from, to))

\* The entries are counted from the newest, 0.
GetNthTrans(from, to, n) ==
  LET link == CHOOSE l \in LinkBetween(from, to) : TRUE
  IN  << [trans |-> <<link, <<PeekNth(links[link.frame_from], n)>>>>,
          inverted |-> to # link.frame_to] >>

\* The list has a place for each of num_frames; of two frames with one number either may
\* be the one that is listed.
ListedAt(num) == { f \in DOMAIN handles : handles[f].num = num }

\* A transform and its inverse next to each other have no effect.
Reduced(word) ==
  FoldLeft(LAMBDA w, letter :
             IF w # << >> /\ Last(w) = [letter EXCEPT !.inverted = ~@]
             THEN Front(w) ELSE Append(w, letter),
           << >>, word)

-----------------------------------------------------------------------------
(* Properties. *)

\* What a link keeps of its log: the newest entries.
Kept(frame) ==
  LET log == logs[frame]
      n == Len(log) - Capacity(links[frame])
  IN  SubSeq(log, IF n > 0 THEN n + 1 ELSE 1, Len(log))

\* The transform of a link at any time is the one that the newest updates give, and
\* lies between the update before and the update after that time: whatever was
\* overwritten in the circular array, replaced by an update of the same time, or
\* dropped when time went back (bot_ctrans_link_update, _link_get_trans_interp).
LookupsAreBracketed ==
  \A frame \in DOMAIN links, utime \in Asked :
    LET kept == Kept(frame)
        before == SelectSeq(kept, LAMBDA entry : entry.utime <= utime)
        n == Len(before)
    IN  LinkTrans(links[frame], utime) =
          IF n = 0 THEN <<kept[1]>>
          ELSE IF n = Len(kept) THEN <<kept[n]>>
          ELSE Interpolated(kept[n], kept[n + 1], utime)

Connected == { ends \in DOMAIN paths : paths[ends] # NoPath }

\* The answers for one time fit together: going from a frame to a second and on to
\* a third is going to the third (bot_ctrans_path_to_trans).
Coherent ==
  \A utime \in Asked :
    LET answer == [ends \in Connected |-> GetTrans(ends[1], ends[2], utime)]
    IN  \A ends \in Connected : \A to \in Range(graph.frames) :
          <<ends[2], to>> \in Connected =>
            /\ <<ends[1], to>> \in Connected
            /\ Reduced(answer[ends] \o answer[ends[2], to]) = answer[ends[1], to]

\* The different questions agree: asking for the time of the latest update gives what
\* asking for the latest gives, and asking for the time of the nth transform between
\* two frames gives that transform, in both directions (bot_ctrans_get_trans_latest,
\* bot_ctrans_path_latest_timestamp, bot_frames_get_nth_trans).
AnswersAgree ==
  /\ \A ends \in Connected :
       GetTransLatest(ends[1], ends[2]) =
         GetTrans(ends[1], ends[2], GetLatestTimestamp(ends[1], ends[2]))
  /\ \A from, to \in Range(graph.frames) :
       \A n \in 0 .. GetNTrans(from, to) - 1 :
         LET nth == GetNthTrans(from, to, n)
         IN  nth = GetTrans(from, to, nth[1].trans[2][1].utime)

\* The frames that a program starts with hang together, each listed after the frame it
\* is relative to, whatever order and errors the parameters have (bot_frames_new); only
\* number 0 may come to be of two frames (on_frames_update).
FramesAreListed ==
  LET Before(num) == UNION { ListedAt(n) : n \in 0 .. num - 1 }
  IN  outcome = "built" =>
        /\ Root \in ListedAt(0)
        /\ \A num \in 1 .. num_frames - 1 :
             \E f \in DOMAIN handles :
               /\ ListedAt(num) = {f} /\ <<f, Root>> \in Connected
               /\ handles[f].relative_to \in Before(num)

\* A subscriber is told of every update since it subscribed, once and in order, and
\* finds the update made when it is told of it (_dispatch_update_callbacks).
SubscribersAreTold ==
  \A n \in DOMAIN subscribers :
    LET told == subscribers[n].told
        due == dispatch # << >> /\ dispatch[1].next <= n
        first == IF told = << >> THEN subscribers[n].since + 1 ELSE told[1].number
    IN  /\ first \in {subscribers[n].since, subscribers[n].since + 1}
        /\ [k \in DOMAIN told |-> told[k].number] = [k \in DOMAIN told |-> first + k - 1]
        /\ first + Len(told) - 1 = IF due /\ updates > subscribers[n].since THEN updates - 1
                                   ELSE updates
        /\ \A k \in DOMAIN told : told[k].used => told[k].finds = told[k].number
=============================================================================
