---------------------------- MODULE FrameModifier ----------------------------
(***************************************************************************)
(* The controls by which a user moves a coordinate frame                    *)
(* (frame_modifier_renderer.c).  A change of a control publishes the        *)
(* transform that the controls show; the frames hear it like any other      *)
(* update (on_frames_update) and call the renderer, which sets the controls.*)
(* Setting a control to another value is a change of it as well.            *)
(***************************************************************************)
EXTENDS Integers, Sequences, FiniteSetsExt

CONSTANTS
  FrameNames,       \* the frames that are relative to another
  Root,             \* the root frame, listed with them
  None,             \* the first entry of the list
  Coords,           \* controls: 1..n
  Values,           \* of a control
  MaxActs,          \* bound: what the user does
  MaxOthers,        \* bound: updates of other programs
  MaxLost           \* bound: messages that are lost

VARIABLES
  trans,            \* trans[f]: the transform of the frame
  network,          \* BOT_FRAMES_UPDATE messages under way, [frame, trans]
  active,           \* the entry that is selected
  shown,            \* what the controls show
  sensitive,        \* whether they can be used
  updating,
  crashed,
  accepted,         \* accepted[f]: the last that the user asked for and was published (history)
  echoes,           \* messages of the renderer since anything else was done (history)
  acts, others, lost

vars == <<trans, network, active, shown, sensitive, updating, crashed, accepted, echoes,
          acts, others, lost>>

Transforms == [Coords -> Values]

Init ==
  /\ trans = [f \in FrameNames |-> [k \in Coords |-> 0]]
  /\ network = << >>
  /\ active = None /\ shown = [k \in Coords |-> 0] /\ sensitive = FALSE
  /\ updating = FALSE /\ crashed = FALSE
  /\ accepted = trans /\ echoes = 0
  /\ acts = 0 /\ others = 0 /\ lost = 0

-----------------------------------------------------------------------------

\* What the callbacks work on.
Controls == [shown |-> shown, updating |-> updating, sent |-> << >>]

\* on_param_widget_changed for a control of the transform.
ControlChanged(w) ==
  IF w.updating \/ active = None THEN w
  ELSE [w EXCEPT !.updating = TRUE, !.sent = Append(@, [frame |-> active, trans |-> w.shown])]

Set(w, k, value) ==
  IF w.shown[k] = value THEN w ELSE ControlChanged([w EXCEPT !.shown[k] = value])

\* frames_update_handler for the frame that is selected: one control after the other is set, so
\* that, if no update is awaited, the first that changes publishes what all of them show then.
SetAll(w, frame, target) ==
  LET differing == { k \in Coords : w.shown[k] # target[k] }
      first == [w.shown EXCEPT ![Min(differing)] = target[Min(differing)]]
  IN  [shown |-> target, updating |-> FALSE,
       sent |-> IF w.updating \/ differing = {} THEN w.sent
                ELSE Append(w.sent, [frame |-> frame, trans |-> first])]

Became(w) ==
  /\ shown' = w.shown /\ updating' = w.updating

\* A message is heard by the frames, and its frame may be the one that is selected.
OnFramesUpdate ==
  /\ network # << >>
  /\ LET msg == Head(network)
         w == IF msg.frame = active THEN SetAll(Controls, msg.frame, msg.trans) ELSE Controls
     IN  /\ trans' = [trans EXCEPT ![msg.frame] = msg.trans]
         /\ Became(w)
         /\ network' = Tail(network) \o w.sent
         /\ echoes' = echoes + Len(w.sent)
  /\ UNCHANGED <<active, sensitive, crashed, accepted, acts, others, lost>>

Lose ==
  /\ network # << >> /\ lost < MaxLost /\ lost' = lost + 1
  /\ network' = Tail(network)
  /\ UNCHANGED <<trans, active, shown, sensitive, updating, crashed, accepted, echoes>>
  /\ UNCHANGED <<acts, others>>

\* Another program moves the frame.
OtherUpdates(frame, transform) ==
  /\ ~crashed /\ others < MaxOthers /\ others' = others + 1
  /\ network' = Append(network, [frame |-> frame, trans |-> transform])
  /\ echoes' = 0
  /\ UNCHANGED <<trans, active, shown, sensitive, updating, crashed, accepted, acts, lost>>

Acts == ~crashed /\ acts < MaxActs /\ acts' = acts + 1 /\ echoes' = 0 /\ UNCHANGED <<others, lost>>

\* Defect: the controls are set for the new frame as if the user set them.
SelectUnguarded(frame) ==
  LET w == SetAll(Controls, frame, trans[frame])
  IN  /\ Acts /\ ~updating
      /\ active' = frame /\ sensitive' = TRUE
      /\ Became(w)
      /\ network' = network \o w.sent
      /\ UNCHANGED <<trans, crashed, accepted>>

\* A frame is selected: the controls show its transform, and setting them publishes nothing.
Select(frame) ==
  /\ Acts /\ ~updating
  /\ active' = frame /\ sensitive' = TRUE
  /\ Became(SetAll([Controls EXCEPT !.updating = TRUE], frame, trans[frame]))
  /\ UNCHANGED <<trans, network, crashed, accepted>>

SelectNone ==
  /\ Acts /\ ~updating
  /\ active' = None /\ sensitive' = FALSE
  /\ UNCHANGED <<trans, network, shown, updating, crashed, accepted>>

\* The root frame is relative to nothing, which is asked for all the same.
SelectRoot ==
  /\ Acts /\ ~updating
  /\ active' = Root /\ crashed' = TRUE /\ network' = << >>
  /\ UNCHANGED <<trans, shown, sensitive, updating, accepted>>

\* While an update is awaited the selection changes and nothing else does.
SelectWhileUpdating(entry) ==
  /\ Acts /\ updating
  /\ active' = entry
  /\ UNCHANGED <<trans, network, shown, sensitive, updating, crashed, accepted>>

\* The user changes a control.
Change(k, value) ==
  /\ Acts /\ sensitive /\ shown[k] # value
  /\ LET w == Set(Controls, k, value)
     IN  /\ Became(w)
         /\ network' = network \o w.sent
         /\ accepted' = IF w.sent = << >> THEN accepted
                        ELSE [accepted EXCEPT ![active] = w.shown]
  /\ UNCHANGED <<trans, active, sensitive, crashed>>

Next ==
  \/ OnFramesUpdate
  \/ Lose
  \/ \E frame \in FrameNames, transform \in Transforms : OtherUpdates(frame, transform)
  \/ \E frame \in FrameNames : Select(frame)
  \/ SelectNone
  \/ SelectRoot
  \/ \E entry \in FrameNames \cup {Root, None} : SelectWhileUpdating(entry)
  \/ \E k \in Coords, value \in Values : Change(k, value)

Spec == Init /\ [][Next]_vars

-----------------------------------------------------------------------------
(* Properties. *)

\* Unless an update is awaited, the controls show the transform that the selected frame
\* has, and can be used only when one is selected: whatever was selected, changed or lost
\* while an update was awaited (on_param_widget_changed, frames_update_handler).
ShownIsTrue ==
  ~updating /\ ~crashed =>
    /\ active # None => shown = trans[active]
    /\ sensitive <=> active # None

\* Setting the controls for an update of another program publishes what is between the old
\* transform and the new, and hearing that may do so again; after one such update there are
\* no more of these messages than controls.  Two updates on their way together may be
\* answered for ever.
EchoesDieOut == others <= 1 => echoes <= Cardinality(Coords)

\* Where no other program moves frames and nothing is lost, a frame ends with what the
\* user asked for last, and moves for no other reason.
ChangesTakeEffect == others = 0 /\ lost = 0 /\ network = << >> /\ ~crashed => trans = accepted
=============================================================================
