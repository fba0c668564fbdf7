------------------------------- MODULE Viewer -------------------------------
(***************************************************************************)
(* How the viewer hands events to its handlers (viewer.c): queries decide    *)
(* who picks when a button is pressed, the picking handler has first dibs on *)
(* each event, and the others follow by priority until one consumes it.      *)
(***************************************************************************)
EXTENDS Integers, Sequences, FiniteSets, SequencesExt

CONSTANTS
  Handlers,         \* event handlers of the program
  Priorities,       \* priorities they are given
  Distances         \* what a query returns: a distance, or less than 0 for "nothing there"

VARIABLES
  event_handlers,   \* the handlers added, in decreasing priority
  priority,         \* priority[h], for those added
  enabled,          \* handlers whose menu item is active
  picking,          \* handlers with their picking flag set
  picking_handler,  \* the last known picking handler, or none
  hovering,         \* handlers with their hovering flag set
  event,            \* the event that is handed out: its kind, the index of the handler to try
                    \* next (0: the picking handler), and whether it was consumed
  called            \* for this event (history): who had a claim to be first, who was passed
                    \* over, who was called, and who gave up picking

flagVars == <<event_handlers, priority, enabled, hovering>>
vars == <<flagVars, picking, picking_handler, event, called>>

None == "none"
NoEvent == [kind |-> "none", next |-> 0, consumed |-> FALSE]
NotCalled == [first |-> None, passed |-> {}, order |-> << >>, dropped |-> {}]

\* bot_viewer_init
Init ==
  /\ event_handlers = << >> /\ priority = << >>
  /\ enabled = {} /\ picking = {} /\ hovering = {} /\ picking_handler = None
  /\ event = NoEvent /\ called = NotCalled

-----------------------------------------------------------------------------
(* Between events. *)

\* g_ptr_array_sort: the order of equal priorities is not defined.
ByPriority(hs, p) ==
  { s \in SetToSeqs(hs) : \A i, j \in DOMAIN s : i < j => p[s[i]] >= p[s[j]] }

\* bot_viewer_add_event_handler; the program has set the enabled flag, or not.
AddEventHandler(h, n) ==
  /\ event = NoEvent /\ h \notin Range(event_handlers)
  /\ priority' = [x \in DOMAIN priority \cup {h} |-> IF x = h THEN n ELSE priority[x]]
  /\ event_handlers' \in ByPriority(Range(event_handlers) \cup {h}, priority')
  /\ enabled' \in {enabled, enabled \cup {h}}
  /\ UNCHANGED <<picking, picking_handler, hovering, event, called>>

EventHandlerSetPriority(h, n) ==
  /\ event = NoEvent /\ h \in Range(event_handlers)
  /\ priority' = [priority EXCEPT ![h] = n]
  /\ event_handlers' \in ByPriority(Range(event_handlers), priority')
  /\ UNCHANGED <<enabled, picking, picking_handler, hovering, event, called>>

\* on_event_handler_enabled_toggled: a handler that is disabled keeps its flags.
EnabledToggled(h) ==
  /\ event = NoEvent /\ h \in Range(event_handlers)
  /\ enabled' = IF h \in enabled THEN enabled \ {h} ELSE enabled \cup {h}
  /\ UNCHANGED <<event_handlers, priority, hovering, picking, picking_handler, event, called>>

SelectAllOrNone ==
  /\ event = NoEvent
  /\ enabled' \in {{}, Range(event_handlers)}
  /\ UNCHANGED <<event_handlers, priority, hovering, picking, picking_handler, event, called>>

\* update_status_bar forgets a picking handler that no longer picks.
Known(handler, flags) == IF handler \in flags THEN handler ELSE None

UpdateStatusBar ==
  /\ event = NoEvent
  /\ picking_handler' = Known(picking_handler, picking)
  /\ UNCHANGED <<flagVars, picking, event, called>>

\* Defect: whoever asks is let to pick.
RequestPickAlways(h) == picking' = picking \cup {h} /\ picking_handler' = h

\* What a handler does of its own: nothing, it ends its pick, or it asks for one
\* (bot_viewer_request_pick), in vain while another handler picks.
RequestPick(h) ==
  IF picking_handler \in picking /\ picking_handler # h
  THEN UNCHANGED <<picking, picking_handler>>
  ELSE picking' = picking \cup {h} /\ picking_handler' = h

\* A handler may do so at any time, for instance in a timer.
HandlerActs(h) ==
  /\ event = NoEvent /\ h \in Range(event_handlers)
  /\ \/ RequestPick(h)
     \/ picking' = picking \ {h} /\ UNCHANGED picking_handler
  /\ UNCHANGED <<flagVars, event, called>>

-----------------------------------------------------------------------------
(* Events. *)

\* The queries: the nearest of the enabled handlers, the first of them if there are several.
Nearest(distance) ==
  LET near == { i \in DOMAIN event_handlers :
                  event_handlers[i] \in enabled /\ distance[event_handlers[i]] >= 0 }
      D(i) == distance[event_handlers[i]]
      best == { i \in near : \A j \in near : D(i) < D(j) \/ (D(i) = D(j) /\ i <= j) }
  IN  { event_handlers[i] : i \in best }

\* An event arrives and handler is the picking handler then.
Begin(kind, handler, flags) ==
  LET first == IF handler \in flags \cap enabled THEN handler ELSE None
  IN  /\ event' = [kind |-> kind, next |-> IF first = None THEN 1 ELSE 0, consumed |-> FALSE]
      /\ called' = [NotCalled EXCEPT !.first = first, !.passed = {handler} \ flags]

\* on_button_press
ButtonPress(distance) ==
  /\ event = NoEvent
  /\ LET winner == IF picking_handler \in picking THEN {} ELSE Nearest(distance)
     IN  /\ picking' = picking \cup winner
         /\ picking_handler' = IF winner = {} THEN Known(picking_handler, picking)
                               ELSE CHOOSE h \in winner : TRUE
  /\ Begin("mouse", picking_handler', picking')
  /\ UNCHANGED flagVars

\* on_motion_notify; it also asks for a redraw.
MotionNotify(distance) ==
  /\ event = NoEvent
  /\ hovering' = IF picking_handler \in picking THEN hovering ELSE Nearest(distance)
  /\ picking_handler' = Known(picking_handler, picking)
  /\ Begin("mouse", picking_handler', picking)
  /\ UNCHANGED <<event_handlers, priority, enabled, picking>>

\* on_button_release and on_scroll_notify
ButtonReleaseOrScroll ==
  /\ event = NoEvent
  /\ picking_handler' = Known(picking_handler, picking)
  /\ Begin("mouse", picking_handler', picking)
  /\ UNCHANGED <<flagVars, picking>>

\* on_main_window_key_press_event and the same of a release: they pass over a picking handler
\* that no longer picks, and do not forget it.
KeyPressOrRelease ==
  /\ event = NoEvent
  /\ Begin("key", picking_handler, picking)
  /\ UNCHANGED <<flagVars, picking, picking_handler>>

\* One handler is called; it says whether it consumes the event.
Called(h) ==
  /\ \/ RequestPick(h) /\ called' = [called EXCEPT !.order = Append(@, h)]
     \/ UNCHANGED <<picking, picking_handler>> /\ called' = [called EXCEPT !.order = Append(@, h)]
     \/ /\ picking' = picking \ {h}
        /\ picking_handler' = IF event.next = 0 THEN Known(h, {}) ELSE picking_handler
        /\ called' = [called EXCEPT !.order = Append(@, h), !.dropped = @ \cup {h}]
  /\ UNCHANGED flagVars

\* "give picking handler first dibs"
CallPickingHandler ==
  /\ event.kind # "none" /\ event.next = 0 /\ ~event.consumed
  /\ Called(picking_handler)
  /\ \E consumed \in BOOLEAN :
        event' = [event EXCEPT !.next = 1, !.consumed = consumed]

\* "try all the other handlers in order of priority"
Others == { i \in DOMAIN event_handlers :
              i >= event.next /\ event_handlers[i] \in enabled \ {picking_handler} }

CallOther ==
  /\ event.kind # "none" /\ event.next > 0 /\ ~event.consumed
  /\ \E i \in Others :
        /\ \A j \in Others : i <= j
        /\ Called(event_handlers[i])
        /\ \E consumed \in BOOLEAN :
              event' = [event EXCEPT !.next = i + 1, !.consumed = consumed]

\* All have been tried that are to be.
Over == event.kind # "none" /\ (event.consumed \/ (event.next > 0 /\ Others = {}))

Return ==
  /\ Over
  /\ event' = NoEvent /\ called' = NotCalled
  /\ UNCHANGED <<flagVars, picking, picking_handler>>

-----------------------------------------------------------------------------
Next ==
  \/ \E h \in Handlers :
        \/ \E n \in Priorities : AddEventHandler(h, n) \/ EventHandlerSetPriority(h, n)
        \/ EnabledToggled(h) \/ HandlerActs(h)
  \/ SelectAllOrNone \/ UpdateStatusBar
  \/ \E distance \in [Handlers -> Distances] : ButtonPress(distance) \/ MotionNotify(distance)
  \/ ButtonReleaseOrScroll \/ KeyPressOrRelease
  \/ CallPickingHandler \/ CallOther \/ Return

Spec == Init /\ [][Next]_vars

-----------------------------------------------------------------------------
(* Property. *)

\* However handlers take and end their picks, in and between events (viewer.h): at most one
\* picks and at most one hovers; the one that picks hears of an event first, whatever its
\* priority, and the others hear of it in order of priority and once, unless they end a pick
\* on the way; and an event that is not consumed has come to all that are enabled, except
\* that a key does not come to a handler that ended its pick between events.
PickerGoesFirst ==
  /\ picking \subseteq {picking_handler} /\ Cardinality(hovering) <= 1
  /\ LET order == called.order
         others == IF called.first = None THEN order ELSE Tail(order)
     IN  /\ order # << >> /\ called.first # None => Head(order) = called.first
         /\ \A i, j \in DOMAIN order : i < j /\ order[i] = order[j] => order[i] \in called.dropped
         /\ order # << >> =>
              \A i, j \in DOMAIN others : i < j => priority[others[i]] >= priority[others[j]]
         /\ Over /\ ~event.consumed =>
              \A h \in enabled : h \in Range(order) \cup called.passed
=============================================================================
