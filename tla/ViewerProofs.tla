---------------------------- MODULE ViewerProofs ----------------------------
(***************************************************************************)
(* However handlers of the viewer take and end their picks, an event comes   *)
(* to them in the right order, for any handlers, priorities and distances.   *)
(***************************************************************************)
EXTENDS Viewer, FiniteSetTheorems, FunctionTheorems, SequenceTheorems, TLAPS

\* No handler is the missing one, and distances can be compared.
Setting == None \notin Handlers /\ Distances \subseteq Int

-----------------------------------------------------------------------------
(* The invariant *)

IsEvent(e) == e = [kind |-> e.kind, next |-> e.next, consumed |-> e.consumed] /\ e.next \in Nat

IsCalls(c) ==
  /\ c = [first |-> c.first, passed |-> c.passed, order |-> c.order, dropped |-> c.dropped]
  /\ c.order \in Seq(Handlers)

\* The list of handlers has each of them once, in order of priority.
Sorted ==
  /\ event_handlers \in Seq(Handlers)
  /\ IsInjective(event_handlers)
  /\ \A i, j \in DOMAIN event_handlers :
        i < j => priority[event_handlers[i]] >= priority[event_handlers[j]]
  /\ enabled \subseteq Range(event_handlers)

Flags ==
  /\ picking \subseteq {picking_handler} /\ picking \subseteq Handlers
  /\ Cardinality(hovering) <= 1

\* Who has heard of the event or is not to hear of it.
Covered(h) == h \in Range(called.order) \cup called.passed

\* How many of those that were called come before the others: the picking handler, or none.
Ahead == IF called.first = None THEN 0 ELSE 1

\* The others were called as the list has them, and the picking handler only again if it has
\* ended its pick.
InTurn ==
  /\ \A j \in DOMAIN called.order : Ahead < j =>
        /\ \E m \in DOMAIN event_handlers : m < event.next /\ called.order[j] = event_handlers[m]
        /\ called.order[j] = called.first => called.first \in called.dropped
  /\ \A j, k \in DOMAIN called.order : Ahead < j /\ j < k =>
        \E m, n \in DOMAIN event_handlers :
           m < n /\ called.order[j] = event_handlers[m] /\ called.order[k] = event_handlers[n]

\* The picking handler is to be called first.
PickerDue ==
  /\ called.order = << >> /\ called.first # None
  /\ called.first = picking_handler /\ picking_handler \in picking

\* It has been called, if there was one, and so have the others up to the next.
OthersDue ==
  /\ called.first # None =>
       /\ called.order # << >> /\ called.order[1] = called.first
       /\ called.first \notin called.dropped =>
            picking_handler = called.first /\ picking_handler \in picking
  /\ picking_handler \in enabled => Covered(picking_handler)
  /\ \A i \in DOMAIN event_handlers :
        i < event.next /\ event_handlers[i] \in enabled => Covered(event_handlers[i])
  /\ InTurn

HandedOut ==
  /\ IsEvent(event) /\ IsCalls(called)
  /\ event.kind = "none" => called = NotCalled
  /\ event.kind # "none" /\ event.next = 0 => PickerDue
  /\ event.kind # "none" /\ event.next > 0 => OthersDue

IInv == Sorted /\ Flags /\ HandedOut

-----------------------------------------------------------------------------
(* The list of handlers *)

\* A list by priority has all of a finite set, each once.
LEMMA ByPriorityFacts ==
  ASSUME NEW hs \in SUBSET Handlers, IsFiniteSet(hs), NEW p, NEW s \in ByPriority(hs, p)
  PROVE  /\ s \in Seq(Handlers) /\ IsInjective(s) /\ Range(s) = hs
         /\ \A i, j \in DOMAIN s : i < j => p[s[i]] >= p[s[j]]
<1> DEFINE D == 1..Cardinality(hs)
<1>1. /\ s \in [D -> hs] /\ \A i, j \in D : i # j => s[i] # s[j]
      /\ \A i, j \in DOMAIN s : i < j => p[s[i]] >= p[s[j]]
  BY DEF ByPriority, SetToSeqs
<1>2. Cardinality(hs) \in Nat
  BY FS_CardinalityType
<1>3. s \in Seq(Handlers)
  <2>1. s \in [1..Cardinality(hs) -> Handlers]
    BY <1>1
  <2> QED  BY <1>2, <2>1, SeqDef
<1>4. IsInjective(s)
  BY <1>1 DEF IsInjective
<1>5. Range(s) = hs
  <2>1. s \in Injection(D, hs)
    BY <1>1, <1>4 DEF Injection
  <2>2. IsFiniteSet(D) /\ Cardinality(D) = Cardinality(hs)
    BY <1>2, FS_Interval
  <2> HIDE DEF D
  <2>3. s \in Surjection(D, hs)
    BY <2>1, <2>2, FS_Injection
  <2> QED  BY <1>1, <2>3 DEF Surjection, Range
<1> QED  BY <1>1, <1>3, <1>4, <1>5

\* The handlers of a list are finitely many.
LEMMA FiniteRange ==
  ASSUME NEW s \in Seq(Handlers)
  PROVE  IsFiniteSet(Range(s)) /\ Range(s) \in SUBSET Handlers
<1>1. Len(s) \in Nat /\ s \in [1..Len(s) -> Handlers]
  BY LenProperties
<1>2. s \in Surjection(1..Len(s), Range(s))
  BY <1>1 DEF Surjection, Range
<1>3. IsFiniteSet(1..Len(s))
  BY <1>1, FS_Interval
<1> HIDE DEF Range
<1>4. IsFiniteSet(Range(s))
  BY <1>2, <1>3, FS_Surjection
<1> QED  BY <1>1, <1>4 DEF Range

\* At most one handler is the nearest.
LEMMA NearestFacts ==
  ASSUME Setting, Sorted, NEW distance \in [Handlers -> Distances]
  PROVE  /\ Nearest(distance) \subseteq enabled \cap Handlers
         /\ \A g, h \in Nearest(distance) : g = h
<1> DEFINE D(i) == distance[event_handlers[i]]
<1>1. \A i \in DOMAIN event_handlers : event_handlers[i] \in Handlers /\ D(i) \in Int /\ i \in Int
  <2>1. /\ DOMAIN event_handlers = 1..Len(event_handlers) /\ Len(event_handlers) \in Nat
        /\ event_handlers \in [1..Len(event_handlers) -> Handlers]
    BY LenProperties DEF Sorted
  <2>2. \A h \in Handlers : distance[h] \in Int
    BY DEF Setting
  <2>3. ASSUME NEW i \in DOMAIN event_handlers
        PROVE  event_handlers[i] \in Handlers /\ i \in Int
    BY <2>1
  <2> QED  BY <2>2, <2>3
<1> DEFINE near == { i \in DOMAIN event_handlers :
                       event_handlers[i] \in enabled /\ distance[event_handlers[i]] >= 0 }
           best == { i \in near : \A j \in near : D(i) < D(j) \/ (D(i) = D(j) /\ i <= j) }
<1>2. \A i, j \in best : i = j
  <2> SUFFICES ASSUME NEW i \in best, NEW j \in best PROVE i = j
    OBVIOUS
  <2>1. /\ D(i) \in Int /\ D(j) \in Int /\ i \in Int /\ j \in Int
        /\ D(i) < D(j) \/ (D(i) = D(j) /\ i <= j)
        /\ D(j) < D(i) \/ (D(j) = D(i) /\ j <= i)
    BY <1>1
  <2> HIDE DEF D
  <2> QED  BY <2>1
<1>3. Nearest(distance) = { event_handlers[i] : i \in best }
  BY DEF Nearest
<1>4. best \subseteq DOMAIN event_handlers /\ \A i \in best : event_handlers[i] \in enabled
  OBVIOUS
<1> HIDE DEF best
<1> QED  BY <1>1, <1>2, <1>3, <1>4

\* A set of at most one element.
LEMMA AtMostOne ==
  ASSUME NEW S, \A x, y \in S : x = y PROVE Cardinality(S) <= 1
<1>1. CASE S = {}
  BY <1>1, FS_EmptySet
<1>2. CASE S # {}
  <2>1. PICK x \in S : TRUE
    BY <1>2
  <2>2. S = {x}
    BY <2>1
  <2> QED  BY <2>2, FS_Singleton
<1> QED  BY <1>1, <1>2

-----------------------------------------------------------------------------
(* Between events *)

\* No handler, no event.
LEMMA InitIInv == ASSUME Init PROVE IInv
<1>1. Sorted
  <2>1. event_handlers \in Seq(Handlers) /\ DOMAIN event_handlers = {}
    BY EmptySeq DEF Init
  <2> QED  BY <2>1 DEF Init, Sorted, IsInjective
<1>2. Flags
  BY FS_EmptySet DEF Init, Flags
<1>3. HandedOut
  BY DEF Init, HandedOut, NoEvent, NotCalled, IsEvent, IsCalls
<1> QED  BY <1>1, <1>2, <1>3 DEF IInv

\* While no event is handed out, nothing is said of the calls.
LEMMA NoEventKept ==
  ASSUME HandedOut, event = NoEvent, UNCHANGED <<event, called>> PROVE HandedOut'
<1>1. called = NotCalled /\ event.kind = "none"
  BY DEF HandedOut, NoEvent
<1> QED  BY <1>1 DEF HandedOut, NoEvent, NotCalled, IsEvent, IsCalls

\* The list is sorted anew with a handler that is added.
LEMMA AddIInv ==
  ASSUME IInv, NEW h \in Handlers, NEW n, AddEventHandler(h, n) PROVE IInv'
<1> DEFINE hs == Range(event_handlers) \cup {h}
<1>1. /\ event = NoEvent /\ UNCHANGED <<picking, picking_handler, hovering, event, called>>
      /\ event_handlers' \in ByPriority(hs, priority')
      /\ enabled' \subseteq enabled \cup {h}
  BY DEF AddEventHandler
<1>2. IsFiniteSet(hs) /\ hs \in SUBSET Handlers
  BY FiniteRange, FS_AddElement DEF IInv, Sorted
<1>3. Sorted'
  <2>1. PICK s \in ByPriority(hs, priority') : s = event_handlers'
    BY <1>1
  <2>2. /\ s \in Seq(Handlers) /\ IsInjective(s) /\ Range(s) = hs
        /\ \A i, j \in DOMAIN s : i < j => priority'[s[i]] >= priority'[s[j]]
    <3> HIDE DEF hs
    <3> QED  BY <1>2, ByPriorityFacts
  <2> QED  BY <1>1, <2>1, <2>2 DEF IInv, Sorted
<1> QED  BY <1>1, <1>3, NoEventKept DEF IInv, Flags

\* ... and when a priority changes.
LEMMA SetPriorityIInv ==
  ASSUME IInv, NEW h \in Handlers, NEW n, EventHandlerSetPriority(h, n) PROVE IInv'
<1> DEFINE hs == Range(event_handlers)
<1>1. /\ event = NoEvent
      /\ UNCHANGED <<enabled, picking, picking_handler, hovering, event, called>>
      /\ event_handlers' \in ByPriority(hs, priority')
  BY DEF EventHandlerSetPriority
<1>2. IsFiniteSet(hs) /\ hs \in SUBSET Handlers
  BY FiniteRange DEF IInv, Sorted
<1>3. Sorted'
  <2>1. PICK s \in ByPriority(hs, priority') : s = event_handlers'
    BY <1>1
  <2>2. /\ s \in Seq(Handlers) /\ IsInjective(s) /\ Range(s) = hs
        /\ \A i, j \in DOMAIN s : i < j => priority'[s[i]] >= priority'[s[j]]
    <3> HIDE DEF hs
    <3> QED  BY <1>2, ByPriorityFacts
  <2> QED  BY <1>1, <2>1, <2>2 DEF IInv, Sorted
<1> QED  BY <1>1, <1>3, NoEventKept DEF IInv, Flags

\* Only handlers of the list are enabled by the menu.
LEMMA EnabledIInv ==
  ASSUME IInv, (\E h \in Handlers : EnabledToggled(h)) \/ SelectAllOrNone PROVE IInv'
<1>1. /\ event = NoEvent /\ enabled' \subseteq Range(event_handlers)
      /\ UNCHANGED <<event_handlers, priority, hovering, picking, picking_handler, event, called>>
  BY DEF EnabledToggled, SelectAllOrNone, IInv, Sorted
<1> QED  BY <1>1, NoEventKept DEF IInv, Sorted, Flags

\* The status bar forgets a picking handler that picks no more.
LEMMA StatusBarIInv == ASSUME IInv, UpdateStatusBar PROVE IInv'
<1>1. event = NoEvent /\ UNCHANGED <<flagVars, picking, event, called>>
  BY DEF UpdateStatusBar
<1>2. picking \subseteq {picking_handler'}
  BY DEF UpdateStatusBar, Known, IInv, Flags
<1> QED  BY <1>1, <1>2, NoEventKept DEF IInv, Sorted, Flags, flagVars

\* Whoever asks for a pick while another picks does not get it.
LEMMA RequestFacts ==
  ASSUME Flags, NEW h \in Handlers, RequestPick(h)
  PROVE  /\ picking' \subseteq {picking_handler'} /\ picking' \subseteq Handlers
         /\ \/ UNCHANGED <<picking, picking_handler>>
            \/ picking_handler' = h /\ h \in picking'
         /\ picking_handler \in picking => picking_handler' = picking_handler
BY DEF RequestPick, Flags

\* A handler that takes or ends a pick between events.
LEMMA ActsIInv == ASSUME IInv, NEW h \in Handlers, HandlerActs(h) PROVE IInv'
<1>1. event = NoEvent /\ UNCHANGED <<flagVars, event, called>>
  BY DEF HandlerActs
<1>2. picking' \subseteq {picking_handler'} /\ picking' \subseteq Handlers
  BY RequestFacts DEF HandlerActs, IInv, Flags
<1> QED  BY <1>1, <1>2, NoEventKept DEF IInv, Sorted, Flags, flagVars
\* Only handlers of the list are enabled.
LEMMA EnabledHandlers == ASSUME Sorted PROVE enabled \subseteq Handlers
BY FiniteRange DEF Sorted

-----------------------------------------------------------------------------
(* An event arrives *)

\* The picking handler is first if it picks and is enabled; it is passed over if it does not
\* pick any more.
LEMMA BeginFacts ==
  ASSUME Setting, Sorted, UNCHANGED <<event_handlers, enabled>>,
         NEW kind \in {"mouse", "key"}, Begin(kind, picking_handler', picking')
  PROVE  HandedOut'
<1> DEFINE first == IF picking_handler' \in picking' \cap enabled THEN picking_handler' ELSE None
<1>1. /\ event' = [kind |-> kind, next |-> IF first = None THEN 1 ELSE 0, consumed |-> FALSE]
      /\ called' = [first |-> first, passed |-> {picking_handler'} \ picking',
                    order |-> << >>, dropped |-> {}]
  BY DEF Begin, NotCalled
<1>2. /\ event'.kind # "none" /\ event'.next = (IF first = None THEN 1 ELSE 0)
      /\ called'.first = first /\ called'.order = << >>
      /\ called'.passed = {picking_handler'} \ picking'
  BY <1>1
<1>3. IsEvent(event)' /\ IsCalls(called)'
  BY <1>1, EmptySeq DEF IsEvent, IsCalls
<1>4. CASE first # None
  <2>1. first = picking_handler' /\ picking_handler' \in picking'
    BY <1>4
  <2> HIDE DEF first
  <2> QED  BY <1>2, <1>3, <1>4, <2>1 DEF HandedOut, PickerDue
<1>5. CASE first = None
  <2>1. picking_handler' \in enabled => picking_handler' \notin picking'
    BY <1>5, EnabledHandlers DEF Setting
  <2> HIDE DEF first
  <2>2. event'.next = 1 /\ called'.first = None /\ DOMAIN called'.order = {}
    BY <1>2, <1>5
  <2>3. picking_handler' \in enabled' => Covered(picking_handler)'
    BY <1>2, <2>1 DEF Covered
  <2>4. \A i \in DOMAIN event_handlers' : ~(i < 1)
    <3>1. DOMAIN event_handlers = 1..Len(event_handlers) /\ Len(event_handlers) \in Nat
      BY LenProperties DEF Sorted
    <3> QED  BY <3>1
  <2>5. InTurn'
    BY <2>2 DEF InTurn
  <2> QED  BY <1>2, <1>3, <2>2, <2>3, <2>4, <2>5 DEF HandedOut, OthersDue
<1> QED  BY <1>4, <1>5

\* A handler that wins the queries picks from then on; nobody picked before.
LEMMA ButtonPressIInv ==
  ASSUME Setting, IInv, NEW distance \in [Handlers -> Distances], ButtonPress(distance)
  PROVE  IInv'
<1> DEFINE winner == IF picking_handler \in picking THEN {} ELSE Nearest(distance)
<1>1. /\ picking' = picking \cup winner
      /\ picking_handler' = IF winner = {} THEN Known(picking_handler, picking)
                            ELSE CHOOSE h \in winner : TRUE
      /\ Begin("mouse", picking_handler', picking') /\ UNCHANGED flagVars
  BY DEF ButtonPress
<1>2. winner \subseteq Handlers /\ \A g, h \in winner : g = h
  BY NearestFacts DEF IInv
<1>3. winner # {} => picking = {}
  BY DEF IInv, Flags
<1> HIDE DEF winner
<1>4. picking' \subseteq {picking_handler'} /\ picking' \subseteq Handlers
  <2>1. CASE winner = {}
    BY <1>1, <2>1 DEF Known, IInv, Flags
  <2>2. CASE winner # {}
    <3>1. picking_handler' \in winner
      BY <1>1, <2>2
    <3> QED  BY <1>1, <1>2, <1>3, <2>2, <3>1
  <2> QED  BY <2>1, <2>2
<1>5. HandedOut'
  BY <1>1, BeginFacts DEF IInv, flagVars
<1> QED  BY <1>1, <1>4, <1>5 DEF IInv, Sorted, Flags, flagVars

\* At most one handler hovers, the nearest; a picking handler that gave up is forgotten.
LEMMA MotionNotifyIInv ==
  ASSUME Setting, IInv, NEW distance \in [Handlers -> Distances], MotionNotify(distance)
  PROVE  IInv'
<1>1. /\ hovering' = IF picking_handler \in picking THEN hovering ELSE Nearest(distance)
      /\ picking_handler' = Known(picking_handler, picking)
      /\ Begin("mouse", picking_handler', picking')
      /\ UNCHANGED <<event_handlers, priority, enabled, picking>>
  BY DEF MotionNotify
<1>2. Cardinality(hovering') <= 1
  <2>1. Cardinality(Nearest(distance)) <= 1
    BY NearestFacts, AtMostOne DEF IInv
  <2> QED  BY <1>1, <2>1 DEF IInv, Flags
<1>3. picking' \subseteq {picking_handler'} /\ picking' \subseteq Handlers
  BY <1>1 DEF Known, IInv, Flags
<1>4. HandedOut'
  BY <1>1, BeginFacts DEF IInv
<1> QED  BY <1>1, <1>2, <1>3, <1>4 DEF IInv, Sorted, Flags

\* Keys, releases and the wheel begin an event and change no flag.
LEMMA OtherEventsIInv ==
  ASSUME Setting, IInv, ButtonReleaseOrScroll \/ KeyPressOrRelease PROVE IInv'
<1>1. /\ UNCHANGED flagVars /\ picking' = picking
      /\ \E kind \in {"mouse", "key"} : Begin(kind, picking_handler', picking')
      /\ picking_handler' \in {picking_handler, Known(picking_handler, picking)}
  BY DEF ButtonReleaseOrScroll, KeyPressOrRelease
<1>2. picking' \subseteq {picking_handler'} /\ picking' \subseteq Handlers
  BY <1>1 DEF Known, IInv, Flags
<1>3. HandedOut'
  BY <1>1, BeginFacts DEF IInv, flagVars
<1> QED  BY <1>1, <1>2, <1>3 DEF IInv, Sorted, Flags, flagVars

-----------------------------------------------------------------------------
(* A handler is called *)

\* The fields of the record of the calls after that of a handler, which may end its pick.
LEMMA CallFields ==
  ASSUME NEW c, IsCalls(c), NEW o, NEW d
  PROVE  [c EXCEPT !.order = o, !.dropped = d]
           = [first |-> c.first, passed |-> c.passed, order |-> o, dropped |-> d]
<1> DEFINE next == [c EXCEPT !.order = o]
<1>1. next = [first |-> c.first, passed |-> c.passed, order |-> o, dropped |-> c.dropped]
  BY DEF IsCalls
<1>2. [c EXCEPT !.order = o, !.dropped = d] = [next EXCEPT !.dropped = d]
  BY DEF IsCalls
<1> HIDE DEF next
<1>3. [next EXCEPT !.dropped = d]
        = [first |-> c.first, passed |-> c.passed, order |-> o, dropped |-> d]
  BY <1>1
<1> QED  BY <1>2, <1>3

\* What the call of a handler changes.
LEMMA CalledFacts ==
  ASSUME Flags, IsCalls(called), NEW h \in Handlers, Called(h)
  PROVE  /\ UNCHANGED flagVars /\ picking' \subseteq Handlers
         /\ IsCalls(called)' /\ called'.order = Append(called.order, h)
         /\ called'.first = called.first /\ called'.passed = called.passed
         /\ called.dropped \subseteq called'.dropped
         /\ \/ /\ picking' \subseteq {picking_handler'}
               /\ picking_handler \in picking =>
                    picking_handler' = picking_handler /\ picking_handler \in picking'
               /\ picking_handler' # picking_handler => picking_handler' = h
            \/ /\ h \in called'.dropped /\ picking' = picking \ {h}
               /\ picking_handler' = IF event.next = 0 THEN None ELSE picking_handler
<1>1. UNCHANGED flagVars
  BY DEF Called
<1> DEFINE c1 == [first |-> called.first, passed |-> called.passed,
                  order |-> Append(called.order, h), dropped |-> called.dropped]
           c2 == [first |-> called.first, passed |-> called.passed,
                  order |-> Append(called.order, h), dropped |-> called.dropped \cup {h}]
<1>2. Append(called.order, h) \in Seq(Handlers)
  BY DEF IsCalls
<1>3. [called EXCEPT !.order = Append(@, h)] = c1
  BY DEF IsCalls
<1>4. [called EXCEPT !.order = Append(@, h), !.dropped = @ \cup {h}] = c2
  <2>1. PICK o, d : o = Append(called.order, h) /\ d = called.dropped \cup {h}
    OBVIOUS
  <2>2. [called EXCEPT !.order = o, !.dropped = d]
          = [first |-> called.first, passed |-> called.passed, order |-> o, dropped |-> d]
    BY CallFields
  <2> QED  BY <2>1, <2>2, Zenon
<1>5. called' \in {c1, c2}
  BY <1>3, <1>4 DEF Called
<1>6. /\ IsCalls(called)' /\ called'.order = Append(called.order, h)
      /\ called'.first = called.first /\ called'.passed = called.passed
      /\ called.dropped \subseteq called'.dropped
  BY <1>2, <1>5 DEF IsCalls
<1>7. CASE RequestPick(h) \/ UNCHANGED <<picking, picking_handler>>
  <2>1. /\ picking' \subseteq {picking_handler'} /\ picking' \subseteq Handlers
        /\ picking_handler \in picking =>
             picking_handler' = picking_handler /\ picking_handler \in picking'
        /\ picking_handler' # picking_handler => picking_handler' = h
    BY <1>7 DEF RequestPick, Flags
  <2> QED  BY <1>1, <1>6, <2>1
<1>8. CASE /\ picking' = picking \ {h}
           /\ picking_handler' = IF event.next = 0 THEN Known(h, {}) ELSE picking_handler
           /\ called' = c2
  <2>1. h \in called'.dropped
    BY <1>8
  <2>2. /\ picking' \subseteq Handlers
        /\ picking_handler' = IF event.next = 0 THEN None ELSE picking_handler
    BY <1>8 DEF Known, Flags
  <2> QED  BY <1>1, <1>6, <1>8, <2>1, <2>2
<1> HIDE DEF c1, c2
<1> QED  BY <1>4, <1>7, <1>8 DEF Called

\* The picking handler has its dibs: from here on the others are due.
LEMMA CallPickingHandlerIInv == ASSUME Setting, IInv, CallPickingHandler PROVE IInv'
<1> DEFINE h == picking_handler
<1>1. PickerDue /\ IsEvent(event) /\ IsCalls(called) /\ h \in Handlers /\ event.next = 0
  BY DEF CallPickingHandler, IInv, HandedOut, PickerDue, Flags
<1>2. Called(h)
  BY DEF CallPickingHandler
<1>3. IsEvent(event)' /\ event'.next = 1 /\ event'.kind = event.kind
  <2>1. PICK consumed \in BOOLEAN : event' = [event EXCEPT !.next = 1, !.consumed = consumed]
    BY DEF CallPickingHandler
  <2>2. event' = [kind |-> event.kind, next |-> 1, consumed |-> consumed]
    BY <1>1, <2>1 DEF IsEvent
  <2> QED  BY <2>2 DEF IsEvent
<1>4. /\ UNCHANGED flagVars /\ picking' \subseteq Handlers
      /\ IsCalls(called)' /\ called'.order = Append(called.order, h)
      /\ called'.first = called.first /\ called'.passed = called.passed
      /\ \/ picking' \subseteq {picking_handler'} /\ picking_handler' = h /\ h \in picking'
         \/ h \in called'.dropped /\ picking' = picking \ {h} /\ picking_handler' = None
  BY <1>1, <1>2, CalledFacts DEF IInv, PickerDue
<1>5. called'.order = <<h>> /\ called'.first = h /\ h # None
  BY <1>1, <1>4 DEF PickerDue
<1>6. Range(called'.order) = {h} /\ DOMAIN called'.order = {1}
  BY <1>5 DEF Range
<1>7. picking' \subseteq {picking_handler'}
  BY <1>1, <1>4 DEF IInv, Flags
<1>8. OthersDue'
  <2>1. called'.first \notin called'.dropped =>
          picking_handler' = called'.first /\ picking_handler' \in picking'
    BY <1>4, <1>5
  <2>2. picking_handler' \in enabled' => Covered(picking_handler)'
    <3>1. enabled' \subseteq Handlers
      BY <1>4, EnabledHandlers DEF IInv, flagVars
    <3> QED  BY <1>4, <1>6, <3>1 DEF Covered, Setting
  <2>3. \A i \in DOMAIN event_handlers' : ~(i < event'.next)
    <3>1. /\ DOMAIN event_handlers = 1..Len(event_handlers) /\ Len(event_handlers) \in Nat
          /\ event_handlers' = event_handlers
      BY <1>4, LenProperties DEF IInv, Sorted, flagVars
    <3> QED  BY <1>3, <3>1
  <2>4. Ahead' = 1
    BY <1>5 DEF Ahead
  <2>5. InTurn'
    BY <1>6, <2>4 DEF InTurn
  <2> QED  BY <1>5, <2>1, <2>2, <2>3, <2>5 DEF OthersDue
<1>9. event'.kind # "none"
  BY <1>3 DEF CallPickingHandler
<1> QED
  <2>1. HandedOut'
    BY <1>3, <1>4, <1>8, <1>9 DEF HandedOut
  <2> QED  BY <1>4, <1>7, <2>1 DEF IInv, Sorted, Flags, flagVars

\* The calls of the others go through the list, and one that is called again has ended its pick.
LEMMA CallOtherInTurn ==
  ASSUME Setting, IInv, OthersDue, NEW i \in Others, event.next > 0,
         UNCHANGED event_handlers, event'.next = i + 1,
         called'.order = Append(called.order, event_handlers[i]), called'.first = called.first,
         called.dropped \subseteq called'.dropped
  PROVE  InTurn'
<1> DEFINE h == event_handlers[i]
           order == called.order
<1>1. /\ order \in Seq(Handlers) /\ Len(order) \in Nat /\ DOMAIN order = 1..Len(order)
      /\ event.next \in Nat
  BY LenProperties DEF IInv, HandedOut, IsEvent, IsCalls
<1>2. /\ i \in DOMAIN event_handlers /\ i \in Nat /\ i >= event.next
      /\ h \in Handlers /\ h # picking_handler
  <2>1. /\ DOMAIN event_handlers = 1..Len(event_handlers) /\ Len(event_handlers) \in Nat
        /\ event_handlers \in [1..Len(event_handlers) -> Handlers]
    BY LenProperties DEF IInv, Sorted
  <2> QED  BY <2>1 DEF Others
<1>3. /\ called'.order = Append(order, h) /\ DOMAIN called'.order = 1..(Len(order) + 1)
      /\ \A j \in 1..Len(order) : called'.order[j] = order[j]
      /\ called'.order[Len(order) + 1] = h
  BY <1>1, <1>2, AppendProperties
<1>4. h = called.first => called.first \in called.dropped
  BY <1>2 DEF OthersDue, Setting
<1>5. Ahead' = Ahead /\ Ahead \in Nat
  BY DEF Ahead
<1>6. /\ \A j \in 1..Len(order) : Ahead < j =>
           /\ \E m \in DOMAIN event_handlers :
                m < event.next /\ order[j] = event_handlers[m]
           /\ order[j] = called.first => called.first \in called.dropped
      /\ \A j, k \in 1..Len(order) : Ahead < j /\ j < k =>
           \E m, n \in DOMAIN event_handlers :
             m < n /\ order[j] = event_handlers[m] /\ order[k] = event_handlers[n]
  <2>1. DOMAIN order = 1..Len(order)
    BY <1>1
  <2>2. InTurn
    BY DEF OthersDue
  <2>3. \A j \in DOMAIN order : Ahead < j =>
          /\ \E m \in DOMAIN event_handlers :
               m < event.next /\ order[j] = event_handlers[m]
          /\ order[j] = called.first => called.first \in called.dropped
    BY <2>2, Zenon DEF InTurn
  <2>4. \A j, k \in DOMAIN order : Ahead < j /\ j < k =>
          \E m, n \in DOMAIN event_handlers :
            m < n /\ order[j] = event_handlers[m] /\ order[k] = event_handlers[n]
    BY <2>2, Zenon DEF InTurn
  <2> HIDE DEF order
  <2> QED  BY <2>1, <2>3, <2>4
<1>7. \A m \in DOMAIN event_handlers : m < event.next => m < i
  <2>1. DOMAIN event_handlers = 1..Len(event_handlers) /\ Len(event_handlers) \in Nat
    BY LenProperties DEF IInv, Sorted
  <2> QED  BY <1>1, <1>2, <2>1
<1>8. \A j \in 1..(Len(order) + 1) : j \in 1..Len(order) \/ j = Len(order) + 1
  BY <1>1
<1>9. ASSUME NEW j \in 1..(Len(order) + 1), Ahead < j
      PROVE  /\ \E m \in DOMAIN event_handlers : m < i + 1 /\ called'.order[j] = event_handlers[m]
             /\ called'.order[j] = called.first => called.first \in called'.dropped
  <2>1. CASE j = Len(order) + 1
    <3>1. i < i + 1
      BY <1>2
    <3> QED  BY <1>2, <1>3, <1>4, <2>1, <3>1
  <2>2. CASE j \in 1..Len(order)
    <3>1. PICK m \in DOMAIN event_handlers : m < event.next /\ order[j] = event_handlers[m]
      BY <1>6, <1>9, <2>2
    <3>2. m < i + 1
      <4>1. DOMAIN event_handlers = 1..Len(event_handlers) /\ Len(event_handlers) \in Nat
        BY LenProperties DEF IInv, Sorted
      <4> QED  BY <1>2, <1>7, <3>1, <4>1
    <3>3. called'.order[j] = called.first => called.first \in called'.dropped
      BY <1>3, <1>6, <1>9, <2>2
    <3> QED  BY <1>3, <2>2, <3>1, <3>2, <3>3
  <2> QED  BY <1>8, <2>1, <2>2
<1>10. ASSUME NEW j \in 1..(Len(order) + 1), NEW k \in 1..(Len(order) + 1), Ahead < j, j < k
       PROVE  \E m, n \in DOMAIN event_handlers :
                /\ m < n
                /\ called'.order[j] = event_handlers[m] /\ called'.order[k] = event_handlers[n]
  <2>1. j \in 1..Len(order)
    BY <1>1, <1>10
  <2>2. CASE k = Len(order) + 1
    <3>1. PICK m \in DOMAIN event_handlers : m < event.next /\ order[j] = event_handlers[m]
      BY <1>6, <1>10, <2>1
    <3>2. m < i
      BY <1>7, <3>1
    <3> QED  BY <1>2, <1>3, <2>1, <2>2, <3>1, <3>2
  <2>3. CASE k \in 1..Len(order)
    <3>1. PICK m, n \in DOMAIN event_handlers :
            m < n /\ order[j] = event_handlers[m] /\ order[k] = event_handlers[n]
      BY <1>6, <1>10, <2>1, <2>3
    <3> QED  BY <1>3, <2>1, <2>3, <3>1
  <2> QED  BY <1>8, <2>2, <2>3
<1> HIDE DEF order, h
<1> QED  BY <1>3, <1>5, <1>9, <1>10 DEF InTurn

\* The first of those that are left has been called.
LEMMA CallOtherIInv == ASSUME Setting, IInv, CallOther PROVE IInv'
<1>1. PICK i \in Others :
        /\ \A j \in Others : i <= j
        /\ Called(event_handlers[i])
        /\ \E consumed \in BOOLEAN :
              event' = [event EXCEPT !.next = i + 1, !.consumed = consumed]
  BY DEF CallOther
<1>2. event.kind # "none" /\ event.next > 0
  BY DEF CallOther
<1>3. OthersDue /\ IsEvent(event) /\ IsCalls(called)
  BY <1>2 DEF IInv, HandedOut
<1>4. PICK h : h = event_handlers[i]
  OBVIOUS
<1>5. /\ DOMAIN event_handlers = 1..Len(event_handlers) /\ Len(event_handlers) \in Nat
      /\ event_handlers \in [1..Len(event_handlers) -> Handlers]
  BY LenProperties DEF IInv, Sorted
<1>6. /\ i \in DOMAIN event_handlers /\ i \in Nat
      /\ h \in Handlers /\ h # picking_handler /\ h \in enabled
  BY <1>4, <1>5 DEF Others
<1>7. Called(h)
  BY <1>1, <1>4
<1>8. /\ UNCHANGED flagVars /\ picking' \subseteq Handlers
      /\ IsCalls(called)' /\ called'.order = Append(called.order, h)
      /\ called'.first = called.first /\ called'.passed = called.passed
      /\ called.dropped \subseteq called'.dropped
      /\ \/ /\ picking' \subseteq {picking_handler'}
            /\ picking_handler \in picking =>
                 picking_handler' = picking_handler /\ picking_handler \in picking'
            /\ picking_handler' # picking_handler => picking_handler' = h
         \/ /\ h \in called'.dropped /\ picking' = picking \ {h}
            /\ picking_handler' = picking_handler
  BY <1>2, <1>3, <1>6, <1>7, CalledFacts DEF IInv
<1>9. IsEvent(event)' /\ event'.next = i + 1 /\ event'.kind = event.kind
  <2>1. PICK consumed \in BOOLEAN : event' = [event EXCEPT !.next = i + 1, !.consumed = consumed]
    BY <1>1
  <2>2. event' = [kind |-> event.kind, next |-> i + 1, consumed |-> consumed]
    BY <1>3, <2>1 DEF IsEvent
  <2> QED  BY <1>6, <2>2 DEF IsEvent
<1>10. picking' \subseteq {picking_handler'}
  BY <1>6, <1>8 DEF Known, IInv, Flags, Setting
<1>11. called.order \in Seq(Handlers)
  BY <1>3 DEF IsCalls
<1>12. /\ called'.order # << >>
       /\ called.order # << >> => called'.order[1] = called.order[1]
       /\ Range(called'.order) = Range(called.order) \cup {h}
  <2>1. /\ DOMAIN called'.order = 1..(Len(called.order) + 1)
        /\ \A j \in 1..Len(called.order) : called'.order[j] = called.order[j]
        /\ called'.order[Len(called.order) + 1] = h
        /\ DOMAIN called.order = 1..Len(called.order) /\ Len(called.order) \in Nat
    BY <1>6, <1>8, <1>11, AppendProperties, LenProperties
  <2>2. called'.order # << >> /\ (called.order # << >> => called'.order[1] = called.order[1])
    BY <1>8, <1>11, <2>1
  <2>3. Range(called'.order) = Range(called.order) \cup {h}
    BY <2>1 DEF Range
  <2> QED  BY <2>2, <2>3
<1>13. \A g : Covered(g) \/ g = h => Covered(g)'
  BY <1>8, <1>12 DEF Covered
<1>14. OthersDue'
  <2>1. called'.first # None =>
          /\ called'.order # << >> /\ called'.order[1] = called'.first
          /\ called'.first \notin called'.dropped =>
               picking_handler' = called'.first /\ picking_handler' \in picking'
    <3> SUFFICES ASSUME called.first # None
                 PROVE  /\ called'.order # << >> /\ called'.order[1] = called'.first
                        /\ called.first \notin called'.dropped =>
                             picking_handler' = called.first /\ picking_handler' \in picking'
      BY <1>8
    <3>1. called'.order # << >> /\ called'.order[1] = called'.first
      BY <1>3, <1>8, <1>12 DEF OthersDue
    <3>2. ASSUME called.first \notin called'.dropped
          PROVE  picking_handler' = called.first /\ picking_handler' \in picking'
      <4>1. picking_handler = called.first /\ picking_handler \in picking
        BY <1>3, <1>8, <3>2 DEF OthersDue
      <4>2. h # picking_handler
        BY <1>6
      <4> QED  BY <1>8, <4>1, <4>2 DEF IInv, Flags
    <3> QED  BY <3>1, <3>2
  <2>2. picking_handler' \in enabled' => Covered(picking_handler)'
    <3>1. Covered(picking_handler) \/ picking_handler' = h \/ picking_handler' \notin enabled
      BY <1>3, <1>8 DEF OthersDue
    <3>2. picking_handler' \in enabled => Covered(picking_handler') \/ picking_handler' = h
      BY <1>3, <1>8 DEF OthersDue, Covered
    <3>3. \A g : Covered(g) \/ g = h => g \in Range(called'.order) \cup called'.passed
      BY <1>8, <1>12 DEF Covered
    <3> QED  BY <1>8, <3>2, <3>3 DEF Covered, flagVars
  <2>3. ASSUME NEW j \in DOMAIN event_handlers, j < i + 1, event_handlers[j] \in enabled
        PROVE  Covered(event_handlers[j])'
    <3>1. CASE j < event.next
      BY <1>3, <1>8, <1>12, <2>3, <3>1 DEF OthersDue, Covered, flagVars
    <3>2. CASE j = i
      BY <1>4, <1>8, <1>12, <3>2 DEF Covered, flagVars
    <3>3. CASE j >= event.next /\ j # i
      <4>1. j \notin Others
        <5>1. ~(i <= j)
          BY <1>5, <1>6, <2>3, <3>3
        <5> QED  BY <1>1, <5>1
      <4>2. event_handlers[j] = picking_handler
        BY <2>3, <3>3, <4>1 DEF Others
      <4> QED  BY <1>3, <1>8, <1>12, <2>3, <4>2 DEF OthersDue, Covered, flagVars
    <3>4. event.next \in Nat /\ j \in Nat
      BY <1>3, <1>5 DEF IsEvent
    <3>5. j < event.next \/ j >= event.next
      BY <3>4
    <3> QED  BY <3>1, <3>2, <3>3, <3>5
  <2>4. InTurn'
    BY <1>2, <1>3, <1>4, <1>8, <1>9, CallOtherInTurn DEF flagVars
  <2> QED  BY <1>8, <1>9, <2>1, <2>2, <2>3, <2>4 DEF OthersDue, flagVars
<1>15. HandedOut'
  <2>1. event'.next > 0 /\ event'.next # 0 /\ event'.kind # "none"
    BY <1>2, <1>6, <1>9
  <2> QED  BY <1>8, <1>9, <1>14, <2>1 DEF HandedOut
<1> QED  BY <1>8, <1>10, <1>15 DEF IInv, Sorted, Flags, flagVars

-----------------------------------------------------------------------------
(* The theorem *)

\* The event is over.
LEMMA ReturnIInv == ASSUME IInv, Return PROVE IInv'
<1>1. /\ event' = NoEvent /\ called' = NotCalled
      /\ UNCHANGED <<flagVars, picking, picking_handler>>
  BY DEF Return
<1>2. HandedOut'
  BY <1>1, EmptySeq DEF HandedOut, NoEvent, NotCalled, IsEvent, IsCalls
<1> QED  BY <1>1, <1>2 DEF IInv, Sorted, Flags, flagVars

\* Every step keeps the invariant.
LEMMA NextIInv == ASSUME Setting, IInv, [Next]_vars PROVE IInv'
<1>1. CASE \E h \in Handlers, n \in Priorities : AddEventHandler(h, n)
  BY <1>1, AddIInv
<1>2. CASE \E h \in Handlers, n \in Priorities : EventHandlerSetPriority(h, n)
  BY <1>2, SetPriorityIInv
<1>3. CASE (\E h \in Handlers : EnabledToggled(h)) \/ SelectAllOrNone
  BY <1>3, EnabledIInv
<1>4. CASE \E h \in Handlers : HandlerActs(h)
  BY <1>4, ActsIInv
<1>5. CASE UpdateStatusBar
  BY <1>5, StatusBarIInv
<1>6. CASE \E distance \in [Handlers -> Distances] : ButtonPress(distance)
  BY <1>6, ButtonPressIInv
<1>7. CASE \E distance \in [Handlers -> Distances] : MotionNotify(distance)
  BY <1>7, MotionNotifyIInv
<1>8. CASE ButtonReleaseOrScroll \/ KeyPressOrRelease
  BY <1>8, OtherEventsIInv
<1>9. CASE CallPickingHandler
  BY <1>9, CallPickingHandlerIInv
<1>10. CASE CallOther
  BY <1>10, CallOtherIInv
<1>11. CASE Return
  BY <1>11, ReturnIInv
<1>12. CASE UNCHANGED vars
  <2>1. UNCHANGED <<event_handlers, priority, enabled, hovering, picking, picking_handler,
                    event, called>>
    BY <1>12 DEF vars, flagVars
  <2>2. InTurn' = InTurn /\ PickerDue' = PickerDue /\ IsEvent(event)' = IsEvent(event)
        /\ IsCalls(called)' = IsCalls(called) /\ \A h : Covered(h)' = Covered(h)
    BY <2>1 DEF InTurn, Ahead, PickerDue, IsEvent, IsCalls, Covered
  <2>3. OthersDue' = OthersDue
    BY <2>1, <2>2 DEF OthersDue, InTurn, Ahead, Covered
  <2> QED  BY <2>1, <2>2, <2>3 DEF IInv, Sorted, Flags, HandedOut
<1> QED
  BY <1>1, <1>2, <1>3, <1>4, <1>5, <1>6, <1>7, <1>8, <1>9, <1>10, <1>11, <1>12 DEF Next

\* A handler that is called again has ended its pick.
LEMMA CalledAgain ==
  ASSUME IInv, NEW i \in DOMAIN called.order, NEW j \in DOMAIN called.order,
         i < j, called.order[i] = called.order[j]
  PROVE  called.order[i] \in called.dropped
<1>1. /\ DOMAIN called.order = 1..Len(called.order) /\ Len(called.order) \in Nat
      /\ called.order # << >>
  BY LenProperties, EmptySeq DEF IInv, HandedOut, IsCalls
<1>2. OthersDue /\ InTurn
  BY <1>1 DEF IInv, HandedOut, PickerDue, OthersDue, NotCalled, IsEvent
<1>3. ~(Ahead < i)
  <2> SUFFICES ASSUME Ahead < i PROVE FALSE
    OBVIOUS
  <2>1. PICK m, n \in DOMAIN event_handlers :
          m < n /\ called.order[i] = event_handlers[m] /\ called.order[j] = event_handlers[n]
    BY <1>2, Zenon DEF InTurn
  <2>2. m = n
    BY <2>1 DEF IInv, Sorted, IsInjective
  <2>3. DOMAIN event_handlers = 1..Len(event_handlers) /\ Len(event_handlers) \in Nat
    BY LenProperties DEF IInv, Sorted
  <2> QED  BY <2>1, <2>2, <2>3
<1>4. called.first # None /\ i = 1 /\ Ahead < j
  BY <1>1, <1>3 DEF Ahead
<1> QED  BY <1>2, <1>4 DEF OthersDue, InTurn

\* The invariant says what the theorem says.
LEMMA IInvImplies == ASSUME Setting, IInv PROVE PickerGoesFirst
<1> DEFINE order == called.order
           others == IF called.first = None THEN order ELSE Tail(order)
<1>1. /\ order \in Seq(Handlers) /\ DOMAIN order = 1..Len(order) /\ Len(order) \in Nat
  BY LenProperties DEF IInv, HandedOut, IsCalls
<1>2. order # << >> => OthersDue /\ InTurn
  BY DEF IInv, HandedOut, PickerDue, OthersDue, NotCalled, IsEvent
<1>3. order # << >> /\ called.first # None => Head(order) = called.first
  BY <1>1, <1>2 DEF OthersDue
<1>4. \A i, j \in DOMAIN order : i < j /\ order[i] = order[j] => order[i] \in called.dropped
  BY CalledAgain
<1>5. ASSUME order # << >>, NEW i \in DOMAIN others, NEW j \in DOMAIN others, i < j
      PROVE  priority[others[i]] >= priority[others[j]]
  <2>1. Ahead \in {0, 1} /\ Len(order) > 0
    BY <1>1, <1>5, EmptySeq DEF Ahead
  <2>2. DOMAIN others = 1..(Len(order) - Ahead)
        /\ \A k \in DOMAIN others : others[k] = order[k + Ahead]
    <3>1. CASE called.first = None
      BY <1>1, <3>1 DEF Ahead
    <3>2. CASE called.first # None
      <4>1. others = Tail(order) /\ Ahead = 1
        BY <3>2 DEF Ahead
      <4>2. /\ Tail(order) \in Seq(Handlers) /\ Len(Tail(order)) = Len(order) - 1
            /\ \A k \in 1..Len(Tail(order)) : Tail(order)[k] = order[k + 1]
        BY <1>1, <1>5, HeadTailProperties
      <4>3. DOMAIN Tail(order) = 1..Len(Tail(order))
        BY <4>2, LenProperties
      <4>4. DOMAIN Tail(order) = 1..(Len(order) - 1)
        BY <4>2, <4>3
      <4> HIDE DEF others, order
      <4>5. \A k \in 1..(Len(order) - 1) : Tail(order)[k] = order[k + 1]
        BY <4>2
      <4> QED  BY <4>1, <4>4, <4>5
    <3> QED  BY <3>1, <3>2
  <2> HIDE DEF others
  <2>3. /\ i + Ahead \in DOMAIN order /\ j + Ahead \in DOMAIN order
        /\ Ahead < i + Ahead /\ i + Ahead < j + Ahead
    BY <1>1, <1>5, <2>1, <2>2
  <2>4. PICK k, l \in DOMAIN order : k = i + Ahead /\ l = j + Ahead
    BY <2>3
  <2>5. PICK m, n \in DOMAIN event_handlers :
          m < n /\ order[k] = event_handlers[m] /\ order[l] = event_handlers[n]
    <3>1. Ahead < k /\ k < l /\ InTurn
      BY <1>2, <1>5, <2>3, <2>4
    <3> QED  BY <3>1, Zenon DEF InTurn
  <2>6. priority[event_handlers[m]] >= priority[event_handlers[n]]
    BY <2>5 DEF IInv, Sorted
  <2> QED  BY <2>2, <2>4, <2>5, <2>6
<1>6. ASSUME Over, ~event.consumed, NEW h \in enabled
      PROVE  h \in Range(order) \cup called.passed
  <2>1. event.next > 0 /\ Others = {} /\ OthersDue /\ event.next \in Nat
    BY <1>6 DEF Over, IInv, HandedOut, IsEvent
  <2>2. PICK i \in DOMAIN event_handlers : h = event_handlers[i]
    BY DEF IInv, Sorted, Range
  <2>3. i \in Nat
    <3>1. DOMAIN event_handlers = 1..Len(event_handlers) /\ Len(event_handlers) \in Nat
      BY LenProperties DEF IInv, Sorted
    <3> QED  BY <3>1
  <2>4. CASE i < event.next
    BY <2>1, <2>2, <2>4 DEF OthersDue, Covered
  <2>5. CASE i >= event.next
    <3>1. event_handlers[i] \notin enabled \ {picking_handler}
      BY <2>1, <2>5 DEF Others
    <3>2. h = picking_handler
      BY <2>2, <3>1
    <3> QED  BY <2>1, <3>2 DEF OthersDue, Covered
  <2> QED  BY <2>1, <2>3, <2>4, <2>5
<1>7. picking \subseteq {picking_handler} /\ Cardinality(hovering) <= 1
  BY DEF IInv, Flags
<1> QED  BY <1>3, <1>4, <1>5, <1>6, <1>7 DEF PickerGoesFirst

\* The invariant that the theorem rests on.
THEOREM Invariance == ASSUME Setting PROVE Spec => []IInv
<1>1. IInv /\ [Next]_vars => IInv'
  BY NextIInv
<1> QED  BY <1>1, InitIInv, PTL DEF Spec

\* At most one handler picks and at most one hovers; the one that picks hears of an event
\* first, and the others in order of priority and once, until one consumes it.
THEOREM FirstDibs == ASSUME Setting PROVE Spec => []PickerGoesFirst
<1>1. IInv => PickerGoesFirst
  BY IInvImplies
<1> QED  BY <1>1, Invariance, PTL

=============================================================================
