-------------------------- MODULE LibrariesProofs --------------------------
(***************************************************************************)
(* What is proved of the libraries, as they are put together in Libraries.   *)
(* Where a component has proofs of its own, the definitions of the instance  *)
(* there and of the one here are shown to be the same.                       *)
(***************************************************************************)
EXTENDS Libraries, SequenceTheorems, FiniteSetTheorems, TLAPS

EventProofs == INSTANCE ViewerProofs

-----------------------------------------------------------------------------

\* The handler that picks hears of an event first, and the others once each and in order of
\* priority, whatever handlers there are and however they pick (viewer.c).
THEOREM FirstDibs ==
  ASSUME Events!None \notin Handlers, Distances \subseteq Int
  PROVE  Events!Spec => []PickerGoesFirst
<1>1. EventProofs!Setting
  BY DEF EventProofs!Setting, EventProofs!None, Events!None
<1>2. EventProofs!Spec => []EventProofs!PickerGoesFirst
  BY <1>1, EventProofs!FirstDibs
<1>3. EventProofs!Init <=> Events!Init
  BY Zenon DEF EventProofs!Init, Events!Init, EventProofs!None, Events!None,
     EventProofs!NoEvent, Events!NoEvent, EventProofs!NotCalled, Events!NotCalled
<1>4. [EventProofs!Next]_EventProofs!vars <=> [Events!Next]_Events!vars
  BY Zenon DEF
     EventProofs!Next, Events!Next, EventProofs!vars, Events!vars, EventProofs!flagVars,
     Events!flagVars, EventProofs!AddEventHandler, Events!AddEventHandler,
     EventProofs!EventHandlerSetPriority, Events!EventHandlerSetPriority,
     EventProofs!EnabledToggled, Events!EnabledToggled, EventProofs!HandlerActs,
     Events!HandlerActs, EventProofs!SelectAllOrNone, Events!SelectAllOrNone,
     EventProofs!UpdateStatusBar, Events!UpdateStatusBar, EventProofs!ButtonPress,
     Events!ButtonPress, EventProofs!MotionNotify, Events!MotionNotify,
     EventProofs!ButtonReleaseOrScroll, Events!ButtonReleaseOrScroll,
     EventProofs!KeyPressOrRelease, Events!KeyPressOrRelease, EventProofs!CallPickingHandler,
     Events!CallPickingHandler, EventProofs!CallOther, Events!CallOther, EventProofs!Return,
     Events!Return, EventProofs!Called, Events!Called, EventProofs!Begin, Events!Begin,
     EventProofs!Nearest, Events!Nearest, EventProofs!Known, Events!Known, EventProofs!ByPriority,
     Events!ByPriority, EventProofs!RequestPick, Events!RequestPick, EventProofs!Others,
     Events!Others, EventProofs!Over, Events!Over, EventProofs!NoEvent, Events!NoEvent,
     EventProofs!NotCalled, Events!NotCalled, EventProofs!None, Events!None,
     EventProofs!SetToSeqs, Events!SetToSeqs, EventProofs!Range, Events!Range,
     EventProofs!Cardinality, Events!Cardinality
<1>5. EventProofs!PickerGoesFirst => PickerGoesFirst
  BY Zenon DEF PickerGoesFirst, EventProofs!PickerGoesFirst, Events!PickerGoesFirst,
     EventProofs!Over, Events!Over, EventProofs!Others, Events!Others,
     EventProofs!None, Events!None, EventProofs!Range, Events!Range,
     EventProofs!Cardinality, Events!Cardinality
<1> QED
  BY <1>2, <1>3, <1>4, <1>5, PTL DEF Events!Spec, EventProofs!Spec

\* What has changed is drawn, now or by a timer that is set, however timers, movies and
\* requests come between one another, unless an expose event since the change was dropped for
\* a movie: then nothing may draw it if the movie is stopped.  Movies that only the record
\* button starts and stops free nothing twice (viewer.c).
THEOREM RedrawsComeAbout == Redraw!Spec => []NoRedrawForgotten
<1> USE DEF Redraw!NoRedrawForgotten, Redraw!ButtonIsSafe, Redraw!redrawVars, Redraw!buttonVars,
            Redraw!movieVars
<1> DEFINE Inv == Redraw!NoRedrawForgotten /\ Redraw!ButtonIsSafe
<1>1. Redraw!Init => Inv
  BY DEF Redraw!Init
<1>2. Inv /\ [Redraw!Next]_Redraw!vars => Inv'
  <2> SUFFICES ASSUME Inv, [Redraw!Next]_Redraw!vars
               PROVE  Inv'
    OBVIOUS
  <2>1. CASE Redraw!RequestRedraw
    BY <2>1 DEF Redraw!RequestRedraw
  <2>2. CASE Redraw!OnGlExpose /\ recent
    BY <2>2 DEF Redraw!OnGlExpose, Redraw!Postpone
  <2>3. CASE Redraw!OnGlExpose /\ ~recent
    <3>1. /\ undrawn' => passed_over'
          /\ movie_draw_pending' => movie_draw_pending /\ is_recording /\ ~movie_draw_pending
          /\ UNCHANGED <<redraw_timer_pending, timers, is_recording, Redraw!buttonVars>>
      BY <2>3, Zenon DEF Redraw!OnGlExpose, Redraw!Draw
    <3> QED  BY <3>1
  <2>4. CASE Redraw!TimePasses
    BY <2>4 DEF Redraw!TimePasses
  <2>5. CASE Redraw!OnRedrawTimer
    BY <2>5 DEF Redraw!OnRedrawTimer
  <2>6. CASE Redraw!OnRenderTimer
    BY <2>6 DEF Redraw!OnRenderTimer
  <2>7. CASE Redraw!OnRecordToggled
    <3>1. CASE ~record_button /\ ~is_recording
      BY <2>7, <3>1 DEF Redraw!OnRecordToggled, Redraw!StartRecording, Redraw!Crash
    <3>2. CASE ~(~record_button /\ ~is_recording)
      BY <2>7, <3>2 DEF Redraw!OnRecordToggled, Redraw!StopRecording, Redraw!Crash
    <3> QED  BY <3>1, <3>2
  <2>8. CASE Redraw!Program
    <3>1. by_program' /\ UNCHANGED <<Redraw!redrawVars, undrawn, passed_over>>
      BY <2>8 DEF Redraw!Program
    <3>2. movie_draw_pending' => movie_draw_pending /\ is_recording'
      BY <2>8 DEF Redraw!Program, Redraw!StartRecording, Redraw!StopRecording, Redraw!Crash
    <3> QED  BY <3>1, <3>2
  <2>9. CASE UNCHANGED Redraw!vars
    BY <2>9 DEF Redraw!vars
  <2> QED
    BY <2>1, <2>2, <2>3, <2>4, <2>5, <2>6, <2>7, <2>8, <2>9 DEF Redraw!Next
<1>3. Inv => NoRedrawForgotten
  BY DEF NoRedrawForgotten
<1> QED  BY <1>1, <1>2, <1>3, PTL DEF Redraw!Spec
-----------------------------------------------------------------------------
(* Discovery: at most one of the deputies of one name gets to serve *)

\* What is assumed of the constants.  A newcomer asks DiscoveryTicks times.
DiscoverySetting ==
  /\ IsFiniteSet(Deputies) /\ Discovery!Info \notin Deputies
  /\ DiscoveryTicks \in Nat \ {0} /\ DiscoveryLosses \in Nat
  /\ DiscoveryLosses < DiscoveryTicks

DiscoveryTypes ==
  /\ phase \in [Deputies -> {"down", "discovery", "serving", "exited"}]
  /\ ticks \in [Deputies -> Nat]
  /\ periodic \in [Deputies -> BOOLEAN]
  /\ arrived \in [Deputies -> SUBSET (Deputies \cup {Discovery!Info})]
  /\ lost \in 0 .. DiscoveryLosses

\* A timer that has yet to be dispatched belongs to the period that is over.
DiscoveryClocks ==
  \A d \in Deputies :
    /\ phase[d] = "down" => ticks[d] = 0 /\ ~periodic[d]
    /\ phase[d] = "discovery" =>
         ticks[d] < DiscoveryTicks \/ (periodic[d] /\ ticks[d] = DiscoveryTicks)

\* A deputy that serves has heard each question of one in discovery, or lost it: the last
\* question, of a deputy whose timer was dispatched, or its answer may be under way.
HeardByServer(d, e) ==
  /\ lost >= ticks[e]
  /\ ~periodic[e] => lost > ticks[e] \/ e \in arrived[d] \/ Discovery!Info \in arrived[e]

\* Of two that are in discovery, each has heard, or lost, what the other has asked since.
HeardByEachOther(d, e) ==
  /\ lost >= ticks[d] \/ lost >= ticks[e]
  /\ ~periodic[d] /\ ~periodic[e] =>
       \/ lost > ticks[d] \/ lost > ticks[e]
       \/ e \in arrived[d] \/ d \in arrived[e]

QuestionsAreHeard ==
  \A d, e \in Deputies : d # e =>
    /\ phase[d] = "serving" => phase[e] # "serving"
    /\ phase[d] = "serving" /\ phase[e] = "discovery" => HeardByServer(d, e)
    /\ phase[d] = "discovery" /\ phase[e] = "discovery" => HeardByEachOther(d, e)

DiscoveryInv == DiscoveryTypes /\ DiscoveryClocks /\ QuestionsAreHeard

\* What is counted is counted alike among the deputies and here.
LEMMA DiscoveryCounts == \A S : Discovery!Cardinality(S) = Cardinality(S)
BY Zenon DEF Discovery!Cardinality, Cardinality, Discovery!IsFiniteSet, IsFiniteSet

\* What Publish does: it adds the message for those who hear it, and counts the losses.
LEMMA PublishFacts ==
  ASSUME DiscoverySetting, lost \in Nat, NEW message \in Deputies \cup {Discovery!Info},
         NEW mails \in [Deputies -> SUBSET (Deputies \cup {Discovery!Info})],
         Discovery!Publish(message, mails)
  PROVE  /\ lost' \in Nat /\ lost' >= lost /\ lost' <= DiscoveryLosses
         /\ arrived' \in [Deputies -> SUBSET (Deputies \cup {Discovery!Info})]
         /\ \A d \in Deputies : mails[d] \subseteq arrived'[d]
         /\ \A d \in Discovery!Hears(message) : message \in arrived'[d] \/ lost' > lost
<1>1. PICK unlucky \in SUBSET Discovery!Hears(message) :
        /\ lost' = lost + Cardinality(unlucky) /\ lost' <= DiscoveryLosses
        /\ arrived' = [d \in Deputies |->
                         IF d \in Discovery!Hears(message) \ unlucky THEN mails[d] \cup {message}
                         ELSE mails[d]]
  BY DiscoveryCounts, Zenon DEF Discovery!Publish
<1>2. Discovery!Hears(message) \subseteq Deputies
  BY DEF Discovery!Hears
<1>3. IsFiniteSet(unlucky) /\ Cardinality(unlucky) \in Nat
  BY <1>2, FS_Subset, FS_CardinalityType DEF DiscoverySetting
<1>4. lost' \in Nat /\ lost' >= lost /\ lost' <= DiscoveryLosses
  BY <1>1, <1>3
<1>5. ASSUME NEW d \in Discovery!Hears(message), message \notin arrived'[d]
      PROVE  lost' > lost
  <2>1. d \in unlucky
    BY <1>1, <1>2, <1>5
  <2>2. Cardinality(unlucky) # 0
    BY <1>3, <2>1, FS_EmptySet
  <2> QED  BY <1>1, <1>3, <2>2
<1>6. /\ arrived' \in [Deputies -> SUBSET (Deputies \cup {Discovery!Info})]
      /\ \A d \in Deputies : mails[d] \subseteq arrived'[d]
  BY <1>1 DEF Discovery!Hears
<1> QED  BY <1>4, <1>5, <1>6

\* The invariant holds before any deputy is started,
LEMMA DiscoveryBegins == ASSUME DiscoverySetting PROVE Discovery!Init => DiscoveryInv
BY DEF DiscoverySetting, Discovery!Init, DiscoveryInv, DiscoveryTypes, DiscoveryClocks,
   QuestionsAreHeard

\* A deputy that starts asks at once, and everyone hears it or loses it.
LEMMA StartKeeps ==
  ASSUME DiscoverySetting, DiscoveryInv, NEW d \in Deputies, Discovery!Start(d)
  PROVE  DiscoveryInv'
<1>1. /\ lost' \in Nat /\ lost' >= lost /\ lost' <= DiscoveryLosses
      /\ arrived' \in [Deputies -> SUBSET (Deputies \cup {Discovery!Info})]
      /\ \A e \in Deputies : arrived[e] \subseteq arrived'[e]
      /\ \A e \in Discovery!Hears(d) : d \in arrived'[e] \/ lost' > lost
  BY PublishFacts DEF Discovery!Start, DiscoveryInv, DiscoveryTypes
<1>2. \A e \in Deputies : phase'[e] \in {"discovery", "serving"} => e \in Discovery!Hears(d)
  BY DEF Discovery!Hears, DiscoverySetting
<1>3. DiscoveryTypes'
  <2>1. lost' \in 0 .. DiscoveryLosses
    BY <1>1 DEF DiscoverySetting
  <2>2. /\ phase' \in [Deputies -> {"down", "discovery", "serving", "exited"}]
        /\ ticks' \in [Deputies -> Nat] /\ periodic' \in [Deputies -> BOOLEAN]
    BY DEF DiscoveryInv, DiscoveryTypes, Discovery!Start
  <2> QED  BY <1>1, <2>1, <2>2 DEF DiscoveryTypes
<1>4. DiscoveryClocks'
  BY DEF DiscoveryInv, DiscoveryTypes, DiscoveryClocks, Discovery!Start, DiscoverySetting
<1>5. /\ phase[d] = "down" /\ phase'[d] = "discovery" /\ ticks[d] = 0 /\ ~periodic[d]
      /\ \A e \in Deputies : e # d => phase'[e] = phase[e]
      /\ ticks' = ticks /\ periodic' = periodic
  BY DEF DiscoveryInv, DiscoveryTypes, DiscoveryClocks, Discovery!Start
<1>6. QuestionsAreHeard'
  BY <1>1, <1>2, <1>5 DEF DiscoveryInv, DiscoveryTypes, QuestionsAreHeard, HeardByServer,
     HeardByEachOther, DiscoverySetting
<1> QED  BY <1>3, <1>4, <1>6 DEF DiscoveryInv

\* A timer at which the deputy asks again.
LEMMA AskKeeps ==
  ASSUME DiscoverySetting, DiscoveryInv, NEW d \in Deputies, Discovery!DiscoveryTimeout(d),
         ticks[d] < DiscoveryTicks
  PROVE  DiscoveryInv'
<1>1. /\ lost' \in Nat /\ lost' >= lost /\ lost' <= DiscoveryLosses
      /\ arrived' \in [Deputies -> SUBSET (Deputies \cup {Discovery!Info})]
      /\ \A e \in Deputies : arrived[e] \subseteq arrived'[e]
      /\ \A e \in Discovery!Hears(d) : d \in arrived'[e] \/ lost' > lost
  BY PublishFacts DEF Discovery!DiscoveryTimeout, DiscoveryInv, DiscoveryTypes
<1>2. \A e \in Deputies : phase'[e] \in {"discovery", "serving"} => e \in Discovery!Hears(d)
  BY DEF Discovery!Hears, DiscoverySetting
<1>3. /\ phase[d] = "discovery" /\ periodic[d] /\ ~periodic'[d]
      /\ \A e \in Deputies : e # d => periodic'[e] = periodic[e]
      /\ ticks' = ticks /\ phase' = phase
  BY DEF DiscoveryInv, DiscoveryTypes, Discovery!DiscoveryTimeout
<1>4. DiscoveryTypes'
  <2>1. lost' \in 0 .. DiscoveryLosses
    BY <1>1 DEF DiscoverySetting
  <2>2. /\ phase' \in [Deputies -> {"down", "discovery", "serving", "exited"}]
        /\ ticks' \in [Deputies -> Nat] /\ periodic' \in [Deputies -> BOOLEAN]
    BY DEF DiscoveryInv, DiscoveryTypes, Discovery!DiscoveryTimeout
  <2> QED  BY <1>1, <2>1, <2>2 DEF DiscoveryTypes
<1>5. DiscoveryClocks'
  BY <1>3 DEF DiscoveryInv, DiscoveryTypes, DiscoveryClocks, DiscoverySetting
<1>6. QuestionsAreHeard'
  BY <1>1, <1>2, <1>3 DEF DiscoveryInv, DiscoveryTypes, QuestionsAreHeard, HeardByServer,
     HeardByEachOther, DiscoverySetting
<1> QED  BY <1>4, <1>5, <1>6 DEF DiscoveryInv

\* The timer at which it begins to serve: nobody can serve yet, for all of its questions
\* would have been lost.
LEMMA ServeKeeps ==
  ASSUME DiscoverySetting, DiscoveryInv, NEW d \in Deputies, Discovery!DiscoveryTimeout(d),
         ~(ticks[d] < DiscoveryTicks)
  PROVE  DiscoveryInv'
<1> DEFINE mails == [arrived EXCEPT ![d] = @ \ {Discovery!Info}]
<1>0. Discovery!Publish(Discovery!Info, mails)
  BY Zenon DEF Discovery!DiscoveryTimeout
<1>4. lost \in Nat /\ mails \in [Deputies -> SUBSET (Deputies \cup {Discovery!Info})]
  BY DEF DiscoveryInv, DiscoveryTypes
<1>1. /\ lost' \in Nat /\ lost' >= lost /\ lost' <= DiscoveryLosses
      /\ arrived' \in [Deputies -> SUBSET (Deputies \cup {Discovery!Info})]
      /\ \A e \in Deputies : mails[e] \subseteq arrived'[e]
      /\ \A e \in Discovery!Hears(Discovery!Info) : Discovery!Info \in arrived'[e] \/ lost' > lost
  BY <1>0, <1>4, PublishFacts
<1>2. \A e \in Deputies : phase'[e] = "discovery" => e \in Discovery!Hears(Discovery!Info)
  BY DEF Discovery!Hears
<1>3. /\ phase[d] = "discovery" /\ phase'[d] = "serving" /\ periodic[d] /\ ~periodic'[d]
      /\ ticks[d] = DiscoveryTicks
      /\ \A e \in Deputies : e # d => periodic'[e] = periodic[e] /\ phase'[e] = phase[e]
      /\ \A e \in Deputies : e # d => mails[e] = arrived[e]
      /\ ticks' = ticks
  BY DEF DiscoveryInv, DiscoveryTypes, DiscoveryClocks, Discovery!DiscoveryTimeout
<1>5. DiscoveryTypes'
  <2>1. lost' \in 0 .. DiscoveryLosses
    BY <1>1 DEF DiscoverySetting
  <2>2. /\ phase' \in [Deputies -> {"down", "discovery", "serving", "exited"}]
        /\ ticks' \in [Deputies -> Nat] /\ periodic' \in [Deputies -> BOOLEAN]
    BY DEF DiscoveryInv, DiscoveryTypes, Discovery!DiscoveryTimeout
  <2> QED  BY <1>1, <2>1, <2>2 DEF DiscoveryTypes
<1>6. DiscoveryClocks'
  BY <1>3 DEF DiscoveryInv, DiscoveryTypes, DiscoveryClocks, DiscoverySetting
<1>7. \A e \in Deputies : phase[e] # "serving"
  BY <1>3 DEF DiscoveryInv, DiscoveryTypes, QuestionsAreHeard, HeardByServer, DiscoverySetting
<1> HIDE DEF mails
<1>8. ASSUME NEW e \in Deputies, e # d, phase[e] = "discovery"
      PROVE  HeardByServer(d, e)'
  <2>1. lost >= ticks[e]
    <3>1. ticks[e] <= DiscoveryTicks
      BY <1>8 DEF DiscoveryInv, DiscoveryTypes, DiscoveryClocks, DiscoverySetting
    <3>2. lost >= ticks[d] \/ lost >= ticks[e]
      BY <1>3, <1>8 DEF DiscoveryInv, QuestionsAreHeard, HeardByEachOther
    <3> QED  BY <1>3, <3>1, <3>2 DEF DiscoveryInv, DiscoveryTypes, DiscoverySetting
  <2>2. e \in Discovery!Hears(Discovery!Info)
    BY <1>2, <1>3, <1>8
  <2> QED  BY <1>1, <1>3, <2>1, <2>2 DEF HeardByServer, DiscoveryInv, DiscoveryTypes,
       DiscoverySetting
<1>9. ASSUME NEW e \in Deputies, NEW f \in Deputies, e # f, e # d, f # d,
             phase[e] = "discovery", phase[f] = "discovery"
      PROVE  HeardByEachOther(e, f)'
  <2>1. HeardByEachOther(e, f)
    BY <1>9 DEF DiscoveryInv, QuestionsAreHeard
  <2> QED  BY <1>1, <1>3, <1>9, <2>1 DEF HeardByEachOther, DiscoveryInv, DiscoveryTypes,
       DiscoverySetting
<1>10. QuestionsAreHeard'
  BY <1>3, <1>7, <1>8, <1>9 DEF QuestionsAreHeard
<1> QED  BY <1>5, <1>6, <1>10 DEF DiscoveryInv

\* A deputy that hears of another while it is in discovery exits; one that serves answers.
LEMMA OnDiscoveryKeeps ==
  ASSUME DiscoverySetting, DiscoveryInv, NEW d \in Deputies, NEW nonce \in Deputies,
         Discovery!OnDiscovery(d, nonce)
  PROVE  DiscoveryInv'
<1> DEFINE handled == [arrived EXCEPT ![d] = @ \ {nonce}]
<1>1. handled \in [Deputies -> SUBSET (Deputies \cup {Discovery!Info})]
  BY DEF DiscoveryInv, DiscoveryTypes
<1>2. \A e \in Deputies : e # d => handled[e] = arrived[e]
  BY DEF DiscoveryInv, DiscoveryTypes
<1>3. \A m \in arrived[d] : m # nonce => m \in handled[d]
  BY DEF DiscoveryInv, DiscoveryTypes
<1> HIDE DEF handled
<1>4. CASE phase[d] = "discovery" /\ nonce # d
  <2>1. /\ phase' = [phase EXCEPT ![d] = "exited"] /\ arrived' = [arrived EXCEPT ![d] = {}]
        /\ UNCHANGED <<ticks, periodic, lost>>
    BY <1>4 DEF Discovery!OnDiscovery
  <2>2. DiscoveryTypes'
    BY <2>1 DEF DiscoveryInv, DiscoveryTypes
  <2>3. DiscoveryClocks'
    BY <2>1 DEF DiscoveryInv, DiscoveryTypes, DiscoveryClocks
  <2>4. QuestionsAreHeard'
    BY <2>1 DEF DiscoveryInv, DiscoveryTypes, QuestionsAreHeard, HeardByServer, HeardByEachOther
  <2> QED  BY <2>2, <2>3, <2>4 DEF DiscoveryInv
<1>5. CASE phase[d] = "discovery" /\ nonce = d
  <2>1. arrived' = handled /\ UNCHANGED <<phase, ticks, periodic, lost>>
    BY <1>5 DEF Discovery!OnDiscovery, handled
  <2>2. DiscoveryTypes' /\ DiscoveryClocks'
    BY <1>1, <2>1 DEF DiscoveryInv, DiscoveryTypes, DiscoveryClocks
  <2>3. QuestionsAreHeard'
    BY <1>2, <1>3, <1>5, <2>1 DEF DiscoveryInv, QuestionsAreHeard, HeardByServer,
       HeardByEachOther, DiscoverySetting
  <2> QED  BY <2>2, <2>3 DEF DiscoveryInv
<1>6. CASE phase[d] # "discovery"
  <2>1. Discovery!Publish(Discovery!Info, handled) /\ UNCHANGED <<phase, ticks, periodic>>
    BY <1>6 DEF Discovery!OnDiscovery, handled
  <2>2. /\ lost' \in Nat /\ lost' >= lost /\ lost' <= DiscoveryLosses
        /\ arrived' \in [Deputies -> SUBSET (Deputies \cup {Discovery!Info})]
        /\ \A e \in Deputies : handled[e] \subseteq arrived'[e]
        /\ \A e \in Discovery!Hears(Discovery!Info) :
             Discovery!Info \in arrived'[e] \/ lost' > lost
    BY <1>1, <2>1, PublishFacts DEF DiscoveryInv, DiscoveryTypes
  <2>3. \A e \in Deputies : phase[e] = "discovery" => e \in Discovery!Hears(Discovery!Info)
    BY <2>1 DEF Discovery!Hears
  <2>4. lost' \in 0 .. DiscoveryLosses
    BY <2>2 DEF DiscoverySetting
  <2>5. DiscoveryTypes' /\ DiscoveryClocks'
    BY <2>1, <2>2, <2>4 DEF DiscoveryInv, DiscoveryTypes, DiscoveryClocks
  <2>6. ASSUME NEW e \in Deputies, NEW f \in Deputies, e # f,
               phase[e] = "discovery", phase[f] = "discovery"
        PROVE  HeardByEachOther(e, f)'
    <3>1. HeardByEachOther(e, f) /\ e # d /\ f # d
      BY <1>6, <2>6 DEF DiscoveryInv, QuestionsAreHeard
    <3> QED  BY <1>2, <2>1, <2>2, <3>1 DEF HeardByEachOther, DiscoveryInv, DiscoveryTypes
  <2>7. ASSUME NEW e \in Deputies, NEW f \in Deputies, e # f,
               phase[e] = "serving", phase[f] = "discovery"
        PROVE  HeardByServer(e, f)'
    <3>1. HeardByServer(e, f) /\ f # d
      BY <1>6, <2>7 DEF DiscoveryInv, QuestionsAreHeard
    <3>2. f \in Discovery!Hears(Discovery!Info)
      BY <2>3, <2>7
    <3>3. lost \in Nat /\ ticks[f] \in Nat /\ ticks'[f] = ticks[f] /\ periodic'[f] = periodic[f]
      BY <2>1 DEF DiscoveryInv, DiscoveryTypes
    <3> QED  BY <1>2, <1>3, <2>2, <3>1, <3>2, <3>3 DEF HeardByServer
  <2>8. QuestionsAreHeard'
    BY <2>1, <2>6, <2>7 DEF DiscoveryInv, QuestionsAreHeard
  <2> QED  BY <2>5, <2>8 DEF DiscoveryInv
<1> QED  BY <1>4, <1>5, <1>6

\* One in discovery that hears of a deputy that serves exits.
LEMMA OnInfoKeeps ==
  ASSUME DiscoverySetting, DiscoveryInv, NEW d \in Deputies, Discovery!OnInfo(d)
  PROVE  DiscoveryInv'
<1>1. DiscoveryTypes'
  BY DEF Discovery!OnInfo, DiscoveryInv, DiscoveryTypes
<1>2. DiscoveryClocks'
  BY DEF Discovery!OnInfo, DiscoveryInv, DiscoveryTypes, DiscoveryClocks
<1>3. QuestionsAreHeard'
  BY DEF Discovery!OnInfo, DiscoveryInv, DiscoveryTypes, QuestionsAreHeard, HeardByServer,
     HeardByEachOther
<1> QED  BY <1>1, <1>2, <1>3 DEF DiscoveryInv

\* The report of every second only adds to what has arrived.
LEMMA ReportKeeps ==
  ASSUME DiscoverySetting, DiscoveryInv, NEW d \in Deputies, Discovery!Report(d)
  PROVE  DiscoveryInv'
<1>1. /\ lost' \in Nat /\ lost' >= lost /\ lost' <= DiscoveryLosses
      /\ arrived' \in [Deputies -> SUBSET (Deputies \cup {Discovery!Info})]
      /\ \A e \in Deputies : arrived[e] \subseteq arrived'[e]
  BY PublishFacts DEF Discovery!Report, DiscoveryInv, DiscoveryTypes
<1>2. lost' \in 0 .. DiscoveryLosses
  BY <1>1 DEF DiscoverySetting
<1>3. DiscoveryTypes' /\ DiscoveryClocks'
  BY <1>1, <1>2 DEF Discovery!Report, DiscoveryInv, DiscoveryTypes, DiscoveryClocks
<1>4. QuestionsAreHeard'
  BY <1>1 DEF Discovery!Report, DiscoveryInv, DiscoveryTypes, QuestionsAreHeard, HeardByServer,
     HeardByEachOther
<1> QED  BY <1>3, <1>4 DEF DiscoveryInv

\* When a period ends every question has been heard or lost.
LEMMA TimeKeeps == ASSUME DiscoverySetting, DiscoveryInv, Discovery!Time PROVE DiscoveryInv'
<1>1. /\ \A d \in Deputies : phase[d] = "discovery" => ~periodic[d] /\ arrived[d] = {}
      /\ \A d \in Deputies : phase[d] = "serving" => arrived[d] = {}
      /\ periodic' = [d \in Deputies |-> phase[d] = "discovery"]
      /\ ticks' = [d \in Deputies |-> IF phase[d] = "discovery" THEN ticks[d] + 1 ELSE 0]
      /\ UNCHANGED <<phase, arrived, lost>>
  BY DEF Discovery!Time, Discovery!In
<1>2. DiscoveryTypes'
  <2>1. ticks' \in [Deputies -> Nat] /\ periodic' \in [Deputies -> BOOLEAN]
    BY <1>1 DEF DiscoveryInv, DiscoveryTypes
  <2> QED  BY <1>1, <2>1 DEF DiscoveryInv, DiscoveryTypes
<1> DEFINE Asking(d) == phase[d] = "discovery"
<1>3. \A d \in Deputies : periodic'[d] <=> Asking(d)
  BY <1>1
<1>4. \A d \in Deputies : ticks'[d] = IF phase[d] = "discovery" THEN ticks[d] + 1 ELSE 0
  BY <1>1
<1>5. DiscoveryClocks'
  BY <1>1, <1>3, <1>4 DEF DiscoveryInv, DiscoveryTypes, DiscoveryClocks, DiscoverySetting
<1>6. QuestionsAreHeard'
  BY <1>1, <1>3, <1>4 DEF DiscoveryInv, DiscoveryTypes, QuestionsAreHeard, HeardByServer,
     HeardByEachOther
<1> QED  BY <1>2, <1>5, <1>6 DEF DiscoveryInv

\* Every step keeps the invariant.
LEMMA DiscoveryStays ==
  ASSUME DiscoverySetting, DiscoveryInv, [Discovery!Next]_Discovery!vars
  PROVE  DiscoveryInv'
<1>1. ASSUME NEW d \in Deputies, Discovery!DiscoveryTimeout(d) PROVE DiscoveryInv'
  BY <1>1, AskKeeps, ServeKeeps
<1>2. CASE UNCHANGED Discovery!vars
  BY <1>2 DEF Discovery!vars, DiscoveryInv, DiscoveryTypes, DiscoveryClocks, QuestionsAreHeard,
     HeardByServer, HeardByEachOther
<1> QED  BY <1>1, <1>2, StartKeeps, OnInfoKeeps, ReportKeeps, OnDiscoveryKeeps,
     TimeKeeps DEF Discovery!Next

\* At most one deputy serves.
LEMMA OneServes == DiscoveryInv => AtMostOneServes
<1> SUFFICES ASSUME DiscoveryInv PROVE Cardinality(Discovery!In("serving")) <= 1
  BY DiscoveryCounts, Zenon DEF AtMostOneServes, Discovery!AtMostOneServes
<1>1. CASE Discovery!In("serving") = {}
  BY <1>1, FS_EmptySet
<1>2. CASE Discovery!In("serving") # {}
  <2>1. PICK d : d \in Discovery!In("serving")
    BY <1>2
  <2>2. Discovery!In("serving") = {d}
    BY <2>1 DEF Discovery!In, DiscoveryInv, QuestionsAreHeard
  <2>3. Cardinality({d}) = 1
    BY FS_Singleton
  <2> QED  BY <2>2, <2>3
<1> QED
  BY <1>1, <1>2

\* At most one of the deputies of a name comes to serve, for any number of deputies and whenever
\* they are started, when fewer messages are lost than a newcomer asks questions
\* (discovery_timeout).
THEOREM OneDeputyServes == ASSUME DiscoverySetting PROVE Discovery!Spec => []AtMostOneServes
BY DiscoveryBegins, DiscoveryStays, OneServes, PTL DEF Discovery!Spec

-----------------------------------------------------------------------------
(* The camera of a viewer *)

\* What a camera sees, with its place in numbers
CameraViews == [eye : Int, lookat : Int, mode : {"perspective", "orthographic"}]

\* The points of a path
PathPoints == [frame : DrawnFrames, pos : Int]

\* Of the bounds and of the bookmarks of earlier sessions only the types matter.
CameraSetting ==
  /\ Room \in Nat /\ MaxDist \in Int /\ MaxPath \in Nat
  /\ Remembered \subseteq CameraViews

\* While nobody else moves the camera, its timers take it to where the bookmark is that was
\* loaded last.
OnItsWay ==
  \A b \in Bookmarks :
    approached = <<b>> =>
      /\ marks[b] \in CameraViews /\ viewpath.goal = marks[b] /\ view.mode = marks[b].mode
      /\ path_timers = 0 => view.eye = marks[b].eye /\ view.lookat = marks[b].lookat

\* The invariant: types, and that a camera that approaches a bookmark is on its way there
CameraInv ==
  /\ view \in CameraViews
  /\ viewpath.origin \in CameraViews /\ viewpath.goal \in CameraViews /\ viewpath.done \in 0..2
  /\ viewpath = [origin |-> viewpath.origin, goal |-> viewpath.goal, done |-> viewpath.done]
  /\ path_timers \in Nat
  /\ marks \in [Bookmarks -> {Camera!none} \cup CameraViews]
  /\ approached = Camera!none \/ \E b \in Bookmarks : approached = <<b>>
  /\ OnItsWay
  /\ where \in [DrawnFrames -> [pos : Int, dir : {-1, 1}]]
  /\ selected = Camera!none \/ \E f \in DrawnFrames : selected = <<f>>
  /\ trail \in Seq(PathPoints)
  /\ Camera!PathIsOfTheFrame

\* At first nothing is approached, and bookmarks may be those of another session.
LEMMA CameraBegins == CameraSetting /\ Camera!Init => CameraInv
<1> SUFFICES ASSUME CameraSetting, Camera!Init PROVE CameraInv
  OBVIOUS
<1>1. Camera!FirstView \in CameraViews
  BY DEF CameraSetting, CameraViews, Camera!FirstView
<1> QED
  BY <1>1 DEF CameraSetting, Camera!Init, CameraInv, OnItsWay, Camera!PathIsOfTheFrame,
     Camera!none, PathPoints

\* What the user makes of the view is a view, however it is dragged, scrolled or set.
LEMMA Moving ==
  ASSUME CameraSetting, CameraInv, Camera!MoveCamera
  PROVE  view' \in CameraViews
<1>1. PICK v \in Camera!Dragged(view) \cup Camera!Scrolled(view) \cup Camera!SetView(view)
                 \cup Camera!Found(view) \cup Camera!Projected(view) :
        Camera!InRoom(v) /\ view' = v
  BY DEF Camera!MoveCamera
<1>0. view \in CameraViews
  BY DEF CameraInv
<1>7. v.eye \in Int /\ v.lookat \in Int
  BY <1>1 DEF Camera!InRoom, Camera!Positions, CameraSetting
<1>2. CASE v \in Camera!Dragged(view)
  BY <1>0, <1>1, <1>2, <1>7 DEF Camera!Dragged, Camera!Panned, CameraViews
<1>3. CASE v \in Camera!Scrolled(view)
  <2>1. PICK by \in {-1, 1} :
          v \in {Camera!Zoomed(view, by)} \cup Camera!Panned(Camera!Zoomed(view, by))
    BY <1>3 DEF Camera!Scrolled
  <2>2. PICK e : Camera!Zoomed(view, by) = [view EXCEPT !.eye = e]
    <3>1. view = [view EXCEPT !.eye = view.eye]
      BY <1>0 DEF CameraViews
    <3> QED
      BY <3>1, Zenon DEF Camera!Zoomed
  <2> QED
    BY <1>0, <1>1, <2>1, <2>2, <1>7 DEF Camera!Panned, CameraViews
<1>4. CASE v \in Camera!SetView(view)
  BY <1>0, <1>1, <1>4, <1>7 DEF Camera!SetView, Camera!FirstView, CameraViews
<1>5. CASE v \in Camera!Found(view)
  BY <1>0, <1>1, <1>5, <1>7 DEF Camera!Found, CameraViews
<1>6. CASE v \in Camera!Projected(view)
  BY <1>0, <1>1, <1>6, <1>7 DEF Camera!Projected, CameraViews
<1> QED
  BY <1>1, <1>2, <1>3, <1>4, <1>5, <1>6

\* A timer takes the camera towards the goal, and ends when it is there.
LEMMA Ticking ==
  ASSUME CameraSetting, CameraInv, Camera!Tick
  PROVE  CameraInv'
<1>1. PICK done \in viewpath.done .. 2 :
        /\ path_timers > 0 /\ view' = Camera!At(done)
        /\ viewpath' = [viewpath EXCEPT !.done = done]
        /\ path_timers' = IF done = 2 THEN path_timers - 1 ELSE path_timers
  BY DEF Camera!Tick
<1>2. UNCHANGED <<marks, approached, where, selected, trail>>
  BY DEF Camera!Tick, Camera!followerVars
<1>3. /\ view \in CameraViews /\ viewpath.origin \in CameraViews
      /\ viewpath.goal \in CameraViews /\ viewpath.done \in 0..2 /\ path_timers \in Nat
      /\ viewpath = [origin |-> viewpath.origin, goal |-> viewpath.goal, done |-> viewpath.done]
  BY DEF CameraInv
<1>4. done \in 0..2
  BY <1>3
<1>5. /\ view' \in CameraViews /\ view'.mode = view.mode
      /\ done = 2 => view'.eye = viewpath.goal.eye /\ view'.lookat = viewpath.goal.lookat
  <2> DEFINE Mid(f, t) == f + (done * (t - f)) \div 2
             e == Mid(viewpath.origin.eye, viewpath.goal.eye)
             l == Mid(viewpath.origin.lookat, viewpath.goal.lookat)
  <2>1. \A f, t \in Int : Mid(f, t) \in Int /\ (done = 2 => Mid(f, t) = t)
    <3> SUFFICES ASSUME NEW f \in Int, NEW t \in Int
                 PROVE  Mid(f, t) \in Int /\ (done = 2 => Mid(f, t) = t)
      OBVIOUS
    <3>1. CASE done = 0
      BY <3>1
    <3>2. CASE done = 1
      BY <3>2
    <3>3. CASE done = 2
      BY <3>3
    <3> QED
      BY <1>4, <3>1, <3>2, <3>3
  <2>2. view' = [view EXCEPT !.eye = e, !.lookat = l]
    BY <1>1 DEF Camera!At
  <2>3. /\ e \in Int /\ l \in Int
        /\ done = 2 => e = viewpath.goal.eye /\ l = viewpath.goal.lookat
    <3> HIDE DEF Mid
    <3> QED
      BY <1>3, <2>1 DEF CameraViews
  <2> HIDE DEF e, l
  <2> QED
    BY <1>3, <2>2, <2>3 DEF CameraViews
<1>6. /\ viewpath'.origin = viewpath.origin /\ viewpath'.goal = viewpath.goal
      /\ viewpath'.done = done
      /\ viewpath' = [origin |-> viewpath'.origin, goal |-> viewpath'.goal,
                      done |-> viewpath'.done]
  BY <1>1, <1>3
<1>7. path_timers' \in Nat /\ (path_timers' = 0 => done = 2)
  BY <1>1, <1>3
<1>8. OnItsWay'
  BY <1>2, <1>5, <1>6, <1>7 DEF CameraInv, OnItsWay
<1>9. Camera!PathIsOfTheFrame'
  BY <1>2 DEF CameraInv, Camera!PathIsOfTheFrame
<1> QED
  BY <1>2, <1>3, <1>4, <1>5, <1>6, <1>7, <1>8, <1>9 DEF CameraInv, Camera!none

\* A point that is added to the path is one of the frame, and not too near to the last.
LEMMA PathGrows ==
  ASSUME CameraSetting, NEW f \in DrawnFrames, NEW pos \in Int,
         trail \in Seq(PathPoints), selected = <<f>>, Camera!PathIsOfTheFrame,
         trail' = Camera!PathWith(f, pos), selected' = selected
  PROVE  trail' \in Seq(PathPoints) /\ Camera!PathIsOfTheFrame'
<1>1. CASE ~(trail = << >> \/ Camera!Abs(pos - trail[1].pos) > Decimate)
  BY <1>1 DEF Camera!PathWith, Camera!PathIsOfTheFrame
<1>2. CASE trail = << >> \/ Camera!Abs(pos - trail[1].pos) > Decimate
  <2> DEFINE p == [frame |-> f, pos |-> pos]
             s == <<p>> \o trail
             n == IF Len(trail) < MaxPath THEN Len(trail) + 1 ELSE MaxPath
  <2>0. p \in PathPoints /\ Len(trail) \in Nat /\ MaxPath \in Nat
    BY DEF PathPoints, CameraSetting
  <2>1. /\ p \in PathPoints /\ Len(trail) \in Nat /\ MaxPath \in Nat
        /\ DOMAIN trail = 1 .. Len(trail) /\ \A k \in 1 .. Len(trail) : trail[k] \in PathPoints
    <3> HIDE DEF p
    <3> QED
      BY <2>0
  <2>2. /\ s \in Seq(PathPoints) /\ Len(s) = Len(trail) + 1 /\ s[1] = p
        /\ \A k \in 1 .. Len(trail) : s[k + 1] = trail[k]
    BY <2>1
  <2>3. n \in 0 .. Len(trail) + 1
    BY <2>1
  <2>4. trail' = SubSeq(s, 1, n)
    BY <1>2 DEF Camera!PathWith
  <2> HIDE DEF s, n
  <2>5. /\ trail' \in Seq(PathPoints) /\ DOMAIN trail' = 1 .. n
        /\ \A k \in 1 .. n : trail'[k] = s[k]
    BY <2>1, <2>2, <2>3, <2>4
  <2>6. ASSUME NEW k \in 1 .. n
        PROVE  /\ <<s[k].frame>> = selected
               /\ k > 1 => Camera!Abs(s[k].pos - s[k - 1].pos) > Decimate
    <3>1. CASE k = 1
      BY <2>2, <3>1
    <3>2. CASE k = 2
      <4>1. 1 \in DOMAIN trail /\ s[2] = trail[1] /\ trail # << >>
        BY <2>1, <2>2, <2>3, <3>2
      <4>2. trail[1].pos \in Int
        BY <2>1, <4>1 DEF PathPoints
      <4>3. Camera!Abs(pos - trail[1].pos) > Decimate
        BY <1>2, <4>1
      <4>4. Camera!Abs(trail[1].pos - pos) = Camera!Abs(pos - trail[1].pos)
        BY <4>2 DEF Camera!Abs
      <4>5. s[2].pos = trail[1].pos /\ s[1].pos = pos
        BY <2>2, <4>1
      <4>6. <<s[2].frame>> = selected
        BY <4>1 DEF Camera!PathIsOfTheFrame
      <4> QED
        BY <3>2, <4>3, <4>4, <4>5, <4>6
    <3>3. CASE k > 2
      <4>1. k - 1 \in 1 .. Len(trail) /\ k - 2 \in 1 .. Len(trail) /\ k - 1 > 1
            /\ (k - 1) - 1 = k - 2 /\ (k - 1) + 1 = k /\ (k - 2) + 1 = k - 1
        BY <2>1, <2>3, <3>3
      <4>2. s[k] = trail[k - 1] /\ s[k - 1] = trail[k - 2] /\ k - 1 \in DOMAIN trail
        BY <2>1, <2>2, <4>1
      <4> QED
        BY <4>1, <4>2 DEF Camera!PathIsOfTheFrame
    <3> QED
      BY <2>1, <2>3, <3>1, <3>2, <3>3
  <2>7. Camera!PathIsOfTheFrame'
    <3> SUFFICES ASSUME NEW k \in DOMAIN trail'
                 PROVE  /\ <<trail'[k].frame>> = selected'
                        /\ k > 1 => Camera!Abs(trail'[k].pos - trail'[k - 1].pos) > Decimate
      BY Zenon DEF Camera!PathIsOfTheFrame
    <3>1. k \in 1 .. n /\ trail'[k] = s[k] /\ (k > 1 => trail'[k - 1] = s[k - 1])
      <4>1. k \in 1 .. n
        BY <2>5
      <4>2. k > 1 => k - 1 \in 1 .. n
        BY <2>1, <2>3, <4>1
      <4> QED
        BY <2>5, <4>1, <4>2
    <3> QED
      BY <2>6, <3>1
  <2> QED
    BY <2>5, <2>7
<1> QED
  BY <1>1, <1>2

\* A frame that is followed and has moved takes the camera away from the bookmark.
LEMMA Drawing ==
  ASSUME CameraSetting, CameraInv, Camera!Draw
  PROVE  CameraInv'
<1>1. PICK f \in DrawnFrames : selected = <<f>>
  BY DEF CameraInv, Camera!Draw
<1> DEFINE pos == where[f].pos
<1>2. /\ trail' = Camera!PathWith(f, pos)
      /\ UNCHANGED <<viewpath, path_timers, marks, selected, where>>
  BY <1>1 DEF Camera!Draw
<1>3. pos \in Int
  BY DEF CameraInv
<1>4. trail' \in Seq(PathPoints) /\ Camera!PathIsOfTheFrame'
  <2> HIDE DEF pos
  <2> QED
    BY <1>1, <1>2, <1>3, PathGrows DEF CameraInv
<1>5. view' \in CameraViews /\ approached' \in {approached, Camera!none}
      /\ (view' = view \/ approached' = Camera!none)
  <2>1. CASE ~follow.pos
    BY <2>1 DEF Camera!Draw, CameraInv
  <2>2. CASE follow.pos
    <3>1. PICK p, v : /\ v \in Camera!Followed(view, p, where[f].dir) /\ Camera!InRoom(v)
                      /\ view' = v
                      /\ approached' = IF v = view THEN approached ELSE Camera!none
      BY <1>1, <2>2 DEF Camera!Draw
    <3>2. v \in CameraViews
      <4>1. v.eye \in Int /\ v.lookat \in Int
        BY <3>1 DEF Camera!InRoom, Camera!Positions, CameraSetting
      <4>2. \/ v = view
            \/ \E l : v = [view EXCEPT !.lookat = l]
            \/ \E e, l : v = [view EXCEPT !.eye = e, !.lookat = l]
        BY <3>1, Zenon DEF Camera!Followed
      <4> QED
        BY <4>1, <4>2 DEF CameraInv, CameraViews
    <3> QED
      BY <3>1, <3>2
  <2> QED
    BY <2>1, <2>2
<1>6. OnItsWay'
  BY <1>2, <1>5 DEF CameraInv, OnItsWay, Camera!none
<1> QED
  BY <1>2, <1>4, <1>5, <1>6 DEF CameraInv, Camera!none

\* Every step keeps the invariant.
LEMMA CameraStays == CameraSetting /\ CameraInv /\ [Camera!Next]_Camera!cameraVars => CameraInv'
<1> SUFFICES ASSUME CameraSetting, CameraInv, [Camera!Next]_Camera!cameraVars PROVE CameraInv'
  OBVIOUS
<1>1. CASE Camera!MoveCamera
  <2>1. view' \in CameraViews
    BY <1>1, Moving
  <2>2. /\ approached' = Camera!none
        /\ UNCHANGED <<viewpath, path_timers, marks, where, selected, trail>>
    BY <1>1 DEF Camera!MoveCamera, Camera!followerVars
  <2>3. OnItsWay'
    BY <2>2 DEF OnItsWay, Camera!none
  <2>4. Camera!PathIsOfTheFrame'
    BY <2>2 DEF CameraInv, Camera!PathIsOfTheFrame
  <2> QED
    BY <2>1, <2>2, <2>3, <2>4 DEF CameraInv
<1>2. CASE Camera!Tick
  BY <1>2, Ticking
<1>3. CASE Camera!Draw
  BY <1>3, Drawing
<1>4. CASE Camera!ClearPath
  <2>1. /\ trail' = << >>
        /\ UNCHANGED <<view, viewpath, path_timers, marks, where, selected, approached>>
    BY <1>4 DEF Camera!ClearPath
  <2> QED
    BY <2>1 DEF CameraInv, OnItsWay, Camera!PathIsOfTheFrame
<1>5. ASSUME NEW b \in Bookmarks, Camera!SaveView(b) PROVE CameraInv'
  <2>1. /\ marks' = [marks EXCEPT ![b] = view]
        /\ approached' = IF approached = <<b>> THEN Camera!none ELSE approached
        /\ UNCHANGED <<view, viewpath, path_timers, where, selected, trail>>
    BY <1>5 DEF Camera!SaveView, Camera!followerVars
  <2>2. marks' \in [Bookmarks -> {Camera!none} \cup CameraViews]
    BY <2>1 DEF CameraInv
  <2>3. OnItsWay'
    BY <2>1 DEF OnItsWay, Camera!none, CameraInv
  <2>4. Camera!PathIsOfTheFrame'
    BY <2>1 DEF CameraInv, Camera!PathIsOfTheFrame
  <2> QED
    BY <2>1, <2>2, <2>3, <2>4 DEF CameraInv
<1>6. ASSUME NEW b \in Bookmarks, Camera!LoadView(b) PROVE CameraInv'
  <2>1. /\ marks[b] # Camera!none /\ view' = [view EXCEPT !.mode = marks[b].mode]
        /\ viewpath' = [origin |-> view, goal |-> marks[b], done |-> 0]
        /\ path_timers' = path_timers + 1 /\ approached' = <<b>>
        /\ UNCHANGED <<marks, where, selected, trail>>
    BY <1>6 DEF Camera!LoadView, Camera!followerVars
  <2>2. marks[b] \in CameraViews /\ view \in CameraViews
    BY <2>1 DEF CameraInv
  <2>3. view' \in CameraViews /\ view'.mode = marks[b].mode
    BY <2>1, <2>2 DEF CameraViews
  <2>4. OnItsWay'
    BY <2>1, <2>2, <2>3 DEF CameraInv, OnItsWay
  <2>5. Camera!PathIsOfTheFrame'
    BY <2>1 DEF CameraInv, Camera!PathIsOfTheFrame
  <2> QED
    BY <2>1, <2>2, <2>3, <2>4, <2>5 DEF CameraInv
<1>7. ASSUME NEW f \in { <<g>> : g \in DrawnFrames } \cup {Camera!none}, Camera!SelectFrame(f)
      PROVE  CameraInv'
  <2>1. /\ selected' = f /\ trail' = << >>
        /\ UNCHANGED <<view, viewpath, path_timers, marks, where, approached>>
    BY <1>7 DEF Camera!SelectFrame
  <2> QED
    BY <2>1 DEF CameraInv, OnItsWay, Camera!PathIsOfTheFrame
<1>8. ASSUME NEW f, Camera!SetFollow(f) PROVE CameraInv'
  BY <1>8 DEF Camera!SetFollow, CameraInv, OnItsWay, Camera!PathIsOfTheFrame
<1>9. ASSUME NEW f \in DrawnFrames, Camera!FrameMoves(f) PROVE CameraInv'
  <2>1. PICK pos \in Camera!Positions, dir \in {-1, 1} :
          where' = [where EXCEPT ![f] = [pos |-> pos, dir |-> dir]]
    BY <1>9 DEF Camera!FrameMoves
  <2>2. UNCHANGED <<view, viewpath, path_timers, marks, selected, trail, approached>>
    BY <1>9 DEF Camera!FrameMoves
  <2>3. where' \in [DrawnFrames -> [pos : Int, dir : {-1, 1}]]
    BY <2>1 DEF CameraInv, CameraSetting, Camera!Positions
  <2> QED
    BY <2>2, <2>3 DEF CameraInv, OnItsWay, Camera!PathIsOfTheFrame
<1>10. CASE UNCHANGED Camera!cameraVars
  BY <1>10 DEF Camera!cameraVars, CameraInv, OnItsWay, Camera!PathIsOfTheFrame
<1> QED
  BY <1>1, <1>2, <1>3, <1>4, <1>5, <1>6, <1>7, <1>8, <1>9, <1>10, Zenon DEF Camera!Next

\* When no timer is left the camera is where the bookmark is.
LEMMA CameraArrives == CameraInv => ReachesTheBookmark
<1> SUFFICES ASSUME CameraInv PROVE Camera!ReachesTheBookmark /\ Camera!PathIsOfTheFrame
  BY Zenon DEF ReachesTheBookmark
<1>1. Camera!PathIsOfTheFrame
  BY DEF CameraInv
<1>2. ASSUME approached # Camera!none, path_timers = 0 PROVE view = marks[approached[1]]
  <2>1. PICK b \in Bookmarks : approached = <<b>>
    BY <1>2 DEF CameraInv
  <2>2. view \in CameraViews /\ marks[b] \in CameraViews
        /\ view.eye = marks[b].eye /\ view.lookat = marks[b].lookat /\ view.mode = marks[b].mode
    BY <1>2, <2>1 DEF CameraInv, OnItsWay
  <2>3. view = marks[b]
    BY <2>2 DEF CameraViews
  <2> QED
    BY <2>1, <2>3
<1> QED
  BY <1>1, <1>2 DEF Camera!ReachesTheBookmark

\* A bookmark is reached when the last timer has ended, however many are loaded before the camera
\* is there and however many timers go on then, and the path that is drawn for a frame is one of
\* that frame (set_look_at_smooth_func, update_path_hist).
THEOREM BookmarksAreReached ==
  ASSUME CameraSetting
  PROVE  Camera!Spec => []ReachesTheBookmark
<1>1. Camera!Init => CameraInv
  BY CameraBegins
<1>2. CameraInv /\ [Camera!Next]_Camera!cameraVars => CameraInv'
  BY CameraStays
<1> QED
  BY <1>1, <1>2, CameraArrives, PTL DEF Camera!Spec

-----------------------------------------------------------------------------
(* The circular buffer *)

\* The elements are the pointers that were added last, newest first, and each of those that
\* the buffer still has, or is still to get, has not been handed over; while nothing was
\* cleared, or the buffer is there, no pointer was handed over twice and what is in the array
\* and not NULL is an element.
CircularInv ==
  /\ circ = [p |-> circ.p, size |-> circ.size, next |-> circ.next, capacity |-> circ.capacity]
  /\ circ.capacity \in Nat /\ circ.size \in 0..circ.capacity
  /\ circ.next \in 0..circ.capacity /\ (circ.capacity > 0 => circ.next < circ.capacity)
  /\ circ.p \in [0..circ.capacity - 1 -> 0..MaxAdds]
  /\ pointers \in 0..MaxAdds /\ circ.size <= pointers
  /\ handed \in [0..MaxAdds -> Nat] /\ handed[0] = 0
  /\ cleared \in BOOLEAN /\ alive \in BOOLEAN
  /\ \A idx \in 0..circ.size - 1 : Circular!Index(circ, idx) = pointers - idx
  /\ alive => \A ptr \in 1..MaxAdds : ptr > pointers - circ.size => handed[ptr] = 0
  /\ alive \/ ~cleared => \A ptr \in 0..MaxAdds : handed[ptr] <= 1
  /\ ~cleared => \A k \in 0..circ.capacity - 1 :
       circ.p[k] # 0 => \E idx \in 0..circ.size - 1 : k = Circular!Offset(circ, idx)

\* The bounds are natural numbers.
CircularSetting == Capacities \subseteq Nat /\ MaxAdds \in Nat

\* Elements lie at different places of the array.
LEMMA OffsetsDiffer ==
  ASSUME NEW c, c.capacity \in Nat, c.next \in 0..c.capacity, c.capacity > 0 => c.next < c.capacity,
         NEW i \in 0..c.capacity - 1
  PROVE  /\ Circular!Offset(c, i) \in 0..c.capacity - 1
         /\ \A j \in 0..c.capacity - 1 : Circular!Offset(c, i) = Circular!Offset(c, j) => i = j
BY DEF Circular!Offset

\* What is counted is counted alike in the buffer and here.
LEMMA SameCardinality == \A S : Circular!Cardinality(S) = Cardinality(S)
BY Zenon DEF Circular!Cardinality, Cardinality, Circular!IsFiniteSet, IsFiniteSet

\* The handler hears once of a pointer that lies at one of the offsets, and not of the others.
LEMMA HandedOnce ==
  ASSUME handed \in [0..MaxAdds -> Nat], MaxAdds \in Nat, circ.capacity \in Nat,
         NEW offsets \in SUBSET (0..circ.capacity - 1)
  PROVE  /\ Circular!Handed(offsets) \in [0..MaxAdds -> Nat]
         /\ \A ptr \in 0..MaxAdds :
              (\A k \in offsets : circ.p[k] # ptr) => Circular!Handed(offsets)[ptr] = handed[ptr]
         /\ \A ptr \in 0..MaxAdds : \A k \in offsets :
              circ.p[k] = ptr /\ (\A l \in offsets : circ.p[l] = ptr => l = k) =>
                Circular!Handed(offsets)[ptr] = handed[ptr] + 1
<1> DEFINE holding(ptr) == { k \in offsets : circ.p[k] = ptr }
<1>1. Circular!Handed(offsets) = [ptr \in 0..MaxAdds |-> handed[ptr] + Cardinality(holding(ptr))]
  BY SameCardinality DEF Circular!Handed, Circular!NULL
<1>2. IsFiniteSet(0..circ.capacity - 1)
  <2>1. 0 \in Int /\ circ.capacity - 1 \in Int
    OBVIOUS
  <2>2. \A b \in Int : IsFiniteSet(0..b)
    BY FS_Interval, <2>1, Zenon
  <2> QED
    BY <2>1, <2>2, Zenon
<1>3. ASSUME NEW ptr PROVE Cardinality(holding(ptr)) \in Nat
  <2>1. holding(ptr) \in SUBSET (0..circ.capacity - 1)
    OBVIOUS
  <2>2. IsFiniteSet(holding(ptr))
    BY <1>2, <2>1, FS_Subset, Zenon
  <2> QED
    BY <2>2, FS_CardinalityType, Zenon
<1>4. ASSUME NEW ptr, \A k \in offsets : circ.p[k] # ptr PROVE Cardinality(holding(ptr)) = 0
  <2>1. holding(ptr) = {}
    BY <1>4
  <2> QED
    BY <2>1, FS_EmptySet
<1>5. ASSUME NEW ptr, NEW k \in offsets, circ.p[k] = ptr,
             \A l \in offsets : circ.p[l] = ptr => l = k
      PROVE  Cardinality(holding(ptr)) = 1
  <2>1. holding(ptr) = {k}
    BY <1>5
  <2> QED
    BY <2>1, FS_Singleton
<1> HIDE DEF holding
<1>6. Circular!Handed(offsets) \in [0..MaxAdds -> Nat]
  <2>1. \A ptr \in 0..MaxAdds : handed[ptr] + Cardinality(holding(ptr)) \in Nat
    BY <1>3
  <2> QED
    BY <1>1, <2>1
<1>7. \A ptr \in 0..MaxAdds :
        Circular!Handed(offsets)[ptr] = handed[ptr] + Cardinality(holding(ptr))
  BY <1>1
<1>8. \A ptr \in 0..MaxAdds :
        (\A k \in offsets : circ.p[k] # ptr) => Circular!Handed(offsets)[ptr] = handed[ptr]
  BY <1>4, <1>7
<1> QED
  BY <1>5, <1>6, <1>7, <1>8

\* When elements are handed over, none was before and the buffer does not keep them.
LEMMA ElementsHanded ==
  ASSUME CircularSetting, CircularInv, alive,
         NEW first \in 0..circ.size,
         NEW offsets, offsets = Circular!Offsets(circ, first, circ.size - 1)
  PROVE  /\ Circular!Handed(offsets) \in [0..MaxAdds -> Nat]
         /\ Circular!Handed(offsets)[0] = 0
         /\ \A ptr \in 1..MaxAdds : ptr > pointers - first => Circular!Handed(offsets)[ptr] = 0
         /\ \A ptr \in 0..MaxAdds : Circular!Handed(offsets)[ptr] <= 1
<1> DEFINE off(idx) == Circular!Offset(circ, idx)
<1>0. /\ circ.capacity \in Nat /\ circ.size \in 0..circ.capacity /\ MaxAdds \in Nat
      /\ pointers \in 0..MaxAdds /\ circ.size <= pointers
  BY DEF CircularInv, CircularSetting
<1>a. /\ handed \in [0..MaxAdds -> Nat] /\ handed[0] = 0
      /\ \A ptr \in 1..MaxAdds : ptr > pointers - circ.size => handed[ptr] = 0
      /\ \A ptr \in 0..MaxAdds : handed[ptr] <= 1
  BY DEF CircularInv
<1>1. \A idx \in 0..circ.size - 1 :
        off(idx) \in 0..circ.capacity - 1 /\ circ.p[off(idx)] = pointers - idx
  BY OffsetsDiffer DEF CircularInv, Circular!Index
<1>2. offsets = { off(idx) : idx \in first..circ.size - 1 }
  BY DEF Circular!Offsets
<1> HIDE DEF off
<1>3. offsets \in SUBSET (0..circ.capacity - 1)
  BY <1>0, <1>1, <1>2
<1>4. \A k \in offsets : \E idx \in first..circ.size - 1 :
        k = off(idx) /\ circ.p[k] = pointers - idx
  BY <1>0, <1>1, <1>2
<1> DEFINE new == Circular!Handed(offsets)
<1>5. new \in [0..MaxAdds -> Nat]
  BY <1>0, <1>a, <1>3, HandedOnce
<1>6. ASSUME NEW ptr \in 0..MaxAdds, \A k \in offsets : circ.p[k] # ptr
      PROVE  new[ptr] = handed[ptr]
  BY <1>0, <1>a, <1>3, <1>6, HandedOnce
<1>7. ASSUME NEW ptr \in 0..MaxAdds, NEW k \in offsets, circ.p[k] = ptr
      PROVE  new[ptr] = 1 /\ ptr # 0 /\ ptr <= pointers - first
  <2>1. PICK idx \in first..circ.size - 1 : k = off(idx) /\ ptr = pointers - idx
    BY <1>4, <1>7
  <2>2. \A l \in offsets : circ.p[l] = ptr => l = k
    <3> SUFFICES ASSUME NEW l \in offsets, circ.p[l] = ptr PROVE l = k
      OBVIOUS
    <3>1. PICK j \in first..circ.size - 1 : l = off(j) /\ ptr = pointers - j
      BY <1>4
    <3>2. j = idx
      BY <1>0, <2>1, <3>1
    <3> QED
      BY <2>1, <3>1, <3>2
  <2>3. new[ptr] = handed[ptr] + 1
    BY <1>0, <1>a, <1>3, <1>7, <2>2, HandedOnce
  <2>4. ptr # 0 /\ ptr <= pointers - first /\ ptr > pointers - circ.size
    BY <1>0, <2>1
  <2>5. handed[ptr] = 0
    BY <1>a, <1>0, <2>4
  <2> QED
    BY <2>3, <2>4, <2>5
<1> HIDE DEF new
<1>8. new[0] = 0
  <2>1. 0 \in 0..MaxAdds
    BY <1>0
  <2>2. \A k \in offsets : circ.p[k] # 0
    BY <1>7, <2>1
  <2> QED
    BY <1>a, <1>6, <2>1, <2>2
<1>9. \A ptr \in 1..MaxAdds : ptr > pointers - first => new[ptr] = 0
  <2> SUFFICES ASSUME NEW ptr \in 1..MaxAdds, ptr > pointers - first PROVE new[ptr] = 0
    OBVIOUS
  <2>1. \A k \in offsets : circ.p[k] # ptr
    <3>1. \A k \in offsets : circ.p[k] = ptr => ptr <= pointers - first
      BY <1>7
    <3> QED
      BY <1>0, <3>1
  <2>2. new[ptr] = handed[ptr]
    BY <1>6, <2>1
  <2>3. ptr > pointers - circ.size
    BY <1>0
  <2> QED
    BY <1>a, <2>2, <2>3
<1>10. \A ptr \in 0..MaxAdds : new[ptr] <= 1
  BY <1>a, <1>6, <1>7
<1> QED
  BY <1>5, <1>8, <1>9, <1>10 DEF new

\* A new buffer has no elements, and nothing was handed over.
LEMMA CircularBegins == CircularSetting /\ Circular!Init => CircularInv
<1> SUFFICES ASSUME CircularSetting, Circular!Init PROVE CircularInv
  OBVIOUS
<1>1. PICK capacity \in Capacities : circ = Circular!New(capacity)
  BY DEF Circular!Init
<1>2. /\ circ.p = [k \in 0..capacity - 1 |-> 0] /\ circ.size = 0 /\ circ.next = 0
      /\ circ.capacity = capacity /\ capacity \in Nat
      /\ circ = [p |-> circ.p, size |-> circ.size, next |-> circ.next, capacity |-> circ.capacity]
  BY <1>1 DEF Circular!New, Circular!NULL, CircularSetting
<1>3. handed = [ptr \in 0..MaxAdds |-> 0] /\ pointers = 0 /\ cleared = FALSE /\ alive = TRUE
  BY DEF Circular!Init, Circular!NULL
<1>4. MaxAdds \in Nat
  BY DEF CircularSetting
<1>5. circ.p \in [0..circ.capacity - 1 -> 0..MaxAdds]
      /\ \A k \in 0..circ.capacity - 1 : circ.p[k] = 0
  BY <1>2, <1>4
<1>6. handed \in [0..MaxAdds -> Nat] /\ \A ptr \in 0..MaxAdds : handed[ptr] = 0
  BY <1>3, <1>4
<1>7. \A idx \in 0..circ.size - 1 : FALSE
  BY <1>2
<1>8. /\ circ.capacity \in Nat /\ circ.size \in 0..circ.capacity /\ circ.next \in 0..circ.capacity
      /\ (circ.capacity > 0 => circ.next < circ.capacity)
      /\ pointers \in 0..MaxAdds /\ circ.size <= pointers
  BY <1>2, <1>3, <1>4
<1>9. handed[0] = 0 /\ \A ptr \in 0..MaxAdds : handed[ptr] = 0 /\ handed[ptr] <= 1
  BY <1>4, <1>6
<1>10. \A ptr \in 1..MaxAdds : handed[ptr] = 0
  BY <1>4, <1>6
<1>11. cleared \in BOOLEAN /\ alive \in BOOLEAN
  BY <1>3
<1> QED
  BY <1>2, <1>5, <1>6, <1>7, <1>8, <1>9, <1>10, <1>11, Zenon DEF CircularInv

\* What an addition does to a buffer that is not of capacity 0: what was the element idx is
\* then the element idx + 1, and a full buffer overwrites its oldest.
LEMMA StoredElements ==
  ASSUME CircularSetting, CircularInv, circ.capacity > 0, NEW ptr \in 0..MaxAdds,
         NEW c, c = Circular!Stored(circ, ptr)
  PROVE  /\ c = [p |-> c.p, size |-> c.size, next |-> c.next, capacity |-> c.capacity]
         /\ c.capacity = circ.capacity
         /\ c.p = [circ.p EXCEPT ![circ.next] = ptr]
         /\ c.next = IF circ.next + 1 = circ.capacity THEN 0 ELSE circ.next + 1
         /\ c.size = IF circ.size < circ.capacity THEN circ.size + 1 ELSE circ.size
         /\ Circular!Offset(c, 0) = circ.next
         /\ \A idx \in 0..circ.capacity - 2 :
              /\ Circular!Offset(c, idx + 1) = Circular!Offset(circ, idx)
              /\ Circular!Offset(circ, idx) # circ.next
         /\ Circular!Offset(circ, circ.capacity - 1) = circ.next
<1> DEFINE next == IF circ.next + 1 = circ.capacity THEN 0 ELSE circ.next + 1
           size == IF circ.size < circ.capacity THEN circ.size + 1 ELSE circ.size
           array == [circ.p EXCEPT ![circ.next] = ptr]
<1>0. /\ circ.capacity \in Nat /\ circ.next \in 0..circ.capacity - 1
      /\ circ = [p |-> circ.p, size |-> circ.size, next |-> circ.next, capacity |-> circ.capacity]
  BY DEF CircularInv
<1>1. c = [p |-> array, size |-> size, next |-> next, capacity |-> circ.capacity]
  <2>1. c = [circ EXCEPT !.p = array, !.next = next, !.size = size]
    <3>1. circ.capacity # 0
      BY <1>0
    <3> QED
      BY <3>1, Zenon DEF Circular!Stored
  <2> HIDE DEF next, size, array
  <2> QED
    BY <1>0, <2>1
<1>2. c.p = array /\ c.size = size /\ c.next = next /\ c.capacity = circ.capacity
  <2> HIDE DEF next, size, array
  <2> QED
    BY <1>1
<1>3. c = [p |-> c.p, size |-> c.size, next |-> c.next, capacity |-> c.capacity]
  <2> HIDE DEF next, size, array
  <2> QED
    BY <1>1, <1>2
<1>4. /\ Circular!Offset(c, 0) = circ.next
      /\ \A idx \in 0..circ.capacity - 2 :
              /\ Circular!Offset(c, idx + 1) = Circular!Offset(circ, idx)
              /\ Circular!Offset(circ, idx) # circ.next
      /\ Circular!Offset(circ, circ.capacity - 1) = circ.next
  BY <1>0, <1>2 DEF Circular!Offset
<1> QED
  BY <1>2, <1>3, <1>4

\* An addition: the new pointer is the newest element, and only an element that was
\* overwritten is handed over.
LEMMA Adding == ASSUME CircularSetting, CircularInv, Circular!Add PROVE CircularInv'
<1> DEFINE full == circ.capacity # 0 /\ circ.size = circ.capacity
           offsets == IF full THEN {circ.next} ELSE {}
<1>0. /\ alive /\ pointers < MaxAdds /\ pointers' = pointers + 1
      /\ handed' = Circular!Handed(offsets)
      /\ circ' = Circular!Stored(circ, pointers + 1)
      /\ cleared' = cleared /\ alive' = alive
  BY DEF Circular!Add
<1>1. /\ circ.capacity \in Nat /\ circ.size \in 0..circ.capacity /\ MaxAdds \in Nat
      /\ pointers \in 0..MaxAdds /\ circ.size <= pointers
      /\ circ.next \in 0..circ.capacity /\ (circ.capacity > 0 => circ.next < circ.capacity)
  BY DEF CircularInv, CircularSetting
<1>2. /\ handed \in [0..MaxAdds -> Nat] /\ handed[0] = 0
      /\ cleared \in BOOLEAN /\ alive \in BOOLEAN
      /\ \A ptr \in 1..MaxAdds : ptr > pointers - circ.size => handed[ptr] = 0
      /\ \A ptr \in 0..MaxAdds : handed[ptr] <= 1
  BY <1>0 DEF CircularInv
<1>3. \A idx \in 0..circ.size - 1 : circ.p[Circular!Offset(circ, idx)] = pointers - idx
  BY DEF CircularInv, Circular!Index
<1>4. offsets \in SUBSET (0..circ.capacity - 1)
  BY <1>1
<1>5. /\ handed' \in [0..MaxAdds -> Nat] /\ handed'[0] = 0
      /\ \A ptr \in 0..MaxAdds : handed'[ptr] <= 1
      /\ \A ptr \in 1..MaxAdds :
           ptr > pointers' - (IF full THEN circ.size ELSE circ.size + 1) => handed'[ptr] = 0
  <2>1. CASE full
    <3>1. offsets = Circular!Offsets(circ, circ.size - 1, circ.size - 1)
      <4>1. Circular!Offset(circ, circ.size - 1) = circ.next
        BY <1>1, <2>1 DEF Circular!Offset
      <4>2. (circ.size - 1)..(circ.size - 1) = {circ.size - 1}
        BY <1>1
      <4> QED
        BY <2>1, <4>1, <4>2 DEF Circular!Offsets
    <3>2. circ.size - 1 \in 0..circ.size /\ pointers' - circ.size = pointers - (circ.size - 1)
      BY <1>0, <1>1, <2>1
    <3> HIDE DEF offsets
    <3> QED
      BY <1>0, <2>1, <3>1, <3>2, ElementsHanded
  <2>2. CASE ~full
    <3>1. \A ptr \in 0..MaxAdds : handed'[ptr] = handed[ptr]
      BY <1>0, <1>1, <1>2, <1>4, <2>2, HandedOnce
    <3>2. handed' \in [0..MaxAdds -> Nat]
      BY <1>0, <1>1, <1>2, <1>4, HandedOnce
    <3>3. \A ptr \in 1..MaxAdds : ptr > pointers' - (circ.size + 1) => handed'[ptr] = 0
      <4>1. pointers' - (circ.size + 1) = pointers - circ.size
        BY <1>0, <1>1
      <4> QED
        BY <1>2, <3>1, <4>1
    <3>4. 0 \in 0..MaxAdds
      BY <1>1
    <3> QED
      BY <1>2, <2>2, <3>1, <3>2, <3>3, <3>4
  <2> QED
    BY <2>1, <2>2
<1> HIDE DEF offsets
<1>6. CASE circ.capacity = 0
  <2>1. circ' = circ /\ circ.size = 0
    BY <1>0, <1>1, <1>6 DEF Circular!Stored
  <2>2. \A ptr \in 1..MaxAdds : ptr > pointers' - circ.size => handed'[ptr] = 0
    <3> SUFFICES ASSUME NEW ptr \in 1..MaxAdds, ptr > pointers' - circ.size
                 PROVE  handed'[ptr] = 0
      OBVIOUS
    <3>1. ptr > pointers' - (circ.size + 1)
      BY <1>0, <1>1
    <3>2. ~full
      BY <1>6
    <3> HIDE DEF full
    <3> QED
      BY <1>5, <3>1, <3>2
  <2>3. pointers' \in 0..MaxAdds /\ circ.size <= pointers'
    BY <1>0, <1>1
  <2> QED
    BY <1>0, <1>5, <1>6, <2>1, <2>2, <2>3 DEF CircularInv, Circular!Index, Circular!Offset
<1>7. CASE circ.capacity > 0
  <2>0. pointers + 1 \in 0..MaxAdds /\ circ.next \in 0..circ.capacity - 1
    BY <1>0, <1>1, <1>7
  <2>1. /\ circ' = [p |-> circ'.p, size |-> circ'.size, next |-> circ'.next,
                    capacity |-> circ'.capacity]
        /\ circ'.capacity = circ.capacity
        /\ circ'.p = [circ.p EXCEPT ![circ.next] = pointers + 1]
        /\ circ'.next = IF circ.next + 1 = circ.capacity THEN 0 ELSE circ.next + 1
        /\ circ'.size = IF circ.size < circ.capacity THEN circ.size + 1 ELSE circ.size
        /\ Circular!Offset(circ', 0) = circ.next
        /\ \A idx \in 0..circ.capacity - 2 :
             /\ Circular!Offset(circ', idx + 1) = Circular!Offset(circ, idx)
             /\ Circular!Offset(circ, idx) # circ.next
        /\ Circular!Offset(circ, circ.capacity - 1) = circ.next
    BY <1>0, <1>7, <2>0, StoredElements
  <2>2. /\ circ'.size \in 0..circ.capacity /\ circ'.size <= pointers + 1 /\ circ'.size > 0
        /\ circ'.next \in 0..circ.capacity - 1
        /\ circ'.size = IF full THEN circ.size ELSE circ.size + 1
        /\ circ'.size - 1 <= circ.size
    BY <1>0, <1>1, <1>7, <2>1
  <2>3. circ.p \in [0..circ.capacity - 1 -> 0..MaxAdds]
        /\ circ'.p \in [0..circ.capacity - 1 -> 0..MaxAdds]
    BY <2>0, <2>1 DEF CircularInv
  <2>4. \A idx \in 0..circ'.size - 1 : circ'.p[Circular!Offset(circ', idx)] = (pointers + 1) - idx
    <3> SUFFICES ASSUME NEW idx \in 0..circ'.size - 1
                 PROVE  circ'.p[Circular!Offset(circ', idx)] = (pointers + 1) - idx
      OBVIOUS
    <3>1. CASE idx = 0
      BY <1>1, <2>0, <2>1, <2>3, <3>1
    <3>2. CASE idx > 0
      <4>1. PICK j \in 0..circ.capacity - 2 : idx = j + 1 /\ j \in 0..circ.size - 1
        <5>1. idx - 1 \in 0..circ.capacity - 2 /\ idx - 1 \in 0..circ.size - 1
              /\ idx = (idx - 1) + 1
          BY <1>1, <2>2, <3>2
        <5> QED
          BY <5>1
      <4>2. Circular!Offset(circ, j) \in 0..circ.capacity - 1
        BY <1>1, <1>7 DEF Circular!Offset
      <4>3. circ'.p[Circular!Offset(circ', idx)] = circ.p[Circular!Offset(circ, j)]
        BY <2>1, <2>3, <4>1, <4>2
      <4>4. circ.p[Circular!Offset(circ, j)] = pointers - j
        BY <1>3, <4>1
      <4> QED
        BY <1>1, <4>1, <4>3, <4>4
    <3> QED
      BY <2>2, <3>1, <3>2
  <2>5. ASSUME ~cleared, NEW k \in 0..circ.capacity - 1, circ'.p[k] # 0
        PROVE  \E idx \in 0..circ'.size - 1 : k = Circular!Offset(circ', idx)
    <3>1. CASE k = circ.next
      BY <2>1, <2>2, <3>1
    <3>2. CASE k # circ.next
      <4>1. circ.p[k] # 0
        BY <2>1, <2>3, <2>5, <3>2
      <4>2. PICK idx \in 0..circ.size - 1 : k = Circular!Offset(circ, idx)
        BY <2>5, <4>1 DEF CircularInv
      <4>3. idx # circ.capacity - 1
        BY <2>1, <3>2, <4>2
      <4>4. idx \in 0..circ.capacity - 2 /\ idx + 1 \in 0..circ'.size - 1
        BY <1>1, <2>1, <4>3
      <4> QED
        BY <2>1, <4>2, <4>4
    <3> QED
      BY <3>1, <3>2
  <2>6. \A ptr \in 1..MaxAdds : ptr > pointers' - circ'.size => handed'[ptr] = 0
    BY <1>5, <2>2
  <2>7. \A idx \in 0..circ'.size - 1 : Circular!Index(circ', idx) = pointers' - idx
    <3>1. pointers' = pointers + 1
      BY <1>0
    <3> SUFFICES ASSUME NEW idx \in 0..circ'.size - 1
                 PROVE  circ'.p[Circular!Offset(circ', idx)] = pointers' - idx
      BY Zenon DEF Circular!Index
    <3>2. circ'.p[Circular!Offset(circ', idx)] = (pointers + 1) - idx
      BY <2>4, Zenon
    <3> QED
      BY <3>1, <3>2, Zenon
  <2>8. circ'.next \in 0..circ'.capacity /\ circ'.capacity \in Nat
        /\ circ'.next < circ'.capacity /\ circ'.size \in 0..circ'.capacity
        /\ pointers' \in 0..MaxAdds /\ circ'.size <= pointers'
    BY <1>0, <1>1, <2>1, <2>2
  <2>9. circ'.p \in [0..circ'.capacity - 1 -> 0..MaxAdds]
    BY <2>1, <2>3
  <2>10. ~cleared' => \A k \in 0..circ'.capacity - 1 :
           circ'.p[k] # 0 => \E idx \in 0..circ'.size - 1 : k = Circular!Offset(circ', idx)
    BY <1>0, <2>1, <2>5
  <2>11. cleared' \in BOOLEAN /\ alive' \in BOOLEAN
    BY <1>0, <1>2
  <2>12. circ' = [p |-> circ'.p, size |-> circ'.size, next |-> circ'.next,
                  capacity |-> circ'.capacity]
    BY <2>1
  <2> QED
    BY <1>5, <2>6, <2>7, <2>8, <2>9, <2>10, <2>11, <2>12, Zenon DEF CircularInv
<1> QED
  BY <1>1, <1>6, <1>7

\* A change of capacity: the elements that stay are the newest, and the others are handed over.
LEMMA Resizing ==
  ASSUME CircularSetting, CircularInv, NEW capacity \in Capacities, Circular!Resize(capacity)
  PROVE  CircularInv'
<1> DEFINE size == IF circ.size < capacity THEN circ.size ELSE capacity
           array == [k \in 0..capacity - 1 |->
                       IF k < size THEN Circular!Index(circ, size - 1 - k) ELSE 0]
           next == IF size = capacity THEN 0 ELSE size
<1>0. /\ alive /\ circ' = Circular!Resized(circ, capacity)
      /\ handed' = Circular!Handed(Circular!Offsets(circ, circ'.size, circ.size - 1))
      /\ pointers' = pointers /\ cleared' = cleared /\ alive' = alive
  BY DEF Circular!Resize
<1>1. /\ circ.capacity \in Nat /\ circ.size \in 0..circ.capacity /\ MaxAdds \in Nat
      /\ pointers \in 0..MaxAdds /\ circ.size <= pointers /\ capacity \in Nat
  BY DEF CircularInv, CircularSetting
<1>2. circ' = [p |-> array, size |-> size, next |-> next, capacity |-> capacity]
  BY <1>0, Zenon DEF Circular!Resized, Circular!NULL
<1>3. circ'.p = array /\ circ'.size = size /\ circ'.next = next /\ circ'.capacity = capacity
  <2> HIDE DEF array, size, next
  <2> QED
    BY <1>2
<1>4. size \in 0..capacity /\ size \in 0..circ.size
  BY <1>1
<1>5. \A idx \in 0..circ.size - 1 : Circular!Index(circ, idx) = pointers - idx
  BY DEF CircularInv
<1>6. \A k \in 0..capacity - 1 : array[k] = IF k < size THEN pointers - ((size - 1) - k) ELSE 0
  <2> SUFFICES ASSUME NEW k \in 0..capacity - 1, k < size
               PROVE  Circular!Index(circ, size - 1 - k) = pointers - ((size - 1) - k)
    OBVIOUS
  <2>1. size - 1 - k \in 0..circ.size - 1
    BY <1>1, <1>4
  <2> QED
    BY <1>5, <2>1
<1> HIDE DEF size
<1>7. circ'.p \in [0..capacity - 1 -> 0..MaxAdds]
  <2>1. \A k \in 0..capacity - 1 : array[k] \in 0..MaxAdds
    BY <1>1, <1>4, <1>6
  <2>2. array = [k \in 0..capacity - 1 |-> array[k]]
    OBVIOUS
  <2> HIDE DEF array
  <2> QED
    BY <1>3, <2>1, <2>2
<1> HIDE DEF array
<1>8. /\ circ'.next \in 0..capacity /\ (capacity > 0 => circ'.next < capacity)
      /\ circ'.size \in 0..capacity /\ circ'.size <= pointers' /\ pointers' \in 0..MaxAdds
  BY <1>0, <1>1, <1>3, <1>4
<1>9. \A idx \in 0..size - 1 : Circular!Offset(circ', idx) = (size - 1) - idx
  BY <1>1, <1>3, <1>4 DEF Circular!Offset
<1>10. \A idx \in 0..circ'.size - 1 : Circular!Index(circ', idx) = pointers' - idx
  <2> SUFFICES ASSUME NEW idx \in 0..size - 1 PROVE Circular!Index(circ', idx) = pointers - idx
    BY <1>0, <1>3
  <2>1. PICK k \in 0..capacity - 1 : k = (size - 1) - idx /\ k < size
    BY <1>1, <1>4
  <2>2. circ'.p[Circular!Offset(circ', idx)] = array[k]
    BY <1>3, <1>9, <2>1
  <2>3. array[k] = pointers - ((size - 1) - k)
    BY <1>6, <2>1
  <2>4. pointers - ((size - 1) - k) = pointers - idx
    BY <1>1, <1>4, <2>1
  <2> QED
    BY <2>2, <2>3, <2>4 DEF Circular!Index
<1>11. \A k \in 0..capacity - 1 :
         circ'.p[k] # 0 => \E idx \in 0..circ'.size - 1 : k = Circular!Offset(circ', idx)
  <2> SUFFICES ASSUME NEW k \in 0..capacity - 1, circ'.p[k] # 0
               PROVE  \E idx \in 0..size - 1 : k = Circular!Offset(circ', idx)
    BY <1>3
  <2>1. k < size
    BY <1>3, <1>6
  <2>2. (size - 1) - k \in 0..size - 1 /\ k = (size - 1) - ((size - 1) - k)
    BY <1>1, <1>4, <2>1
  <2> QED
    BY <1>9, <2>2
<1>12. /\ handed' \in [0..MaxAdds -> Nat] /\ handed'[0] = 0
       /\ \A ptr \in 0..MaxAdds : handed'[ptr] <= 1
       /\ \A ptr \in 1..MaxAdds : ptr > pointers' - circ'.size => handed'[ptr] = 0
  <2>1. circ'.size \in 0..circ.size
    BY <1>3, <1>4
  <2> QED
    BY <1>0, <2>1, ElementsHanded
<1>13. cleared' \in BOOLEAN /\ alive' \in BOOLEAN
  BY <1>0 DEF CircularInv
<1>14. circ' = [p |-> circ'.p, size |-> circ'.size, next |-> circ'.next,
                capacity |-> circ'.capacity]
  <2> HIDE DEF next
  <2> QED
    BY <1>2, <1>3
<1>15. circ'.capacity = capacity /\ capacity \in Nat
  BY <1>1, <1>3
<1> QED
  BY <1>7, <1>8, <1>10, <1>11, <1>12, <1>13, <1>14, <1>15, Zenon DEF CircularInv

\* A buffer that is cleared has no elements, and they were handed over.
LEMMA Clearing == ASSUME CircularSetting, CircularInv, Circular!Clear PROVE CircularInv'
<1>0. /\ alive /\ circ' = [circ EXCEPT !.size = 0]
      /\ handed' = Circular!Handed(Circular!Offsets(circ, 0, circ.size - 1))
      /\ pointers' = pointers /\ cleared' = TRUE /\ alive' = alive
  BY DEF Circular!Clear
<1>1. /\ circ.capacity \in Nat /\ circ.size \in 0..circ.capacity
      /\ circ.next \in 0..circ.capacity /\ (circ.capacity > 0 => circ.next < circ.capacity)
      /\ circ.p \in [0..circ.capacity - 1 -> 0..MaxAdds]
      /\ pointers \in 0..MaxAdds /\ circ.size <= pointers
      /\ circ = [p |-> circ.p, size |-> circ.size, next |-> circ.next, capacity |-> circ.capacity]
      /\ MaxAdds \in Nat /\ alive \in BOOLEAN
  BY DEF CircularInv, CircularSetting
<1>2. circ' = [p |-> circ.p, size |-> 0, next |-> circ.next, capacity |-> circ.capacity]
  BY <1>0, <1>1
<1>3. circ'.p = circ.p /\ circ'.size = 0 /\ circ'.next = circ.next
      /\ circ'.capacity = circ.capacity
      /\ circ' = [p |-> circ'.p, size |-> circ'.size, next |-> circ'.next,
                  capacity |-> circ'.capacity]
  BY <1>2
<1>4. /\ handed' \in [0..MaxAdds -> Nat] /\ handed'[0] = 0
      /\ \A ptr \in 0..MaxAdds : handed'[ptr] <= 1
      /\ \A ptr \in 1..MaxAdds : ptr > pointers - 0 => handed'[ptr] = 0
  <2>1. 0 \in 0..circ.size
    BY <1>1
  <2> QED
    BY <1>0, <2>1, ElementsHanded
<1>5. \A idx \in 0..circ'.size - 1 : FALSE
  BY <1>3
<1>6. \A ptr \in 1..MaxAdds : ptr > pointers' - circ'.size => handed'[ptr] = 0
  BY <1>0, <1>1, <1>3, <1>4
<1>7. /\ circ'.capacity \in Nat /\ circ'.size \in 0..circ'.capacity
      /\ circ'.next \in 0..circ'.capacity /\ (circ'.capacity > 0 => circ'.next < circ'.capacity)
      /\ circ'.p \in [0..circ'.capacity - 1 -> 0..MaxAdds]
      /\ pointers' \in 0..MaxAdds /\ circ'.size <= pointers'
  BY <1>0, <1>1, <1>3
<1>8. cleared' \in BOOLEAN /\ cleared' /\ alive' \in BOOLEAN
  BY <1>0, <1>1
<1> QED
  BY <1>3, <1>4, <1>5, <1>6, <1>7, <1>8, Zenon DEF CircularInv

\* A buffer that was never cleared holds nothing but its elements when it is destroyed.
LEMMA Destroying == ASSUME CircularSetting, CircularInv, Circular!Destroy PROVE CircularInv'
<1> DEFINE offsets == { k \in 0..circ.capacity - 1 : circ.p[k] # 0 }
<1>0. /\ alive /\ alive' = FALSE /\ handed' = Circular!Handed(offsets)
      /\ circ' = circ /\ pointers' = pointers /\ cleared' = cleared
  BY DEF Circular!Destroy, Circular!NULL
<1>1. /\ circ.capacity \in Nat /\ circ.size \in 0..circ.capacity /\ MaxAdds \in Nat
      /\ pointers \in 0..MaxAdds /\ circ.size <= pointers
      /\ handed \in [0..MaxAdds -> Nat] /\ handed[0] = 0
      /\ cleared \in BOOLEAN
  BY DEF CircularInv, CircularSetting
<1>2. offsets \in SUBSET (0..circ.capacity - 1) /\ \A k \in offsets : circ.p[k] # 0
  OBVIOUS
<1> HIDE DEF offsets
<1>3. handed' \in [0..MaxAdds -> Nat] /\ handed'[0] = 0
  <2>1. 0 \in 0..MaxAdds
    BY <1>1
  <2> QED
    BY <1>0, <1>1, <1>2, <2>1, HandedOnce
<1>4. ASSUME ~cleared PROVE \A ptr \in 0..MaxAdds : handed'[ptr] <= 1
  <2>1. offsets = Circular!Offsets(circ, 0, circ.size - 1)
    <3>1. ASSUME NEW k \in offsets PROVE k \in Circular!Offsets(circ, 0, circ.size - 1)
      <4>1. \E idx \in 0..circ.size - 1 : k = Circular!Offset(circ, idx)
        BY <1>2, <1>4 DEF CircularInv
      <4> QED
        BY <4>1 DEF Circular!Offsets
    <3>2. ASSUME NEW k \in Circular!Offsets(circ, 0, circ.size - 1) PROVE k \in offsets
      <4>1. PICK idx \in 0..circ.size - 1 : k = Circular!Offset(circ, idx)
        BY DEF Circular!Offsets
      <4>2. circ.p[k] = pointers - idx
        BY <4>1 DEF CircularInv, Circular!Index
      <4>3. k \in 0..circ.capacity - 1
        <5>1. idx \in 0..circ.capacity - 1
          BY <1>1
        <5> QED
          BY <4>1, <5>1, OffsetsDiffer DEF CircularInv
      <4>4. pointers - idx # 0
        BY <1>1
      <4> QED
        BY <4>2, <4>3, <4>4 DEF offsets
    <3> QED
      BY <3>1, <3>2
  <2>2. 0 \in 0..circ.size
    BY <1>1
  <2> QED
    BY <1>0, <2>1, <2>2, ElementsHanded
<1>5. ~alive' /\ alive' \in BOOLEAN /\ cleared' \in BOOLEAN
  BY <1>0, <1>1
<1>6. ~cleared' => \A ptr \in 0..MaxAdds : handed'[ptr] <= 1
  BY <1>0, <1>4
<1> QED
  BY <1>0, <1>3, <1>5, <1>6, Zenon DEF CircularInv

\* The invariant gives the property.
LEMMA CircularKept == CircularSetting /\ CircularInv => KeepsTheNewest
<1> SUFFICES ASSUME CircularSetting, CircularInv
             PROVE  Circular!KeepsTheNewest /\ Circular!FreedOnce
  BY Zenon DEF KeepsTheNewest
<1>1. /\ circ.size \in Nat /\ circ.size <= pointers /\ pointers \in 0..MaxAdds
      /\ \A idx \in 0..circ.size - 1 : Circular!Index(circ, idx) = pointers - idx
      /\ MaxAdds \in Nat
  BY DEF CircularInv, CircularSetting
<1>2. Circular!KeepsTheNewest
  <2>1. ASSUME NEW n \in 1..circ.size PROVE Circular!Index(circ, n - 1) = pointers + 1 - n
    BY <1>1
  <2> QED
    BY <2>1, Zenon DEF Circular!KeepsTheNewest, Circular!Contents
<1>3. Circular!FreedOnce
  <2>1. ASSUME alive, NEW idx \in 0..circ.size - 1 PROVE handed[Circular!Index(circ, idx)] = 0
    <3>1. pointers - idx \in 1..MaxAdds /\ pointers - idx > pointers - circ.size
      BY <1>1
    <3>2. \A ptr \in 1..MaxAdds : ptr > pointers - circ.size => handed[ptr] = 0
      BY <2>1, Zenon DEF CircularInv
    <3>3. handed[pointers - idx] = 0
      BY <3>1, <3>2
    <3> QED
      BY <1>1, <3>3
  <2> QED
    BY <2>1 DEF CircularInv, Circular!FreedOnce, Circular!NULL
<1> QED
  BY <1>2, <1>3

\* Whatever is added and however the capacity changes, a buffer holds the newest pointers, and
\* no pointer is handed to the handler twice, or while it is an element (bot_ptr_circular_add,
\* _resize, _clear, _destroy).
THEOREM NewestAreKept ==
  ASSUME CircularSetting
  PROVE  Circular!Spec => []KeepsTheNewest
<1>1. Circular!Init => CircularInv
  BY CircularBegins
<1>2. CircularInv /\ [Circular!Next]_Circular!vars => CircularInv'
  <2> SUFFICES ASSUME CircularInv, [Circular!Next]_Circular!vars PROVE CircularInv'
    OBVIOUS
  <2>1. CASE Circular!Add
    BY <2>1, Adding
  <2>2. CASE Circular!Clear
    BY <2>2, Clearing
  <2>3. CASE Circular!Destroy
    BY <2>3, Destroying
  <2>4. ASSUME NEW capacity \in Capacities, Circular!Resize(capacity) PROVE CircularInv'
    BY <2>4, Resizing
  <2>5. CASE UNCHANGED Circular!vars
    BY <2>5, Zenon DEF Circular!vars, CircularInv
  <2> QED
    BY <2>1, <2>2, <2>3, <2>4, <2>5, Zenon DEF Circular!Next
<1> QED
  BY <1>1, <1>2, CircularKept, PTL DEF Circular!Spec

-----------------------------------------------------------------------------
(* The ring buffer: it is a bounded queue of bytes, for every size and any bytes *)

RingSetting == RingSize \in Nat \ {0}

\* The place in the array that is n places on from an offset.
At(offset, n) == (offset + n) % RingSize

Places == 0..RingSize - 1
Arrays == [Places -> RingBytes]

-----------------------------------------------------------------------------
(* The invariant: the offsets are in the array, and the writer stands where the bytes end. *)

RingInv ==
  /\ buf \in Arrays
  /\ readOffset \in Places /\ numBytes \in 0..RingSize
  /\ writeOffset = At(readOffset, numBytes)

\* What the buffer holds, oldest first: the queue of the refinement.
Held == [k \in 1..numBytes |-> buf[(readOffset + k - 1) % RingSize]]

-----------------------------------------------------------------------------
(* Places *)

\* Going on by no more than the size wraps around at most once.
LEMMA Wraps ==
  ASSUME RingSetting, NEW offset \in Places, NEW n \in 0..RingSize
  PROVE  /\ At(offset, n) = IF offset + n < RingSize THEN offset + n ELSE offset + n - RingSize
         /\ At(offset, n) \in Places
BY DEF RingSetting, At, Places

\* Going on twice is going on by the sum.
LEMMA Steps ==
  ASSUME RingSetting, NEW offset \in Places, NEW m \in 0..RingSize, NEW n \in 0..RingSize,
         m + n <= RingSize
  PROVE  At(At(offset, m), n) = At(offset, m + n)
<1>1. m + n \in 0..RingSize /\ At(offset, m) \in Places
  BY Wraps DEF RingSetting
<1>2. At(offset, m) = IF offset + m < RingSize THEN offset + m ELSE offset + m - RingSize
  BY Wraps
<1>3. At(offset, m + n) = IF offset + (m + n) < RingSize THEN offset + (m + n)
                          ELSE offset + (m + n) - RingSize
  BY <1>1, Wraps
<1>4. At(At(offset, m), n) = IF At(offset, m) + n < RingSize THEN At(offset, m) + n
                             ELSE At(offset, m) + n - RingSize
  BY <1>1, Wraps
<1> QED  BY <1>1, <1>2, <1>3, <1>4 DEF RingSetting, Places

\* What the buffer holds is a sequence of its bytes.
HeldIsSeq ==
  /\ Held \in Seq(RingBytes) /\ Len(Held) = numBytes
  /\ \A k \in 1..numBytes : Held[k] = buf[At(readOffset, k - 1)]

\* Setting and invariant give that what is held is a sequence of bytes.
LEMMA HeldFacts == RingSetting /\ RingInv => HeldIsSeq
<1> SUFFICES ASSUME RingSetting, RingInv PROVE HeldIsSeq
  OBVIOUS
<1>1. \A k \in 1..numBytes : /\ At(readOffset, k - 1) = (readOffset + k - 1) % RingSize
                             /\ At(readOffset, k - 1) \in Places
  <2> TAKE k \in 1..numBytes
  <2>0. /\ numBytes \in Nat /\ numBytes <= RingSize /\ RingSize \in Nat
        /\ readOffset \in Nat /\ k \in Nat /\ 1 <= k /\ k <= numBytes
    BY DEF RingInv, RingSetting, Places
  <2>1. k - 1 \in 0..RingSize /\ readOffset + (k - 1) = readOffset + k - 1
    BY <2>0
  <2>2. At(readOffset, k - 1) = (readOffset + k - 1) % RingSize
    BY <2>1 DEF At
  <2> QED  BY <2>1, <2>2, Wraps DEF RingInv
<1>2. \A k \in 1..numBytes : Held[k] = buf[At(readOffset, k - 1)]
  BY <1>1 DEF Held
<1>3. Held \in [1..numBytes -> RingBytes]
  BY <1>1 DEF Held, RingInv, Arrays
<1>4. numBytes \in Nat
  BY DEF RingInv, RingSetting
<1> HIDE DEF Held
<1> QED  BY <1>2, <1>3, <1>4, SeqDef DEF HeldIsSeq

-----------------------------------------------------------------------------
(* Writing *)

\* Bytes copied to an offset.
LEMMA CopiedFacts ==
  ASSUME RingSetting, NEW to \in Arrays, NEW offset \in 0..RingSize, NEW data \in Seq(RingBytes),
         offset + Len(data) <= RingSize
  PROVE  /\ Ring!Copied(to, offset, data) \in Arrays
         /\ \A k \in Places :
              Ring!Copied(to, offset, data)[k] =
                IF offset <= k /\ k < offset + Len(data) THEN data[k - offset + 1] ELSE to[k]
<1>1. Len(data) \in Nat /\ \A k \in 1..Len(data) : data[k] \in RingBytes
  BY LenProperties
<1>2. ASSUME NEW k \in Places
      PROVE  /\ k \in offset..offset + Len(data) - 1 <=>
                  offset <= k /\ k < offset + Len(data)
             /\ offset <= k /\ k < offset + Len(data) => k - offset + 1 \in 1..Len(data)
  BY <1>1 DEF Places, RingSetting
<1>3. DOMAIN to = Places
  BY DEF Arrays
<1>4. \A k \in Places :
        Ring!Copied(to, offset, data)[k] =
          IF offset <= k /\ k < offset + Len(data) THEN data[k - offset + 1] ELSE to[k]
  BY <1>2, <1>3 DEF Ring!Copied
<1>5. \A k \in Places : Ring!Copied(to, offset, data)[k] \in RingBytes
  BY <1>1, <1>2, <1>4 DEF Arrays
<1>6. Ring!Copied(to, offset, data) = [k \in Places |-> Ring!Copied(to, offset, data)[k]]
  BY <1>3 DEF Ring!Copied
<1> QED  BY <1>4, <1>5, <1>6 DEF Arrays

\* n bytes, or fewer, written in two parts behind what the buffer holds leave that alone.
LEMMA TwoParts ==
  ASSUME RingSetting, RingInv, NEW n \in 0..RingSize - numBytes,
         NEW a \in Seq(RingBytes), Len(a) <= Ring!Least(RingSize - writeOffset, n),
         NEW b \in Seq(RingBytes), Len(b) <= n - Ring!Least(RingSize - writeOffset, n)
  PROVE  LET new == Ring!Copied(Ring!Copied(buf, writeOffset, a), 0, b)
         IN  /\ new \in Arrays
             /\ \A j \in 0..numBytes - 1 : new[At(readOffset, j)] = buf[At(readOffset, j)]
             /\ Len(a) = Ring!Least(RingSize - writeOffset, n) /\ Len(a) + Len(b) = n =>
                  \A k \in 1..n : new[At(writeOffset, k - 1)] =
                                    IF k <= Len(a) THEN a[k] ELSE b[k - Len(a)]
<1> DEFINE first == Ring!Least(RingSize - writeOffset, n)
           one   == Ring!Copied(buf, writeOffset, a)
           new   == Ring!Copied(one, 0, b)
<1>1. /\ writeOffset \in Places /\ readOffset \in Places
      /\ numBytes \in 0..RingSize /\ RingSize \in Nat \ {0} /\ n \in Nat
      /\ writeOffset = IF readOffset + numBytes < RingSize THEN readOffset + numBytes
                       ELSE readOffset + numBytes - RingSize
  BY Wraps DEF RingInv, RingSetting
<1>2. /\ first \in Nat /\ first <= n /\ first <= RingSize - writeOffset
      /\ first = n \/ first = RingSize - writeOffset
  BY <1>1 DEF Ring!Least, Places
<1>3. Len(a) \in Nat /\ Len(b) \in Nat
  BY LenProperties
<1>4. Len(a) <= first /\ Len(b) <= n - first
  OBVIOUS
<1> HIDE DEF first
<1>5. /\ one \in Arrays
      /\ \A k \in Places :
           one[k] = IF writeOffset <= k /\ k < writeOffset + Len(a) THEN a[k - writeOffset + 1]
                    ELSE buf[k]
  <2>1. writeOffset \in 0..RingSize /\ writeOffset + Len(a) <= RingSize
    BY <1>1, <1>2, <1>3, <1>4 DEF Places
  <2> QED  BY <2>1, CopiedFacts DEF RingInv
<1> HIDE DEF one
<1>6. /\ new \in Arrays
      /\ \A k \in Places : new[k] = IF k < Len(b) THEN b[k + 1] ELSE one[k]
  <2>1. 0 \in 0..RingSize /\ 0 + Len(b) <= RingSize
    BY <1>1, <1>2, <1>3, <1>4 DEF Places
  <2>2. /\ new \in Arrays
        /\ \A k \in Places : new[k] = IF 0 <= k /\ k < 0 + Len(b) THEN b[k - 0 + 1] ELSE one[k]
    BY <2>1, <1>5, CopiedFacts
  <2> HIDE DEF new
  <2> QED  BY <2>2, <1>1, <1>3 DEF Places
<1> HIDE DEF new
<1>7. ASSUME NEW j \in 0..numBytes - 1
      PROVE  new[At(readOffset, j)] = buf[At(readOffset, j)]
  <2>1. /\ At(readOffset, j) = IF readOffset + j < RingSize THEN readOffset + j
                               ELSE readOffset + j - RingSize
        /\ At(readOffset, j) \in Places
    <3>1. j \in 0..RingSize
      BY <1>1
    <3> QED  BY <1>1, <3>1, Wraps
  <2>2. ~(At(readOffset, j) < Len(b))
    BY <2>1, <1>1, <1>2, <1>3, <1>4 DEF Places
  <2>3. ~(writeOffset <= At(readOffset, j) /\ At(readOffset, j) < writeOffset + Len(a))
    BY <2>1, <1>1, <1>2, <1>3, <1>4 DEF Places
  <2> QED  BY <2>1, <2>2, <2>3, <1>5, <1>6
<1>8. ASSUME Len(a) = first, Len(a) + Len(b) = n, NEW k \in 1..n
      PROVE  new[At(writeOffset, k - 1)] = IF k <= Len(a) THEN a[k] ELSE b[k - Len(a)]
  <2> DEFINE p == At(writeOffset, k - 1)
  <2>1. /\ p = IF writeOffset + (k - 1) < RingSize THEN writeOffset + (k - 1)
               ELSE writeOffset + (k - 1) - RingSize
        /\ p \in Places
    <3>1. k - 1 \in 0..RingSize
      BY <1>1
    <3> QED  BY <1>1, <3>1, Wraps
  <2> HIDE DEF p
  <2>2. CASE k <= Len(a)
    <3>1. ~(p < Len(b)) /\ writeOffset <= p /\ p < writeOffset + Len(a) /\ p - writeOffset + 1 = k
      BY <2>1, <2>2, <1>1, <1>2, <1>3, <1>8 DEF Places
    <3> QED  BY <2>1, <2>2, <3>1, <1>5, <1>6 DEF p
  <2>3. CASE ~(k <= Len(a))
    <3>1. p < Len(b) /\ p + 1 = k - Len(a)
      BY <2>1, <2>3, <1>1, <1>2, <1>3, <1>8 DEF Places
    <3> QED  BY <2>1, <2>3, <3>1, <1>6 DEF p
  <2> QED  BY <2>2, <2>3
<1> QED  BY <1>6, <1>7, <1>8 DEF new, one, first

\* Behind what the buffer holds comes what was written there.
LEMMA Appended ==
  ASSUME RingSetting, RingInv, NEW n \in 0..RingSize - numBytes,
         NEW data \in Seq(RingBytes), Len(data) = n,
         buf' \in Arrays, readOffset' = readOffset, Ring!Advance(n),
         \A j \in 0..numBytes - 1 : buf'[At(readOffset, j)] = buf[At(readOffset, j)],
         \A k \in 1..n : buf'[At(writeOffset, k - 1)] = data[k]
  PROVE  RingInv' /\ Held' = Held \o data
<1>1. /\ writeOffset \in Places /\ readOffset \in Places
      /\ numBytes \in 0..RingSize /\ RingSize \in Nat \ {0} /\ n \in Nat
      /\ numBytes + n <= RingSize
  BY Wraps DEF RingInv, RingSetting
<1>2. numBytes' = numBytes + n /\ writeOffset' = At(writeOffset, n)
  BY DEF Ring!Advance, At
<1>3. RingInv'
  <2>1. n \in 0..RingSize /\ numBytes' \in 0..RingSize
    BY <1>1, <1>2
  <2>2. At(At(readOffset, numBytes), n) = At(readOffset, numBytes + n)
    BY <1>1, <2>1, Steps
  <2> QED  BY <1>1, <1>2, <2>1, <2>2 DEF RingInv, At
<1>4. /\ Held' \in Seq(RingBytes) /\ Len(Held') = numBytes'
      /\ \A k \in 1..numBytes' : Held'[k] = buf'[At(readOffset', k - 1)]
  <2>1. RingSetting' /\ RingInv' => HeldIsSeq'
    BY HeldFacts, PTL
  <2> QED  BY <1>3, <2>1 DEF RingSetting, HeldIsSeq
<1>5. /\ Held \in Seq(RingBytes) /\ Len(Held) = numBytes
      /\ \A k \in 1..numBytes : Held[k] = buf[At(readOffset, k - 1)]
  BY HeldFacts DEF HeldIsSeq
<1>6. /\ Held \o data \in Seq(RingBytes) /\ Len(Held \o data) = numBytes + n
      /\ \A k \in 1..numBytes + n :
           (Held \o data)[k] = IF k <= numBytes THEN Held[k] ELSE data[k - numBytes]
  BY <1>5, ConcatProperties
<1>7. ASSUME NEW k \in 1..numBytes + n PROVE Held'[k] = (Held \o data)[k]
  <2>1. CASE k <= numBytes
    <3>1. k \in 1..numBytes /\ k \in 1..numBytes' /\ k - 1 \in 0..numBytes - 1
      BY <1>1, <1>2, <2>1
    <3> QED  BY <1>4, <1>5, <1>6, <2>1, <3>1 DEF At
  <2>2. CASE ~(k <= numBytes)
    <3> DEFINE i == k - numBytes
    <3>1. /\ i \in 1..n /\ k \in 1..numBytes' /\ i - 1 \in 0..RingSize
          /\ numBytes + (i - 1) = k - 1 /\ numBytes + (i - 1) <= RingSize
      BY <1>1, <1>2, <2>2
    <3>2. At(At(readOffset, numBytes), i - 1) = At(readOffset, numBytes + (i - 1))
      BY <1>1, <3>1, Steps
    <3>3. At(readOffset, k - 1) = At(writeOffset, i - 1)
      BY <3>1, <3>2 DEF RingInv
    <3>4. Held'[k] = buf'[At(readOffset, k - 1)]
      BY <1>4, <3>1
    <3> QED  BY <1>6, <2>2, <3>1, <3>3, <3>4
  <2> QED  BY <2>1, <2>2
<1>8. Held' = Held \o data
  BY <1>2, <1>4, <1>6, <1>7, SeqEqual
<1> QED  BY <1>3, <1>8

\* What a caller or a device gives is a sequence of bytes.
LEMMA DataFacts ==
  ASSUME NEW n \in Nat, NEW data \in Ring!Data(n)
  PROVE  data \in Seq(RingBytes) /\ Len(data) \in 0..n /\ data \in [1..Len(data) -> RingBytes]
<1>1. PICK k \in 0..n : data \in [1..k -> RingBytes]
  BY DEF Ring!Data
<1>2. k \in Nat
  OBVIOUS
<1>3. data \in Seq(RingBytes)
  BY <1>1, <1>2, SeqDef
<1>4. Len(data) = k
  BY <1>1, <1>2, <1>3, LenProperties
<1> QED  BY <1>1, <1>3, <1>4

\* A write appends what there is room for.
LEMMA WriteIsPut ==
  ASSUME RingSetting, RingInv, NEW data \in Ring!Data(RingSize + 1), Ring!Write(data)
  PROVE  RingInv' /\ Ring!Queue!Next
<1> DEFINE n     == Ring!Least(Len(data), RingSize - numBytes)
           d     == SubSeq(data, 1, n)
           first == Ring!Least(RingSize - writeOffset, Len(d))
           a     == SubSeq(d, 1, first)
           b     == SubSeq(d, first + 1, Len(d))
<1>1. /\ data \in Seq(RingBytes) /\ Len(data) \in 0..RingSize + 1
      /\ data \in [1..Len(data) -> RingBytes]
      /\ RingSize \in Nat \ {0} /\ numBytes \in 0..RingSize /\ writeOffset \in Places
  <2>1. RingSize + 1 \in Nat
    BY DEF RingSetting
  <2> QED  BY <2>1, DataFacts, Wraps DEF RingInv, RingSetting
<1>2. /\ n \in 0..RingSize - numBytes /\ n \in Nat /\ n <= Len(data)
      /\ n = IF Len(data) <= RingSize - numBytes THEN Len(data) ELSE RingSize - numBytes
  BY <1>1 DEF Ring!Least
<1>3. /\ buf' = Ring!Written(d) /\ Ring!Advance(n) /\ got' = Ring!Result(n, data)
      /\ readOffset' = readOffset
  BY DEF Ring!Write
<1> HIDE DEF n
<1>4. d \in Seq(RingBytes) /\ Len(d) = n /\ \A k \in 1..n : d[k] = data[k]
  <2>1. \A i \in 1..n : data[i] \in RingBytes
    BY <1>1, <1>2
  <2> QED  BY <1>1, <1>2, <2>1, SubSeqProperties
<1> HIDE DEF d
<1>5. buf' = Ring!Copied(Ring!Copied(buf, writeOffset, a), 0, b)
  BY <1>3 DEF Ring!Written
<1>6. first \in Nat /\ first <= n /\ first = Ring!Least(RingSize - writeOffset, n)
  <2>1. first = Ring!Least(RingSize - writeOffset, n)
    BY <1>4
  <2>2. RingSize - writeOffset \in Nat
    <3>1. writeOffset \in Places /\ RingSize \in Nat
      BY <1>1
    <3> QED  BY <3>1 DEF Places
  <2>3. n \in Nat
    BY <1>2
  <2> HIDE DEF first
  <2> QED  BY <2>1, <2>2, <2>3 DEF Ring!Least
<1> HIDE DEF first
<1>7. /\ a \in Seq(RingBytes) /\ Len(a) = first /\ \A k \in 1..first : a[k] = d[k]
      /\ b \in Seq(RingBytes) /\ Len(b) = n - first /\ \A k \in 1..n - first : b[k] = d[first + k]
  <2>1. \A i \in 1..n : d[i] \in RingBytes
    BY <1>4, LenProperties
  <2>2. \A i \in 1..first : d[i] \in RingBytes
    BY <2>1, <1>2, <1>6
  <2>3. \A i \in first + 1..Len(d) : d[i] \in RingBytes
    BY <2>1, <1>2, <1>4, <1>6
  <2>4. a \in Seq(RingBytes) /\ Len(a) = first /\ \A k \in 1..first : a[k] = d[k]
    BY <1>6, <2>2, SubSeqProperties
  <2>5. /\ b \in Seq(RingBytes)
        /\ Len(b) = IF first + 1 <= Len(d) THEN Len(d) - (first + 1) + 1 ELSE 0
        /\ \A i \in 1..Len(d) - (first + 1) + 1 : b[i] = d[(first + 1) + i - 1]
    BY <1>2, <1>4, <1>6, <2>3, SubSeqProperties
  <2> HIDE DEF a, b
  <2>6. Len(b) = n - first
    BY <1>2, <1>4, <1>6, <2>5
  <2>7. \A k \in 1..n - first : b[k] = d[first + k]
    <3> TAKE k \in 1..n - first
    <3>1. k \in 1..Len(d) - (first + 1) + 1 /\ (first + 1) + k - 1 = first + k
      BY <1>2, <1>4, <1>6
    <3> QED  BY <2>5, <3>1
  <2> QED  BY <2>4, <2>5, <2>6, <2>7
<1> HIDE DEF a, b
<1>8. /\ buf' \in Arrays
      /\ \A j \in 0..numBytes - 1 : buf'[At(readOffset, j)] = buf[At(readOffset, j)]
      /\ \A k \in 1..n : buf'[At(writeOffset, k - 1)] = IF k <= Len(a) THEN a[k] ELSE b[k - Len(a)]
  <2>1. Len(a) + Len(b) = n
    BY <1>2, <1>6, <1>7
  <2>2. /\ Len(a) <= Ring!Least(RingSize - writeOffset, n)
        /\ Len(a) = Ring!Least(RingSize - writeOffset, n)
        /\ Len(b) <= n - Ring!Least(RingSize - writeOffset, n)
    BY <1>2, <1>6, <1>7
  <2>3. a \in Seq(RingBytes) /\ b \in Seq(RingBytes)
    BY <1>7
  <2> QED  BY <1>2, <1>5, <2>1, <2>2, <2>3, TwoParts
<1>9. \A k \in 1..n : buf'[At(writeOffset, k - 1)] = d[k]
  <2> TAKE k \in 1..n
  <2>1. k <= first => k \in 1..first
    BY <1>2, <1>6
  <2>2. ~(k <= first) => k - first \in 1..n - first /\ first + (k - first) = k
    BY <1>2, <1>6
  <2> QED  BY <1>7, <1>8, <2>1, <2>2
<1>10. RingInv' /\ Held' = Held \o d
  BY <1>2, <1>3, <1>4, <1>8, <1>9, Appended
<1>11. Ring!Queue!Put(data)
  <2>1. Len(Held) = numBytes
    BY HeldFacts DEF HeldIsSeq
  <2> QED  BY <1>2, <1>3, <1>10, <2>1
       DEF Ring!Queue!Put, Ring!Queue!Space, Ring!Queue!Result, Ring!Result, Held, d
<1> QED  BY <1>1, <1>10, <1>11 DEF Ring!Queue!Next

\* A fill appends as many bytes as there is room for, whatever arrived.
LEMMA FillIsPutSome ==
  ASSUME RingSetting, RingInv, NEW n \in 0..RingSize + 1, Ring!FillFromFd(n)
  PROVE  RingInv' /\ Ring!Queue!Next
<1> DEFINE room  == Ring!Least(n, RingSize - numBytes)
           first == Ring!Least(RingSize - writeOffset, room)
           data  == [k \in 1..room |-> buf'[At(writeOffset, k - 1)]]
<1>1. RingSize \in Nat \ {0} /\ numBytes \in 0..RingSize /\ writeOffset \in Places
  BY Wraps DEF RingInv, RingSetting
<1>2. room \in 0..RingSize - numBytes /\ room \in Nat /\ room \in 0..RingSize + 1
  BY <1>1 DEF Ring!Least
<1>3. /\ Ring!Advance(room) /\ got' = Ring!Result(room, << >>) /\ readOffset' = readOffset
      /\ \E part1 \in Ring!Data(first), part2 \in Ring!Data(room - first) :
           buf' = Ring!Copied(Ring!Copied(buf, writeOffset, part1), 0, part2)
  BY DEF Ring!FillFromFd
<1> HIDE DEF room
<1>4. first \in Nat /\ room - first \in Nat
  BY <1>1, <1>2 DEF Ring!Least, Places
<1>5. PICK a \in Ring!Data(first), b \in Ring!Data(room - first) :
        buf' = Ring!Copied(Ring!Copied(buf, writeOffset, a), 0, b)
  BY <1>3
<1>6. a \in Seq(RingBytes) /\ Len(a) <= first /\ b \in Seq(RingBytes) /\ Len(b) <= room - first
  <2> HIDE DEF first
  <2> QED  BY <1>4, DataFacts
<1>7. /\ buf' \in Arrays
      /\ \A j \in 0..numBytes - 1 : buf'[At(readOffset, j)] = buf[At(readOffset, j)]
  BY <1>2, <1>5, <1>6, TwoParts
<1>8. \A k \in 1..room : buf'[At(writeOffset, k - 1)] \in RingBytes
  <2> TAKE k \in 1..room
  <2>1. k - 1 \in 0..RingSize
    BY <1>1, <1>2
  <2> QED  BY <1>1, <1>7, <2>1, Wraps DEF Arrays
<1>9. data \in [1..room -> RingBytes] /\ \A k \in 1..room : buf'[At(writeOffset, k - 1)] = data[k]
  BY <1>8
<1> HIDE DEF data, first
<1>10. data \in Seq(RingBytes) /\ Len(data) = room
  BY <1>2, <1>9, SeqDef
<1>11. RingInv' /\ Held' = Held \o data
  BY <1>2, <1>3, <1>7, <1>9, <1>10, Appended
<1>12. PICK m \in 0..RingSize + 1 : m = room
  BY <1>2
<1>13. Ring!Queue!PutSome(m)
  <2>1. Len(Held) = numBytes
    BY HeldFacts DEF HeldIsSeq
  <2>2. m <= RingSize - Len(Held)
    BY <1>1, <1>2, <1>12, <2>1
  <2>3. \E x \in [1..m -> RingBytes] : Held' = Held \o x
    BY <1>9, <1>11, <1>12
  <2>4. got' = Ring!Queue!Result(m, << >>)
    BY <1>3, <1>12 DEF Ring!Queue!Result, Ring!Result
  <2> QED  BY <2>2, <2>3, <2>4 DEF Ring!Queue!PutSome, Ring!Queue!Space, Held
<1> QED  BY <1>11, <1>13 DEF Ring!Queue!Next

-----------------------------------------------------------------------------
(* Looking and taking *)

\* A peek copies the oldest bytes, in two parts.
LEMMA PeekedIsFirst ==
  ASSUME RingSetting, RingInv, NEW n \in 0..numBytes
  PROVE  Ring!Peeked(n) = SubSeq(Held, 1, n)
<1> DEFINE first == Ring!Least(RingSize - readOffset, n)
<1>1. /\ RingSize \in Nat \ {0} /\ numBytes \in 0..RingSize /\ readOffset \in Places
      /\ n \in Nat /\ n <= numBytes
  BY DEF RingInv, RingSetting
<1>2. HeldIsSeq
  BY HeldFacts
<1>3. /\ SubSeq(Held, 1, n) \in Seq(RingBytes) /\ Len(SubSeq(Held, 1, n)) = n
      /\ \A k \in 1..n : SubSeq(Held, 1, n)[k] = Held[k]
  <2>1. \A i \in 1..n : Held[i] \in RingBytes
    <3>1. \A i \in 1..Len(Held) : Held[i] \in RingBytes
      BY <1>2, LenProperties DEF HeldIsSeq
    <3> QED  BY <1>1, <1>2, <3>1 DEF HeldIsSeq
  <2> QED  BY <1>1, <2>1, SubSeqProperties
<1>4. ASSUME NEW k \in 1..n
      PROVE  (IF k <= first THEN buf[readOffset + k - 1] ELSE buf[k - first - 1]) = Held[k]
  <2>1. k \in 1..numBytes /\ k - 1 \in 0..RingSize
    BY <1>1
  <2>2. At(readOffset, k - 1) = IF readOffset + (k - 1) < RingSize THEN readOffset + (k - 1)
                                ELSE readOffset + (k - 1) - RingSize
    BY <1>1, <2>1, Wraps
  <2>3. At(readOffset, k - 1) = IF k <= first THEN readOffset + k - 1 ELSE k - first - 1
    BY <1>1, <2>2 DEF Ring!Least, Places
  <2> QED  BY <1>2, <2>1, <2>3 DEF HeldIsSeq
<1>5. Ring!Peeked(n) = [k \in 1..n |-> Held[k]]
  BY <1>4 DEF Ring!Peeked
<1>6. SubSeq(Held, 1, n) = [k \in 1..n |-> Held[k]]
  BY <1>3, LenProperties
<1> QED  BY <1>5, <1>6

\* Flushing some bytes drops the oldest.
LEMMA FlushedSome ==
  ASSUME RingSetting, RingInv, NEW n \in 0..numBytes, Ring!Flushed(n), buf' = buf
  PROVE  RingInv' /\ Held' = SubSeq(Held, n + 1, Len(Held))
<1>1. /\ RingSize \in Nat \ {0} /\ numBytes \in 0..RingSize /\ readOffset \in Places
      /\ n \in Nat /\ n <= numBytes /\ n \in 0..RingSize
  BY DEF RingInv, RingSetting
<1>2. numBytes' = numBytes - n /\ readOffset' = At(readOffset, n) /\ writeOffset' = writeOffset
  BY <1>1 DEF Ring!Flushed, At
<1>3. RingInv'
  <2>1. numBytes - n \in 0..RingSize /\ n + (numBytes - n) = numBytes
    BY <1>1
  <2>2. At(At(readOffset, n), numBytes - n) = At(readOffset, numBytes)
    BY <1>1, <2>1, Steps
  <2>3. At(readOffset, n) \in Places
    BY <1>1, Wraps
  <2> QED  BY <1>2, <2>1, <2>2, <2>3 DEF RingInv, At
<1>4. HeldIsSeq /\ HeldIsSeq'
  <2>1. RingSetting' /\ RingInv' => HeldIsSeq'
    BY HeldFacts, PTL
  <2> QED  BY <1>3, <2>1, HeldFacts DEF RingSetting
<1> DEFINE rest == SubSeq(Held, n + 1, Len(Held))
<1>5. /\ rest \in Seq(RingBytes) /\ Len(rest) = numBytes - n
      /\ \A k \in 1..numBytes - n : rest[k] = Held[n + k]
  <2>1. \A i \in n + 1..numBytes : Held[i] \in RingBytes
    <3>1. \A i \in 1..Len(Held) : Held[i] \in RingBytes
      BY <1>4, LenProperties DEF HeldIsSeq
    <3> QED  BY <1>1, <1>4, <3>1 DEF HeldIsSeq
  <2>2. n + 1 \in Int /\ numBytes \in Int /\ Len(Held) = numBytes
    BY <1>1, <1>4 DEF HeldIsSeq
  <2>3. /\ rest \in Seq(RingBytes)
        /\ Len(rest) = IF n + 1 <= numBytes THEN numBytes - (n + 1) + 1 ELSE 0
        /\ \A i \in 1..numBytes - (n + 1) + 1 : rest[i] = Held[(n + 1) + i - 1]
    BY <2>1, <2>2, SubSeqProperties
  <2> HIDE DEF rest
  <2>4. Len(rest) = numBytes - n
    BY <1>1, <2>3
  <2>5. \A k \in 1..numBytes - n : rest[k] = Held[n + k]
    <3> TAKE k \in 1..numBytes - n
    <3>1. k \in 1..numBytes - (n + 1) + 1 /\ (n + 1) + k - 1 = n + k
      BY <1>1
    <3> QED  BY <2>3, <3>1
  <2> QED  BY <2>3, <2>4, <2>5
<1> HIDE DEF rest
<1>6. ASSUME NEW k \in 1..numBytes - n PROVE Held'[k] = rest[k]
  <2>1. n + k \in 1..numBytes /\ k - 1 \in 0..RingSize /\ n + (k - 1) = (n + k) - 1
        /\ n + (k - 1) <= RingSize /\ k \in 1..numBytes'
    BY <1>1, <1>2
  <2>2. At(At(readOffset, n), k - 1) = At(readOffset, n + (k - 1))
    BY <1>1, <2>1, Steps
  <2>3. Held'[k] = buf[At(At(readOffset, n), k - 1)]
    BY <1>2, <1>4, <2>1 DEF HeldIsSeq, At
  <2> QED  BY <1>4, <1>5, <2>1, <2>2, <2>3 DEF HeldIsSeq
<1>7. Held' \in Seq(RingBytes) /\ Len(Held') = numBytes - n
  BY <1>2, <1>4 DEF HeldIsSeq
<1>8. Held' = rest
  BY <1>5, <1>6, <1>7, SeqEqual
<1> QED  BY <1>3, <1>8 DEF rest

\* Flushing with a negative number empties the buffer.
LEMMA FlushedAll ==
  ASSUME RingSetting, RingInv, Ring!Flushed(-1), buf' = buf
  PROVE  RingInv' /\ Held' = << >>
<1>1. readOffset' = 0 /\ writeOffset' = 0 /\ numBytes' = 0
  BY DEF Ring!Flushed
<1>2. 0 \in Places /\ 0 \in 0..RingSize /\ At(0, 0) = 0
  BY Wraps DEF RingSetting, Places
<1>3. RingInv'
  BY <1>1, <1>2 DEF RingInv, At
<1>4. HeldIsSeq'
  <2>1. RingSetting' /\ RingInv' => HeldIsSeq'
    BY HeldFacts, PTL
  <2> QED  BY <1>3, <2>1 DEF RingSetting
<1> QED  BY <1>1, <1>3, <1>4, EmptySeq DEF HeldIsSeq

\* A peek shows the first bytes or refuses.
LEMMA PeekIsLook ==
  ASSUME RingSetting, RingInv, NEW n \in 0..RingSize + 1, Ring!Peek(n)
  PROVE  RingInv' /\ Ring!Queue!Next
<1>1. UNCHANGED <<buf, readOffset, writeOffset, numBytes>>
  BY DEF Ring!Peek
<1>2. RingInv' /\ Held' = Held
  BY <1>1 DEF RingInv, At, Held
<1>3. Len(Held) = numBytes
  BY HeldFacts DEF HeldIsSeq
<1>4. /\ n > numBytes <=> ~(n <= numBytes)
      /\ n <= numBytes => Ring!Peeked(n) = SubSeq(Held, 1, n)
  <2>1. n \in Nat /\ numBytes \in Nat
    BY DEF RingInv, RingSetting
  <2>2. n <= numBytes => n \in 0..numBytes
    BY <2>1
  <2> QED  BY <2>1, <2>2, PeekedIsFirst
<1>5. got' = IF n <= numBytes THEN Ring!Result(n, SubSeq(Held, 1, n)) ELSE Ring!Refused
  BY <1>4, Zenon DEF Ring!Peek
<1>6. Ring!Queue!Look(n)
  BY <1>2, <1>3, <1>5 DEF Ring!Queue!Look, Ring!Queue!Result, Ring!Queue!Refused, Ring!Result,
     Ring!Refused, Held
<1> QED  BY <1>2, <1>6 DEF Ring!Queue!Next

\* A read takes the first bytes; one that is refused empties the buffer.
LEMMA ReadIsTake ==
  ASSUME RingSetting, RingInv, NEW n \in 0..RingSize + 1, Ring!Read(n)
  PROVE  RingInv' /\ Ring!Queue!Next
<1>1. n \in Nat /\ numBytes \in Nat /\ buf' = buf /\ Len(Held) = numBytes
  BY HeldFacts DEF Ring!Read, RingInv, RingSetting, HeldIsSeq
<1>2. CASE n <= numBytes
  <2>1. n \in 0..numBytes
    BY <1>1, <1>2
  <2>2. Ring!Flushed(n) /\ got' = Ring!Result(n, SubSeq(Held, 1, n))
    <3>1. ~(n > numBytes) /\ Ring!Peeked(n) = SubSeq(Held, 1, n)
      BY <1>1, <1>2, <2>1, PeekedIsFirst
    <3> QED  BY <3>1, Zenon DEF Ring!Read
  <2>3. RingInv' /\ Held' = SubSeq(Held, n + 1, Len(Held))
    BY <1>1, <2>1, <2>2, FlushedSome
  <2>4. Ring!Queue!Take(n)
    BY <1>1, <1>2, <2>2, <2>3 DEF Ring!Queue!Take, Ring!Queue!Result, Ring!Result, Held
  <2> QED  BY <2>3, <2>4 DEF Ring!Queue!Next
<1>3. CASE n > numBytes
  <2>1. Ring!Flushed(-1) /\ got' = Ring!Refused
    BY <1>3 DEF Ring!Read
  <2>2. RingInv' /\ Held' = << >>
    BY <1>1, <2>1, FlushedAll
  <2>3. ~(n <= numBytes)
    BY <1>1, <1>3
  <2>4. Ring!Queue!Take(n)
    BY <1>1, <2>1, <2>2, <2>3
       DEF Ring!Queue!Take, Ring!Queue!Result, Ring!Queue!Refused, Ring!Result, Ring!Refused, Held
  <2> QED  BY <2>2, <2>4 DEF Ring!Queue!Next
<1> QED  BY <1>1, <1>2, <1>3

\* A flush drops the first bytes, or all.
LEMMA FlushIsDrop ==
  ASSUME RingSetting, RingInv, NEW n \in -1..numBytes, Ring!Flush(n)
  PROVE  RingInv' /\ Ring!Queue!Next
<1>1. numBytes \in Nat /\ n \in Int /\ Len(Held) = numBytes
      /\ buf' = buf /\ Ring!Flushed(n) /\ got' = Ring!Result(0, << >>)
  BY HeldFacts DEF Ring!Flush, RingInv, RingSetting, HeldIsSeq
<1>2. RingInv' /\ Held' = IF n < 0 THEN << >> ELSE SubSeq(Held, n + 1, Len(Held))
  <2>1. CASE n = -1
    BY <1>1, <2>1, FlushedAll
  <2>2. CASE n # -1
    <3>1. n \in 0..numBytes /\ ~(n < 0)
      BY <1>1, <2>2
    <3> QED  BY <1>1, <3>1, FlushedSome
  <2> QED  BY <2>1, <2>2
<1>3. Ring!Queue!Drop(n)
  BY <1>1, <1>2 DEF Ring!Queue!Drop, Ring!Queue!Result, Ring!Result, Held
<1>4. n \in -1..Len(Held)
  BY <1>1
<1> QED  BY <1>2, <1>3, <1>4 DEF Ring!Queue!Next, Held

-----------------------------------------------------------------------------

\* A new buffer is an empty queue.
LEMMA RingBegins == ASSUME RingSetting, Ring!Init PROVE RingInv /\ Ring!Queue!Init
<1>1. 0 \in Places /\ 0 \in 0..RingSize /\ At(0, 0) = 0
  BY Wraps DEF RingSetting, Places
<1>2. RingInv
  BY <1>1 DEF Ring!Init, RingInv, Arrays, Places
<1>3. Held = << >>
  BY <1>2, HeldFacts, EmptySeq DEF Ring!Init, HeldIsSeq
<1> QED  BY <1>2, <1>3 DEF Ring!Init, Ring!Queue!Init, Ring!Queue!Result, Ring!Result, Held

\* Every step is one of the queue, or changes nothing of it.
LEMMA RingStays ==
  ASSUME RingSetting, RingInv, [Ring!Next]_Ring!vars
  PROVE  RingInv' /\ [Ring!Queue!Next]_Ring!Queue!vars
<1>1. CASE UNCHANGED Ring!vars
  BY <1>1 DEF Ring!vars, RingInv, At, Ring!Queue!vars
<1>2. CASE Ring!Next
  BY <1>2, WriteIsPut, FillIsPutSome, PeekIsLook, ReadIsTake, FlushIsDrop DEF Ring!Next
<1> QED  BY <1>1, <1>2

\* Wherever reading and writing stand in the array, and however they wrap around, the buffer
\* is a bounded queue of bytes: each call returns, and leaves behind, what it would of a queue
\* (ringbuf.c).
THEOREM RingIsAQueue == ASSUME RingSetting PROVE Ring!Spec => IsAQueue
<1>1. Ring!Init => RingInv /\ Ring!Queue!Init
  BY RingBegins
<1>2. RingInv /\ [Ring!Next]_Ring!vars => RingInv' /\ [Ring!Queue!Next]_Ring!Queue!vars
  BY RingStays
<1> QED  BY <1>1, <1>2, PTL DEF Ring!Spec, IsAQueue, Ring!IsAQueue, Ring!Queue!Spec

-----------------------------------------------------------------------------
(* The controls that move a frame *)

\* A set of naturals that is not empty has a least element.
LEMMA LeastNat ==
  ASSUME NEW T, T \subseteq Nat, T # {}
  PROVE  \E x \in T : \A y \in T : x <= y
<1> DEFINE R == OpToRel(<, Nat)
<1>1. IsWellFoundedOn(R, Nat)
  BY NatLessThanWellFounded
<1>2. \A x, y \in Nat : y < x => <<y, x>> \in R
  BY DEF OpToRel
<1> HIDE DEF R
<1>3. PICK x \in T : \A y \in T : ~ (<<y, x>> \in R)
  BY <1>1, WFMin
<1>4. ASSUME NEW y \in T PROVE x <= y
  <2>1. ~(y < x)
    BY <1>2, <1>3
  <2> QED  BY <2>1
<1> QED
  BY <1>4

\* The controls are numbered and there are not infinitely many; no frame has the name of the
\* entry for none.
ModifierSetting == Coords \subseteq Nat /\ IsFiniteSet(Coords) /\ NoFrame \notin MovedFrames

Transform == [Coords -> SliderValues \cup {0}]
FrameUpdate == [frame : MovedFrames, trans : Transform]
Differing(s, t) == { k \in Coords : s[k] # t[k] }

\* How many updates can still be under way, unless other programs have sent two.
MostUnderWay == others + (IF updating THEN 1 ELSE 0)

ModifierTypes ==
  /\ trans \in [MovedFrames -> Transform] /\ accepted \in [MovedFrames -> Transform]
  /\ updates_sent \in Seq(FrameUpdate) /\ shown \in Transform
  /\ sensitive \in BOOLEAN /\ updating \in BOOLEAN /\ crashed \in BOOLEAN
  /\ echoes \in Nat /\ others \in Nat /\ unheard \in Nat

\* Whoever waits for an update has not heard an echo, and can use the controls.
AwaitsOne ==
  /\ crashed => updates_sent = << >>
  /\ updating => echoes = 0 /\ (~crashed => sensitive)
  /\ ~updating /\ ~crashed =>
       \/ active \in MovedFrames /\ shown = trans[active] /\ sensitive
       \/ active = NoFrame /\ ~sensitive

\* Each echo differs from what is shown in one control less.
EchoesShrink ==
  others <= 1 =>
    /\ Len(updates_sent) <= MostUnderWay
    /\ echoes <= Cardinality(Coords)
    /\ ~updating /\ updates_sent # << >> /\ Head(updates_sent).frame = active =>
         echoes + Cardinality(Differing(shown, Head(updates_sent).trans)) <= Cardinality(Coords)

\* What the user asked for was heard, or is under way.
AskedComesAbout ==
  others = 0 /\ unheard = 0 /\ ~crashed =>
    \/ updates_sent = << >> /\ trans = accepted
    \/ \E m \in FrameUpdate :
         updates_sent = <<m>> /\ accepted = [trans EXCEPT ![m.frame] = m.trans]

ModifierInv == ModifierTypes /\ AwaitsOne /\ EchoesShrink /\ AskedComesAbout

\* Two settings of the controls differ in no more controls than there are.
LEMMA DifferAtMost ==
  ASSUME ModifierSetting, NEW s, NEW t
  PROVE  /\ Cardinality(Differing(s, t)) \in Nat
         /\ Cardinality(Differing(s, t)) <= Cardinality(Coords)
         /\ Cardinality(Coords) \in Nat /\ IsFiniteSet(Differing(s, t))
  BY FS_Subset, FS_CardinalityType DEF Differing, ModifierSetting

\* The first control that is set is one that differs, and differs no longer.
LEMMA FirstIsSet ==
  ASSUME ModifierSetting, NEW s \in Transform, NEW t \in Transform, Differing(s, t) # {},
         NEW k, k = Modifier!Min(Differing(s, t))
  PROVE  /\ k \in Differing(s, t) /\ [s EXCEPT ![k] = t[k]] \in Transform
         /\ Cardinality(Differing(t, [s EXCEPT ![k] = t[k]])) = Cardinality(Differing(s, t)) - 1
<1>1. Differing(s, t) \subseteq Nat
  BY DEF Differing, ModifierSetting
<1>2. k \in Differing(s, t)
  <2>1. \E x \in Differing(s, t) : \A y \in Differing(s, t) : x <= y
    BY <1>1, LeastNat
  <2> QED  BY <2>1 DEF Modifier!Min
<1>3. Differing(t, [s EXCEPT ![k] = t[k]]) = Differing(s, t) \ {k}
  BY <1>2 DEF Differing, Transform
<1>4. Cardinality(Differing(s, t) \ {k}) = Cardinality(Differing(s, t)) - 1
  BY <1>2, DifferAtMost, FS_RemoveElement
<1>5. [s EXCEPT ![k] = t[k]] \in Transform
  BY <1>2 DEF Differing, Transform
<1> QED
  BY <1>2, <1>3, <1>4, <1>5

\* When the program starts nothing is selected and nothing is under way.
LEMMA ModifierBegins == ASSUME ModifierSetting, Modifier!Init PROVE ModifierInv
<1>1. [k \in Coords |-> 0] \in Transform
  BY DEF Transform
<1>2. ModifierTypes
  <2>1. trans \in [MovedFrames -> Transform] /\ accepted \in [MovedFrames -> Transform]
    BY <1>1 DEF Modifier!Init
  <2>2. shown \in Transform
    BY <1>1 DEF Modifier!Init
  <2>3. updates_sent \in Seq(FrameUpdate)
    BY DEF Modifier!Init
  <2> QED  BY <2>1, <2>2, <2>3 DEF Modifier!Init, ModifierTypes
<1>3. AwaitsOne /\ AskedComesAbout
  BY DEF Modifier!Init, AwaitsOne, AskedComesAbout
<1>4. EchoesShrink
  BY DifferAtMost DEF Modifier!Init, EchoesShrink, MostUnderWay
<1> QED
  BY <1>2, <1>3, <1>4 DEF ModifierInv

\* A sequence that is put before another, of one element or none.
LEMMA OneAfter ==
  ASSUME NEW S, NEW s \in Seq(S), NEW x \in S
  PROVE  /\ s \o <<x>> \in Seq(S) /\ s \o << >> = s /\ << >> \o <<x>> = <<x>>
         /\ <<x>> \in Seq(S) /\ Len(<<x>>) = 1 /\ Head(<<x>>) = x /\ <<x>>[1] = x
         /\ Len(s \o <<x>>) = Len(s) + 1
<1>1. <<x>> \in Seq(S) /\ Len(<<x>>) = 1 /\ Head(<<x>>) = x /\ <<x>>[1] = x
  OBVIOUS
<1> QED
  BY <1>1, ConcatProperties, ConcatEmptySeq

\* The first of the updates that are under way, and the others.
LEMMA FirstUnderWay ==
  ASSUME ModifierTypes, updates_sent # << >>
  PROVE  /\ Head(updates_sent) \in FrameUpdate /\ Tail(updates_sent) \in Seq(FrameUpdate)
         /\ Len(updates_sent) \in Nat /\ Len(updates_sent) >= 1
         /\ Len(Tail(updates_sent)) = Len(updates_sent) - 1
         /\ Len(updates_sent) = 1 =>
              Tail(updates_sent) = << >> /\ updates_sent = <<Head(updates_sent)>>
<1> DEFINE S == FrameUpdate
<1>1. updates_sent \in Seq(S)
  BY DEF ModifierTypes
<1> HIDE DEF S
<1>2. /\ Head(updates_sent) \in S /\ Tail(updates_sent) \in Seq(S)
      /\ Len(updates_sent) \in Nat /\ Len(updates_sent) >= 1
      /\ Len(Tail(updates_sent)) = Len(updates_sent) - 1
      /\ Head(updates_sent) = updates_sent[1]
  BY <1>1, HeadTailProperties, EmptySeq
<1>3. Len(updates_sent) = 1 =>
        Tail(updates_sent) = << >> /\ updates_sent = <<Head(updates_sent)>>
  <2> SUFFICES ASSUME Len(updates_sent) = 1
               PROVE  Tail(updates_sent) = << >> /\ updates_sent = <<Head(updates_sent)>>
    OBVIOUS
  <2>1. Tail(updates_sent) = << >>
    <3> DEFINE rest == Tail(updates_sent)
    <3>1. rest \in Seq(S) /\ Len(rest) = 0
      BY <1>2
    <3> HIDE DEF rest
    <3>2. rest = << >>
      BY <3>1, EmptySeq
    <3> QED  BY <3>2 DEF rest
  <2>2. updates_sent = <<Head(updates_sent)>>
    BY <1>1, <1>2, OneAfter, SeqEqual
  <2> QED  BY <2>1, <2>2
<1> QED
  BY <1>2, <1>3 DEF S

\* An update is heard for the frame that is selected: it ends a wait, or is answered by an update
\* that differs less, if it differs.
LEMMA HeardWhenSelected ==
  ASSUME ModifierSetting, ModifierInv, Modifier!OnFramesUpdate,
         Head(updates_sent).frame = active
  PROVE  ModifierInv'
<1> DEFINE msg == Head(updates_sent)
           w == Modifier!SetAll(Modifier!Controls, msg.frame, msg.trans)
<1>1. /\ updates_sent # << >> /\ trans' = [trans EXCEPT ![msg.frame] = msg.trans]
      /\ shown' = w.shown /\ updating' = w.updating
      /\ updates_sent' = Tail(updates_sent) \o w.sent
      /\ echoes' = echoes + Len(w.sent)
      /\ active' = active /\ sensitive' = sensitive /\ crashed' = crashed
      /\ accepted' = accepted /\ others' = others /\ unheard' = unheard
  BY DEF Modifier!OnFramesUpdate, Modifier!Became
<1>2. /\ msg \in FrameUpdate /\ Tail(updates_sent) \in Seq(FrameUpdate)
      /\ msg.frame \in MovedFrames /\ msg.trans \in Transform /\ active \in MovedFrames
      /\ Len(updates_sent) \in Nat /\ Len(updates_sent) >= 1
      /\ Len(Tail(updates_sent)) = Len(updates_sent) - 1
      /\ Len(updates_sent) = 1 => Tail(updates_sent) = << >> /\ updates_sent = <<msg>>
  BY <1>1, FirstUnderWay DEF ModifierInv, FrameUpdate
<1>3. ~crashed
  BY <1>1 DEF ModifierInv, AwaitsOne
<1> DEFINE n == Cardinality(Coords)
           d == Differing(shown, msg.trans)
           k == Modifier!Min(d)
           first == [frame |-> msg.frame, trans |-> [shown EXCEPT ![k] = msg.trans[k]]]
<1>4. /\ w.shown = msg.trans /\ w.updating = FALSE
      /\ w.sent = IF updating \/ d = {} THEN << >> ELSE <<first>>
  BY DEF Modifier!SetAll, Modifier!Controls, Differing
<1>5. /\ trans' \in [MovedFrames -> Transform] /\ trans'[active] = msg.trans
      /\ shown' = msg.trans /\ updating' = FALSE /\ sensitive
  <2>1. trans' \in [MovedFrames -> Transform] /\ trans'[active] = msg.trans
    BY <1>1, <1>2 DEF ModifierInv, ModifierTypes
  <2>2. sensitive
    BY <1>2, <1>3 DEF ModifierInv, AwaitsOne, ModifierSetting
  <2> QED  BY <1>1, <1>4, <2>1, <2>2
<1> HIDE DEF w, msg
<1>6. CASE updating \/ d = {}
  <2>1. updates_sent' = Tail(updates_sent) /\ echoes' = echoes
    <3>1. w.sent = << >> /\ Len(w.sent) = 0
      BY <1>4, <1>6
    <3>2. echoes \in Nat
      BY DEF ModifierInv, ModifierTypes
    <3> QED  BY <1>1, <1>2, <3>1, <3>2, OneAfter
  <2>2. ModifierTypes'
    BY <1>1, <1>2, <1>5, <2>1 DEF ModifierInv, ModifierTypes
  <2>3. AwaitsOne'
    BY <1>1, <1>2, <1>3, <1>5 DEF AwaitsOne
  <2>4. EchoesShrink'
    <3> SUFFICES ASSUME others <= 1
                 PROVE  /\ Len(updates_sent') <= others
                        /\ echoes <= Cardinality(Coords)
                        /\ updates_sent' # << >> =>
                             echoes + Cardinality(Differing(shown', Head(updates_sent').trans))
                               <= Cardinality(Coords)
      BY <1>1, <1>5, <2>1 DEF EchoesShrink, MostUnderWay, ModifierInv, ModifierTypes
    <3>1. /\ Len(updates_sent) <= MostUnderWay /\ echoes <= Cardinality(Coords)
          /\ echoes \in Nat /\ others \in Nat
      BY DEF ModifierInv, EchoesShrink, ModifierTypes
    <3>2. CASE updating
      <4>1. Len(updates_sent') <= others /\ echoes = 0
        BY <1>2, <2>1, <3>1, <3>2 DEF MostUnderWay, ModifierInv, AwaitsOne
      <4> QED  BY <3>1, <4>1, DifferAtMost
    <3>3. CASE ~updating
      <4>1. Len(updates_sent) = 1
        BY <1>2, <3>1, <3>3 DEF MostUnderWay
      <4> QED  BY <1>2, <2>1, <3>1, <4>1
    <3> QED  BY <3>2, <3>3
  <2>5. AskedComesAbout'
    <3> SUFFICES ASSUME others = 0, unheard = 0
                 PROVE  updates_sent' = << >> /\ trans' = accepted
      BY <1>1, <1>3 DEF AskedComesAbout
    <3>1. PICK m \in FrameUpdate :
            updates_sent = <<m>> /\ accepted = [trans EXCEPT ![m.frame] = m.trans]
      BY <1>1, <1>3 DEF ModifierInv, AskedComesAbout
    <3>2. m = msg /\ Len(updates_sent) = 1
      BY <3>1 DEF msg
    <3> QED  BY <1>1, <1>2, <2>1, <3>1, <3>2
  <2> QED  BY <2>2, <2>3, <2>4, <2>5 DEF ModifierInv
<1>7. CASE ~updating /\ d # {}
  <2>1. updates_sent' = Tail(updates_sent) \o <<first>> /\ echoes' = echoes + 1
    BY <1>1, <1>4, <1>7
  <2>2. /\ first.trans \in Transform /\ first \in FrameUpdate /\ first.frame = active
        /\ Cardinality(Differing(msg.trans, first.trans)) = Cardinality(d) - 1
        /\ Cardinality(d) \in Nat /\ Cardinality(d) >= 1
    <3>1. shown \in Transform
      BY DEF ModifierInv, ModifierTypes
    <3>2. /\ [shown EXCEPT ![k] = msg.trans[k]] \in Transform
          /\ Cardinality(Differing(msg.trans, [shown EXCEPT ![k] = msg.trans[k]]))
               = Cardinality(d) - 1
      BY <1>2, <1>7, <3>1, FirstIsSet
    <3>3. /\ Cardinality(d) \in Nat
          /\ Cardinality(Differing(msg.trans, [shown EXCEPT ![k] = msg.trans[k]])) \in Nat
      BY DifferAtMost
    <3> QED  BY <1>2, <3>2, <3>3 DEF FrameUpdate, msg
  <2> HIDE DEF first, d
  <2>3. updates_sent' \in Seq(FrameUpdate)
    BY <1>2, <2>1, <2>2, OneAfter
  <2>4. ModifierTypes'
    <3>1. echoes' \in Nat
      BY <2>1 DEF ModifierInv, ModifierTypes
    <3> QED  BY <1>1, <1>2, <1>5, <2>3, <3>1 DEF ModifierInv, ModifierTypes
  <2>5. AwaitsOne'
    BY <1>1, <1>2, <1>3, <1>5 DEF AwaitsOne
  <2>6. ASSUME others <= 1
        PROVE  /\ Len(updates_sent) = 1 /\ others = 1 /\ updates_sent' = <<first>>
               /\ echoes + Cardinality(d) <= Cardinality(Coords)
    <3>1. /\ Len(updates_sent) <= others
          /\ echoes + Cardinality(Differing(shown, msg.trans)) <= Cardinality(Coords)
      BY <1>1, <1>7, <2>6 DEF ModifierInv, EchoesShrink, MostUnderWay, ModifierTypes, msg
    <3>2. Len(updates_sent) = 1 /\ others = 1
      BY <1>2, <2>6, <3>1 DEF ModifierInv, ModifierTypes
    <3>3. updates_sent' = <<first>>
      BY <1>2, <2>1, <2>2, <3>2, OneAfter
    <3> QED  BY <3>1, <3>2, <3>3 DEF d
  <2>7. EchoesShrink'
    <3> SUFFICES ASSUME others <= 1
                 PROVE  /\ Len(updates_sent') <= others
                        /\ echoes + 1 <= Cardinality(Coords)
                        /\ echoes + 1 + Cardinality(Differing(shown', Head(updates_sent').trans))
                             <= Cardinality(Coords)
      BY <1>1, <1>5, <2>1 DEF EchoesShrink, MostUnderWay, ModifierInv, ModifierTypes
    <3>1. /\ Len(updates_sent') = 1 /\ Head(updates_sent') = first
          /\ echoes \in Nat /\ Cardinality(Coords) \in Nat
      BY <2>2, <2>6, OneAfter, DifferAtMost DEF ModifierInv, ModifierTypes
    <3> QED  BY <1>5, <2>2, <2>6, <3>1
  <2>8. AskedComesAbout'
    BY <1>1, <2>6 DEF AskedComesAbout, ModifierInv, ModifierTypes
  <2> QED  BY <2>4, <2>5, <2>7, <2>8 DEF ModifierInv
<1> QED
  BY <1>6, <1>7

\* An update of another frame changes nothing that is shown.
LEMMA HeardOtherwise ==
  ASSUME ModifierSetting, ModifierInv, Modifier!OnFramesUpdate,
         Head(updates_sent).frame # active
  PROVE  ModifierInv'
<1> DEFINE msg == Head(updates_sent)
<1>1. /\ updates_sent # << >> /\ trans' = [trans EXCEPT ![msg.frame] = msg.trans]
      /\ shown' = shown /\ updating' = updating
      /\ updates_sent' = Tail(updates_sent) \o << >>
      /\ echoes' = echoes + Len(<< >>)
      /\ active' = active /\ sensitive' = sensitive /\ crashed' = crashed
      /\ accepted' = accepted /\ others' = others /\ unheard' = unheard
  BY DEF Modifier!OnFramesUpdate, Modifier!Became, Modifier!Controls
<1>2. /\ msg \in FrameUpdate /\ Tail(updates_sent) \in Seq(FrameUpdate)
      /\ msg.frame \in MovedFrames /\ msg.trans \in Transform
      /\ Len(updates_sent) \in Nat /\ Len(updates_sent) >= 1
      /\ Len(Tail(updates_sent)) = Len(updates_sent) - 1
      /\ Len(updates_sent) = 1 => Tail(updates_sent) = << >> /\ updates_sent = <<msg>>
  BY <1>1, FirstUnderWay DEF ModifierInv, FrameUpdate
<1>3. ~crashed
  BY <1>1 DEF ModifierInv, AwaitsOne
<1>4. updates_sent' = Tail(updates_sent) /\ echoes' = echoes
  BY <1>1, <1>2, OneAfter DEF ModifierInv, ModifierTypes
<1>5. /\ trans' \in [MovedFrames -> Transform]
      /\ (active \in MovedFrames => trans'[active] = trans[active])
  BY <1>1, <1>2 DEF ModifierInv, ModifierTypes
<1>6. ModifierTypes'
  BY <1>1, <1>2, <1>4, <1>5 DEF ModifierInv, ModifierTypes
<1>7. AwaitsOne'
  BY <1>1, <1>3, <1>4, <1>5 DEF ModifierInv, AwaitsOne
<1>8. EchoesShrink'
  <2> SUFFICES ASSUME others <= 1
               PROVE  /\ Len(updates_sent') <= MostUnderWay /\ echoes <= Cardinality(Coords)
                      /\ ~updating => updates_sent' = << >>
    BY <1>1, <1>4 DEF EchoesShrink, MostUnderWay
  <2>1. Len(updates_sent) <= MostUnderWay /\ echoes <= Cardinality(Coords) /\ others \in Nat
    BY DEF ModifierInv, EchoesShrink, ModifierTypes
  <2>2. ~updating => Len(updates_sent) = 1
    BY <1>2, <2>1 DEF MostUnderWay
  <2> QED  BY <1>2, <1>4, <2>1, <2>2 DEF MostUnderWay
<1>9. AskedComesAbout'
  <2> SUFFICES ASSUME others = 0, unheard = 0
               PROVE  updates_sent' = << >> /\ trans' = accepted
    BY <1>1, <1>3 DEF AskedComesAbout
  <2>1. PICK m \in FrameUpdate :
          updates_sent = <<m>> /\ accepted = [trans EXCEPT ![m.frame] = m.trans]
    BY <1>1, <1>3 DEF ModifierInv, AskedComesAbout
  <2>2. m = msg /\ Len(updates_sent) = 1
    BY <2>1
  <2> QED  BY <1>1, <1>2, <1>4, <2>1, <2>2
<1> QED
  BY <1>6, <1>7, <1>8, <1>9 DEF ModifierInv

\* An update is lost.
LEMMA Losing ==
  ASSUME ModifierSetting, ModifierInv, Modifier!Lose PROVE ModifierInv'
<1>1. /\ updates_sent # << >> /\ updates_sent' = Tail(updates_sent) /\ unheard' = unheard + 1
      /\ trans' = trans /\ shown' = shown /\ updating' = updating /\ echoes' = echoes
      /\ active' = active /\ sensitive' = sensitive /\ crashed' = crashed
      /\ accepted' = accepted /\ others' = others
  BY DEF Modifier!Lose
<1>2. /\ Tail(updates_sent) \in Seq(FrameUpdate) /\ Len(updates_sent) \in Nat
      /\ Len(updates_sent) >= 1 /\ Len(Tail(updates_sent)) = Len(updates_sent) - 1
      /\ Len(updates_sent) = 1 => Tail(updates_sent) = << >>
  BY <1>1, FirstUnderWay DEF ModifierInv
<1>3. ModifierTypes'
  BY <1>1, <1>2 DEF ModifierInv, ModifierTypes
<1>4. AwaitsOne'
  BY <1>1 DEF ModifierInv, AwaitsOne
<1>5. EchoesShrink'
  <2> SUFFICES ASSUME others <= 1
               PROVE  /\ Len(updates_sent') <= MostUnderWay /\ echoes <= Cardinality(Coords)
                      /\ ~updating => updates_sent' = << >>
    BY <1>1 DEF EchoesShrink, MostUnderWay
  <2>1. Len(updates_sent) <= MostUnderWay /\ echoes <= Cardinality(Coords) /\ others \in Nat
    BY DEF ModifierInv, EchoesShrink, ModifierTypes
  <2>2. ~updating => Len(updates_sent) = 1
    BY <1>2, <2>1 DEF MostUnderWay
  <2> QED  BY <1>1, <1>2, <2>1, <2>2 DEF MostUnderWay
<1>6. AskedComesAbout'
  BY <1>1 DEF AskedComesAbout, ModifierInv, ModifierTypes
<1> QED
  BY <1>3, <1>4, <1>5, <1>6 DEF ModifierInv

\* Another program sends an update.
LEMMA OtherUpdating ==
  ASSUME ModifierSetting, ModifierInv, NEW frame \in MovedFrames,
         NEW transform \in Modifier!Transforms, Modifier!OtherUpdates(frame, transform)
  PROVE  ModifierInv'
<1> DEFINE msg == [frame |-> frame, trans |-> transform]
<1>1. /\ ~crashed /\ others' = others + 1 /\ updates_sent' = Append(updates_sent, msg)
      /\ echoes' = 0 /\ trans' = trans /\ shown' = shown /\ updating' = updating
      /\ active' = active /\ sensitive' = sensitive /\ crashed' = crashed
      /\ accepted' = accepted /\ unheard' = unheard
  BY DEF Modifier!OtherUpdates
<1>2. msg \in FrameUpdate
  BY DEF FrameUpdate, Modifier!Transforms, Transform
<1> HIDE DEF msg
<1>3. /\ updates_sent' \in Seq(FrameUpdate) /\ Len(updates_sent') = Len(updates_sent) + 1
      /\ Len(updates_sent) \in Nat
  BY <1>1, <1>2, AppendProperties, LenProperties DEF ModifierInv, ModifierTypes
<1>4. ModifierTypes'
  BY <1>1, <1>3 DEF ModifierInv, ModifierTypes
<1>5. AwaitsOne'
  BY <1>1 DEF ModifierInv, AwaitsOne
<1>6. EchoesShrink'
  <2> SUFFICES ASSUME others' <= 1
               PROVE  /\ Len(updates_sent') <= MostUnderWay' /\ 0 <= Cardinality(Coords)
                      /\ 0 + Cardinality(Differing(shown, Head(updates_sent').trans))
                           <= Cardinality(Coords)
    BY <1>1 DEF EchoesShrink
  <2>1. Len(updates_sent) <= MostUnderWay /\ others \in Nat
    BY <1>1 DEF ModifierInv, EchoesShrink, ModifierTypes
  <2>2. Len(updates_sent') <= MostUnderWay'
    BY <1>1, <1>3, <2>1 DEF MostUnderWay
  <2> QED  BY <2>2, DifferAtMost
<1>7. AskedComesAbout'
  BY <1>1 DEF AskedComesAbout, ModifierInv, ModifierTypes
<1> QED
  BY <1>4, <1>5, <1>6, <1>7 DEF ModifierInv

\* The selection changes; nothing is sent.
LEMMA Selecting ==
  ASSUME ModifierSetting, ModifierInv,
         \/ \E frame \in MovedFrames : Modifier!Select(frame)
         \/ Modifier!SelectNone
         \/ \E entry \in MovedFrames \cup {TopFrame, NoFrame} : Modifier!SelectWhileUpdating(entry)
  PROVE  ModifierInv'
<1>1. /\ ~crashed /\ echoes' = 0 /\ others' = others /\ unheard' = unheard
      /\ updates_sent' = updates_sent /\ trans' = trans /\ accepted' = accepted
      /\ crashed' = crashed /\ updating' = updating
  <2>1. ASSUME NEW frame \in MovedFrames, Modifier!Select(frame)
        PROVE  /\ ~crashed /\ echoes' = 0 /\ others' = others /\ unheard' = unheard
               /\ updates_sent' = updates_sent /\ trans' = trans /\ accepted' = accepted
               /\ crashed' = crashed /\ updating' = FALSE /\ ~updating
    BY <2>1 DEF Modifier!Select, Modifier!Acts, Modifier!Became, Modifier!SetAll
  <2>2. CASE Modifier!SelectNone
    BY <2>2 DEF Modifier!SelectNone, Modifier!Acts
  <2>3. ASSUME NEW entry, Modifier!SelectWhileUpdating(entry)
        PROVE  /\ ~crashed /\ echoes' = 0 /\ others' = others /\ unheard' = unheard
               /\ updates_sent' = updates_sent /\ trans' = trans /\ accepted' = accepted
               /\ crashed' = crashed /\ updating' = updating
    BY <2>3 DEF Modifier!SelectWhileUpdating, Modifier!Acts
  <2>4. updating \in BOOLEAN
    BY DEF ModifierInv, ModifierTypes
  <2> QED  BY <2>1, <2>2, <2>3, <2>4
<1>2. /\ shown' \in Transform /\ sensitive' \in BOOLEAN
      /\ updating => sensitive'
      /\ ~updating => \/ active' \in MovedFrames /\ shown' = trans[active'] /\ sensitive'
                      \/ active' = NoFrame /\ ~sensitive'
  <2>1. ASSUME NEW frame \in MovedFrames, Modifier!Select(frame)
        PROVE  /\ ~updating /\ active' = frame /\ sensitive' = TRUE /\ shown' = trans[frame]
               /\ shown' \in Transform
    <3>1. trans[frame] \in Transform
      BY DEF ModifierInv, ModifierTypes
    <3> QED  BY <2>1, <3>1 DEF Modifier!Select, Modifier!Acts, Modifier!Became, Modifier!SetAll
  <2>2. CASE Modifier!SelectNone
    BY <2>2 DEF Modifier!SelectNone, ModifierInv, ModifierTypes
  <2>3. ASSUME NEW entry, Modifier!SelectWhileUpdating(entry)
        PROVE  updating /\ sensitive' = sensitive /\ shown' = shown /\ sensitive
    BY <1>1, <2>3 DEF Modifier!SelectWhileUpdating, ModifierInv, AwaitsOne
  <2> QED  BY <2>1, <2>2, <2>3 DEF ModifierInv, ModifierTypes
<1>3. ModifierTypes'
  BY <1>1, <1>2 DEF ModifierInv, ModifierTypes
<1>4. AwaitsOne'
  BY <1>1, <1>2 DEF ModifierInv, AwaitsOne
<1>5. EchoesShrink'
  <2> SUFFICES ASSUME others <= 1
               PROVE  /\ Len(updates_sent) <= MostUnderWay /\ 0 <= Cardinality(Coords)
                      /\ 0 + Cardinality(Differing(shown', Head(updates_sent).trans))
                           <= Cardinality(Coords)
    BY <1>1 DEF EchoesShrink, MostUnderWay
  <2>1. Len(updates_sent) <= MostUnderWay
    BY DEF ModifierInv, EchoesShrink
  <2> QED  BY <2>1, DifferAtMost
<1>6. AskedComesAbout'
  BY <1>1 DEF AskedComesAbout, ModifierInv
<1> QED
  BY <1>3, <1>4, <1>5, <1>6 DEF ModifierInv

\* The root frame is selected.
LEMMA SelectingTheRoot ==
  ASSUME ModifierSetting, ModifierInv, Modifier!SelectRoot PROVE ModifierInv'
<1>1. /\ echoes' = 0 /\ others' = others /\ unheard' = unheard /\ updates_sent' = << >>
      /\ trans' = trans /\ accepted' = accepted /\ shown' = shown /\ sensitive' = sensitive
      /\ crashed' = TRUE /\ updating' = updating /\ ~updating
  BY DEF Modifier!SelectRoot, Modifier!Acts
<1>2. ModifierTypes'
  BY <1>1, EmptySeq DEF ModifierInv, ModifierTypes
<1>3. AwaitsOne' /\ AskedComesAbout'
  BY <1>1 DEF AwaitsOne, AskedComesAbout
<1>4. EchoesShrink'
  <2>1. Len(<< >>) = 0 /\ 0 <= Cardinality(Coords) /\ others \in Nat
    BY DifferAtMost DEF ModifierInv, ModifierTypes
  <2> QED  BY <1>1, <2>1 DEF EchoesShrink, MostUnderWay
<1> QED
  BY <1>2, <1>3, <1>4 DEF ModifierInv

\* The user changes a control: the transform is published unless an update is awaited.
LEMMA Changing ==
  ASSUME ModifierSetting, ModifierInv, NEW k \in Coords, NEW value \in SliderValues,
         Modifier!Change(k, value)
  PROVE  ModifierInv'
<1> DEFINE now == [shown EXCEPT ![k] = value]
           msg == [frame |-> active, trans |-> now]
<1>1. /\ ~crashed /\ echoes' = 0 /\ others' = others /\ unheard' = unheard /\ sensitive
      /\ shown[k] # value
      /\ trans' = trans /\ active' = active /\ sensitive' = sensitive /\ crashed' = crashed
  BY DEF Modifier!Change, Modifier!Acts
<1>2. ~updating => active \in MovedFrames /\ active # NoFrame
  BY <1>1 DEF ModifierInv, AwaitsOne, ModifierSetting
<1>3. now \in Transform
  BY DEF ModifierInv, ModifierTypes, Transform
<1>4. updates_sent \in Seq(FrameUpdate) /\ Len(updates_sent) \in Nat /\ others \in Nat
  BY LenProperties DEF ModifierInv, ModifierTypes
<1>5. CASE updating
  <2>1. Modifier!Set(Modifier!Controls, k, value)
          = [shown |-> now, updating |-> TRUE, sent |-> << >>]
    BY <1>1, <1>5 DEF Modifier!Set, Modifier!Controls, Modifier!ControlChanged, ModifierInv,
       ModifierTypes
  <2>2. /\ shown' = now /\ updating' = TRUE /\ updates_sent' = updates_sent \o << >>
        /\ accepted' = accepted
    BY <2>1 DEF Modifier!Change, Modifier!Became
  <2>3. updates_sent' = updates_sent
    BY <1>4, <2>2, ConcatEmptySeq
  <2>4. ModifierTypes'
    BY <1>1, <1>3, <2>2, <2>3 DEF ModifierInv, ModifierTypes
  <2>5. AwaitsOne' /\ AskedComesAbout'
    BY <1>1, <2>2, <2>3 DEF ModifierInv, AwaitsOne, AskedComesAbout
  <2>6. EchoesShrink'
    <3>1. 0 <= Cardinality(Coords)
      BY DifferAtMost
    <3> QED  BY <1>1, <1>5, <2>2, <2>3, <3>1 DEF ModifierInv, EchoesShrink, MostUnderWay
  <2> QED  BY <2>4, <2>5, <2>6 DEF ModifierInv
<1>6. CASE ~updating
  <2>1. Modifier!Set(Modifier!Controls, k, value)
          = [shown |-> now, updating |-> TRUE, sent |-> <<msg>>]
    <3>1. Append(<< >>, msg) = <<msg>>
      OBVIOUS
    <3> QED  BY <1>1, <1>2, <1>6, <3>1 DEF Modifier!Set, Modifier!Controls,
                Modifier!ControlChanged
  <2>2. <<msg>> # << >>
    OBVIOUS
  <2>3. /\ shown' = now /\ updating' = TRUE /\ updates_sent' = updates_sent \o <<msg>>
        /\ accepted' = [accepted EXCEPT ![active] = now]
    BY <2>1, <2>2 DEF Modifier!Change, Modifier!Became
  <2>4. msg \in FrameUpdate /\ msg.frame = active /\ msg.trans = now
    BY <1>2, <1>3, <1>6 DEF FrameUpdate
  <2> HIDE DEF msg, now
  <2>5. /\ updates_sent' \in Seq(FrameUpdate) /\ Len(updates_sent') = Len(updates_sent) + 1
        /\ (updates_sent = << >> => updates_sent' = <<msg>>)
    <3> DEFINE S == FrameUpdate
    <3>1. updates_sent \in Seq(S) /\ msg \in S
      BY <1>4, <2>4
    <3> HIDE DEF S
    <3>2. /\ updates_sent \o <<msg>> \in Seq(S)
          /\ Len(updates_sent \o <<msg>>) = Len(updates_sent) + 1
          /\ << >> \o <<msg>> = <<msg>>
      BY <3>1, OneAfter
    <3>3. updates_sent \o <<msg>> \in Seq(FrameUpdate)
      BY <3>2 DEF S
    <3> QED  BY <2>3, <3>2, <3>3
  <2>6. accepted' \in [MovedFrames -> Transform]
    BY <1>3, <2>3 DEF ModifierInv, ModifierTypes
  <2>7. ModifierTypes'
    BY <1>1, <1>3, <2>3, <2>5, <2>6 DEF ModifierInv, ModifierTypes
  <2>8. AwaitsOne'
    BY <1>1, <2>3 DEF ModifierInv, AwaitsOne
  <2>9. EchoesShrink'
    <3>1. 0 <= Cardinality(Coords)
      BY DifferAtMost
    <3>2. others <= 1 => Len(updates_sent) <= others
      BY <1>6 DEF ModifierInv, EchoesShrink, MostUnderWay, ModifierTypes
    <3> QED  BY <1>1, <1>4, <2>3, <2>5, <3>1, <3>2 DEF EchoesShrink, MostUnderWay
  <2>10. AskedComesAbout'
    <3> SUFFICES ASSUME others = 0, unheard = 0
                 PROVE  \E m \in FrameUpdate : /\ updates_sent' = <<m>>
                                               /\ accepted' = [trans EXCEPT ![m.frame] = m.trans]
      BY <1>1 DEF AskedComesAbout
    <3>1. Len(updates_sent) <= 0
      BY <1>4, <1>6 DEF ModifierInv, EchoesShrink, MostUnderWay
    <3>2. updates_sent = << >>
      BY <1>4, <3>1, EmptySeq
    <3>3. trans = accepted
      BY <1>1, <3>2 DEF ModifierInv, AskedComesAbout
    <3> QED  BY <2>3, <2>4, <2>5, <3>2, <3>3
  <2> QED  BY <2>7, <2>8, <2>9, <2>10 DEF ModifierInv
<1> QED
  BY <1>5, <1>6

\* No step of the controls or of another program breaks this.
LEMMA ModifierStays ==
  ASSUME ModifierSetting, ModifierInv, [Modifier!Next]_Modifier!vars PROVE ModifierInv'
<1>1. CASE Modifier!OnFramesUpdate
  BY <1>1, HeardWhenSelected, HeardOtherwise
<1>2. CASE Modifier!Lose
  BY <1>2, Losing
<1>3. ASSUME NEW frame \in MovedFrames, NEW transform \in Modifier!Transforms,
             Modifier!OtherUpdates(frame, transform)
      PROVE  ModifierInv'
  BY <1>3, OtherUpdating
<1>4. ASSUME \/ \E frame \in MovedFrames : Modifier!Select(frame)
             \/ Modifier!SelectNone
             \/ \E entry \in MovedFrames \cup {TopFrame, NoFrame} :
                  Modifier!SelectWhileUpdating(entry)
      PROVE  ModifierInv'
  BY <1>4, Selecting
<1>5. CASE Modifier!SelectRoot
  BY <1>5, SelectingTheRoot
<1>6. ASSUME NEW k \in Coords, NEW value \in SliderValues, Modifier!Change(k, value)
      PROVE  ModifierInv'
  BY <1>6, Changing
<1>7. CASE UNCHANGED Modifier!vars
  <2>1. /\ echoes' = echoes /\ others' = others /\ unheard' = unheard
        /\ updates_sent' = updates_sent /\ active' = active
        /\ trans' = trans /\ accepted' = accepted /\ shown' = shown /\ sensitive' = sensitive
        /\ crashed' = crashed /\ updating' = updating
    BY <1>7 DEF Modifier!vars
  <2> QED  BY <2>1 DEF ModifierInv, ModifierTypes, AwaitsOne, EchoesShrink, AskedComesAbout,
              MostUnderWay
<1> QED
  BY <1>1, <1>2, <1>3, <1>4, <1>5, <1>6, <1>7 DEF Modifier!Next

\* What is counted is counted alike among the controls and here.
LEMMA ControlsCount == \A S : Modifier!Cardinality(S) = Cardinality(S)
BY Zenon DEF Modifier!Cardinality, Cardinality, Modifier!IsFiniteSet, IsFiniteSet

\* Whatever the user and other programs do and whatever is lost, the controls show the transform
\* of the frame that is selected unless an update is awaited, no more updates than there are
\* controls follow from one of another program, and without those what the user asked for comes
\* about (on_param_widget_changed, frames_update_handler).
THEOREM ControlsAreTrue == ASSUME ModifierSetting PROVE Modifier!Spec => []ControlsMoveTheFrame
<1>1. Modifier!Init => ModifierInv
  BY ModifierBegins
<1>2. ModifierInv /\ [Modifier!Next]_Modifier!vars => ModifierInv'
  BY ModifierStays
<1>3. ModifierInv => ControlsMoveTheFrame
  <2> SUFFICES ASSUME ModifierInv PROVE ControlsMoveTheFrame
    OBVIOUS
  <2>1. Modifier!ShownIsTrue
    BY DEF ModifierInv, AwaitsOne, ModifierSetting, Modifier!ShownIsTrue
  <2>2. Modifier!EchoesDieOut
    BY ControlsCount DEF ModifierInv, EchoesShrink, Modifier!EchoesDieOut
  <2>3. Modifier!ChangesTakeEffect
    <3>1. \A m : <<m>> # << >>
      OBVIOUS
    <3> QED  BY <3>1 DEF ModifierInv, AskedComesAbout, Modifier!ChangesTakeEffect
  <2> QED  BY <2>1, <2>2, <2>3 DEF ControlsMoveTheFrame
<1> QED
  BY <1>1, <1>2, <1>3, PTL DEF Modifier!Spec

-----------------------------------------------------------------------------
(* The processes of a command *)

\* A step of a recursion, of which f holds the values: it depends on those of less rank.
IsStep(S, V, N, rank, step) ==
  /\ V # {} /\ N \in Nat /\ rank \in [S -> 0..N]
  /\ \A x \in S : \A f \in [S -> V] :
       /\ step[<<x, f>>] \in V
       /\ \A g \in [S -> V] :
            (\A y \in S : rank[y] < rank[x] => f[y] = g[y]) => step[<<x, f>>] = step[<<x, g>>]

\* A recursion that goes down in rank has a solution.
LEMMA RankedRecursion ==
  ASSUME NEW S, NEW V, NEW N, NEW rank, NEW step, IsStep(S, V, N, rank, step)
  PROVE  \E f \in [S -> V] : \A x \in S : f[x] = step[<<x, f>>]
<1> DEFINE Solves(f, n) == \A x \in S : rank[x] < n => f[x] = step[<<x, f>>]
           T == { n \in Nat : ~ \E f \in [S -> V] : Solves(f, n) }
<1>1. V # {} /\ N \in Nat /\ rank \in [S -> 0..N]
  BY DEF IsStep
<1>2. ASSUME T # {} PROVE FALSE
  <2>1. PICK n \in T : \A m \in T : n <= m
    <3> HIDE DEF T
    <3>1. T \subseteq Nat
      BY DEF T
    <3> QED  BY <1>2, <3>1, LeastNat
  <2>2. n # 0
    <3> DEFINE v0 == CHOOSE v \in V : TRUE
    <3>1. Solves([x \in S |-> v0], 0)
      BY <1>1
    <3>2. [x \in S |-> v0] \in [S -> V]
      BY <1>1
    <3> QED  BY <2>1, <3>1, <3>2
  <2>3. n - 1 \in Nat /\ n - 1 \notin T
    BY <2>1, <2>2
  <2>4. PICK f \in [S -> V] : Solves(f, n - 1)
    BY <2>3
  <2> DEFINE h == [x \in S |-> IF rank[x] = n - 1 THEN step[<<x, f>>] ELSE f[x]]
  <2>5. h \in [S -> V]
    BY DEF IsStep
  <2>6. ASSUME NEW x \in S, rank[x] < n PROVE h[x] = step[<<x, h>>]
    <3>1. h[x] = step[<<x, f>>]
      <4>1. CASE rank[x] = n - 1
        BY <4>1
      <4>2. CASE rank[x] # n - 1
        <5>1. n \in Nat /\ rank[x] \in 0..N
          BY <1>1, <2>1
        <5>2. rank[x] < n - 1
          BY <2>6, <4>2, <5>1
        <5>3. f[x] = step[<<x, f>>]
          BY <2>4, <5>2
        <5> QED  BY <4>2, <5>3
      <4> QED  BY <4>1, <4>2
    <3>2. \A y \in S : rank[y] < rank[x] => f[y] = h[y]
      BY <1>1, <2>1, <2>6
    <3> HIDE DEF h
    <3>3. step[<<x, f>>] = step[<<x, h>>]
      BY <2>5, <3>2 DEF IsStep
    <3> QED  BY <3>1, <3>3
  <2> HIDE DEF h
  <2>7. Solves(h, n)
    BY <2>6
  <2> QED  BY <2>1, <2>5, <2>7
<1>3. PICK f \in [S -> V] : Solves(f, N + 1)
  <2>1. N + 1 \in Nat /\ N + 1 \notin T
    <3> HIDE DEF T
    <3> QED  BY <1>1, <1>2
  <2> QED  BY <2>1
<1>4. \A x \in S : rank[x] < N + 1
  BY <1>1
<1> QED
  BY <1>3, <1>4

\* Sequences put one after the other have the elements that these have.
LEMMA Flattened ==
  ASSUME NEW S, NEW s \in Seq(Seq(S)) PROVE Processes!FlattenSeq(s) \in Seq(S)
<1> DEFINE n == Len(s)
           D == 1..n
           V == Seq(S)
           E(f) == [i \in D |-> IF i = 1 THEN s[i] ELSE f[i - 1] \o s[i]]
           Flat == CHOOSE f : f = E(f)
           step == [p \in D \X [D -> V] |-> E(p[2])[p[1]]]
           rank == [i \in D |-> i]
<1>1. n \in Nat /\ \A i \in D : s[i] \in V
  BY LenProperties
<1>2. \E f : f = E(f)
  <2>1. V # {} /\ rank \in [D -> 0..n]
    BY <1>1
  <2>2. ASSUME NEW x \in D, NEW f \in [D -> V] PROVE step[<<x, f>>] \in V
    <3>1. step[<<x, f>>] = IF x = 1 THEN s[x] ELSE f[x - 1] \o s[x]
      OBVIOUS
    <3>2. CASE x = 1
      BY <1>1, <3>1, <3>2
    <3>3. CASE x # 1
      <4>1. x - 1 \in D /\ s[x] \in V
        BY <1>1, <3>3
      <4>2. f[x - 1] \o s[x] \in V
        <5>1. f[x - 1] \in V
          BY <4>1
        <5> QED  BY <4>1, <5>1, ConcatProperties
      <4> QED  BY <3>1, <3>3, <4>2
    <3> QED  BY <3>2, <3>3
  <2>3. ASSUME NEW x \in D, NEW f \in [D -> V], NEW g \in [D -> V],
               \A y \in D : rank[y] < rank[x] => f[y] = g[y]
        PROVE  step[<<x, f>>] = step[<<x, g>>]
    <3>1. x # 1 => x - 1 \in D /\ rank[x - 1] < rank[x]
      BY <1>1
    <3> QED  BY <2>3, <3>1
  <2>4. PICK f \in [D -> V] : \A x \in D : f[x] = step[<<x, f>>]
    <3> HIDE DEF step, rank, D, V, n
    <3>1. IsStep(D, V, n, rank, step)
      BY <1>1, <2>1, <2>2, <2>3 DEF IsStep
    <3> QED  BY <3>1, RankedRecursion
  <2>5. \A x \in D : f[x] = E(f)[x]
    BY <2>4
  <2>6. f = E(f)
    BY <2>5
  <2> QED  BY <2>6
<1>3. Flat = E(Flat)
  <2> HIDE DEF E
  <2> QED  BY <1>2
<1>4. Processes!FlattenSeq(s) = IF n = 0 THEN s ELSE Flat[n]
  BY DEF Processes!FlattenSeq
<1> HIDE DEF Flat
<1> DEFINE T == { i \in D : Flat[i] \notin V }
<1>5. ASSUME T # {} PROVE FALSE
  <2>1. PICK i \in T : \A j \in T : i <= j
    <3> HIDE DEF T
    <3>1. T \subseteq Nat
      BY DEF T
    <3> QED  BY <1>5, <3>1, LeastNat
  <2>2. CASE i = 1
    BY <1>1, <1>3, <2>1, <2>2
  <2>3. CASE i # 1
    <3>1. i - 1 \in D /\ i - 1 \notin T
      BY <1>1, <2>1, <2>3
    <3>2. Flat[i - 1] \in V /\ s[i] \in V
      BY <1>1, <2>1, <3>1
    <3>3. Flat[i - 1] \o s[i] \in V
      BY <3>2, ConcatProperties
    <3>4. Flat[i] = Flat[i - 1] \o s[i]
      BY <1>3, <2>1, <2>3
    <3> QED  BY <2>1, <3>3, <3>4
  <2> QED  BY <2>2, <2>3
<1>6. CASE n = 0
  <2>1. s = << >>
    BY <1>6, EmptySeq
  <2> QED  BY <1>4, <1>6, <2>1
<1>7. CASE n # 0
  <2>1. n \in D
    BY <1>1, <1>7
  <2> QED  BY <1>4, <1>5, <1>7, <2>1
<1> QED
  BY <1>6, <1>7

\* The children that were found, of processes that have them after themselves.
AreChildren(children, N) ==
  /\ N \in Nat /\ DOMAIN children \subseteq 1..N
  /\ \A q \in DOMAIN children :
       /\ children[q] \in Seq(DOMAIN children)
       /\ \A k \in DOMAIN children[q] : children[q][k] > q

\* What the descendants of a process are made of, when f has those of its children.
DescendantsOfEach(children, f, q) ==
  [k \in DOMAIN children[q] |-> <<children[q][k]>> \o f[children[q][k]]]

\* They are sequences of what they are made of.
LEMMA DescendantsInSet ==
  ASSUME NEW children, NEW f, NEW q, NEW L, children[q] \in Seq(L),
         \A k \in DOMAIN children[q] : f[children[q][k]] \in Seq(L)
  PROVE  Processes!FlattenSeq(DescendantsOfEach(children, f, q)) \in Seq(L)
<1> DEFINE each == DescendantsOfEach(children, f, q)
           c == children[q]
<1>1. c \in Seq(L) /\ DOMAIN c = 1..Len(c) /\ Len(c) \in Nat
  BY LenProperties
<1>2. ASSUME NEW k \in 1..Len(c) PROVE each[k] \in Seq(L)
  <2>1. c[k] \in L /\ k \in DOMAIN c
    BY <1>1
  <2>2. <<c[k]>> \in Seq(L)
    BY <2>1
  <2>3. f[c[k]] \in Seq(L)
    BY <2>1
  <2>4. <<c[k]>> \o f[c[k]] \in Seq(L)
    BY <2>2, <2>3, ConcatProperties
  <2> QED  BY <2>1, <2>4 DEF DescendantsOfEach
<1>3. each = [k \in 1..Len(c) |-> each[k]]
  BY <1>1 DEF DescendantsOfEach
<1> HIDE DEF each
<1>4. each \in Seq(Seq(L))
  <2> DEFINE V == Seq(L)
  <2>1. \A k \in 1..Len(c) : each[k] \in V
    BY <1>2
  <2> HIDE DEF V, c
  <2>2. each \in [1..Len(c) -> V]
    BY <1>3, <2>1
  <2> QED  BY <1>1, <2>2 DEF V
<1> QED
  BY <1>4, Flattened DEF each

\* The recursion of pid_info_get_descendants ends, as children come after their parents.
LEMMA DescendantsDef ==
  ASSUME NEW N, machine.pids = 1..N, NEW children, AreChildren(children, N)
  PROVE  \E below :
           /\ below = [q \in 1..N |->
                        IF q \notin DOMAIN children THEN << >>
                        ELSE Processes!FlattenSeq(DescendantsOfEach(children, below, q))]
           /\ \A root : Processes!Descendants(children, root) = below[root]
<1> DEFINE D == 1..N
           C == DOMAIN children
           V == Seq(C)
           E(f) == [q \in D |->
                     IF q \notin C THEN << >>
                     ELSE Processes!FlattenSeq(DescendantsOfEach(children, f, q))]
           step == [p \in D \X [D -> V] |-> E(p[2])[p[1]]]
           rank == [q \in D |-> N - q]
           below == CHOOSE f : f = E(f)
<1>1. N \in Nat /\ C \subseteq D
  BY DEF AreChildren
<1>2. ASSUME NEW q \in C, NEW k \in DOMAIN children[q]
      PROVE  children[q][k] \in D /\ rank[children[q][k]] < rank[q]
  <2>1. children[q] \in Seq(C) /\ children[q][k] > q
    BY DEF AreChildren
  <2>2. children[q][k] \in C
    <3> HIDE DEF C
    <3> QED  BY <2>1
  <2> QED  BY <1>1, <2>1, <2>2
<1>3. \E f : f = E(f)
  <2>1. << >> \in V /\ V # {} /\ rank \in [D -> 0..N]
    <3>1. << >> \in V
      <4> HIDE DEF C
      <4> QED  OBVIOUS
    <3>2. rank \in [D -> 0..N]
      BY <1>1
    <3> HIDE DEF V, rank
    <3> QED  BY <3>1, <3>2
  <2>2. ASSUME NEW x \in D, NEW f \in [D -> V] PROVE step[<<x, f>>] \in V
    <3>1. step[<<x, f>>] = IF x \notin C THEN << >>
                           ELSE Processes!FlattenSeq(DescendantsOfEach(children, f, x))
      OBVIOUS
    <3>2. CASE x \notin C
      <4> HIDE DEF V, step
      <4> QED  BY <2>1, <3>1, <3>2
    <3>3. CASE x \in C
      <4>1. children[x] \in Seq(C)
        BY <3>3 DEF AreChildren
      <4>2. \A k \in DOMAIN children[x] : f[children[x][k]] \in Seq(C)
        BY <1>2, <3>3
      <4> HIDE DEF C, step
      <4>3. Processes!FlattenSeq(DescendantsOfEach(children, f, x)) \in Seq(C)
        BY <4>1, <4>2, DescendantsInSet
      <4> QED  BY <3>1, <3>3, <4>3
    <3> QED  BY <3>2, <3>3
  <2>3. ASSUME NEW x \in D, NEW f \in [D -> V], NEW g \in [D -> V],
               \A y \in D : rank[y] < rank[x] => f[y] = g[y]
        PROVE  step[<<x, f>>] = step[<<x, g>>]
    <3>1. x \in C => DescendantsOfEach(children, f, x) = DescendantsOfEach(children, g, x)
      BY <1>2, <2>3 DEF DescendantsOfEach
    <3> QED  BY <3>1
  <2>4. PICK f \in [D -> V] : \A x \in D : f[x] = step[<<x, f>>]
    <3> HIDE DEF step, rank, D, V
    <3>1. IsStep(D, V, N, rank, step)
      BY <1>1, <2>1, <2>2, <2>3 DEF IsStep
    <3> QED  BY <3>1, RankedRecursion
  <2>5. \A x \in D : f[x] = E(f)[x]
    BY <2>4
  <2>6. f = E(f)
    BY <2>5
  <2> QED  BY <2>6
<1>4. below = E(below)
  <2> HIDE DEF E
  <2> QED  BY <1>3
<1>5. \A root : Processes!Descendants(children, root) = below[root]
  BY DEF Processes!Descendants, DescendantsOfEach
<1> HIDE DEF below
<1> QED
  BY <1>4, <1>5

\* The descendants of a process are of the same kind as itself when children are of the kind of
\* their parents.
LEMMA DescendantsAreAlike ==
  ASSUME NEW N, machine.pids = 1..N, NEW children, AreChildren(children, N), NEW L,
         \A q \in DOMAIN children \cap L : \A k \in DOMAIN children[q] : children[q][k] \in L,
         NEW root \in 1..N, root \in DOMAIN children => root \in L
  PROVE  Processes!Descendants(children, root) \in Seq(DOMAIN children \cap L)
<1> DEFINE C == DOMAIN children
           K == C \cap L
<1>1. PICK below :
        /\ below = [q \in 1..N |->
                     IF q \notin DOMAIN children THEN << >>
                     ELSE Processes!FlattenSeq(DescendantsOfEach(children, below, q))]
        /\ Processes!Descendants(children, root) = below[root]
  BY DescendantsDef
<1>2. N \in Nat /\ C \subseteq 1..N
  BY DEF AreChildren
<1> DEFINE T == { r \in Nat : \E q \in K : r = N - q /\ below[q] \notin Seq(K) }
<1>3. ASSUME T # {} PROVE FALSE
  <2>1. PICK r \in T : \A s \in T : r <= s
    <3> HIDE DEF T
    <3>1. T \subseteq Nat
      BY DEF T
    <3> QED  BY <1>3, <3>1, LeastNat
  <2>2. PICK q \in K : r = N - q /\ below[q] \notin Seq(K)
    BY <2>1
  <2>3. children[q] \in Seq(K)
    <3>1. children[q] \in Seq(C) /\ \A k \in DOMAIN children[q] : children[q][k] \in K
      <4>1. children[q] \in Seq(C)
        BY <2>2 DEF AreChildren
      <4>2. ASSUME NEW k \in DOMAIN children[q] PROVE children[q][k] \in C /\ children[q][k] \in L
        <5>1. children[q][k] \in L
          BY <2>2
        <5> HIDE DEF C
        <5> QED  BY <4>1, <5>1
      <4> QED  BY <4>1, <4>2
    <3> DEFINE c == children[q]
    <3> HIDE DEF C, K, c
    <3>2. c \in Seq(C) /\ \A k \in DOMAIN c : c[k] \in K
      BY <3>1 DEF c
    <3>3. c \in Seq(K)
      BY <3>2
    <3> QED  BY <3>3 DEF c
  <2>4. ASSUME NEW k \in DOMAIN children[q] PROVE below[children[q][k]] \in Seq(K)
    <3> DEFINE p == children[q][k]
    <3>1. p \in K /\ p > q
      <4>1. p > q
        BY <2>2 DEF AreChildren
      <4>2. p \in K
        <5> HIDE DEF K
        <5> QED  BY <2>3
      <4> QED  BY <4>1, <4>2
    <3>2. N - p \in Nat /\ N - p < r
      BY <1>2, <2>2, <3>1
    <3>3. N - p \notin T
      BY <2>1, <3>2
    <3> QED  BY <3>1, <3>2, <3>3
  <2>5. below[q] = Processes!FlattenSeq(DescendantsOfEach(children, below, q))
    BY <1>1, <1>2, <2>2
  <2> HIDE DEF K
  <2>6. Processes!FlattenSeq(DescendantsOfEach(children, below, q)) \in Seq(K)
    BY <2>3, <2>4, DescendantsInSet
  <2> QED  BY <2>2, <2>5, <2>6
<1>4. CASE root \in C
  <2>1. root \in K /\ N - root \in Nat
    BY <1>2, <1>4
  <2>2. N - root \notin T
    <3> HIDE DEF T
    <3> QED  BY <1>3
  <2> QED  BY <1>1, <2>1, <2>2
<1>5. CASE root \notin C
  BY <1>1, <1>5
<1> QED
  BY <1>4, <1>5

\* Numbers of processes are natural numbers from that of init on.
ProcessSetting == \A m \in Machines : \E N \in Nat : N >= 1 /\ m.pids = 1..N

ProcessTypes ==
  /\ machine \in Machines
  /\ pid \in Nat /\ runs \in Nat /\ zombie \in BOOLEAN
  /\ DOMAIN procs \subseteq machine.pids
  /\ \A q \in DOMAIN procs : procs[q] \in [parent : Nat, session : Nat, run : Nat]
  /\ DOMAIN killed \subseteq DOMAIN procs

\* What the deputy is in the middle of has the fields that are used of it.
DoingTypes ==
  /\ {"what", "taken"} \subseteq DOMAIN doing
  /\ doing.what \in {"idle", "read", "signal", "reap"}
  /\ doing.what = "idle" => doing = Processes!Idle
  /\ doing.what = "read" => {"last", "children"} \subseteq DOMAIN doing /\ doing.last \in Nat
  /\ doing.what \in {"signal", "reap"} => "list" \in DOMAIN doing
  /\ doing.what = "reap" => "child" \in DOMAIN doing

\* Who has a parent other than init is of the same run, and whoever is in the session of the child
\* is of the run that goes on.
Family ==
  /\ Processes!Initd \in DOMAIN procs /\ procs[Processes!Initd].parent = 0
  /\ \A q \in DOMAIN procs :
       procs[q].parent \notin {0, Processes!Initd} =>
         procs[q].parent \in DOMAIN procs /\ procs[procs[q].parent].run = procs[q].run
  /\ zombie => pid # 0 /\ \A q \in DOMAIN procs : procs[q].parent # pid
  /\ pid # 0 =>
       /\ pid \in DOMAIN procs /\ pid # Processes!Initd /\ procs[pid].run = runs
       /\ \A q \in DOMAIN procs : procs[q].session = pid => procs[q].run = runs

\* Every process that was read is of the run own[q], and so are its children.
Labelled(own) ==
  /\ own[pid] = runs
  /\ \A q \in DOMAIN doing.children :
       /\ q <= doing.last
       /\ q \in DOMAIN procs => procs[q].run = own[q]
       /\ q # Processes!Initd => \A k \in DOMAIN doing.children[q] :
                                   own[doing.children[q][k]] = own[q]

\* While the deputy is in the middle of something no number that it may have seen is given again.
InTheMiddle ==
  /\ doing.what # "idle" => DOMAIN procs \subseteq doing.taken
  /\ doing.what \in {"read", "signal"} => pid # 0
  /\ doing.what = "read" =>
       /\ DOMAIN doing.children \subseteq doing.taken
       /\ \E N \in Nat : N >= 1 /\ machine.pids = 1..N /\ AreChildren(doing.children, N)
       /\ \E own \in [Nat -> Nat] : Labelled(own)
  /\ doing.what = "signal" =>
       /\ doing.list \in Seq(doing.taken)
       /\ \A k \in DOMAIN doing.list :
            doing.list[k] \in DOMAIN procs => procs[doing.list[k]].run = runs
  /\ doing.what = "reap" =>
       /\ pid = 0 /\ doing.child \in doing.taken
       /\ \A q \in DOMAIN procs : procs[q].session = doing.child => procs[q].run = runs

ProcessInv == ProcessTypes /\ DoingTypes /\ Family /\ InTheMiddle /\ Processes!KillsItsOwn

\* When the deputy starts there is init and nothing else.
LEMMA ProcessesBegin == ASSUME ProcessSetting, Processes!Init PROVE ProcessInv
<1>1. DOMAIN procs = {1} /\ procs[1] = [parent |-> 0, session |-> 1, run |-> 0]
  BY DEF Processes!Init, Processes!Process, Processes!Initd
<1>2. ProcessTypes
  <2>1. machine \in Machines /\ 1 \in machine.pids
    BY DEF ProcessSetting, Processes!Init
  <2>2. pid = 0 /\ runs = 0 /\ zombie = FALSE /\ killed = << >>
    BY DEF Processes!Init
  <2>3. DOMAIN killed = {}
    BY <2>2
  <2>4. procs[1] \in [parent : Nat, session : Nat, run : Nat]
    BY <1>1
  <2>5. pid \in Nat /\ runs \in Nat /\ zombie \in BOOLEAN
    BY <2>2
  <2> QED  BY <1>1, <2>1, <2>3, <2>4, <2>5 DEF ProcessTypes
<1>3. DoingTypes
  BY DEF DoingTypes, Processes!Init, Processes!Idle
<1>4. Family
  BY <1>1 DEF Family, Processes!Init, Processes!Initd
<1>5. InTheMiddle
  BY DEF InTheMiddle, Processes!Init, Processes!Idle
<1>6. Processes!KillsItsOwn
  BY DEF Processes!KillsItsOwn, Processes!Init
<1> QED
  BY <1>2, <1>3, <1>4, <1>5, <1>6 DEF ProcessInv

\* The number of a new process is one that nobody has, and none that the deputy may have seen.
LEMMA NextIsFree ==
  ASSUME ProcessSetting, ProcessInv, Processes!FreePids # {}
  PROVE  /\ Processes!NextPid \in machine.pids /\ Processes!NextPid \in Nat
         /\ Processes!NextPid \notin DOMAIN procs /\ Processes!NextPid \notin doing.taken
         /\ Processes!NextPid # 0 /\ Processes!NextPid # Processes!Initd
         /\ \A q \in DOMAIN procs : procs[q].session # Processes!NextPid
<1> DEFINE Free == Processes!FreePids
           later == { q \in Free : q > last_pid }
<1>1. Free \subseteq Nat \ {0}
  BY DEF ProcessInv, ProcessTypes, ProcessSetting, Processes!FreePids
<1>2. \A S : S \subseteq Nat /\ S # {} => Processes!Min(S) \in S
  BY LeastNat DEF Processes!Min
<1>3. Processes!NextPid \in Free
  <2>1. Processes!NextPid = IF later # {} THEN Processes!Min(later) ELSE Processes!Min(Free)
    BY DEF Processes!NextPid
  <2>2. later \subseteq Free
    OBVIOUS
  <2> HIDE DEF later, Free
  <2>3. later # {} => Processes!Min(later) \in Free
    BY <1>1, <1>2, <2>2
  <2>4. Processes!Min(Free) \in Free
    BY <1>1, <1>2 DEF Free
  <2> QED  BY <2>1, <2>3, <2>4
<1> QED
  BY <1>1, <1>3 DEF Processes!FreePids, ProcessInv, Family

\* A new process, q, that descends from a run of the command when its parent does, leaves
\* everything else as it was for the deputy.
LEMMA NewProcess ==
  ASSUME ProcessSetting, ProcessInv, NEW q, q \notin doing.taken,
         doing' = [doing EXCEPT !.taken = IF doing = Processes!Idle THEN {} ELSE @ \cup {q}]
  PROVE  /\ DOMAIN doing' = DOMAIN doing /\ doing'.what = doing.what
         /\ doing.what = "idle" => doing' = Processes!Idle
         /\ doing.what # "idle" => doing'.taken = doing.taken \cup {q}
         /\ doing.what = "read" => doing'.last = doing.last /\ doing'.children = doing.children
         /\ doing.what \in {"signal", "reap"} => doing'.list = doing.list
         /\ doing.what = "reap" => doing'.child = doing.child
         /\ DoingTypes'
<1>1. /\ DOMAIN doing' = DOMAIN doing
      /\ \A field \in DOMAIN doing : field # "taken" => doing'[field] = doing[field]
      /\ doing.what # "idle" => doing'.taken = doing.taken \cup {q}
  BY DEF ProcessInv, DoingTypes, Processes!Idle
<1>2. ASSUME doing.what = "idle" PROVE doing' = Processes!Idle
  <2>1. doing = [what |-> "idle", taken |-> {}]
    BY <1>2 DEF ProcessInv, DoingTypes, Processes!Idle
  <2>2. doing' = [doing EXCEPT !.taken = {}]
    BY <2>1 DEF Processes!Idle
  <2> QED  BY <2>1, <2>2 DEF Processes!Idle
<1>3. /\ doing'.what = doing.what
      /\ doing.what = "read" => doing'.last = doing.last /\ doing'.children = doing.children
      /\ doing.what \in {"signal", "reap"} => doing'.list = doing.list
      /\ doing.what = "reap" => doing'.child = doing.child
  BY <1>1 DEF ProcessInv, DoingTypes
<1> QED
  BY <1>1, <1>2, <1>3 DEF ProcessInv, DoingTypes

\* A process starts another.
LEMMA Forking == ASSUME ProcessSetting, ProcessInv, Processes!Fork PROVE ProcessInv'
<1> DEFINE q == Processes!NextPid
<1>1. PICK parent, s :
        /\ parent \in DOMAIN procs
        /\ ~(zombie /\ parent = pid) /\ s \in {q, procs[parent].session}
        /\ procs' = Processes!With(procs, q, Processes!Process(parent, s, procs[parent].run))
        /\ doing' = [doing EXCEPT !.taken = IF doing = Processes!Idle THEN {} ELSE @ \cup {q}]
  BY DEF Processes!Fork, Processes!New
<1>2. /\ machine' = machine /\ pid' = pid /\ zombie' = zombie /\ killed' = killed /\ runs' = runs
      /\ Processes!FreePids # {}
  BY DEF Processes!Fork
<1>3. /\ q \in machine.pids /\ q \in Nat /\ q \notin DOMAIN procs /\ q \notin doing.taken
      /\ q # 0 /\ q # Processes!Initd
  BY <1>2, NextIsFree
<1> HIDE DEF q
<1>4. /\ DOMAIN procs' = DOMAIN procs \cup {q}
      /\ procs'[q] = [parent |-> parent, session |-> s, run |-> procs[parent].run]
      /\ \A r \in DOMAIN procs : procs'[r] = procs[r]
  BY <1>1, <1>3 DEF Processes!With, Processes!Process
<1>5. parent \in Nat /\ procs[parent] \in [parent : Nat, session : Nat, run : Nat]
  BY <1>1 DEF ProcessInv, ProcessTypes, ProcessSetting
<1>6. ProcessTypes'
  BY <1>1, <1>2, <1>3, <1>4, <1>5 DEF ProcessInv, ProcessTypes
<1>7. Family'
  <2>1. pid # 0 => pid \in DOMAIN procs /\ pid # q
    BY <1>3 DEF ProcessInv, Family
  <2>2. pid # 0 /\ procs'[q].session = pid => procs'[q].run = runs
    BY <1>1, <1>4, <2>1 DEF ProcessInv, Family
  <2>3. zombie => procs'[q].parent # pid
    BY <1>1, <1>4
  <2>4. parent \in DOMAIN procs
    BY <1>1
  <2> QED  BY <1>2, <1>4, <2>1, <2>2, <2>3, <2>4 DEF ProcessInv, Family
<1>8. /\ DOMAIN doing' = DOMAIN doing /\ doing'.what = doing.what
      /\ doing.what = "idle" => doing' = Processes!Idle
      /\ doing.what # "idle" => doing'.taken = doing.taken \cup {q}
      /\ doing.what = "read" => doing'.last = doing.last /\ doing'.children = doing.children
      /\ doing.what \in {"signal", "reap"} => doing'.list = doing.list
      /\ doing.what = "reap" => doing'.child = doing.child
      /\ DoingTypes'
  BY <1>1, <1>3, NewProcess
<1>9. InTheMiddle'
  <2>1. CASE doing.what = "idle"
    BY <1>8, <2>1 DEF InTheMiddle
  <2>2. CASE doing.what = "read"
    <3>1. PICK N \in Nat : N >= 1 /\ machine.pids = 1..N /\ AreChildren(doing.children, N)
      BY <2>2 DEF ProcessInv, InTheMiddle
    <3>2. PICK own \in [Nat -> Nat] : Labelled(own)
      BY <2>2 DEF ProcessInv, InTheMiddle
    <3>3. DOMAIN doing.children \subseteq doing.taken /\ q \notin DOMAIN doing.children
      BY <1>3, <2>2 DEF ProcessInv, InTheMiddle
    <3>4. Labelled(own)'
      BY <1>2, <1>4, <1>8, <2>2, <3>2, <3>3 DEF Labelled
    <3>5. doing'.what = "read" => AreChildren(doing'.children, N)
      BY <1>8, <2>2, <3>1
    <3> QED
      BY <1>2, <1>4, <1>8, <2>2, <3>1, <3>3, <3>4, <3>5 DEF ProcessInv, InTheMiddle
  <2>3. CASE doing.what = "signal"
    <3>1. /\ doing.list \in Seq(doing.taken) /\ DOMAIN procs \subseteq doing.taken /\ pid # 0
          /\ \A k \in DOMAIN doing.list :
               doing.list[k] \in DOMAIN procs => procs[doing.list[k]].run = runs
      BY <2>3 DEF ProcessInv, InTheMiddle
    <3>2. doing.list \in Seq(doing.taken \cup {q})
      BY <3>1
    <3>3. ASSUME NEW k \in DOMAIN doing.list PROVE doing.list[k] # q
      <4> DEFINE T == doing.taken  l == doing.list
      <4>1. l \in Seq(T) /\ k \in DOMAIN l
        BY <3>1
      <4> HIDE DEF T, l
      <4>2. l[k] \in T
        BY <4>1
      <4> QED  BY <1>3, <4>2 DEF T, l
    <3> QED  BY <1>2, <1>4, <1>8, <2>3, <3>1, <3>2, <3>3 DEF InTheMiddle
  <2>4. CASE doing.what = "reap"
    <3>1. /\ doing.child \in doing.taken /\ DOMAIN procs \subseteq doing.taken /\ pid = 0
          /\ \A r \in DOMAIN procs : procs[r].session = doing.child => procs[r].run = runs
      BY <2>4 DEF ProcessInv, InTheMiddle
    <3>2. procs'[q].session = doing.child => procs'[q].run = runs
      BY <1>1, <1>3, <1>4, <3>1
    <3> QED  BY <1>2, <1>4, <1>8, <2>4, <3>1, <3>2 DEF InTheMiddle
  <2> QED  BY <2>1, <2>2, <2>3, <2>4 DEF ProcessInv, DoingTypes
<1>10. Processes!KillsItsOwn'
  BY <1>2, <1>3, <1>4 DEF ProcessInv, ProcessTypes, Processes!KillsItsOwn
<1> QED
  BY <1>6, <1>7, <1>8, <1>9, <1>10 DEF ProcessInv

\* A process ends.
LEMMA Ending == ASSUME ProcessSetting, ProcessInv, Processes!Ends PROVE ProcessInv'
<1>1. PICK q \in DOMAIN procs \ {Processes!Initd} :
        /\ ~(zombie /\ q = pid) /\ zombie' = (zombie \/ q = pid)
        /\ procs' = IF q = pid THEN Processes!Adopted(q)
                    ELSE Processes!Without(Processes!Adopted(q), q)
        /\ killed' = Processes!Without(killed, q)
  BY DEF Processes!Ends
<1>2. machine' = machine /\ pid' = pid /\ runs' = runs /\ doing' = doing
  BY DEF Processes!Ends
<1>3. /\ DOMAIN procs' = IF q = pid THEN DOMAIN procs ELSE DOMAIN procs \ {q}
      /\ \A r \in DOMAIN procs' :
           procs'[r] = [procs[r] EXCEPT !.parent = IF @ = q THEN Processes!Initd ELSE @]
  BY <1>1 DEF Processes!Adopted, Processes!Without
<1>4. ASSUME NEW r \in DOMAIN procs'
      PROVE  /\ r \in DOMAIN procs /\ procs'[r] \in [parent : Nat, session : Nat, run : Nat]
             /\ procs'[r].parent = IF procs[r].parent = q THEN Processes!Initd
                                   ELSE procs[r].parent
             /\ procs'[r].session = procs[r].session /\ procs'[r].run = procs[r].run
  <2>1. r \in DOMAIN procs /\ procs[r] \in [parent : Nat, session : Nat, run : Nat]
    BY <1>3 DEF ProcessInv, ProcessTypes
  <2> DEFINE p == procs[r]
             p2 == IF p.parent = q THEN Processes!Initd ELSE p.parent
  <2>2. procs'[r] = [p EXCEPT !.parent = p2]
    BY <1>3
  <2>3. p2 \in Nat
    BY <2>1 DEF Processes!Initd
  <2>4. p \in [parent : Nat, session : Nat, run : Nat]
    BY <2>1
  <2> HIDE DEF p, p2
  <2>5. /\ [p EXCEPT !.parent = p2] \in [parent : Nat, session : Nat, run : Nat]
        /\ [p EXCEPT !.parent = p2].parent = p2
        /\ [p EXCEPT !.parent = p2].session = p.session /\ [p EXCEPT !.parent = p2].run = p.run
    BY <2>3, <2>4
  <2> QED  BY <2>1, <2>2, <2>5 DEF p, p2
<1>5. DOMAIN killed' = DOMAIN killed \ {q} /\ \A r \in DOMAIN killed' : killed'[r] = killed[r]
  BY <1>1 DEF Processes!Without
<1>6. q # 0 /\ q # Processes!Initd /\ q \in DOMAIN procs
  BY DEF ProcessInv, ProcessTypes, ProcessSetting
<1>7. ProcessTypes'
  BY <1>1, <1>2, <1>3, <1>4, <1>5, <1>6 DEF ProcessInv, ProcessTypes
<1>8. Family'
  <2>1. Processes!Initd \in DOMAIN procs' /\ procs'[Processes!Initd].parent = 0
    BY <1>3, <1>4, <1>6 DEF ProcessInv, Family
  <2>2. ASSUME NEW r \in DOMAIN procs', procs'[r].parent \notin {0, Processes!Initd}
        PROVE  /\ procs'[r].parent \in DOMAIN procs'
               /\ procs'[procs'[r].parent].run = procs'[r].run
    <3>1. procs'[r].parent = procs[r].parent /\ procs[r].parent # q
      BY <1>4, <2>2
    <3>2. procs[r].parent \in DOMAIN procs /\ procs[procs[r].parent].run = procs[r].run
      BY <1>4, <2>2, <3>1 DEF ProcessInv, Family
    <3>3. procs[r].parent \in DOMAIN procs'
      BY <1>3, <3>1, <3>2
    <3> QED  BY <1>4, <3>1, <3>2, <3>3
  <2>3. ASSUME zombie' PROVE pid # 0 /\ \A r \in DOMAIN procs' : procs'[r].parent # pid
    BY <1>1, <1>4, <1>6, <2>3 DEF ProcessInv, Family
  <2>4. ASSUME pid # 0
        PROVE  /\ pid \in DOMAIN procs' /\ pid # Processes!Initd /\ procs'[pid].run = runs
               /\ \A r \in DOMAIN procs' : procs'[r].session = pid => procs'[r].run = runs
    BY <1>3, <1>4, <2>4 DEF ProcessInv, Family
  <2> QED  BY <1>2, <2>1, <2>2, <2>3, <2>4 DEF Family
<1>9. InTheMiddle'
  <2>1. \A own : Labelled(own) => (doing.what = "read" => Labelled(own)')
    BY <1>2, <1>4 DEF Labelled
  <2> QED  BY <1>2, <1>4, <2>1 DEF ProcessInv, InTheMiddle
<1>10. Processes!KillsItsOwn'
  BY <1>4, <1>5, <1>7 DEF ProcessInv, ProcessTypes, Processes!KillsItsOwn
<1> QED
  BY <1>2, <1>7, <1>8, <1>9, <1>10 DEF ProcessInv, DoingTypes

\* The deputy starts the command.
LEMMA Starting == ASSUME ProcessSetting, ProcessInv, Processes!Start PROVE ProcessInv'
<1> DEFINE q == Processes!NextPid
<1>1. /\ doing = Processes!Idle /\ pid = 0 /\ Processes!FreePids # {}
      /\ procs' = Processes!With(procs, q, Processes!Process(0, q, runs + 1))
      /\ doing' = [doing EXCEPT !.taken = IF doing = Processes!Idle THEN {} ELSE @ \cup {q}]
      /\ pid' = q /\ runs' = runs + 1 /\ zombie' = FALSE
      /\ machine' = machine /\ killed' = killed
  BY DEF Processes!Start, Processes!New
<1>2. /\ q \in machine.pids /\ q \in Nat /\ q \notin DOMAIN procs /\ q \notin doing.taken
      /\ q # 0 /\ q # Processes!Initd /\ \A r \in DOMAIN procs : procs[r].session # q
  BY <1>1, NextIsFree
<1> HIDE DEF q
<1>3. /\ DOMAIN procs' = DOMAIN procs \cup {q}
      /\ procs'[q] = [parent |-> 0, session |-> q, run |-> runs + 1]
      /\ \A r \in DOMAIN procs : procs'[r] = procs[r]
  BY <1>1, <1>2 DEF Processes!With, Processes!Process
<1>4. doing.what = "idle"
  BY <1>1 DEF Processes!Idle
<1>5. doing' = Processes!Idle /\ DoingTypes'
  BY <1>1, <1>2, <1>4, NewProcess
<1>6. ProcessTypes'
  <2>1. /\ machine \in Machines /\ runs \in Nat /\ DOMAIN procs \subseteq machine.pids
        /\ \A r \in DOMAIN procs : procs[r] \in [parent : Nat, session : Nat, run : Nat]
        /\ DOMAIN killed \subseteq DOMAIN procs
    BY DEF ProcessInv, ProcessTypes
  <2>2. procs'[q] \in [parent : Nat, session : Nat, run : Nat]
    BY <1>2, <1>3, <2>1
  <2>3. \A r \in DOMAIN procs' : procs'[r] \in [parent : Nat, session : Nat, run : Nat]
    BY <1>3, <2>1, <2>2
  <2>4. pid' \in Nat /\ runs' \in Nat /\ zombie' \in BOOLEAN
    <3>1. zombie' \in BOOLEAN
      BY <1>1
    <3>2. pid' \in Nat
      BY <1>1, <1>2
    <3>3. runs' \in Nat
      BY <1>1, <2>1
    <3> QED  BY <3>1, <3>2, <3>3
  <2> QED  BY <1>1, <1>2, <1>3, <2>1, <2>3, <2>4 DEF ProcessTypes
<1>7. Family'
  BY <1>1, <1>2, <1>3 DEF ProcessInv, Family
<1>8. InTheMiddle'
  <2>1. doing'.what = "idle"
    BY <1>5 DEF Processes!Idle
  <2> QED  BY <2>1 DEF InTheMiddle
<1>9. Processes!KillsItsOwn'
  BY <1>1, <1>2, <1>3 DEF ProcessInv, ProcessTypes, Processes!KillsItsOwn
<1> QED
  BY <1>5, <1>6, <1>7, <1>8, <1>9 DEF ProcessInv

\* It begins to signal the command, and to read what processes there are.
LEMMA BeginningToKill == ASSUME ProcessSetting, ProcessInv, Processes!KillCmd PROVE ProcessInv'
<1>1. /\ doing = Processes!Idle /\ pid # 0
      /\ machine' = machine /\ procs' = procs /\ pid' = pid /\ zombie' = zombie
      /\ killed' = killed /\ runs' = runs
  BY DEF Processes!KillCmd
<1>2. PICK signum :
        doing' = [what |-> "read", signum |-> signum, last |-> 0, children |-> << >>,
                  before |-> procs, taken |-> DOMAIN procs]
  BY DEF Processes!KillCmd
<1>3. ProcessTypes'
  BY <1>1 DEF ProcessInv, ProcessTypes
<1>4. Family'
  BY <1>1 DEF ProcessInv, Family
<1>5. DoingTypes'
  BY <1>2 DEF DoingTypes
<1>6. InTheMiddle'
  <2>1. doing'.what = "read" /\ doing'.taken = DOMAIN procs /\ DOMAIN doing'.children = {}
    BY <1>2
  <2>2. PICK N \in Nat : N >= 1 /\ machine.pids = 1..N
    BY DEF ProcessInv, ProcessTypes, ProcessSetting
  <2>3. AreChildren(doing'.children, N)
    BY <2>1, <2>2 DEF AreChildren
  <2> DEFINE own == [n \in Nat |-> runs]
  <2>4. own \in [Nat -> Nat] /\ own[pid] = runs
    BY DEF ProcessInv, ProcessTypes
  <2> HIDE DEF own
  <2>5. \E o \in [Nat -> Nat] : Labelled(o)'
    <3>1. own' = own
      BY <1>1 DEF own
    <3> QED  BY <1>1, <2>1, <2>4 DEF Labelled
  <2> QED  BY <1>1, <2>1, <2>2, <2>3, <2>5 DEF InTheMiddle
<1>7. Processes!KillsItsOwn'
  BY <1>1 DEF ProcessInv, Processes!KillsItsOwn
<1> QED
  BY <1>3, <1>4, <1>5, <1>6, <1>7 DEF ProcessInv

\* The children with q, which has the given parent, read as well.
ReadToo(children, parent, q) ==
  Processes!With([r \in DOMAIN children |-> IF r = parent THEN Append(children[r], q)
                                            ELSE children[r]],
                 q, << >>)

\* It comes after all that was read before it.
ComesNext(children, q, N) ==
  AreChildren(children, N) /\ q \in 1..N /\ \A r \in DOMAIN children : r < q

\* It has none, and its parent has it when that was read.
HasItToo(next, children, parent, q, N) ==
  /\ AreChildren(next, N) /\ q \notin DOMAIN children
  /\ DOMAIN next = DOMAIN children \cup {q}
  /\ \A r \in DOMAIN children : \A k \in DOMAIN next[r] :
       \/ k \in DOMAIN children[r] /\ next[r][k] = children[r][k]
          /\ children[r][k] \in DOMAIN children
       \/ r = parent /\ next[r][k] = q
  /\ DOMAIN next[q] = {}

\* So it is with the children when one process more is read.
LEMMA ChildrenRead ==
  ASSUME NEW children, NEW parent, NEW q, NEW N, ComesNext(children, q, N)
  PROVE  HasItToo(ReadToo(children, parent, q), children, parent, q, N)
<1> DEFINE next == ReadToo(children, parent, q)
<1>1. /\ AreChildren(children, N) /\ q \in 1..N
      /\ \A r \in DOMAIN children : r < q
  BY DEF ComesNext
<1>2. N \in Nat /\ DOMAIN children \subseteq 1..N
  BY <1>1 DEF AreChildren
<1>3. q \notin DOMAIN children
  BY <1>2, <1>1
<1>4. /\ DOMAIN next = DOMAIN children \cup {q} /\ next[q] = << >>
      /\ \A r \in DOMAIN children :
           next[r] = IF r = parent THEN Append(children[r], q) ELSE children[r]
  BY <1>3 DEF ReadToo, Processes!With
<1> HIDE DEF next
<1>5. ASSUME NEW r \in DOMAIN children
      PROVE  /\ next[r] \in Seq(DOMAIN next)
             /\ \A k \in DOMAIN next[r] :
                  /\ next[r][k] > r
                  /\ \/ k \in DOMAIN children[r] /\ next[r][k] = children[r][k]
                        /\ children[r][k] \in DOMAIN children
                     \/ r = parent /\ next[r][k] = q
  <2> DEFINE C == DOMAIN children
             D == DOMAIN next
             c == children[r]
             e == next[r]
  <2>1. c \in Seq(C) /\ \A k \in DOMAIN c : c[k] > r
    BY <1>1 DEF AreChildren
  <2>2. r < q
    BY <1>1
  <2>3. C \subseteq D /\ q \in D
    BY <1>4
  <2>4. e = IF r = parent THEN Append(c, q) ELSE c
    BY <1>4
  <2> HIDE DEF C, D, c, e
  <2>5. /\ Len(c) \in Nat /\ DOMAIN c = 1..Len(c) /\ c \in Seq(D)
        /\ \A k \in DOMAIN c : c[k] \in C
    <3>1. Len(c) \in Nat /\ DOMAIN c = 1..Len(c)
      BY <2>1, LenProperties
    <3>2. \A k \in DOMAIN c : c[k] \in C
      BY <2>1, <3>1
    <3>3. c \in Seq(D)
      <4>1. \A k \in DOMAIN c : c[k] \in D
        BY <2>3, <3>2
      <4> QED  BY <2>1, <4>1
    <3> QED  BY <3>1, <3>2, <3>3
  <2>6. CASE r # parent
    BY <2>1, <2>4, <2>5, <2>6 DEF D, C, c, e
  <2>7. CASE r = parent
    <3>1. /\ e \in Seq(D) /\ DOMAIN e = 1..(Len(c) + 1)
          /\ \A k \in DOMAIN c : e[k] = c[k]
          /\ e[Len(c) + 1] = q
      BY <2>3, <2>4, <2>5, <2>7
    <3>2. ASSUME NEW k \in DOMAIN e
          PROVE  e[k] > r /\ ((k \in DOMAIN c /\ e[k] = c[k] /\ c[k] \in C) \/ e[k] = q)
      BY <2>1, <2>2, <2>5, <3>1
    <3> QED  BY <2>7, <3>1, <3>2 DEF D, C, c, e
  <2> QED  BY <2>6, <2>7
<1>6. DOMAIN next[q] = {} /\ next[q] \in Seq(DOMAIN next)
  <2> DEFINE D == DOMAIN next
             e == next[q]
  <2>1. e = << >>
    BY <1>4
  <2> HIDE DEF D, e
  <2>2. DOMAIN e = {} /\ e \in Seq(D)
    BY <2>1
  <2> QED  BY <2>2 DEF D, e
<1>7. AreChildren(next, N)
  BY <1>2, <1>4, <1>5, <1>6, <1>1 DEF AreChildren
<1> QED
  BY <1>3, <1>4, <1>5, <1>6, <1>7 DEF HasItToo, next

\* The deputy reads the next process, and its parent has it when that was read.
LEMMA ReadingNext == ASSUME ProcessSetting, ProcessInv, Processes!ReadNext PROVE ProcessInv'
<1>1. /\ doing.what = "read"
      /\ machine' = machine /\ procs' = procs /\ pid' = pid /\ zombie' = zombie
      /\ killed' = killed /\ runs' = runs
  BY DEF Processes!ReadNext
<1>2. PICK q \in DOMAIN procs :
        /\ q > doing.last
        /\ doing' =
             [doing EXCEPT
                !.last = q,
                !.children =
                  IF ~Processes!IsRead(q) THEN @
                  ELSE Processes!With(
                         [r \in DOMAIN @ |-> IF r = procs[q].parent THEN Append(@[r], q)
                                             ELSE @[r]], q, << >>)]
  BY DEF Processes!ReadNext
<1> DEFINE parent == procs[q].parent
           children == doing.children
           next == ReadToo(children, parent, q)
           C2 == IF Processes!IsRead(q) THEN next ELSE children
<1>3. /\ DOMAIN doing' = DOMAIN doing /\ doing'.what = "read" /\ doing'.taken = doing.taken
      /\ doing'.last = q /\ doing'.children = C2
  <2>1. {"what", "taken", "last", "children"} \subseteq DOMAIN doing
    BY <1>1 DEF ProcessInv, DoingTypes
  <2>2. doing' = [doing EXCEPT !.last = q, !.children = C2]
    BY <1>2 DEF ReadToo
  <2> HIDE DEF C2
  <2> QED  BY <1>1, <2>1, <2>2
<1>4. PICK N \in Nat : N >= 1 /\ machine.pids = 1..N /\ AreChildren(children, N)
  BY <1>1 DEF ProcessInv, InTheMiddle
<1>5. PICK own \in [Nat -> Nat] : Labelled(own)
  BY <1>1 DEF ProcessInv, InTheMiddle
<1>6. /\ q \in 1..N /\ doing.last \in Nat /\ pid \in DOMAIN procs /\ pid # 0
      /\ DOMAIN procs \subseteq doing.taken /\ DOMAIN children \subseteq doing.taken
      /\ procs[q] \in [parent : Nat, session : Nat, run : Nat]
  BY <1>1, <1>4 DEF ProcessInv, ProcessTypes, DoingTypes, Family, InTheMiddle
<1>7. /\ q \in Nat /\ pid \in Nat /\ DOMAIN children \subseteq Nat /\ q > doing.last
       /\ DOMAIN children \subseteq 1..N
  <2>1. pid \in Nat
    BY DEF ProcessInv, ProcessTypes
  <2>2. DOMAIN children \subseteq 1..N
    BY <1>4 DEF AreChildren
  <2>3. q > doing.last
    BY <1>2
  <2>4. DOMAIN children \subseteq Nat /\ q \in Nat
    BY <1>6, <2>2
  <2> QED  BY <2>1, <2>2, <2>3, <2>4
<1>8. \A r \in DOMAIN children :
        /\ r <= doing.last
        /\ r \in DOMAIN procs => procs[r].run = own[r]
        /\ r # Processes!Initd => \A k \in DOMAIN children[r] : own[children[r][k]] = own[r]
  BY <1>5 DEF Labelled
<1>9. ProcessTypes'
  BY <1>1 DEF ProcessInv, ProcessTypes
<1>10. Family'
  BY <1>1 DEF ProcessInv, Family
<1>11. DoingTypes'
  BY <1>3, <1>6, <1>1 DEF ProcessInv, DoingTypes
<1>12. ASSUME Processes!IsRead(q)
       PROVE  /\ AreChildren(next, N) /\ q \notin DOMAIN children
              /\ DOMAIN next = DOMAIN children \cup {q}
              /\ \A r \in DOMAIN children : \A k \in DOMAIN next[r] :
                   \/ k \in DOMAIN children[r] /\ next[r][k] = children[r][k]
                      /\ children[r][k] \in DOMAIN children
                   \/ r = parent /\ next[r][k] = q
              /\ DOMAIN next[q] = {}
  <2> HIDE DEF children, parent
  <2>1. ComesNext(children, q, N)
    <3>1. \A r \in DOMAIN children : r < q
      <4>1. PICK last : last = doing.last
        OBVIOUS
      <4>2. last \in Nat /\ q > last /\ \A r \in DOMAIN children : r <= last
        BY <1>6, <1>8, <1>7, <4>1
      <4> QED  BY <1>7, <4>2
    <3> QED  BY <1>4, <1>6, <3>1 DEF ComesNext
  <2>2. HasItToo(ReadToo(children, parent, q), children, parent, q, N)
    BY <2>1, ChildrenRead
  <2> QED  BY <2>2 DEF HasItToo
<1> HIDE DEF next
<1>13. AreChildren(C2, N) /\ DOMAIN C2 \subseteq doing.taken
  BY <1>4, <1>6, <1>12
<1> DEFINE own2 == IF Processes!IsRead(q) THEN [own EXCEPT ![q] = procs[q].run] ELSE own
<1>14. own2 \in [Nat -> Nat]
  <2>1. q \in Nat /\ procs[q].run \in Nat
    BY <1>6
  <2> QED  BY <2>1
<1>15. /\ own2[pid] = runs
       /\ \A r \in DOMAIN C2 :
            /\ r <= q
            /\ r \in DOMAIN procs => procs[r].run = own2[r]
            /\ r # Processes!Initd => \A k \in DOMAIN C2[r] : own2[C2[r][k]] = own2[r]
  <2>1. CASE ~Processes!IsRead(q)
    <3>1. C2 = children /\ own2 = own
      BY <2>1
    <3>2. own[pid] = runs
      BY <1>5 DEF Labelled
    <3>3. \A r \in DOMAIN children : r <= q
      BY <1>6, <1>8, <1>7
    <3> QED  BY <1>8, <3>1, <3>2, <3>3
  <2>2. CASE Processes!IsRead(q)
    <3>1. C2 = next /\ own2 = [own EXCEPT ![q] = procs[q].run]
      BY <2>2
    <3>2. q \in Nat /\ pid \in Nat /\ DOMAIN children \subseteq Nat
      BY <1>7
    <3> HIDE DEF C2, own2, children, parent
    <3>3. own2[q] = procs[q].run /\ \A r \in Nat : r # q => own2[r] = own[r]
      BY <3>1, <3>2
    <3>4. own2[pid] = runs
      <4>1. own[pid] = runs
        BY <1>5 DEF Labelled
      <4>2. procs[pid].run = runs
        BY <1>6 DEF ProcessInv, Family
      <4> QED  BY <3>2, <3>3, <4>1, <4>2
    <3>5. \A r \in DOMAIN next : r <= q
      BY <1>6, <1>8, <1>12, <1>7, <2>2
    <3>6. \A r \in DOMAIN next : r \in DOMAIN procs => procs[r].run = own2[r]
      BY <1>8, <1>12, <2>2, <3>2, <3>3
    <3>7. ASSUME NEW r \in DOMAIN next, r # Processes!Initd, NEW k \in DOMAIN next[r]
          PROVE  own2[next[r][k]] = own2[r]
      <4>1. r \in DOMAIN children /\ r # q /\ r \in Nat
        BY <1>12, <2>2, <3>2, <3>7
      <4>2. CASE k \in DOMAIN children[r] /\ next[r][k] = children[r][k]
                 /\ children[r][k] \in DOMAIN children
        <5>1. children[r][k] # q /\ children[r][k] \in Nat
          BY <1>12, <2>2, <3>2, <4>2
        <5>2. own[children[r][k]] = own[r]
          BY <1>8, <3>7, <4>1, <4>2
        <5> QED  BY <3>3, <4>1, <4>2, <5>1, <5>2
      <4>3. CASE r = parent /\ next[r][k] = q
        <5>1. parent \notin {0, Processes!Initd}
          BY <1>4, <3>7, <4>1, <4>3 DEF AreChildren
        <5>2. r \in DOMAIN procs /\ procs[r].run = procs[q].run
          BY <4>3, <5>1 DEF ProcessInv, Family, parent
        <5> QED  BY <1>8, <3>3, <4>1, <4>3, <5>2
      <4> QED  BY <1>12, <2>2, <4>1, <4>2, <4>3
    <3> QED  BY <3>1, <3>4, <3>5, <3>6, <3>7
  <2> QED  BY <2>1, <2>2
<1> HIDE DEF C2, own2, children
<1>16. \E o \in [Nat -> Nat] : Labelled(o)'
  <2>1. PICK o : o = own2
    OBVIOUS
  <2>2. Labelled(o)'
    BY <1>1, <1>3, <1>15, <2>1 DEF Labelled
  <2> QED  BY <1>14, <2>1, <2>2
<1>17. InTheMiddle'
  <2>1. \E M \in Nat : M >= 1 /\ machine'.pids = 1..M /\ AreChildren(doing'.children, M)
    BY <1>1, <1>3, <1>4, <1>13
  <2> QED  BY <1>1, <1>3, <1>6, <1>13, <1>16, <2>1 DEF InTheMiddle
<1>18. Processes!KillsItsOwn'
  BY <1>1 DEF ProcessInv, Processes!KillsItsOwn
<1> QED
  BY <1>9, <1>10, <1>11, <1>17, <1>18 DEF ProcessInv

\* A process of the run that is to end is killed for that run, one that is gone for none.
LEMMA SentTo ==
  ASSUME ProcessInv, NEW q, NEW signum, q \in DOMAIN procs => procs[q].run = runs,
         killed' = Processes!Sent(q, signum), procs' = procs, runs' = runs, machine' = machine,
         pid' = pid, zombie' = zombie
  PROVE  ProcessTypes' /\ Family' /\ Processes!KillsItsOwn'
<1>1. /\ DOMAIN killed \subseteq DOMAIN procs
      /\ \A r \in DOMAIN killed : procs[r].run = killed[r]
  BY DEF ProcessInv, ProcessTypes, Processes!KillsItsOwn
<1>2. DOMAIN killed' \subseteq DOMAIN procs /\ \A r \in DOMAIN killed' : procs[r].run = killed'[r]
  <2>1. CASE killed' = killed
    BY <1>1, <2>1
  <2>2. CASE killed' # killed
    <3>1. q \in DOMAIN procs /\ killed' = [r \in DOMAIN killed \cup {q} |->
                                            IF r = q THEN runs ELSE killed[r]]
      BY <2>2 DEF Processes!Sent, Processes!With
    <3> QED  BY <1>1, <3>1
  <2> QED  BY <2>1, <2>2
<1>3. ProcessTypes'
  BY <1>2 DEF ProcessInv, ProcessTypes
<1>4. Family'
  BY DEF ProcessInv, Family
<1>5. Processes!KillsItsOwn'
  BY <1>2 DEF Processes!KillsItsOwn
<1> QED
  BY <1>3, <1>4, <1>5

\* When all are read the child is signalled, and what was found below it is of its run.
LEMMA SignallingChild ==
  ASSUME ProcessSetting, ProcessInv, Processes!SignalChild PROVE ProcessInv'
<1> DEFINE children == doing.children
           list == Processes!Descendants(children, pid)
<1>1. /\ doing.what = "read"
      /\ machine' = machine /\ procs' = procs /\ pid' = pid /\ zombie' = zombie
      /\ killed' = Processes!Sent(pid, doing.signum) /\ runs' = runs
      /\ doing' = [what |-> "signal", signum |-> doing.signum, taken |-> doing.taken,
                   list |-> list]
  BY DEF Processes!SignalChild
<1>2. pid # 0 /\ pid \in DOMAIN procs /\ procs[pid].run = runs /\ pid # Processes!Initd
  BY <1>1 DEF ProcessInv, InTheMiddle, Family
<1>3. ProcessTypes' /\ Family' /\ Processes!KillsItsOwn'
  BY <1>1, <1>2, SentTo
<1>4. PICK N \in Nat : N >= 1 /\ machine.pids = 1..N /\ AreChildren(children, N)
  BY <1>1 DEF ProcessInv, InTheMiddle
<1>5. PICK own \in [Nat -> Nat] : Labelled(own)
  BY <1>1 DEF ProcessInv, InTheMiddle
<1> DEFINE L == { n \in Nat : n # Processes!Initd /\ own[n] = runs }
           taken == doing.taken
<1>6. /\ DOMAIN children \subseteq taken /\ DOMAIN procs \subseteq taken
      /\ DOMAIN children \subseteq 1..N /\ DOMAIN procs \subseteq 1..N
  BY <1>1, <1>4 DEF ProcessInv, ProcessTypes, InTheMiddle, AreChildren
<1>7. own[pid] = runs /\ \A q \in DOMAIN children :
        /\ q \in DOMAIN procs => procs[q].run = own[q]
        /\ q # Processes!Initd => \A k \in DOMAIN children[q] : own[children[q][k]] = own[q]
  BY <1>5 DEF Labelled
<1>8. ASSUME NEW q \in DOMAIN children \cap L, NEW k \in DOMAIN children[q]
      PROVE  children[q][k] \in L
  <2>1. children[q] \in Seq(DOMAIN children) /\ children[q][k] > q
    BY <1>4 DEF AreChildren
  <2>2. children[q][k] \in DOMAIN children
    <3> DEFINE C == DOMAIN children
               c == children[q]
    <3>1. c \in Seq(C) /\ k \in DOMAIN c
      BY <2>1
    <3> HIDE DEF C, c
    <3>2. c[k] \in C
      BY <3>1
    <3> QED  BY <3>2 DEF C, c
  <2>3. q \in Nat /\ q >= 1 /\ children[q][k] \in Nat
    BY <1>4, <1>6, <2>2
  <2>4. children[q][k] # Processes!Initd
    BY <2>1, <2>3 DEF Processes!Initd
  <2>5. own[children[q][k]] = runs
    BY <1>7
  <2> QED  BY <2>3, <2>4, <2>5
<1>9. pid \in 1..N /\ pid \in L
  BY <1>2, <1>6, <1>7
<1> DEFINE K == DOMAIN children \cap L
<1>10. list \in Seq(K)
  <2>1. PICK c, m : c = children /\ m = L
    OBVIOUS
  <2> HIDE DEF children, L
  <2>2. \A q \in DOMAIN c \cap m : \A k \in DOMAIN c[q] : c[q][k] \in m
    BY <1>8, <2>1
  <2>3. AreChildren(c, N) /\ pid \in m
    BY <1>4, <1>9, <2>1
  <2>4. Processes!Descendants(c, pid) \in Seq(DOMAIN c \cap m)
    BY <1>4, <1>9, <2>2, <2>3, DescendantsAreAlike
  <2> QED  BY <2>1, <2>4
<1>11. DoingTypes' /\ doing'.what = "signal" /\ doing'.taken = taken /\ doing'.list = list
  BY <1>1 DEF DoingTypes
<1>12. \A q \in K : q \in taken /\ (q \in DOMAIN procs => procs[q].run = runs)
  BY <1>6, <1>7
<1> HIDE DEF K, list, taken
<1>13. /\ list \in Seq(taken)
       /\ \A k \in DOMAIN list : list[k] \in DOMAIN procs => procs[list[k]].run = runs
  <2>1. \A k \in DOMAIN list : list[k] \in K
    BY <1>10
  <2>2. \A k \in DOMAIN list : list[k] \in taken
    BY <1>12, <2>1
  <2>3. list \in Seq(taken)
    BY <1>10, <2>2
  <2> QED  BY <1>12, <2>1, <2>3
<1>14. InTheMiddle'
  <2>1. DOMAIN procs \subseteq taken
    BY <1>6 DEF taken
  <2> QED  BY <1>1, <1>2, <1>11, <1>13, <2>1 DEF InTheMiddle
<1> QED
  BY <1>3, <1>11, <1>14 DEF ProcessInv

\* The descendants are signalled one by one.
LEMMA SignallingDescendant ==
  ASSUME ProcessSetting, ProcessInv, Processes!SignalDescendant PROVE ProcessInv'
<1> DEFINE list == doing.list
           taken == doing.taken
<1>1. /\ doing.what = "signal" /\ list # << >>
      /\ machine' = machine /\ procs' = procs /\ pid' = pid /\ zombie' = zombie /\ runs' = runs
      /\ killed' = Processes!Sent(Head(list), doing.signum)
      /\ doing' = [doing EXCEPT !.list = Tail(@)]
  BY DEF Processes!SignalDescendant
<1>2. /\ list \in Seq(taken) /\ pid # 0 /\ DOMAIN procs \subseteq taken
      /\ \A k \in DOMAIN list : list[k] \in DOMAIN procs => procs[list[k]].run = runs
  BY <1>1 DEF ProcessInv, InTheMiddle
<1>3. {"what", "taken", "list"} \subseteq DOMAIN doing
  BY <1>1 DEF ProcessInv, DoingTypes
<1>4. /\ doing'.what = "signal" /\ doing'.taken = taken /\ doing'.list = Tail(list)
      /\ DOMAIN doing' = DOMAIN doing
  BY <1>1, <1>3
<1> HIDE DEF list, taken
<1>5. /\ Head(list) \in DOMAIN procs => procs[Head(list)].run = runs
      /\ Tail(list) \in Seq(taken)
      /\ \A k \in DOMAIN Tail(list) : k + 1 \in DOMAIN list /\ Tail(list)[k] = list[k + 1]
  BY <1>1, <1>2, LenProperties
<1>6. ProcessTypes' /\ Family' /\ Processes!KillsItsOwn'
  BY <1>1, <1>5, SentTo
<1>7. DoingTypes'
  BY <1>3, <1>4 DEF DoingTypes
<1>8. InTheMiddle'
  <2>1. \A k \in DOMAIN Tail(list) :
          Tail(list)[k] \in DOMAIN procs => procs[Tail(list)[k]].run = runs
    BY <1>2, <1>5
  <2> QED  BY <1>1, <1>2, <1>4, <1>5, <2>1 DEF InTheMiddle
<1> QED
  BY <1>6, <1>7, <1>8 DEF ProcessInv

\* The child has ended: it goes, and nobody had it as parent any more.
LEMMA Reaping == ASSUME ProcessSetting, ProcessInv, Processes!Reap PROVE ProcessInv'
<1>1. /\ doing = Processes!Idle /\ zombie /\ pid' = 0 /\ zombie' = FALSE
      /\ machine' = machine /\ runs' = runs
      /\ procs' = Processes!Without(procs, pid) /\ killed' = Processes!Without(killed, pid)
      /\ doing' = [what |-> "reap", child |-> pid, list |-> descendants_to_kill,
                   taken |-> DOMAIN procs]
  BY DEF Processes!Reap
<1>2. /\ DOMAIN procs' = DOMAIN procs \ {pid} /\ \A r \in DOMAIN procs' : procs'[r] = procs[r]
      /\ DOMAIN killed' = DOMAIN killed \ {pid}
      /\ \A r \in DOMAIN killed' : killed'[r] = killed[r]
  BY <1>1 DEF Processes!Without
<1>3. /\ pid # 0 /\ pid \in DOMAIN procs /\ pid # Processes!Initd
      /\ \A r \in DOMAIN procs : procs[r].parent # pid
      /\ \A r \in DOMAIN procs : procs[r].session = pid => procs[r].run = runs
  BY <1>1 DEF ProcessInv, Family
<1>4. ProcessTypes'
  <2>1. pid' \in Nat /\ runs' \in Nat
    BY <1>1 DEF ProcessInv, ProcessTypes
  <2>2. zombie' \in BOOLEAN
    BY <1>1
  <2> QED  BY <1>1, <1>2, <2>1, <2>2 DEF ProcessInv, ProcessTypes
<1>5. Family'
  <2>1. ASSUME NEW r \in DOMAIN procs', procs'[r].parent \notin {0, Processes!Initd}
        PROVE  /\ procs'[r].parent \in DOMAIN procs'
               /\ procs'[procs'[r].parent].run = procs'[r].run
    <3>1. /\ procs'[r] = procs[r] /\ procs[r].parent \in DOMAIN procs
          /\ procs[procs[r].parent].run = procs[r].run
      BY <1>2, <2>1 DEF ProcessInv, Family
    <3> QED  BY <1>2, <1>3, <3>1
  <2>2. Processes!Initd \in DOMAIN procs' /\ procs'[Processes!Initd].parent = 0
    BY <1>2, <1>3 DEF ProcessInv, Family
  <2> QED  BY <1>1, <2>1, <2>2 DEF Family
<1>6. DoingTypes'
  BY <1>1 DEF DoingTypes
<1>7. InTheMiddle'
  <2>1. doing'.what = "reap" /\ doing'.child = pid /\ doing'.taken = DOMAIN procs
    BY <1>1
  <2> QED  BY <1>1, <1>2, <1>3, <2>1 DEF InTheMiddle
<1>8. Processes!KillsItsOwn'
  BY <1>2 DEF ProcessInv, ProcessTypes, Processes!KillsItsOwn
<1> QED
  BY <1>4, <1>5, <1>6, <1>7, <1>8 DEF ProcessInv

\* What is left in the list, and in the session of the child, is of its run.
LEMMA CheckingOrphan ==
  ASSUME ProcessSetting, ProcessInv, Processes!CheckOrphan PROVE ProcessInv'
<1> DEFINE q == Head(doing.list)
<1>1. /\ doing.what = "reap"
      /\ machine' = machine /\ procs' = procs /\ pid' = pid /\ zombie' = zombie /\ runs' = runs
      /\ killed' = IF Processes!IsOrphanedChildOf(q, doing.child)
                   THEN Processes!Sent(q, KillSignal) ELSE killed
      /\ doing' = [doing EXCEPT !.list = Tail(@)]
  BY DEF Processes!CheckOrphan
<1>2. /\ pid = 0 /\ doing.child \in doing.taken /\ DOMAIN procs \subseteq doing.taken
      /\ \A r \in DOMAIN procs : procs[r].session = doing.child => procs[r].run = runs
  BY <1>1 DEF ProcessInv, InTheMiddle
<1>3. {"what", "taken", "list", "child"} \subseteq DOMAIN doing
  BY <1>1 DEF ProcessInv, DoingTypes
<1>4. /\ doing'.what = "reap" /\ doing'.taken = doing.taken /\ doing'.child = doing.child
      /\ DOMAIN doing' = DOMAIN doing
  BY <1>1, <1>3
<1> HIDE DEF q
<1>5. ProcessTypes' /\ Family' /\ Processes!KillsItsOwn'
  <2>1. CASE Processes!IsOrphanedChildOf(q, doing.child)
    <3>1. q \in DOMAIN procs => procs[q].run = runs
      BY <1>2, <2>1 DEF Processes!IsOrphanedChildOf
    <3> QED  BY <1>1, <2>1, <3>1, SentTo
  <2>2. CASE ~Processes!IsOrphanedChildOf(q, doing.child)
    BY <1>1, <2>2 DEF ProcessInv, ProcessTypes, Family, Processes!KillsItsOwn
  <2> QED  BY <2>1, <2>2
<1>6. DoingTypes'
  BY <1>3, <1>4 DEF DoingTypes
<1>7. InTheMiddle'
  BY <1>1, <1>2, <1>4 DEF InTheMiddle
<1> QED
  BY <1>5, <1>6, <1>7 DEF ProcessInv

\* No step has a process of no run, or of another run, killed.
LEMMA ProcessStays ==
  ASSUME ProcessSetting, ProcessInv, [Processes!Next]_Processes!vars PROVE ProcessInv'
<1>1. ASSUME Processes!Done PROVE ProcessInv'
  <2>1. /\ machine' = machine /\ procs' = procs /\ pid' = pid /\ zombie' = zombie
        /\ runs' = runs /\ killed' = killed /\ doing' = Processes!Idle
    BY <1>1 DEF Processes!Done
  <2>2. DoingTypes' /\ InTheMiddle'
    BY <2>1 DEF DoingTypes, InTheMiddle, Processes!Idle
  <2> QED
    BY <2>1, <2>2 DEF ProcessInv, ProcessTypes, Family, Processes!KillsItsOwn
<1>2. ASSUME UNCHANGED Processes!vars PROVE ProcessInv'
  <2>1. /\ machine' = machine /\ procs' = procs /\ pid' = pid /\ zombie' = zombie
        /\ runs' = runs /\ killed' = killed /\ doing' = doing
    BY <1>2 DEF Processes!vars
  <2>2. \A own : Labelled(own) => Labelled(own)'
    BY <2>1 DEF Labelled
  <2> QED
    BY <2>1, <2>2 DEF ProcessInv, ProcessTypes, DoingTypes, Family, InTheMiddle,
                      Processes!KillsItsOwn
<1> QED
  BY <1>1, <1>2, Forking, Ending, Starting, BeginningToKill, ReadingNext, SignallingChild,
     SignallingDescendant, Reaping, CheckingOrphan DEF Processes!Next

\* What the deputy kills for a run of a command descends from that run, whatever processes come
\* and go while it reads them, and whoever has by now a number that it remembers
\* (procinfo_get_descendants, procman_kill_cmd, procinfo_is_orphaned_child_of).
THEOREM OnlyItsOwnAreKilled ==
  ASSUME ProcessSetting PROVE Processes!Spec => []KillsItsOwn
<1>1. Processes!Init => ProcessInv
  BY ProcessesBegin
<1>2. ProcessInv /\ [Processes!Next]_Processes!vars => ProcessInv'
  BY ProcessStays
<1>3. ProcessInv => KillsItsOwn
  BY DEF ProcessInv, KillsItsOwn
<1> QED
  BY <1>1, <1>2, <1>3, PTL DEF Processes!Spec

=============================================================================
