--------------------------- MODULE DeputyDiscovery ---------------------------
(***************************************************************************)
(* Deputies that are started under one name (procman_deputy.c).  A deputy    *)
(* spends its first DISCOVERY_TIME_MS asking whether there is another; then  *)
(* it serves, and answers those who ask.  LCM multicasts what one publishes  *)
(* to every deputy, itself included.                                        *)
(***************************************************************************)
EXTENDS Integers, FiniteSets

CONSTANTS
  Deputies,         \* processes, each with a pid of its own
  DiscoveryTicks,   \* timer periods within DISCOVERY_TIME_MS
  MaxLost           \* bound: messages that the network loses

Info == "info"      \* what all info messages are; a discovery message is its nonce

VARIABLES
  phase,            \* phase[d]: "down", "discovery", "serving" or "exited"
  ticks,            \* ticks[d]: timer periods since d started, while in discovery
  due,              \* due[d]: the 200 ms timer has yet to be dispatched
  arrived,          \* arrived[d]: messages that d has not handled
  lost              \* number of deliveries lost

vars == <<phase, ticks, due, arrived, lost>>

In(p) == { d \in Deputies : phase[d] = p }

Init ==
  /\ phase = [d \in Deputies |-> "down"]
  /\ ticks = [d \in Deputies |-> 0]
  /\ due = [d \in Deputies |-> FALSE]
  /\ arrived = [d \in Deputies |-> {}]
  /\ lost = 0

-----------------------------------------------------------------------------
(* Who hears a message is who subscribes to it in the next phase: everyone up  *)
(* to discovery messages, deputies in discovery to infos.                     *)

Hears(message) ==
  { d \in Deputies : phase'[d] \in IF message = Info THEN {"discovery"}
                                   ELSE {"discovery", "serving"} }

\* Every deputy that hears it gets it, but for those to whom it is lost.
Publish(message, inbox) ==
  \E unlucky \in SUBSET (Hears(message)) :
    /\ lost' = lost + Cardinality(unlucky) /\ lost' <= MaxLost
    /\ arrived' = [d \in Deputies |->
                     IF d \in Hears(message) \ unlucky THEN inbox[d] \cup {message}
                     ELSE inbox[d]]

\* main: it asks before its loop runs.
Start(d) ==
  /\ phase[d] = "down"
  /\ phase' = [phase EXCEPT ![d] = "discovery"]
  /\ Publish(d, arrived)
  /\ UNCHANGED <<ticks, due>>

\* discovery_timeout.  When the time is over it no longer listens to infos, and
\* reports; discovery messages under way go to the new subscription.
DiscoveryTimeout(d) ==
  /\ phase[d] = "discovery" /\ due[d]
  /\ due' = [due EXCEPT ![d] = FALSE]
  /\ IF ticks[d] < DiscoveryTicks
     THEN UNCHANGED phase /\ Publish(d, arrived)
     ELSE /\ phase' = [phase EXCEPT ![d] = "serving"]
          /\ Publish(Info, [arrived EXCEPT ![d] = @ \ {Info}])
  /\ UNCHANGED ticks

\* Defect: only the periodic report tells that a deputy is there.
OnDiscoveryUnanswered(d, nonce) ==
  /\ nonce \in arrived[d]
  /\ phase' = IF phase[d] = "discovery" /\ nonce # d
              THEN [phase EXCEPT ![d] = "exited"] ELSE phase
  /\ arrived' = [arrived EXCEPT ![d] = IF phase'[d] = "exited" THEN {} ELSE @ \ {nonce}]
  /\ UNCHANGED <<ticks, due, lost>>

\* procman_deputy_discovery_received
OnDiscovery(d, nonce) ==
  /\ nonce \in arrived[d]
  /\ LET handled == [arrived EXCEPT ![d] = @ \ {nonce}]
     IN  IF phase[d] = "discovery"
         THEN /\ phase' = IF nonce # d THEN [phase EXCEPT ![d] = "exited"] ELSE phase
              /\ arrived' = IF nonce # d THEN [arrived EXCEPT ![d] = {}] ELSE handled
              /\ UNCHANGED lost
         ELSE UNCHANGED phase /\ Publish(Info, handled)
  /\ UNCHANGED <<ticks, due>>

\* procman_deputy_info2_received
OnInfo(d) ==
  /\ phase[d] = "discovery" /\ Info \in arrived[d]
  /\ phase' = [phase EXCEPT ![d] = "exited"]
  /\ arrived' = [arrived EXCEPT ![d] = {}]
  /\ UNCHANGED <<ticks, due, lost>>

\* one_second_timeout
Report(d) ==
  /\ phase[d] = "serving"
  /\ UNCHANGED <<phase, ticks, due>>
  /\ Publish(Info, arrived)

\* 200 ms pass.  That is long: what has arrived was handled before.
Time ==
  /\ In("discovery") # {}
  /\ \A d \in In("discovery") : ~due[d]
  /\ \A d \in In("discovery") \cup In("serving") : arrived[d] = {}
  /\ due' = [d \in Deputies |-> phase[d] = "discovery"]
  /\ ticks' = [d \in Deputies |-> IF phase[d] = "discovery" THEN ticks[d] + 1 ELSE 0]
  /\ UNCHANGED <<phase, arrived, lost>>

Next ==
  \/ \E d \in Deputies :
       \/ Start(d) \/ DiscoveryTimeout(d) \/ OnInfo(d) \/ Report(d)
       \/ \E nonce \in Deputies : OnDiscovery(d, nonce)
  \/ Time

Spec == Init /\ [][Next]_vars

-----------------------------------------------------------------------------
(* Property. *)

\* However deputies of one name overlap in starting, and although a message may be
\* lost to any of them as often as is less than a newcomer asks, at most one of
\* them gets to serve (discovery_timeout, procman_deputy_discovery_received).
AtMostOneServes == Cardinality(In("serving")) <= 1
=============================================================================
