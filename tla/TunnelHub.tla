------------------------------ MODULE TunnelHub ------------------------------
(***************************************************************************)
(* The tunnels of one server (lcm_tunnel_server.cpp, lcm_tunnel.cpp): how    *)
(* clients connect over TCP, settle on TCP or UDP and leave again, and how   *)
(* each message gets from one LCM network to all the others.  What a tunnel  *)
(* does to send it is the subject of LcmTunnel; here it is a queue.          *)
(***************************************************************************)
EXTENDS Integers, Sequences, FiniteSets, SequencesExt

CONSTANTS
  Clients,          \* processes that connect to the server, each on a network of its own
  Server,           \* the process that they connect to
  MaxMessages       \* bound: messages that programs publish

VARIABLES
  running,          \* processes that run
  isReady,          \* processes whose introspection has told them their own address
  inbox,            \* inbox[p]: what LCM has yet to hand to p
  params,           \* params[c]: does client c ask for UDP
  client, server,   \* tunnel_state of the tunnel at either end, or "none"
  upstream,         \* upstream[c]: from client c to the server
  downstream,       \* downstream[c]: from the server to client c
  origins,          \* origins[m]: the network where message m came from (history)
  audience,         \* audience[m]: who was connected over TCP then and still is (history)
  published         \* published[p]: what p has published on its network (history)

streamVars == <<params, client, server, upstream, downstream>>
historyVars == <<origins, audience, published>>
vars == <<running, isReady, inbox, streamVars, historyVars>>

Processes == Clients \cup {Server}

\* Messages have numbers from 1 up.  What is not a message: the introspection packet,
\* the parameters of a client, the port of the server, and an end of file or a disconnect
\* message.
Introspect == [id |-> 0, self |-> TRUE]
ClientMsg == -1
ServerMsg == -2
Goodbye == -3

\* initializeServer: the server asks LCM for its own address and does not wait for it.
Init ==
  /\ running = {Server} /\ isReady = {}
  /\ inbox = [p \in Processes |-> IF p = Server THEN <<Introspect>> ELSE << >>]
  /\ params = [c \in Clients |-> FALSE]
  /\ client = [c \in Clients |-> "none"] /\ server = [c \in Clients |-> "none"]
  /\ upstream = [c \in Clients |-> << >>] /\ downstream = [c \in Clients |-> << >>]
  /\ origins = << >> /\ audience = << >>
  /\ published = [p \in Processes |-> << >>]

-----------------------------------------------------------------------------
(* Connecting. *)

\* main and connectToServer: over TCP the client forwards at once; for UDP it first has
\* to learn the server's port.
ConnectToServer(c, udp) ==
  /\ client[c] = "none" /\ Server \in running
  /\ running' = running \cup {c}
  /\ inbox' = [inbox EXCEPT ![c] = <<Introspect>>]
  /\ params' = [params EXCEPT ![c] = udp]
  /\ client' = [client EXCEPT ![c] = IF udp THEN "SERVER_MSG" ELSE "RECV"]
  /\ upstream' = [upstream EXCEPT ![c] = <<ClientMsg>>]
  /\ UNCHANGED <<isReady, server, downstream, historyVars>>

\* acceptClient and connectToClient
AcceptClient(c) ==
  /\ client[c] # "none" /\ server[c] = "none" /\ Server \in running
  /\ server' = [server EXCEPT ![c] = "CLIENT_MSG"]
  /\ UNCHANGED <<running, isReady, inbox, params, client, upstream, downstream, historyVars>>

\* on_tcp_data, CLIENT_MSG_DATA: with UDP it answers and closes the TCP socket, whatever
\* was still to be read from it; either way it forwards from now on.
OnClientMsg(c) ==
  /\ Server \in running /\ server[c] = "CLIENT_MSG"
  /\ upstream[c] # << >> /\ Head(upstream[c]) = ClientMsg
  /\ server' = [server EXCEPT ![c] = "RECV"]
  /\ upstream' = [upstream EXCEPT ![c] = IF params[c] THEN << >> ELSE Tail(@)]
  /\ downstream' = [downstream EXCEPT ![c] = IF params[c] THEN <<ServerMsg>> ELSE << >>]
  /\ UNCHANGED <<running, isReady, inbox, params, client, historyVars>>

\* on_tcp_data, SERVER_MSG_DATA
OnServerMsg(c, n) ==
  /\ c \in running /\ client[c] = "SERVER_MSG" /\ downstream[c][n] = ServerMsg
  /\ client' = [client EXCEPT ![c] = "RECV"]
  /\ downstream' = [downstream EXCEPT ![c] = RemoveAt(@, n)]
  /\ UNCHANGED <<running, isReady, inbox, params, server, upstream, historyVars>>

-----------------------------------------------------------------------------
(* Messages. *)

\* Who is connected over TCP, for good and at both ends.
Joined ==
  {Server} \cup { c \in Clients \cap running :
                    ~params[c] /\ client[c] = "RECV" /\ server[c] = "RECV" }

\* A program publishes a message on the network of p.
ProgramPublishes(p) ==
  /\ p \in running /\ Len(origins) < MaxMessages
  /\ origins' = Append(origins, p)
  /\ inbox' = [inbox EXCEPT ![p] = Append(@, [id |-> Len(origins'), self |-> FALSE])]
  /\ audience' = Append(audience, IF p \in Joined THEN Joined \ {p} ELSE {})
  /\ UNCHANGED <<running, isReady, streamVars, published>>

\* The tunnels of the server that forward: they are subscribed and match any channel.
Forwarding == { c \in Clients : server[c] = "RECV" }

\* send_to_remote of these tunnels of the server.
SentDown(tunnels, id) ==
  [c \in Clients |-> IF c \in tunnels THEN Append(downstream[c], id) ELSE downstream[c]]

SentUp(tunnels, id) ==
  [c \in Clients |-> IF c \in tunnels THEN Append(upstream[c], id) ELSE upstream[c]]

\* Defect: tunnels also send what the process itself has published.
OnLcmMessageLoops(p) ==
  /\ p \in running /\ inbox[p] # << >> /\ Head(inbox[p]) # Introspect
  /\ inbox' = [inbox EXCEPT ![p] = Tail(@)]
  /\ downstream' = IF p = Server THEN SentDown(Forwarding, Head(inbox[p]).id) ELSE downstream
  /\ upstream' = IF p # Server /\ client[p] = "RECV"
                 THEN SentUp({p}, Head(inbox[p]).id) ELSE upstream
  /\ UNCHANGED <<running, isReady, params, client, server, historyVars>>

\* on_lcm_tunnel_introspect: the packet carries the address.
OnLcmTunnelIntrospect(p) ==
  /\ p \in running /\ inbox[p] # << >> /\ Head(inbox[p]) = Introspect
  /\ isReady' = isReady \cup {p}
  /\ inbox' = [inbox EXCEPT ![p] = Tail(@)]
  /\ UNCHANGED <<running, streamVars, historyVars>>

\* on_lcm_message of every tunnel of p that is subscribed.
OnLcmMessage(p) ==
  /\ p \in running /\ inbox[p] # << >> /\ Head(inbox[p]) # Introspect
  /\ inbox' = [inbox EXCEPT ![p] = Tail(@)]
  /\ LET m == Head(inbox[p])
         from_self == m.self /\ p \in isReady
     IN  /\ downstream' = IF p = Server /\ ~from_self THEN SentDown(Forwarding, m.id)
                          ELSE downstream
         /\ upstream' = IF p # Server /\ client[p] = "RECV" /\ ~from_self
                        THEN SentUp({p}, m.id) ELSE upstream
  /\ UNCHANGED <<running, isReady, params, client, server, historyVars>>

\* lcm_publish: p hears it too.
LcmPublish(p, id) ==
  /\ inbox' = [inbox EXCEPT ![p] = Append(@, [id |-> id, self |-> TRUE])]
  /\ published' = [published EXCEPT ![p] = Append(@, id)]

\* TCP gives what was sent first; UDP may lose it and give what was sent after it, and
\* what was sent by TCP is not touched by that.
Left(stream, n) ==
  (IF \E k \in 1 .. n - 1 : stream[k] = ServerMsg THEN <<ServerMsg>> ELSE << >>)
    \o SubSeq(stream, n + 1, Len(stream))

\* on_tcp_data (RECV_DATA) or publishLcmMessagesInBuf of the server: to all tunnels but
\* the one it came by, and to LCM.
ServerReceives(c, n) ==
  /\ Server \in running /\ server[c] = "RECV"
  /\ upstream[c][n] # Goodbye /\ (n = 1 \/ params[c])
  /\ upstream' = [upstream EXCEPT ![c] = Left(@, n)]
  /\ downstream' = SentDown(Forwarding \ {c}, upstream[c][n])
  /\ LcmPublish(Server, upstream[c][n])
  /\ UNCHANGED <<running, isReady, params, client, server, origins, audience>>

\* The same of a client, which has one tunnel.
ClientReceives(c, n) ==
  /\ c \in running /\ client[c] # "none"
  /\ downstream[c][n] \notin {Goodbye, ServerMsg}
  /\ (n = 1 \/ params[c])
  /\ downstream' = [downstream EXCEPT ![c] = Left(@, n)]
  /\ LcmPublish(c, downstream[c][n])
  /\ UNCHANGED <<running, isReady, params, client, server, upstream, origins, audience>>

-----------------------------------------------------------------------------
(* Leaving. *)

\* Nothing is claimed of what came from or was to go to processes that have ended.
Excused(gone) ==
  [m \in DOMAIN audience |-> IF origins[m] \in gone THEN {} ELSE audience[m] \ gone]

\* The end of a client: it closes its TCP socket, or sends a disconnect message if it
\* knows where to.
ClientQuits(c) ==
  /\ c \in running
  /\ running' = running \ {c}
  /\ upstream' = [upstream EXCEPT ![c] = Append(@, Goodbye)]
  /\ inbox' = [inbox EXCEPT ![c] = << >>]
  /\ downstream' = [downstream EXCEPT ![c] = << >>]
  /\ audience' = Excused({c})
  /\ UNCHANGED <<isReady, params, client, server, origins, published>>

\* The server crashes: those with whom it has a TCP socket read an end of file, the others
\* never know.
ServerEnds ==
  /\ running' = running \ {Server}
  /\ downstream' = [c \in Clients |-> IF c \in running /\ (~params[c] \/ server[c] # "RECV")
                                      THEN Append(downstream[c], Goodbye) ELSE downstream[c]]
  /\ upstream' = [c \in Clients |-> << >>]
  /\ inbox' = [inbox EXCEPT ![Server] = << >>]
  /\ audience' = Excused(Processes)
  /\ UNCHANGED <<isReady, params, client, server, origins, published>>

\* disconnectClient on the server.  A handler of UDP goes on to use the tunnel that was
\* deleted: that may end the server.
ServerDisconnects(c, n) ==
  /\ Server \in running /\ server[c] = "RECV"
  /\ upstream[c][n] = Goodbye /\ (n = 1 \/ params[c])
  /\ \/ /\ server' = [server EXCEPT ![c] = "gone"]
        /\ upstream' = [upstream EXCEPT ![c] = << >>]
        /\ UNCHANGED <<running, isReady, inbox, params, client, downstream, historyVars>>
     \/ params[c] /\ ServerEnds

\* disconnectClient on a client: it has no other tunnel and exits.
ClientDisconnects(c, n) ==
  /\ c \in running
  /\ downstream[c][n] = Goodbye /\ (n = 1 \/ params[c])
  /\ running' = running \ {c}
  /\ inbox' = [inbox EXCEPT ![c] = << >>]
  /\ downstream' = [downstream EXCEPT ![c] = << >>]
  /\ audience' = Excused({c})
  /\ UNCHANGED <<isReady, params, client, server, upstream, origins, published>>

-----------------------------------------------------------------------------
Next ==
  \/ \E c \in Clients :
        \/ \E udp \in BOOLEAN : ConnectToServer(c, udp)
        \/ AcceptClient(c) \/ OnClientMsg(c) \/ ClientQuits(c)
        \/ \E n \in DOMAIN upstream[c] : ServerReceives(c, n) \/ ServerDisconnects(c, n)
        \/ \E n \in DOMAIN downstream[c] :
              OnServerMsg(c, n) \/ ClientReceives(c, n) \/ ClientDisconnects(c, n)
  \/ \E p \in Processes : ProgramPublishes(p) \/ OnLcmTunnelIntrospect(p) \/ OnLcmMessage(p)

Spec == Init /\ [][Next]_vars

-----------------------------------------------------------------------------
(* Property. *)

\* Nothing is under way between processes that run and are connected over TCP.
Quiet ==
  \A p \in Joined :
    /\ inbox[p] = << >>
    /\ p # Server => upstream[p] = << >> /\ downstream[p] = << >>

\* A message is published at most once on each network, never again on the one it came
\* from, although every process hears what it publishes and the server has a tunnel back;
\* and it has come to all networks that were connected over TCP and still are
\* (check_and_send_to_tunnels, introspect_is_message_from_self).
OthersHearItOnce ==
  /\ \A p \in Processes :
        /\ IsInjective(published[p])
        /\ \A m \in Range(published[p]) : origins[m] # p
  /\ Quiet => \A m \in DOMAIN audience : \A p \in audience[m] : m \in Range(published[p])
=============================================================================
