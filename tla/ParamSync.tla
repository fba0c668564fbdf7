----------------------------- MODULE ParamSync -----------------------------
(***************************************************************************)
(* The parameter server and its clients (bot2-param): the server publishes  *)
(* its whole tree when it is asked to, whenever a parameter was set and     *)
(* every five seconds; a client takes the first tree it hears and then the *)
(* later ones of the same server.  Messages may be lost, and overtake each *)
(* other.                                                                  *)
(***************************************************************************)
EXTENDS Integers, ParamTree

CONSTANTS
  Clients,          \* programs that make a BotParam from the server
  MaxServers,       \* bound: how often a server is started
  File,             \* the statements of the parameter file
  Entries,          \* entries [path, value] that programs set
  Unreadable,       \* values that the parser refuses when written between quotes
  MaxSets,          \* bound: accepted entries, of all servers
  MaxInFlight       \* updates that the link to one client holds; more are lost

\* The identity of a server is the time it was started.
Servers == 1..MaxServers
Nobody == 0

VARIABLES
  servers,          \* servers[s]: is it up, its sequence number, its tree and the text of it
  network,          \* network[c]: the updates on their way to client c
  clients,          \* clients[c]: the BotParam of client c and where its thread is
  overrides,        \* overrides[c]: what client c has overridden (history)
  states            \* states[s]: what each state of server s reads as (history)

vars == <<servers, network, clients, overrides, states>>

NotStarted == [up |-> FALSE, seqNo |-> 0, params |-> NewParam, text |-> << >>]
NoUpdate == [server |-> Nobody]
NoParam == [phase |-> "none", keep_updated |-> FALSE, server_id |-> Nobody, sequence_number |-> 0,
            root |-> NewParam, incoming |-> NoUpdate]

Init ==
  /\ servers = [s \in Servers |-> NotStarted]
  /\ network = [c \in Clients |-> {}]
  /\ clients = [c \in Clients |-> NoParam]
  /\ overrides = [c \in Clients |-> << >>]
  /\ states = [s \in Servers |-> << >>]

\* Defect: whoever has parameters stays subscribed.
StillSubscribed(c) == clients[c].phase # "none"

\* c is subscribed to updates: it waits for its first, or is kept up to date.
Subscribed(c) ==
  \/ clients[c].phase = "waiting"
  \/ clients[c].phase = "ready" /\ clients[c].keep_updated

Update(s, seqNo, text) == [server |-> s, seqNo |-> seqNo, params |-> text]

\* bot_param_new_from_string gives nothing if a value ends or hides its own quote.
Readable(statements) ==
  \A n \in DOMAIN statements : Unreadable \cap Range(statements[n].values) = {}

Current(s) == Update(s, servers[s].seqNo, servers[s].text)

\* The network delivers to each client what it does not lose; heard says which.
Sent(updates, heard) ==
  /\ heard \subseteq { c \in Clients : Subscribed(c) } \X updates
  /\ network' = [c \in Clients |-> network[c] \cup { u \in updates : <<c, u>> \in heard }]
  /\ \A c \in Clients : Cardinality(network'[c]) <= MaxInFlight

-----------------------------------------------------------------------------
(* The server, which does one thing at a time. *)

StartServer(s) ==
  /\ states[s] = << >>
  /\ \A earlier \in 1..s - 1 : states[earlier] # << >>
  /\ LET params == NewFromString(File)
         text == Write(params)
     IN  /\ servers' = [servers EXCEPT ![s] =
                          [up |-> TRUE, seqNo |-> 0, params |-> params, text |-> text]]
         /\ states' = [states EXCEPT ![s] = << NewFromString(text) >>]
  /\ UNCHANGED <<network, clients, overrides>>

CrashServer(s) ==
  /\ servers[s].up
  /\ servers' = [servers EXCEPT ![s].up = FALSE]
  /\ UNCHANGED <<network, clients, overrides, states>>

\* publish_params, on a request (on_param_request) and every five seconds (on_timer).
PublishParams(s, heard) ==
  /\ servers[s].up
  /\ UNCHANGED <<servers, clients, overrides, states>>
  /\ Sent({Current(s)}, heard)

\* The trees that a set message leads to, one for each entry that could be set.
Trees(params, entries) ==
  LET after[n \in 0..Len(entries)] ==
        IF n = 0 THEN <<params>>
        ELSE LET before == after[n - 1]
                 entry == entries[n]
             IN  IF CanSet(Last(before), entry.path)
                 THEN Append(before, SetStr(Last(before), entry.path, entry.value)) ELSE before
  IN  after[Len(entries)]

\* on_param_set: each entry that could be set is a state of its own, published.
OnParamSet(s, entries) ==
  LET seqNo == servers[s].seqNo
      trees == Trees(servers[s].params, entries)
      texts == [n \in 1..Len(trees) - 1 |-> Write(trees[n + 1])]
      updates == { Update(s, seqNo + n, texts[n]) : n \in DOMAIN texts }
  IN  /\ servers[s].up
      /\ FoldFunctionOnSet(LAMBDA server, n : server.seqNo + n, 0, servers, Servers) + Len(texts) <= MaxSets
      /\ \E heard \in SUBSET (Clients \X updates) : Sent(updates, heard)
      /\ servers' = [servers EXCEPT ![s].seqNo = seqNo + Len(texts),
                                    ![s].params = Last(trees),
                                    ![s].text = IF texts = << >> THEN @ ELSE Last(texts)]
      /\ states' = [states EXCEPT ![s] =
                      @ \o [n \in DOMAIN texts |-> NewFromString(texts[n])]]
      /\ UNCHANGED <<clients, overrides>>

-----------------------------------------------------------------------------
(* The clients. *)

\* bot_param_new_from_named_server: subscribe, and ask for the parameters.
NewFromServer(c, keep_updated) ==
  /\ clients[c].phase = "none"
  /\ clients' = [clients EXCEPT ![c] = [NoParam EXCEPT !.phase = "waiting",
                                                      !.keep_updated = keep_updated]]
  /\ UNCHANGED <<servers, network, overrides, states>>

\* What a client takes: what the server it follows has since become.
IsNews(update, followed, known) ==
  update.server = followed /\ update.seqNo > known /\ Readable(update.params)

\* _on_param_update up to the callbacks.  The first update decides which server the
\* client follows, whether or not it can be read.
OnParamUpdate(c, update) ==
  LET me == clients[c]
      followed == IF me.server_id = Nobody THEN update.server ELSE me.server_id
      known == IF me.server_id = Nobody THEN update.seqNo - 1 ELSE me.sequence_number
  IN  /\ Subscribed(c) /\ me.incoming = NoUpdate
      /\ update \in network[c]
      /\ UNCHANGED <<servers, overrides, states>>
      /\ network' = [network EXCEPT ![c] = @ \ {update}]
      /\ clients' = [clients EXCEPT ![c].server_id = followed,
                                    ![c].sequence_number = known,
                                    ![c].incoming =
                                   IF IsNews(update, followed, known) THEN update ELSE NoUpdate]

\* Defect: the client counts the updates it takes.
Counted(me) ==
  [me EXCEPT !.sequence_number = @ + 1, !.root = NewFromString(me.incoming.params),
             !.incoming = NoUpdate]

Swapped(me) ==
  [me EXCEPT !.sequence_number = me.incoming.seqNo,
             !.root = NewFromString(me.incoming.params), !.incoming = NoUpdate]

\* ... and the end of it: the callbacks have returned, the root is swapped.
SwapRoot(c) ==
  /\ clients[c].incoming # NoUpdate
  /\ clients' = [clients EXCEPT ![c] = Swapped(@)]
  /\ UNCHANGED <<servers, network, overrides, states>>

\* lcm_sleep is over and there are parameters: a client that is not to be kept up
\* to date unsubscribes and follows nobody.
GotParams(c) ==
  /\ clients[c].phase = "waiting" /\ clients[c].incoming = NoUpdate
  /\ clients[c].root # NewParam
  /\ clients' = [clients EXCEPT ![c].phase = "ready",
                                ![c].server_id = IF clients[c].keep_updated THEN @ ELSE Nobody]
  /\ network' = [network EXCEPT ![c] = IF clients[c].keep_updated THEN @ ELSE {}]
  /\ UNCHANGED <<servers, overrides, states>>

\* Three seconds are over and there are none.
GiveUp(c) ==
  /\ clients[c].phase = "waiting" /\ clients[c].incoming = NoUpdate
  /\ clients[c].root = NewParam
  /\ clients' = [clients EXCEPT ![c] = NoParam]
  /\ network' = [network EXCEPT ![c] = {}]
  /\ UNCHANGED <<servers, overrides, states>>

\* bot_param_override_local_param: refused by a BotParam that follows a server.
Override(c, entry) ==
  /\ clients[c].phase = "ready" /\ clients[c].server_id = Nobody
  /\ CanSet(clients[c].root, entry.path)
  /\ clients' = [clients EXCEPT ![c].root = SetStr(@, entry.path, entry.value)]
  /\ overrides' = [overrides EXCEPT ![c] =
                     [p \in DOMAIN @ \cup {entry.path} |->
                        IF p = entry.path THEN entry.value ELSE @[p]]]
  /\ UNCHANGED <<servers, network, states>>

-----------------------------------------------------------------------------
(* Messages carry one entry, as those of the set tool do, or two. *)
SetMessages == { <<e>> : e \in Entries } \cup { <<e, f>> : e, f \in Entries }

Next ==
  \/ \E s \in Servers :
        \/ StartServer(s) \/ CrashServer(s)
        \/ \E heard \in SUBSET (Clients \X {Current(s)}) :
              PublishParams(s, heard)
        \/ \E entries \in SetMessages : OnParamSet(s, entries)
  \/ \E c \in Clients :
        \/ NewFromServer(c, TRUE) \/ NewFromServer(c, FALSE)
        \/ SwapRoot(c) \/ GotParams(c) \/ GiveUp(c)
        \/ \E update \in network[c] : OnParamUpdate(c, update)
        \/ \E entry \in Entries : Override(c, entry)

\* The timer of the server goes off for ever and the network does not lose every
\* update to a client; the client's thread handles what arrives, and not only what
\* is out of date.
Fairness ==
  \A c \in Clients :
    /\ WF_vars(\E update \in network[c] : OnParamUpdate(c, update))
    /\ WF_vars(SwapRoot(c))
    /\ \A s \in Servers :
         /\ SF_vars(PublishParams(s, {<<c, Current(s)>>}))
         /\ SF_vars(OnParamUpdate(c, Current(s)))

Spec == Init /\ [][Next]_vars /\ Fairness

-----------------------------------------------------------------------------
(* Properties. *)

Paths == UNION { {p} \cup Ancestors(p) :
                   p \in { e.path : e \in Entries } \cup { t.path : t \in Range(File) } }

IsTree(tree) ==
  /\ DOMAIN tree \subseteq Paths
  /\ \A p \in DOMAIN tree : Ancestors(p) \subseteq DOMAIN tree

\* Every tree is closed under ancestors and holds no path that nobody gave; the
\* sequence number of a client is one its server has reached (param_internal.c,
\* param_server.c).
TypeOK ==
  /\ \A s \in Servers :
        /\ servers[s].up \in BOOLEAN
        /\ IsTree(servers[s].params)
        /\ Len(states[s]) = IF states[s] = << >> THEN 0 ELSE servers[s].seqNo + 1
  /\ \A c \in Clients :
        /\ clients[c].phase \in {"none", "waiting", "ready"}
        /\ IsTree(clients[c].root)
        /\ \A s \in Servers :
              clients[c].server_id = s => clients[c].sequence_number \in -1..servers[s].seqNo
        /\ DOMAIN overrides[c] \subseteq DOMAIN clients[c].root

\* What a client has while it follows a server, and at which of its states.
Copy(c) ==
  IF clients[c].root = NewParam \/ clients[c].server_id = Nobody
  THEN NoUpdate
  ELSE [server |-> clients[c].server_id,
        position |-> clients[c].sequence_number + 1,
        params |-> clients[c].root]

Copies == INSTANCE ParamCopies WITH
  copies <- [c \in Clients |-> Copy(c)], Nothing <- NoUpdate

\* Whatever updates are lost, late or out of order, and however often servers are
\* started, a client that follows a server has exactly the parameters that this
\* server had at the client's sequence number, none of them newer or older than
\* the others, and never returns to earlier ones (_on_param_update).
CopiesOfOneServer == Copies!Spec

\* Once a program has overridden parameters of a BotParam that is not kept up to
\* date, they read as it set them: no update that was on its way undoes it
\* (bot_param_override_local_param after the unsubscribe).
OverridesStick ==
  \A c \in Clients : \A p \in DOMAIN overrides[c] :
    GetStr(clients[c].root, p) = overrides[c][p]

\* A client that asked to be kept up to date comes to have what its server has and
\* keeps it, when nobody sets parameters any more, as long as that server is up
\* and none of its values spoils the update for the parser.
HasCaughtUp ==
  \A c \in Clients, s \in Servers :
    /\ clients[c].phase = "ready" /\ clients[c].server_id = s
    /\ servers[s].up /\ Readable(Current(s).params)
    => clients[c].root = Last(states[s])
=============================================================================
