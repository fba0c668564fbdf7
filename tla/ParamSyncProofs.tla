--------------------------- MODULE ParamSyncProofs ---------------------------
(***************************************************************************)
(* What clients have of parameters: those of one server as it had them at  *)
(* one moment, and what they have overridden as they set it, for any       *)
(* clients, servers, entries and delays of updates.                        *)
(***************************************************************************)
EXTENDS ParamSync, SequenceTheorems, FiniteSetTheorems, TLAPS

-----------------------------------------------------------------------------
(* Parameters: what keeps overrides is that a program overrides only what no     *)
(* update can reach any more.                                                *)

\* What programs set has a name, and the servers are numbered.
ParamSetting ==
  /\ MaxServers \in Nat
  /\ \A entry \in Entries : entry.path \in Seq(Range(entry.path)) /\ entry.path # << >>

IsClient(me) ==
  /\ me = [phase |-> me.phase, keep_updated |-> me.keep_updated, server_id |-> me.server_id,
           sequence_number |-> me.sequence_number, root |-> me.root, incoming |-> me.incoming]
  /\ me.phase \in {"none", "waiting", "ready"} /\ me.keep_updated \in BOOLEAN

Listens(me) == me.phase = "waiting" \/ (me.phase = "ready" /\ me.keep_updated)

IsItsOwn(me) == me.phase = "ready" /\ ~me.keep_updated

\* A client that listens has no tree, or knows whose it is; nothing reaches the others.
Follows(me) ==
  /\ me.incoming # NoUpdate => Listens(me) /\ me.server_id # Nobody
  /\ Listens(me) /\ (me.phase = "ready" \/ me.root # NewParam) => me.server_id # Nobody

\* The tree has this value at the path, and all containers on the way.
Held(tree, path, value) ==
  /\ path \in Seq(Range(path)) /\ path # << >>
  /\ {path} \cup Ancestors(path) \subseteq DOMAIN tree
  /\ tree[path].type = "array" /\ tree[path].values # << >>
  /\ Head(tree[path].values) = value

ClientHolds(me, overridden) ==
  /\ IsClient(me) /\ Follows(me)
  /\ \A p \in DOMAIN overridden : IsItsOwn(me) /\ Held(me.root, p, overridden[p])

\* The invariant.
Clean ==
  /\ clients = [x \in Clients |-> clients[x]] /\ overrides = [x \in Clients |-> overrides[x]]
  /\ network = [x \in Clients |-> network[x]]
  /\ \A x \in Clients : ClientHolds(clients[x], overrides[x])
  /\ \A x \in Clients : \A u \in network[x] : u.server # Nobody

\* The numbers of the servers are not that of nobody.
LEMMA ServersAreSomebody == ASSUME ParamSetting PROVE \A s \in Servers : s # Nobody
BY DEF ParamSetting, Servers, Nobody

\* What a tree holds is what it answers: the name is found where it is asked for
\* (find_key before it looks further up).
LEMMA HeldIsFound ==
  ASSUME NEW tree, NEW path, NEW value, Held(tree, path, value)
  PROVE  GetStr(tree, path) = value
<1> DEFINE n == Len(path) - 1
           homes == { k \in 0..Len(path) - 1 :
                        Append(SubSeq(path, 1, k), Last(path)) \in DOMAIN tree }
<1>1. path \in Seq(Range(path)) /\ path # << >> /\ Len(path) \in Nat \ {0}
  BY EmptySeq, LenProperties DEF Held
<1>2. Append(SubSeq(path, 1, n), Last(path)) = path
  <2>1. SubSeq(path, 1, n) \in Seq(Range(path)) /\ Len(SubSeq(path, 1, n)) = n
        /\ \A k \in 1..n : SubSeq(path, 1, n)[k] = path[k]
    <3>1. 1 \in 1..Len(path)+1 /\ n \in 0..Len(path) /\ n \in Nat
      BY <1>1
    <3> HIDE DEF n
    <3>2. /\ SubSeq(path, 1, n) \in Seq(Range(path))
          /\ Len(SubSeq(path, 1, n)) = IF 1 <= n THEN n - 1 + 1 ELSE 0
          /\ \A k \in 1 .. n - 1 + 1 : SubSeq(path, 1, n)[k] = path[1 + k - 1]
      BY <1>1, <3>1, SubSeqProperties
    <3> QED  BY <3>1, <3>2
  <2>2. path[Len(path)] \in Range(path) /\ Last(path) = path[Len(path)]
    BY <1>1, LenProperties DEF Range, Last
  <2>3. Append(SubSeq(path, 1, n), Last(path)) \in Seq(Range(path))
        /\ Len(Append(SubSeq(path, 1, n), Last(path))) = Len(path)
        /\ \A k \in 1..Len(path) : Append(SubSeq(path, 1, n), Last(path))[k] = path[k]
    BY <1>1, <2>1, <2>2, AppendProperties
  <2> QED  BY <1>1, <2>3, SeqEqual
<1>3. n \in homes /\ \A k \in homes : n >= k /\ k \in Int
  <2>1. n \in 0..Len(path) - 1 /\ \A k \in 0..Len(path) - 1 : n >= k /\ k \in Int
    BY <1>1
  <2>2. path \in DOMAIN tree
    BY DEF Held
  <2> HIDE DEF n
  <2> QED  BY <1>2, <2>1, <2>2
<1>4. Max(homes) = n
  <2> HIDE DEF homes
  <2>1. \A k \in homes : (\A l \in homes : k >= l) => k = n
    <3> SUFFICES ASSUME NEW k \in homes, \A l \in homes : k >= l PROVE k = n
      OBVIOUS
    <3>1. k >= n /\ n >= k /\ k \in Int /\ n \in Int
      BY <1>1, <1>3
    <3> HIDE DEF n
    <3> QED  BY <3>1
  <2> QED  BY <1>3, <2>1 DEF Max
<1>5. FindKey(tree, path) = path
  <2>1. Ancestors(path) \subseteq DOMAIN tree /\ homes # {}
    BY <1>3 DEF Held
  <2>2. FindKey(tree, path) = Append(SubSeq(path, 1, Max(homes)), Last(path))
    BY <2>1, Zenon DEF FindKey
  <2> HIDE DEF homes
  <2> QED  BY <1>2, <1>4, <2>2
<1> QED
  BY <1>1, <1>5 DEF GetStr, Held

\* A value that is set is held, and so are those that were.
LEMMA SetIsHeld ==
  ASSUME NEW tree, NEW path, NEW value, CanSet(tree, path),
         path \in Seq(Range(path)), path # << >>
  PROVE  /\ Held(SetStr(tree, path, value), path, value)
         /\ \A p, v : p # path /\ Held(tree, p, v) => Held(SetStr(tree, path, value), p, v)
<1> DEFINE made == CreateKey(tree, path)
           values == made[path].values
           new == [type |-> "array",
                   values |-> [ n \in {1} \cup DOMAIN values |->
                                  IF n = 1 THEN value ELSE values[n] ]]
           set == SetStr(tree, path, value)
<1>1. DOMAIN made = DOMAIN tree \cup Ancestors(path) \cup {path}
      /\ \A p \in DOMAIN tree : made[p] = tree[p]
  BY DEF CreateKey
<1>2. DOMAIN set = DOMAIN made /\ set[path] = new
      /\ \A p \in DOMAIN made : p # path => set[p] = made[p]
  BY <1>1 DEF SetStr
<1>3. new.type = "array" /\ 1 \in DOMAIN new.values /\ new.values[1] = value
  OBVIOUS
<1> HIDE DEF new, made, set
<1>4. new.values # << >> /\ Head(new.values) = value
  BY <1>3
<1>5. Held(set, path, value)
  BY <1>1, <1>2, <1>3, <1>4 DEF Held
<1>6. ASSUME NEW p, NEW v, p # path, Held(tree, p, v) PROVE Held(set, p, v)
  BY <1>1, <1>2, <1>6 DEF Held
<1> QED  BY <1>5, <1>6 DEF set

-----------------------------------------------------------------------------
(* The steps of the clients *)

\* A step of one client, to which nothing new is sent.
LEMMA OneClient ==
  ASSUME Clean, NEW c \in Clients, NEW me, NEW overridden,
         clients' = [clients EXCEPT ![c] = me], ClientHolds(me, overridden),
         overrides' = [overrides EXCEPT ![c] = overridden],
         NEW left \in SUBSET network[c], network' = [network EXCEPT ![c] = left]
  PROVE  Clean'
<1>1. /\ clients' = [x \in Clients |-> IF x = c THEN me ELSE clients[x]]
      /\ overrides' = [x \in Clients |-> IF x = c THEN overridden ELSE overrides[x]]
      /\ network' = [x \in Clients |-> IF x = c THEN left ELSE network[x]]
  BY DEF Clean
<1>2. /\ clients' = [x \in Clients |-> clients'[x]]
      /\ overrides' = [x \in Clients |-> overrides'[x]]
      /\ network' = [x \in Clients |-> network'[x]]
  BY <1>1
<1>3. \A x \in Clients : ClientHolds(clients'[x], overrides'[x])
  BY <1>1 DEF Clean
<1>4. \A x \in Clients : \A u \in network'[x] : u.server # Nobody
  BY <1>1 DEF Clean
<1> QED  BY <1>2, <1>3, <1>4 DEF Clean

\* What does not change is as it was.
LEMMA Same ==
  ASSUME Clean, NEW c \in Clients
  PROVE  /\ overrides = [overrides EXCEPT ![c] = overrides[c]]
         /\ network = [network EXCEPT ![c] = network[c]]
BY DEF Clean

\* The fields of a record, for a step that changes some of them.
LEMMA Fields ==
  ASSUME NEW me, IsClient(me), NEW phase2, NEW keep2, NEW id2, NEW number2, NEW root2, NEW incoming2
  PROVE  /\ [me EXCEPT !.phase = phase2]
              = [phase |-> phase2, keep_updated |-> me.keep_updated, server_id |-> me.server_id,
                 sequence_number |-> me.sequence_number, root |-> me.root,
                 incoming |-> me.incoming]
         /\ [me EXCEPT !.keep_updated = keep2]
              = [phase |-> me.phase, keep_updated |-> keep2, server_id |-> me.server_id,
                 sequence_number |-> me.sequence_number, root |-> me.root,
                 incoming |-> me.incoming]
         /\ [me EXCEPT !.server_id = id2]
              = [phase |-> me.phase, keep_updated |-> me.keep_updated, server_id |-> id2,
                 sequence_number |-> me.sequence_number, root |-> me.root,
                 incoming |-> me.incoming]
         /\ [me EXCEPT !.sequence_number = number2]
              = [phase |-> me.phase, keep_updated |-> me.keep_updated,
                 server_id |-> me.server_id, sequence_number |-> number2, root |-> me.root,
                 incoming |-> me.incoming]
         /\ [me EXCEPT !.root = root2]
              = [phase |-> me.phase, keep_updated |-> me.keep_updated,
                 server_id |-> me.server_id, sequence_number |-> me.sequence_number,
                 root |-> root2, incoming |-> me.incoming]
         /\ [me EXCEPT !.incoming = incoming2]
              = [phase |-> me.phase, keep_updated |-> me.keep_updated,
                 server_id |-> me.server_id, sequence_number |-> me.sequence_number,
                 root |-> me.root, incoming |-> incoming2]
BY DEF IsClient

\* Nothing is overridden as long as a BotParam is not its own.
LEMMA NotOverridden ==
  ASSUME Clean, NEW c \in Clients, ~IsItsOwn(clients[c])
  PROVE  DOMAIN overrides[c] = {}
BY DEF Clean, ClientHolds

\* A client asks a server for parameters.
LEMMA NewFromServerStep ==
  ASSUME NEW c \in Clients, NEW keep \in BOOLEAN, NewFromServer(c, keep)
  PROVE  clients' = [clients EXCEPT ![c] =
                       [phase |-> "waiting", keep_updated |-> keep, server_id |-> Nobody,
                        sequence_number |-> 0, root |-> NewParam, incoming |-> NoUpdate]]
<1> DEFINE me == [phase |-> "waiting", keep_updated |-> keep, server_id |-> Nobody,
                  sequence_number |-> 0, root |-> NewParam, incoming |-> NoUpdate]
<1>1. [NoParam EXCEPT !.phase = "waiting", !.keep_updated = keep] = me
  <2>0. IsClient(NoParam)
    BY DEF NoParam, IsClient
  <2>1. PICK none : none = NoParam /\ IsClient(none)
    BY <2>0, Zenon
  <2> DEFINE first == [none EXCEPT !.phase = "waiting"]
  <2>2. IsClient(none)
    BY <2>1
  <2>3. first = [phase |-> "waiting", keep_updated |-> none.keep_updated,
                 server_id |-> none.server_id, sequence_number |-> none.sequence_number,
                 root |-> none.root, incoming |-> none.incoming]
    BY <2>2, Fields
  <2>4. [none EXCEPT !.phase = "waiting", !.keep_updated = keep]
          = [first EXCEPT !.keep_updated = keep]
    BY <2>2 DEF IsClient
  <2> HIDE DEF first
  <2>5. [first EXCEPT !.keep_updated = keep]
          = [phase |-> "waiting", keep_updated |-> keep,
             server_id |-> none.server_id, sequence_number |-> none.sequence_number,
             root |-> none.root, incoming |-> none.incoming]
    BY <2>3
  <2>6. /\ none.server_id = Nobody /\ none.sequence_number = 0
        /\ none.root = NewParam /\ none.incoming = NoUpdate
    BY <2>1 DEF NoParam
  <2> QED  BY <2>1, <2>4, <2>5, <2>6
<1> QED  BY <1>1, Zenon DEF NewFromServer

\* A client that waits has overridden nothing.
LEMMA NewFromServerClean ==
  ASSUME Clean, NEW c \in Clients, NEW keep \in BOOLEAN, NewFromServer(c, keep)
  PROVE  Clean'
<1> DEFINE me == [phase |-> "waiting", keep_updated |-> keep, server_id |-> Nobody,
                  sequence_number |-> 0, root |-> NewParam, incoming |-> NoUpdate]
<1>2. clients' = [clients EXCEPT ![c] = me] /\ UNCHANGED <<overrides, network>>
  BY NewFromServerStep DEF NewFromServer
<1>3. DOMAIN overrides[c] = {}
  BY NotOverridden DEF NewFromServer, IsItsOwn
<1>4. IsClient(me) /\ Follows(me)
  BY DEF IsClient, Follows
<1> HIDE DEF me
<1>5. ClientHolds(me, overrides[c])
  BY <1>3, <1>4 DEF ClientHolds
<1> QED  BY <1>2, <1>5, Same, OneClient

\* An update comes to a client.
LEMMA OnParamUpdateStep ==
  ASSUME Clean, NEW c \in Clients, NEW u \in network[c], OnParamUpdate(c, u),
         NEW id, id = (IF clients[c].server_id = Nobody THEN u.server ELSE clients[c].server_id),
         NEW number, number = (IF clients[c].server_id = Nobody THEN u.seqNo - 1
                               ELSE clients[c].sequence_number),
         NEW news, news = (IF IsNews(u, id, number) THEN u ELSE NoUpdate)
  PROVE  clients' = [clients EXCEPT ![c] =
                       [phase |-> clients[c].phase, keep_updated |-> clients[c].keep_updated,
                        server_id |-> id, sequence_number |-> number, root |-> clients[c].root,
                        incoming |-> news]]
<1> DEFINE old == clients[c]
           me == [phase |-> old.phase, keep_updated |-> old.keep_updated, server_id |-> id,
                  sequence_number |-> number, root |-> old.root, incoming |-> news]
<1>2. clients' = [clients EXCEPT ![c].server_id = id, ![c].sequence_number = number,
                                 ![c].incoming = news]
  BY Zenon DEF OnParamUpdate
<1>3. clients' = [clients EXCEPT ![c] = me]
  <2> DEFINE f1 == [clients EXCEPT ![c].server_id = id]
             f2 == [f1 EXCEPT ![c].sequence_number = number]
             m1 == [old EXCEPT !.server_id = id]
             m2 == [m1 EXCEPT !.sequence_number = number]
  <2>1. clients' = [f2 EXCEPT ![c].incoming = news]
    BY <1>2, Zenon
  <2>2. clients' = [clients EXCEPT ![c] = [m2 EXCEPT !.incoming = news]]
    BY <2>1 DEF Clean
  <2>3. [m2 EXCEPT !.incoming = news] = me
    <3>1. m1 = [phase |-> old.phase, keep_updated |-> old.keep_updated, server_id |-> id,
                sequence_number |-> old.sequence_number, root |-> old.root,
                incoming |-> old.incoming]
      BY Fields DEF Clean, ClientHolds
    <3> HIDE DEF m1
    <3>2. m2 = [phase |-> old.phase, keep_updated |-> old.keep_updated, server_id |-> id,
                sequence_number |-> number, root |-> old.root, incoming |-> old.incoming]
      BY <3>1
    <3> HIDE DEF m2
    <3> QED  BY <3>2
  <2> QED  BY <2>2, <2>3
<1> QED  BY <1>3

\* An update tells a client whom to follow, unless it knows.
LEMMA OnParamUpdateClean ==
  ASSUME ParamSetting, Clean, NEW c \in Clients, NEW u \in network[c], OnParamUpdate(c, u)
  PROVE  Clean'
<1> DEFINE old == clients[c]
           followed == IF old.server_id = Nobody THEN u.server ELSE old.server_id
           known == IF old.server_id = Nobody THEN u.seqNo - 1 ELSE old.sequence_number
           next == IF IsNews(u, followed, known) THEN u ELSE NoUpdate
<1>1. PICK id, number, news : id = followed /\ number = known /\ news = next
  OBVIOUS
<1>2. /\ Subscribed(c) /\ UNCHANGED overrides
      /\ network' = [network EXCEPT ![c] = network[c] \ {u}]
  BY <1>1, Zenon DEF OnParamUpdate
<1> DEFINE me == [phase |-> old.phase, keep_updated |-> old.keep_updated, server_id |-> id,
                  sequence_number |-> number, root |-> old.root, incoming |-> news]
<1>3. clients' = [clients EXCEPT ![c] = me]
  BY <1>1, OnParamUpdateStep
<1>4. DOMAIN overrides[c] = {}
  BY <1>2, NotOverridden DEF Subscribed, IsItsOwn
<1>5. id # Nobody
  BY <1>1 DEF Clean
<1>6. IsClient(me)
  BY DEF IsClient, Clean, ClientHolds
<1>7. Listens(old)
  BY <1>2 DEF Subscribed, Listens
<1>8. Listens(me) /\ Follows(me)
  BY <1>5, <1>7 DEF Follows, Listens
<1> HIDE DEF me
<1>9. ClientHolds(me, overrides[c])
  BY <1>4, <1>6, <1>8 DEF ClientHolds
<1> QED  BY <1>2, <1>3, <1>9, Same, OneClient

\* A client takes the tree that has come.
LEMMA SwapRootStep ==
  ASSUME Clean, NEW c \in Clients, SwapRoot(c)
  PROVE  clients' = [clients EXCEPT ![c] =
                       [phase |-> clients[c].phase, keep_updated |-> clients[c].keep_updated,
                        server_id |-> clients[c].server_id,
                        sequence_number |-> clients[c].incoming.seqNo,
                        root |-> NewFromString(clients[c].incoming.params),
                        incoming |-> NoUpdate]]
<1>1. PICK tree, number : tree = NewFromString(clients[c].incoming.params)
                          /\ number = clients[c].incoming.seqNo
  OBVIOUS
<1> DEFINE old == clients[c]
           me == [phase |-> old.phase, keep_updated |-> old.keep_updated,
                  server_id |-> old.server_id, sequence_number |-> number, root |-> tree,
                  incoming |-> NoUpdate]
<1>2. clients' = [clients EXCEPT ![c] = Swapped(old)]
  BY DEF SwapRoot, Clean
<1>3. Swapped(old) = me
  <2> DEFINE m1 == [old EXCEPT !.sequence_number = number]
             m2 == [m1 EXCEPT !.root = tree]
  <2>1. Swapped(old) = [old EXCEPT !.sequence_number = number, !.root = tree,
                                   !.incoming = NoUpdate]
    BY <1>1, Zenon DEF Swapped
  <2>2. [old EXCEPT !.sequence_number = number, !.root = tree, !.incoming = NoUpdate]
          = [m2 EXCEPT !.incoming = NoUpdate]
    BY DEF Clean, ClientHolds, IsClient
  <2>3. m1 = [phase |-> old.phase, keep_updated |-> old.keep_updated,
              server_id |-> old.server_id, sequence_number |-> number, root |-> old.root,
              incoming |-> old.incoming]
    BY Fields DEF Clean, ClientHolds
  <2> HIDE DEF m1
  <2>4. m2 = [phase |-> old.phase, keep_updated |-> old.keep_updated,
              server_id |-> old.server_id, sequence_number |-> number, root |-> tree,
              incoming |-> old.incoming]
    BY <2>3
  <2> HIDE DEF m2
  <2>5. [m2 EXCEPT !.incoming = NoUpdate] = me
    BY <2>4
  <2> QED  BY <2>1, <2>2, <2>5
<1> QED  BY <1>1, <1>2, <1>3

\* The callbacks have returned: the client takes the tree, having no overrides of its own.
LEMMA SwapRootClean ==
  ASSUME Clean, NEW c \in Clients, SwapRoot(c) PROVE Clean'
<1>1. PICK tree, number : tree = NewFromString(clients[c].incoming.params)
                          /\ number = clients[c].incoming.seqNo
  OBVIOUS
<1> DEFINE old == clients[c]
           me == [phase |-> old.phase, keep_updated |-> old.keep_updated,
                  server_id |-> old.server_id, sequence_number |-> number, root |-> tree,
                  incoming |-> NoUpdate]
<1>2. old.incoming # NoUpdate /\ UNCHANGED <<overrides, network>>
  BY DEF SwapRoot
<1>3. clients' = [clients EXCEPT ![c] = me]
  BY <1>1, SwapRootStep
<1>4. Listens(old) /\ old.server_id # Nobody /\ IsClient(old)
  BY <1>2 DEF Clean, ClientHolds, Follows
<1>5. DOMAIN overrides[c] = {}
  BY <1>4, NotOverridden DEF Listens, IsItsOwn
<1>6. IsClient(me) /\ Follows(me)
  BY <1>4 DEF IsClient, Follows
<1> HIDE DEF me
<1>7. ClientHolds(me, overrides[c])
  BY <1>5, <1>6 DEF ClientHolds
<1> QED  BY <1>2, <1>3, <1>7, Same, OneClient

\* A client that is not to be kept up to date follows nobody.
LEMMA GotParamsStep ==
  ASSUME Clean, NEW c \in Clients, GotParams(c),
         NEW id, id = (IF clients[c].keep_updated THEN clients[c].server_id ELSE Nobody)
  PROVE  clients' = [clients EXCEPT ![c] =
                       [phase |-> "ready", keep_updated |-> clients[c].keep_updated,
                        server_id |-> id, sequence_number |-> clients[c].sequence_number,
                        root |-> clients[c].root, incoming |-> clients[c].incoming]]
<1> DEFINE old == clients[c]
           me == [phase |-> "ready", keep_updated |-> old.keep_updated,
                  server_id |-> id, sequence_number |-> old.sequence_number,
                  root |-> old.root, incoming |-> old.incoming]
<1>1. id = IF old.keep_updated THEN old.server_id ELSE Nobody
  OBVIOUS
<1>2. clients' = [clients EXCEPT ![c].phase = "ready",
                                 ![c].server_id = IF old.keep_updated THEN @ ELSE Nobody]
  BY DEF GotParams
<1>4. clients' = [clients EXCEPT ![c] = me]
  <2> DEFINE f1 == [clients EXCEPT ![c].phase = "ready"]
             m1 == [old EXCEPT !.phase = "ready"]
  <2>1. clients' = [f1 EXCEPT ![c].server_id = IF old.keep_updated THEN @ ELSE Nobody]
    BY <1>2, Zenon
  <2>2. f1[c] = m1 /\ f1 = [clients EXCEPT ![c] = m1]
    BY DEF Clean
  <2>3. m1 = [phase |-> "ready", keep_updated |-> old.keep_updated,
              server_id |-> old.server_id, sequence_number |-> old.sequence_number,
              root |-> old.root, incoming |-> old.incoming]
    BY Fields DEF Clean, ClientHolds
  <2> HIDE DEF m1
  <2>4. f1[c].server_id = old.server_id
    BY <2>2, <2>3
  <2> HIDE DEF f1
  <2>5. clients' = [f1 EXCEPT ![c] = [m1 EXCEPT !.server_id = id]]
    BY <1>1, <2>1, <2>2, <2>4
  <2>6. clients' = [clients EXCEPT ![c] = [m1 EXCEPT !.server_id = id]]
    BY <2>2, <2>5
  <2>7. [m1 EXCEPT !.server_id = id] = me
    BY <2>3
  <2> QED  BY <2>6, <2>7
<1> QED  BY <1>4

\* A client that is not to be kept up to date is left alone from here on.
LEMMA GotParamsClean ==
  ASSUME Clean, NEW c \in Clients, GotParams(c) PROVE Clean'
<1> DEFINE old == clients[c]
<1>1. PICK id, left : /\ id = IF old.keep_updated THEN old.server_id ELSE Nobody
                      /\ left = IF old.keep_updated THEN network[c] ELSE {}
  OBVIOUS
<1> DEFINE me == [phase |-> "ready", keep_updated |-> old.keep_updated,
                  server_id |-> id, sequence_number |-> old.sequence_number,
                  root |-> old.root, incoming |-> old.incoming]
<1>2. /\ old.phase = "waiting" /\ old.incoming = NoUpdate /\ old.root # NewParam
      /\ network' = [network EXCEPT ![c] = IF old.keep_updated THEN @ ELSE {}]
      /\ UNCHANGED overrides
  BY DEF GotParams
<1>3. network' = [network EXCEPT ![c] = left] /\ left \in SUBSET network[c]
  BY <1>1, <1>2
<1>4. clients' = [clients EXCEPT ![c] = me]
  BY <1>1, GotParamsStep
<1>5. IsClient(old) /\ Follows(old)
  BY DEF Clean, ClientHolds
<1>6. old.server_id # Nobody
  BY <1>2, <1>5 DEF Follows, Listens
<1>7. DOMAIN overrides[c] = {}
  BY <1>2, NotOverridden DEF IsItsOwn
<1>8. IsClient(me)
  BY <1>5 DEF IsClient
<1>9. Follows(me)
  BY <1>1, <1>2, <1>5, <1>6 DEF Follows, Listens, IsClient
<1> HIDE DEF me
<1>10. ClientHolds(me, overrides[c])
  BY <1>7, <1>8, <1>9 DEF ClientHolds
<1> QED  BY <1>2, <1>3, <1>4, <1>10, Same, OneClient

\* A client that gives up has overridden nothing either.
LEMMA GiveUpClean ==
  ASSUME Clean, NEW c \in Clients, GiveUp(c) PROVE Clean'
<1>1. /\ clients' = [clients EXCEPT ![c] = NoParam] /\ network' = [network EXCEPT ![c] = {}]
      /\ UNCHANGED overrides /\ clients[c].phase = "waiting"
  BY DEF GiveUp
<1>2. DOMAIN overrides[c] = {}
  BY <1>1, NotOverridden DEF IsItsOwn
<1>3. ClientHolds(NoParam, overrides[c])
  BY <1>2 DEF ClientHolds, NoParam, IsClient, Follows, Listens
<1> QED  BY <1>1, <1>3, Same, OneClient

\* What is overridden is held, and what was overridden before is held still.
LEMMA OverrideClean ==
  ASSUME ParamSetting, Clean, NEW c \in Clients, NEW entry \in Entries, Override(c, entry)
  PROVE  Clean'
<1> DEFINE old == clients[c]
           path == entry.path
           over == overrides[c]
<1>1. PICK tree, overridden :
        /\ tree = SetStr(old.root, path, entry.value)
        /\ overridden = [p \in DOMAIN over \cup {path} |-> IF p = path THEN entry.value
                                                            ELSE over[p]]
  OBVIOUS
<1> DEFINE me == [phase |-> old.phase, keep_updated |-> old.keep_updated,
                  server_id |-> old.server_id, sequence_number |-> old.sequence_number,
                  root |-> tree, incoming |-> old.incoming]
<1>2. /\ old.phase = "ready" /\ old.server_id = Nobody /\ CanSet(old.root, path)
      /\ clients' = [clients EXCEPT ![c].root = SetStr(@, path, entry.value)]
      /\ overrides' = [overrides EXCEPT ![c] =
                         [p \in DOMAIN @ \cup {path} |-> IF p = path THEN entry.value ELSE @[p]]]
      /\ UNCHANGED network
  BY DEF Override
<1>3. overrides' = [overrides EXCEPT ![c] = overridden]
  BY <1>1, <1>2
<1>4. clients' = [clients EXCEPT ![c] = me]
  <2>1. clients' = [clients EXCEPT ![c] = [old EXCEPT !.root = tree]]
    BY <1>1, <1>2 DEF Clean
  <2>2. [old EXCEPT !.root = tree] = me
    BY Fields DEF Clean, ClientHolds
  <2> QED  BY <2>1, <2>2
<1>5. IsClient(old) /\ Follows(old) /\ \A p \in DOMAIN over : Held(old.root, p, over[p])
  BY DEF Clean, ClientHolds
<1>6. ~Listens(old) /\ IsItsOwn(old)
  BY <1>2, <1>5 DEF Follows, Listens, IsItsOwn, IsClient
<1>7. IsClient(me) /\ IsItsOwn(me)
  BY <1>5, <1>6 DEF IsClient, IsItsOwn
<1>8. Follows(me)
  BY <1>5, <1>6 DEF Follows, Listens
<1>9. \A p \in DOMAIN overridden : Held(tree, p, overridden[p])
  <2>1. /\ Held(tree, path, entry.value)
        /\ \A p, v : p # path /\ Held(old.root, p, v) => Held(tree, p, v)
    BY <1>1, <1>2, SetIsHeld DEF ParamSetting
  <2> QED  BY <1>1, <1>5, <2>1
<1>10. ClientHolds(me, overridden)
  BY <1>7, <1>8, <1>9 DEF ClientHolds
<1> HIDE DEF me
<1> QED  BY <1>2, <1>3, <1>4, <1>10, Same, OneClient

-----------------------------------------------------------------------------
(* The steps of the server, and the theorem *)

\* A server sends updates of its own.
LEMMA SentClean ==
  ASSUME ParamSetting, Clean, NEW s \in Servers, NEW updates, NEW hearers, Sent(updates, hearers),
         \A u \in updates : u.server = s, UNCHANGED <<clients, overrides>>
  PROVE  Clean'
<1>1. network' = [x \in Clients |-> network[x] \cup { u \in updates : <<x, u>> \in hearers }]
  BY DEF Sent
<1>2. \A x \in Clients : \A u \in network'[x] : u.server # Nobody
  BY <1>1, ServersAreSomebody DEF Clean
<1>3. network' = [x \in Clients |-> network'[x]]
  BY <1>1
<1> QED  BY <1>2, <1>3 DEF Clean

\* No step of a server touches what a client has.
LEMMA ServerClean ==
  ASSUME ParamSetting, Clean, NEW s \in Servers,
         \/ StartServer(s) \/ CrashServer(s)
         \/ \E hearers : PublishParams(s, hearers)
         \/ \E entries : OnParamSet(s, entries)
  PROVE  Clean'
<1>1. CASE StartServer(s) \/ CrashServer(s)
  <2>1. UNCHANGED <<clients, overrides, network>>
    BY <1>1 DEF StartServer, CrashServer
  <2> QED  BY <2>1 DEF Clean
<1>2. CASE \E hearers : PublishParams(s, hearers)
  <2>1. PICK hearers : Sent({Current(s)}, hearers) /\ UNCHANGED <<clients, overrides>>
    BY <1>2 DEF PublishParams
  <2>2. Current(s).server = s
    BY DEF Current, Update
  <2> QED  BY <2>1, <2>2, SentClean
<1>3. CASE \E entries : OnParamSet(s, entries)
  <2>1. PICK entries : OnParamSet(s, entries)
    BY <1>3
  <2> DEFINE texts == [n \in 1..Len(Trees(servers[s].params, entries)) - 1 |->
                         Write(Trees(servers[s].params, entries)[n + 1])]
             updates == { Update(s, servers[s].seqNo + n, texts[n]) : n \in DOMAIN texts }
  <2>2. PICK hearers : Sent(updates, hearers)
    BY <2>1, Zenon DEF OnParamSet
  <2>3. UNCHANGED <<clients, overrides>>
    BY <2>1 DEF OnParamSet
  <2>4. \A u \in updates : u.server = s
    BY DEF Update
  <2> HIDE DEF updates
  <2> QED  BY <2>2, <2>3, <2>4, SentClean
<1> QED  BY <1>1, <1>2, <1>3

\* Every step keeps the invariant.
LEMMA NextClean == ASSUME ParamSetting, Clean, [Next]_vars PROVE Clean'
<1>1. CASE \E s \in Servers :
              \/ StartServer(s) \/ CrashServer(s)
              \/ \E hearers \in SUBSET (Clients \X {Current(s)}) : PublishParams(s, hearers)
              \/ \E entries \in SetMessages : OnParamSet(s, entries)
  BY <1>1, ServerClean
<1>2. CASE \E c \in Clients : NewFromServer(c, TRUE) \/ NewFromServer(c, FALSE)
  BY <1>2, NewFromServerClean
<1>3. CASE \E c \in Clients : \E update \in network[c] : OnParamUpdate(c, update)
  BY <1>3, OnParamUpdateClean
<1>4. CASE \E c \in Clients : SwapRoot(c)
  BY <1>4, SwapRootClean
<1>5. CASE \E c \in Clients : GotParams(c)
  BY <1>5, GotParamsClean
<1>6. CASE \E c \in Clients : GiveUp(c)
  BY <1>6, GiveUpClean
<1>7. CASE \E c \in Clients : \E entry \in Entries : Override(c, entry)
  BY <1>7, OverrideClean
<1>8. CASE UNCHANGED vars
  BY <1>8 DEF vars, Clean
<1> QED
  BY <1>1, <1>2, <1>3, <1>4, <1>5, <1>6, <1>7, <1>8 DEF Next

\* Nobody has any parameters.
LEMMA InitClean == ASSUME Init PROVE Clean
<1>1. ClientHolds(NoParam, << >>)
  BY DEF ClientHolds, NoParam, IsClient, Follows, Listens
<1> QED  BY <1>1 DEF Init, Clean

\* However updates are lost or late, servers restart and clients give up, what a program has
\* overridden of parameters of its own reads as it set it, for any clients, servers, file and
\* entries (bot_param_override_local_param).
THEOREM OverridesAreKept == ASSUME ParamSetting PROVE Spec => []OverridesStick
<1>1. Clean /\ [Next]_vars => Clean'
  BY NextClean
<1>2. Clean => OverridesStick
  BY HeldIsFound DEF Clean, ClientHolds, OverridesStick
<1> QED  BY <1>1, <1>2, InitClean, PTL DEF Spec

-----------------------------------------------------------------------------
(* Parameters: whoever has some has those that one server had at one moment.    *)

\* A sequence, of whatever.
IsList(q) == Len(q) \in Nat /\ q = [n \in 1..Len(q) |-> q[n]]

\* An update is of a state that its server has had.
Genuine(u) ==
  /\ u.server \in Servers /\ u.seqNo \in Nat /\ u.seqNo + 1 \in 1..Len(states[u.server])
  /\ states[u.server][u.seqNo + 1] = NewFromString(u.params)

\* A server counts its states, and its text is of the last of them.
Counts(s) ==
  /\ servers[s] = [up |-> servers[s].up, seqNo |-> servers[s].seqNo,
                   params |-> servers[s].params, text |-> servers[s].text]
  /\ servers[s].seqNo \in Nat /\ IsList(states[s])
  /\ servers[s].up => states[s] # << >>
  /\ IF states[s] = << >> THEN servers[s].seqNo = 0
     ELSE Len(states[s]) = servers[s].seqNo + 1 /\ Genuine(Current(s))

\* A client that follows a server has a state of it, if any, and is about to take a later one.
Copied(me) ==
  /\ me.server_id \in Servers \cup {Nobody}
  /\ me.incoming # NoUpdate =>
       /\ Genuine(me.incoming) /\ me.incoming.server = me.server_id
       /\ me.incoming.seqNo > me.sequence_number
  /\ me.server_id # Nobody => me.sequence_number \in Int
  /\ me.server_id # Nobody /\ me.root # NewParam =>
       /\ me.sequence_number + 1 \in 1..Len(states[me.server_id])
       /\ me.root = states[me.server_id][me.sequence_number + 1]

\* The invariant.
AllGenuine ==
  /\ servers = [s \in Servers |-> servers[s]] /\ states = [s \in Servers |-> states[s]]
  /\ \A s \in Servers : Counts(s)
  /\ \A c \in Clients : Copied(clients[c])
  /\ \A c \in Clients : \A u \in network[c] : Genuine(u)

\* What the client has as a copy.
CopyOf(me) ==
  IF me.root = NewParam \/ me.server_id = Nobody THEN NoUpdate
  ELSE [server |-> me.server_id, position |-> me.sequence_number + 1, params |-> me.root]

\* It is what ParamSync calls its copy.
LEMMA CopyIsCopyOf ==
  \A c \in Clients : Copy(c) = CopyOf(clients[c]) /\ Copy(c)' = CopyOf(clients'[c])
BY DEF Copy, CopyOf

\* A step of one client, which gets no new updates, takes later parameters, leaves or does
\* neither.
LEMMA ClientCopies ==
  ASSUME ParamSetting, Clean, AllGenuine, NEW c \in Clients, UNCHANGED <<servers, states>>,
         NEW me, clients' = [clients EXCEPT ![c] = me],
         NEW left \in SUBSET network[c], network' = [network EXCEPT ![c] = left],
         Copied(me),
         \/ CopyOf(me) = CopyOf(clients[c]) \/ CopyOf(me) = NoUpdate
         \/ /\ CopyOf(clients[c]) = NoUpdate \/ (/\ clients[c].server_id = me.server_id
                                                 /\ clients[c].sequence_number < me.sequence_number)
  PROVE  AllGenuine' /\ [Copies!Next]_Copies!vars
<1> DEFINE copies == [x \in Clients |-> CopyOf(clients[x])]
           copies2 == [x \in Clients |-> CopyOf(clients'[x])]
<1>1. /\ [x \in Clients |-> Copy(x)] = copies /\ [x \in Clients |-> Copy(x)]' = copies2
  BY CopyIsCopyOf
<1>2. clients' = [x \in Clients |-> IF x = c THEN me ELSE clients[x]]
  BY DEF Clean
<1>3. network' = [x \in Clients |-> IF x = c THEN left ELSE network[x]]
  BY DEF Clean
<1>4. AllGenuine'
  <2>1. \A u : Genuine(u)' <=> Genuine(u)
    BY DEF Genuine
  <2>2. \A s \in Servers : Counts(s)'
    BY <2>1 DEF AllGenuine, Counts, IsList, Current
  <2>3. \A x : Copied(x)' <=> Copied(x)
    BY <2>1 DEF Copied
  <2>4. \A x \in Clients : Copied(clients'[x])
    BY <1>2 DEF AllGenuine
  <2>5. \A x \in Clients : \A u \in network'[x] : Genuine(u)
    BY <1>3 DEF AllGenuine
  <2>6. \A x \in Clients : Copied(clients[x])'
    BY <2>3, <2>4
  <2>7. \A x \in Clients : \A u \in network'[x] : Genuine(u)'
    BY <2>1, <2>5
  <2> QED  BY <2>2, <2>6, <2>7 DEF AllGenuine
<1>5. copies2 = [copies EXCEPT ![c] = CopyOf(me)]
  BY <1>2
<1>6. CASE CopyOf(me) = CopyOf(clients[c])
  <2>1. copies2 = copies
    BY <1>5, <1>6
  <2> QED  BY <1>1, <1>4, <2>1 DEF Copies!vars
<1>7. CASE CopyOf(me) = NoUpdate
  <2>1. Copies!Leave(c)
    BY <1>1, <1>5, <1>7 DEF Copies!Leave
  <2> QED  BY <1>4, <2>1 DEF Copies!Next
<1>8. CASE /\ CopyOf(me) # NoUpdate
           /\ CopyOf(clients[c]) = NoUpdate \/ (/\ clients[c].server_id = me.server_id
                                                /\ clients[c].sequence_number < me.sequence_number)
  <2> DEFINE s == me.server_id
             n == me.sequence_number + 1
  <2>1. /\ s \in Servers /\ n \in 1..Len(states[s])
        /\ CopyOf(me) = [server |-> s, position |-> n, params |-> states[s][n]]
    BY <1>8 DEF Copied, CopyOf
  <2>2. \/ copies[c] = NoUpdate
        \/ copies[c].server = s /\ copies[c].position < n
    <3>1. CASE CopyOf(clients[c]) = NoUpdate
      BY <3>1
    <3>2. CASE CopyOf(clients[c]) # NoUpdate
      <4>1. CopyOf(clients[c]).server = clients[c].server_id
        BY <3>2 DEF CopyOf
      <4>2. CopyOf(clients[c]).position = clients[c].sequence_number + 1
        BY <3>2 DEF CopyOf
      <4>3. clients[c].sequence_number \in Int /\ me.sequence_number \in Int
        BY <1>8, <3>2 DEF CopyOf, Copied, AllGenuine
      <4> QED  BY <1>8, <3>2, <4>1, <4>2, <4>3
    <3> QED  BY <3>1, <3>2
  <2>3. Copies!Take(c, s)
    BY <1>1, <1>5, <2>1, <2>2 DEF Copies!Take
  <2> QED  BY <1>4, <2>1, <2>3 DEF Copies!Next
<1> QED  BY <1>6, <1>7, <1>8

\* The steps of the clients.
LEMMA ClientsCopy ==
  ASSUME ParamSetting, Clean, AllGenuine, NEW c \in Clients,
         \/ NewFromServer(c, TRUE) \/ NewFromServer(c, FALSE)
         \/ SwapRoot(c) \/ GotParams(c) \/ GiveUp(c)
         \/ \E update \in network[c] : OnParamUpdate(c, update)
         \/ \E entry \in Entries : Override(c, entry)
  PROVE  AllGenuine' /\ [Copies!Next]_Copies!vars
<1> DEFINE old == clients[c]
<1>0. /\ Copied(old) /\ IsClient(old) /\ Follows(old)
      /\ network = [network EXCEPT ![c] = network[c]]
  BY DEF AllGenuine, Clean, ClientHolds
<1>1. ASSUME NEW keep \in BOOLEAN, NewFromServer(c, keep)
      PROVE  AllGenuine' /\ [Copies!Next]_Copies!vars
  <2> DEFINE me == [phase |-> "waiting", keep_updated |-> keep, server_id |-> Nobody,
                    sequence_number |-> 0, root |-> NewParam, incoming |-> NoUpdate]
  <2>1. clients' = [clients EXCEPT ![c] = me] /\ UNCHANGED <<servers, states, network>>
    BY <1>1, NewFromServerStep DEF NewFromServer
  <2>2. Copied(me) /\ CopyOf(me) = NoUpdate
    BY DEF Copied, CopyOf
  <2> HIDE DEF me
  <2> QED  BY <1>0, <2>1, <2>2, ClientCopies
<1>2. CASE SwapRoot(c)
  <2> DEFINE u == old.incoming
             me == [phase |-> old.phase, keep_updated |-> old.keep_updated,
                    server_id |-> old.server_id, sequence_number |-> u.seqNo,
                    root |-> NewFromString(u.params), incoming |-> NoUpdate]
  <2>1. /\ clients' = [clients EXCEPT ![c] = me] /\ UNCHANGED <<servers, states, network>>
        /\ u # NoUpdate
    BY <1>2, SwapRootStep DEF SwapRoot
  <2>2. Genuine(u) /\ u.server = old.server_id /\ u.seqNo > old.sequence_number
    BY <1>0, <2>1 DEF Copied
  <2>3. Copied(me)
    BY <1>0, <2>2 DEF Copied, Genuine
  <2>4. old.server_id = me.server_id /\ old.sequence_number < me.sequence_number
    BY <1>0, <2>1, <2>2 DEF Copied, Follows, Genuine
  <2> HIDE DEF me
  <2> QED  BY <1>0, <2>1, <2>3, <2>4, ClientCopies
<1>3. CASE GotParams(c)
  <2>1. PICK id, left : /\ id = IF old.keep_updated THEN old.server_id ELSE Nobody
                        /\ left = IF old.keep_updated THEN network[c] ELSE {}
    OBVIOUS
  <2> DEFINE me == [phase |-> "ready", keep_updated |-> old.keep_updated,
                    server_id |-> id, sequence_number |-> old.sequence_number,
                    root |-> old.root, incoming |-> old.incoming]
  <2>2. clients' = [clients EXCEPT ![c] = me] /\ old.incoming = NoUpdate
    BY <1>3, <2>1, GotParamsStep DEF GotParams
  <2>3. network' = [network EXCEPT ![c] = left] /\ UNCHANGED <<servers, states>>
    BY <1>3, <2>1 DEF GotParams
  <2>4. Copied(me)
    BY <1>0, <2>1, <2>2 DEF Copied
  <2>5. CopyOf(me) = CopyOf(old) \/ CopyOf(me) = NoUpdate
    BY <2>1 DEF CopyOf
  <2>6. left \in SUBSET network[c]
    BY <2>1
  <2> HIDE DEF me
  <2> QED  BY <2>2, <2>3, <2>4, <2>5, <2>6, ClientCopies
<1>4. CASE GiveUp(c)
  <2>1. /\ clients' = [clients EXCEPT ![c] = NoParam] /\ network' = [network EXCEPT ![c] = {}]
        /\ UNCHANGED <<servers, states>>
    BY <1>4 DEF GiveUp
  <2>2. Copied(NoParam) /\ CopyOf(NoParam) = NoUpdate
    BY DEF Copied, CopyOf, NoParam
  <2> QED  BY <2>1, <2>2, ClientCopies
<1>5. ASSUME NEW u \in network[c], OnParamUpdate(c, u)
      PROVE  AllGenuine' /\ [Copies!Next]_Copies!vars
  <2>1. PICK id, number :
          /\ id = IF old.server_id = Nobody THEN u.server ELSE old.server_id
          /\ number = IF old.server_id = Nobody THEN u.seqNo - 1 ELSE old.sequence_number
    OBVIOUS
  <2>2. PICK news : news = IF IsNews(u, id, number) THEN u ELSE NoUpdate
    OBVIOUS
  <2> DEFINE me == [phase |-> old.phase, keep_updated |-> old.keep_updated, server_id |-> id,
                    sequence_number |-> number, root |-> old.root, incoming |-> news]
  <2>3. clients' = [clients EXCEPT ![c] = me]
    BY <1>5, <2>1, <2>2, OnParamUpdateStep
  <2>4. /\ network' = [network EXCEPT ![c] = network[c] \ {u}] /\ UNCHANGED <<servers, states>>
        /\ Listens(old)
    BY <1>5 DEF OnParamUpdate, Subscribed, Listens
  <2>5. Genuine(u)
    BY DEF AllGenuine
  <2>6. old.server_id = Nobody => old.root = NewParam
    BY <1>0, <2>4 DEF Follows
  <2>7. Copied(me)
    BY <1>0, <2>1, <2>2, <2>5, <2>6 DEF Copied, Genuine, IsNews
  <2>8. CopyOf(me) = CopyOf(old)
    BY <2>1, <2>6 DEF CopyOf
  <2> HIDE DEF me
  <2> QED  BY <2>3, <2>4, <2>7, <2>8, ClientCopies
<1>6. ASSUME NEW entry \in Entries, Override(c, entry)
      PROVE  AllGenuine' /\ [Copies!Next]_Copies!vars
  <2>1. PICK tree : tree = SetStr(old.root, entry.path, entry.value)
    OBVIOUS
  <2> DEFINE me == [phase |-> old.phase, keep_updated |-> old.keep_updated,
                    server_id |-> old.server_id, sequence_number |-> old.sequence_number,
                    root |-> tree, incoming |-> old.incoming]
  <2>2. /\ clients' = [clients EXCEPT ![c].root = SetStr(@, entry.path, entry.value)]
        /\ UNCHANGED <<servers, states, network>> /\ old.server_id = Nobody
    BY <1>6 DEF Override
  <2>3. clients' = [clients EXCEPT ![c] = [old EXCEPT !.root = tree]]
    BY <2>1, <2>2 DEF Clean
  <2>4. [old EXCEPT !.root = tree] = me
    BY <1>0, Fields
  <2>5. Copied(me) /\ CopyOf(me) = NoUpdate
    BY <1>0, <2>2 DEF Copied, CopyOf
  <2> HIDE DEF me
  <2> QED  BY <1>0, <2>2, <2>3, <2>4, <2>5, ClientCopies
<1> QED  BY <1>1, <1>2, <1>3, <1>4, <1>5, <1>6

\* What a server has been it has been: a step of a server that adds to its states and sends
\* updates of them is a change of its parameters, or nothing.
LEMMA ServerCopies ==
  ASSUME ParamSetting, AllGenuine, NEW s \in Servers, UNCHANGED clients,
         NEW server, servers' = [servers EXCEPT ![s] = server],
         NEW history, states' = [states EXCEPT ![s] = history],
         IsList(history), Len(states[s]) <= Len(history),
         \A n \in 1..Len(states[s]) : history[n] = states[s][n],
         Counts(s)',
         \A c \in Clients : \A u \in network'[c] : u \in network[c] \/ Genuine(u)'
  PROVE  AllGenuine' /\ [Copies!Next]_Copies!vars
<1> DEFINE past == states[s]
<1>1. /\ states' = [x \in Servers |-> IF x = s THEN history ELSE states[x]]
      /\ servers' = [x \in Servers |-> IF x = s THEN server ELSE servers[x]]
  BY DEF AllGenuine
<1>2. IsList(past)
  BY DEF AllGenuine, Counts
<1>3. \A u : Genuine(u) => Genuine(u)'
  <2> SUFFICES ASSUME NEW u, Genuine(u) PROVE Genuine(u)'
    OBVIOUS
  <2>1. CASE u.server = s
    <3>1. u.seqNo + 1 \in 1..Len(past) /\ past[u.seqNo + 1] = NewFromString(u.params)
      BY <2>1 DEF Genuine
    <3>2. u.seqNo + 1 \in 1..Len(history) /\ history[u.seqNo + 1] = NewFromString(u.params)
      BY <1>2, <3>1 DEF IsList
    <3> QED  BY <1>1, <2>1, <3>2 DEF Genuine
  <2>2. CASE u.server # s
    BY <1>1, <2>2 DEF Genuine
  <2> QED  BY <2>1, <2>2
<1>4. \A x \in Servers : Counts(x)'
  <2> SUFFICES ASSUME NEW x \in Servers, x # s PROVE Counts(x)'
    OBVIOUS
  <2>1. states'[x] = states[x] /\ servers'[x] = servers[x]
    BY <1>1
  <2>2. Current(x)' = Current(x)
    BY <2>1 DEF Current
  <2>3. Genuine(Current(x)) => Genuine(Current(x))'
    BY <1>3, <2>2
  <2> QED  BY <2>1, <2>3 DEF AllGenuine, Counts, IsList
<1>5. \A c \in Clients : Copied(clients[c])'
  <2> SUFFICES ASSUME NEW c \in Clients PROVE Copied(clients[c])'
    OBVIOUS
  <2> DEFINE me == clients[c]
  <2>1. clients'[c] = me /\ Copied(me)
    BY DEF AllGenuine
  <2>2. ASSUME me.server_id # Nobody, me.root # NewParam
        PROVE  /\ me.sequence_number + 1 \in 1..Len(states'[me.server_id])
               /\ me.root = states'[me.server_id][me.sequence_number + 1]
    <3>1. /\ me.server_id \in Servers /\ me.sequence_number \in Int
          /\ me.sequence_number + 1 \in 1..Len(states[me.server_id])
          /\ me.root = states[me.server_id][me.sequence_number + 1]
      BY <2>1, <2>2 DEF Copied
    <3>2. CASE me.server_id = s
      <4>1. me.sequence_number + 1 \in 1..Len(past) /\ me.root = past[me.sequence_number + 1]
        BY <3>1, <3>2
      <4>2. /\ me.sequence_number + 1 \in 1..Len(history)
            /\ me.root = history[me.sequence_number + 1]
        BY <1>2, <4>1 DEF IsList
      <4> QED  BY <1>1, <3>2, <4>2
    <3>3. CASE me.server_id # s
      BY <1>1, <3>1, <3>3
    <3> QED  BY <3>2, <3>3
  <2> QED  BY <1>3, <2>1, <2>2 DEF Copied
<1>6. \A c \in Clients : \A u \in network'[c] : Genuine(u)'
  BY <1>3 DEF AllGenuine
<1>7. /\ servers' = [x \in Servers |-> servers'[x]] /\ states' = [x \in Servers |-> states'[x]]
  BY <1>1
<1>8. AllGenuine'
  BY <1>4, <1>5, <1>6, <1>7 DEF AllGenuine
<1>9. \A c \in Clients : Copy(c)' = Copy(c)
  BY DEF Copy
<1>10. UNCHANGED [c \in Clients |-> Copy(c)]
  BY <1>9
<1>11. CASE history = past
  <2>1. states' = states
    BY <1>1, <1>11 DEF AllGenuine
  <2> QED  BY <1>8, <1>10, <2>1 DEF Copies!vars
<1>12. CASE history # past
  <2>1. past \in Seq(Range(past)) /\ history \in Seq(Range(history))
    BY <1>2 DEF IsList, Range
  <2>2. SubSeq(past, 1, Len(past)) = SubSeq(history, 1, Len(past))
    <3>1. SubSeq(past, 1, Len(past)) = [n \in 1..Len(past) |-> past[n]]
      BY <2>1
    <3>2. SubSeq(history, 1, Len(past)) = [n \in 1..Len(past) |-> history[n]]
      BY <1>2, <2>1 DEF IsList
    <3> QED  BY <3>1, <3>2
  <2>3. Copies!IsStrictPrefix(past, history)
    BY <1>12, <2>2 DEF Copies!IsStrictPrefix, Copies!IsPrefix
  <2>4. Copies!Change(s)
    BY <1>1, <1>10, <2>3 DEF Copies!Change
  <2> QED  BY <1>8, <2>4 DEF Copies!Next
<1> QED  BY <1>11, <1>12

\* The entry is set, if it can be: one tree more.
Further(trees, entry) ==
  IF CanSet(Last(trees), entry.path)
  THEN Append(trees, SetStr(Last(trees), entry.path, entry.value)) ELSE trees

\* A set message leads to the trees that its one or two entries do, one after the other.
LEMMA TreesAre ==
  ASSUME NEW params, NEW entries \in SetMessages
  PROVE  \/ Trees(params, entries) = Further(<<params>>, entries[1]) /\ Len(entries) = 1
         \/ /\ Trees(params, entries) = Further(Further(<<params>>, entries[1]), entries[2])
            /\ Len(entries) = 2
<1> DEFINE after[n \in 0..Len(entries)] ==
             IF n = 0 THEN <<params>> ELSE Further(after[n - 1], entries[n])
           F(f) == [n \in 0..Len(entries) |->
                      IF n = 0 THEN <<params>> ELSE Further(f[n - 1], entries[n])]
           one == Further(<<params>>, entries[1])
           two == Further(one, entries[2])
           solution == [n \in 0..Len(entries) |->
                          IF n = 0 THEN <<params>> ELSE IF n = 1 THEN one ELSE two]
<1>0. Len(entries) \in 1..2
  BY DEF SetMessages
<1>1. /\ 0..Len(entries) = {0, 1} \/ 0..Len(entries) = {0, 1, 2}
      /\ Len(entries) \in 0..Len(entries)
  <2>1. \A m \in 1..2 : (0..m = {0, 1} \/ 0..m = {0, 1, 2}) /\ m \in 0..m
    OBVIOUS
  <2> QED  BY <1>0, <2>1
<1>2. solution = F(solution)
  <2>1. \A n \in 0..Len(entries) : solution[n]
          = IF n = 0 THEN <<params>> ELSE Further(solution[n - 1], entries[n])
    <3> SUFFICES ASSUME NEW n \in 0..Len(entries)
                 PROVE  solution[n]
                          = IF n = 0 THEN <<params>> ELSE Further(solution[n - 1], entries[n])
      OBVIOUS
    <3>1. n = 0 \/ n = 1 \/ n = 2
      BY <1>1
    <3>2. CASE n = 0
      BY <3>2
    <3>3. CASE n = 1
      <4>1. solution[1] = one /\ solution[0] = <<params>>
        BY <3>3
      <4> QED  BY <3>3, <4>1
    <3>4. CASE n = 2
      <4>1. solution[2] = two /\ solution[1] = one
        BY <3>4
      <4> QED  BY <3>4, <4>1
    <3> QED  BY <3>1, <3>2, <3>3, <3>4
  <2> QED  BY <2>1
<1>3. \A f : f = F(f) => f = solution
  <2> SUFFICES ASSUME NEW f, f = F(f) PROVE f = solution
    OBVIOUS
  <2>1. f = [n \in 0..Len(entries) |-> f[n]]
    OBVIOUS
  <2>2. \A n \in 0..Len(entries) : f[n] = IF n = 0 THEN <<params>>
                                            ELSE Further(f[n - 1], entries[n])
    OBVIOUS
  <2> HIDE DEF F
  <2>3. f[0] = <<params>>
    BY <1>1, <2>2
  <2>4. f[1] = one
    <3>1. f[1] = Further(f[1 - 1], entries[1])
      BY <1>1, <2>2
    <3> QED  BY <2>3, <3>1
  <2>5. 2 \in 0..Len(entries) => f[2] = two
    <3>1. 2 \in 0..Len(entries) => f[2] = Further(f[2 - 1], entries[2])
      BY <2>2
    <3> QED  BY <2>4, <3>1
  <2> HIDE DEF one, two
  <2>6. \A n \in 0..Len(entries) : f[n] = solution[n]
    <3>1. \A n \in 0..Len(entries) : n = 0 \/ n = 1 \/ n = 2
      BY <1>1
    <3> QED  BY <2>3, <2>4, <2>5, <3>1
  <2> QED  BY <2>1, <2>6
<1>4. after = solution
  <2>1. after = CHOOSE f : f = F(f)
    BY Zenon DEF after
  <2> HIDE DEF F, solution, after
  <2> QED  BY <1>2, <1>3, <2>1
<1>5. Trees(params, entries) = after[Len(entries)]
  BY Zenon DEF Trees, Further
<1> HIDE DEF after, one, two
<1> QED  BY <1>0, <1>1, <1>4, <1>5 DEF one, two

\* A message of one or two entries leads to one tree at least.
LEMMA TreesFollow ==
  ASSUME NEW params, NEW entries \in SetMessages
  PROVE  Len(Trees(params, entries)) \in Nat \ {0}
<1> DEFINE IsFilled(trees) == (\E S : trees \in Seq(S)) /\ Len(trees) > 0
<1>1. \A before, entry : IsFilled(before) => IsFilled(Further(before, entry))
  <2> SUFFICES ASSUME NEW before, NEW entry, NEW S, before \in Seq(S), Len(before) > 0
               PROVE  IsFilled(Further(before, entry))
    OBVIOUS
  <2>1. PICK tree : tree = SetStr(Last(before), entry.path, entry.value)
    OBVIOUS
  <2>2. before \in Seq(S \cup {tree})
    OBVIOUS
  <2>3. Append(before, tree) \in Seq(S \cup {tree}) /\ Len(Append(before, tree)) = Len(before) + 1
    BY <2>2
  <2> QED  BY <2>1, <2>3 DEF Further
<1>2. IsFilled(<<params>>)
  <2>1. <<params>> \in Seq({params}) /\ Len(<<params>>) > 0
    OBVIOUS
  <2> QED  BY <2>1
<1>3. \A trees : IsFilled(trees) => Len(trees) \in Nat \ {0}
  OBVIOUS
<1> HIDE DEF IsFilled
<1> QED  BY <1>1, <1>2, <1>3, TreesAre

\* What a set message leads to: trees, their texts, the last one, and how they read.
LeadsTo(server, entries, trees, texts, text, read) ==
  /\ trees = Trees(server.params, entries)
  /\ texts = [n \in 1..Len(trees) - 1 |-> Write(trees[n + 1])]
  /\ text = IF texts = << >> THEN server.text ELSE Last(texts)
  /\ read = [n \in DOMAIN texts |-> NewFromString(texts[n])]

\* Where the server is then.
ComesTo(s, trees, texts, text, read) ==
  /\ servers' = [servers EXCEPT ![s] =
                   [up |-> servers[s].up, seqNo |-> servers[s].seqNo + Len(texts),
                    params |-> Last(trees), text |-> text]]
  /\ states' = [states EXCEPT ![s] = states[s] \o read]

\* A server that sets parameters has the last tree, and the text of it.
LEMMA OnParamSetStep ==
  ASSUME AllGenuine, NEW s \in Servers, NEW entries \in SetMessages, OnParamSet(s, entries),
         NEW trees, NEW texts, NEW text, NEW read,
         LeadsTo(servers[s], entries, trees, texts, text, read)
  PROVE  ComesTo(s, trees, texts, text, read)
<1>0. PICK old, seqNo : old = servers[s] /\ seqNo = servers[s].seqNo
  OBVIOUS
<1>1. /\ servers' = [servers EXCEPT ![s].seqNo = seqNo + Len(texts), ![s].params = Last(trees),
                                    ![s].text = IF texts = << >> THEN @ ELSE Last(texts)]
      /\ states' = [states EXCEPT ![s] = @ \o read]
  BY <1>0, Zenon DEF OnParamSet, LeadsTo
<1>2. PICK number2, params2 : number2 = seqNo + Len(texts) /\ params2 = Last(trees)
  OBVIOUS
<1>3. text = IF texts = << >> THEN old.text ELSE Last(texts)
  BY <1>0 DEF LeadsTo
<1>4. servers' = [servers EXCEPT ![s] = [old EXCEPT !.seqNo = number2, !.params = params2,
                                                    !.text = text]]
  BY <1>0, <1>1, <1>2, <1>3 DEF AllGenuine
<1>5. old = [up |-> old.up, seqNo |-> old.seqNo, params |-> old.params, text |-> old.text]
  BY <1>0 DEF AllGenuine, Counts
<1> DEFINE r1 == [old EXCEPT !.seqNo = number2]
           r2 == [r1 EXCEPT !.params = params2]
<1>6. [r2 EXCEPT !.text = text]
        = [up |-> old.up, seqNo |-> number2, params |-> params2, text |-> text]
  <2>1. r1 = [up |-> old.up, seqNo |-> number2, params |-> old.params, text |-> old.text]
    BY <1>5
  <2> HIDE DEF r1
  <2>2. r2 = [up |-> old.up, seqNo |-> number2, params |-> params2, text |-> old.text]
    BY <2>1
  <2> HIDE DEF r2
  <2> QED  BY <2>2
<1>7. servers' = [servers EXCEPT ![s] = [up |-> old.up, seqNo |-> number2,
                                         params |-> params2, text |-> text]]
  BY <1>4, <1>6
<1>8. states' = [states EXCEPT ![s] = states[s] \o read]
  BY <1>1 DEF AllGenuine
<1> QED  BY <1>0, <1>2, <1>7, <1>8 DEF ComesTo

\* A server that crashes is down.
LEMMA CrashServerStep ==
  ASSUME AllGenuine, NEW s \in Servers, CrashServer(s)
  PROVE  servers' = [servers EXCEPT ![s] =
                       [up |-> FALSE, seqNo |-> servers[s].seqNo,
                        params |-> servers[s].params, text |-> servers[s].text]]
<1>1. PICK old, down : old = servers[s] /\ down = FALSE
  OBVIOUS
<1>2. old = [up |-> old.up, seqNo |-> old.seqNo, params |-> old.params, text |-> old.text]
  BY <1>1 DEF AllGenuine, Counts
<1>3. [old EXCEPT !.up = down] = [up |-> down, seqNo |-> old.seqNo,
                                  params |-> old.params, text |-> old.text]
  BY <1>2
<1>4. servers' = [servers EXCEPT ![s] = [old EXCEPT !.up = down]]
  BY <1>1 DEF CrashServer, AllGenuine
<1> QED  BY <1>1, <1>3, <1>4

\* What is sent to a client comes to what is under way to it.
LEMMA SentToClients ==
  ASSUME NEW updates, NEW hearers, Sent(updates, hearers)
  PROVE  /\ \A c \in Clients : \A u \in network'[c] : u \in network[c] \/ u \in updates
         /\ network' = [c \in Clients |-> network'[c]]
BY DEF Sent

\* A server begins with the parameters of the file.
LEMMA StartServerCopies ==
  ASSUME ParamSetting, AllGenuine, NEW s \in Servers, StartServer(s)
  PROVE  AllGenuine' /\ [Copies!Next]_Copies!vars
<1>1. PICK params, text : params = NewFromString(File) /\ text = Write(params)
  OBVIOUS
<1> DEFINE server == [up |-> TRUE, seqNo |-> 0, params |-> params, text |-> text]
           history == << NewFromString(text) >>
<1>2. /\ servers' = [servers EXCEPT ![s] = server] /\ states' = [states EXCEPT ![s] = history]
      /\ UNCHANGED <<clients, network>> /\ states[s] = << >>
  BY <1>1 DEF StartServer
<1>3. servers'[s] = server /\ states'[s] = history
  BY <1>2 DEF AllGenuine
<1>4. IsList(history) /\ Len(states[s]) <= Len(history)
      /\ \A n \in 1..Len(states[s]) : history[n] = states[s][n]
  BY <1>2 DEF IsList
<1>5. Counts(s)'
  BY <1>3, <1>4 DEF Counts, Genuine, Current, Update
<1>6. \A c \in Clients : \A u \in network'[c] : u \in network[c]
  BY <1>2
<1> HIDE DEF server, history
<1> QED  BY <1>2, <1>4, <1>5, <1>6, ServerCopies

\* What a server has had is not lost when it crashes: clients have it.
LEMMA CrashServerCopies ==
  ASSUME ParamSetting, AllGenuine, NEW s \in Servers, CrashServer(s)
  PROVE  AllGenuine' /\ [Copies!Next]_Copies!vars
<1> DEFINE server == [up |-> FALSE, seqNo |-> servers[s].seqNo,
                      params |-> servers[s].params, text |-> servers[s].text]
<1>1. /\ servers' = [servers EXCEPT ![s] = server]
      /\ UNCHANGED <<clients, network, states>> /\ states' = [states EXCEPT ![s] = states[s]]
  BY CrashServerStep DEF CrashServer, AllGenuine
<1>2. servers'[s] = server /\ states'[s] = states[s] /\ Counts(s)
  BY <1>1 DEF AllGenuine
<1>3. IsList(states[s])
  BY <1>2 DEF Counts
<1>4. Current(s)' = Current(s)
  BY <1>2 DEF Current
<1>5. Genuine(Current(s)) => Genuine(Current(s))'
  BY <1>1, <1>4 DEF Genuine
<1>6. Counts(s)'
  BY <1>2, <1>3, <1>5 DEF Counts
<1>7. \A c \in Clients : \A u \in network'[c] : u \in network[c]
  BY <1>1
<1>8. Len(states[s]) <= Len(states[s])
  BY <1>3 DEF IsList
<1> HIDE DEF server
<1> QED  BY <1>1, <1>3, <1>6, <1>7, <1>8, ServerCopies

\* What a server publishes is what it has.
LEMMA PublishParamsCopies ==
  ASSUME ParamSetting, AllGenuine, NEW s \in Servers, NEW hearers, PublishParams(s, hearers)
  PROVE  AllGenuine' /\ [Copies!Next]_Copies!vars
<1>1. /\ Sent({Current(s)}, hearers) /\ servers[s].up
      /\ servers' = [servers EXCEPT ![s] = servers[s]] /\ states' = [states EXCEPT ![s] = states[s]]
      /\ UNCHANGED <<clients, servers, states>>
  BY DEF PublishParams, AllGenuine
<1>2. Counts(s) /\ Genuine(Current(s)) /\ IsList(states[s])
  BY <1>1 DEF AllGenuine, Counts
<1>3. Counts(s)' /\ Genuine(Current(s))'
  BY <1>1, <1>2 DEF Counts, Genuine, Current, IsList
<1>4. Current(s)' = Current(s)
  BY <1>1 DEF Current
<1>5. \A c \in Clients : \A u \in network'[c] : u \in network[c] \/ Genuine(u)'
  BY <1>1, <1>3, <1>4, SentToClients
<1>6. Len(states[s]) <= Len(states[s])
  BY <1>2 DEF IsList
<1> QED  BY <1>1, <1>2, <1>3, <1>5, <1>6, ServerCopies

\* A server that sets parameters adds the states that they lead to, and publishes each.
LEMMA OnParamSetCopies ==
  ASSUME ParamSetting, AllGenuine, NEW s \in Servers, NEW entries \in SetMessages,
         OnParamSet(s, entries)
  PROVE  AllGenuine' /\ [Copies!Next]_Copies!vars
<1>0. PICK old, past, seqNo : old = servers[s] /\ past = states[s] /\ seqNo = servers[s].seqNo
  OBVIOUS
<1> DEFINE written(trees) == [n \in 1..Len(trees) - 1 |-> Write(trees[n + 1])]
<1>1. PICK trees : trees = Trees(old.params, entries)
  OBVIOUS
<1>2. PICK m \in Nat : m = Len(trees) - 1
  BY <1>1, TreesFollow
<1>3. PICK texts : texts = written(trees)
  OBVIOUS
<1> DEFINE updates == { Update(s, seqNo + n, texts[n]) : n \in DOMAIN texts }
           read == [n \in DOMAIN texts |-> NewFromString(texts[n])]
           text == IF texts = << >> THEN old.text ELSE Last(texts)
           server == [up |-> old.up, seqNo |-> seqNo + Len(texts), params |-> Last(trees),
                      text |-> text]
           history == past \o read
<1>4. /\ servers[s].up /\ \E hearers : Sent(updates, hearers)
      /\ servers' = [servers EXCEPT ![s].seqNo = seqNo + Len(texts), ![s].params = Last(trees),
                                    ![s].text = IF texts = << >> THEN @ ELSE Last(texts)]
      /\ states' = [states EXCEPT ![s] = @ \o read] /\ UNCHANGED clients
  BY <1>0, <1>1, <1>3, Zenon DEF OnParamSet
<1>5. /\ texts \in Seq(Range(texts)) /\ Len(texts) = m /\ DOMAIN texts = 1..m
      /\ m > 0 => Last(texts) = texts[m]
  <2>1. texts = [n \in 1..m |-> Write(trees[n + 1])]
    BY <1>2, <1>3
  <2>2. DOMAIN texts = 1..m /\ Len(texts) = m
    BY <2>1
  <2>3. \A n \in 1..m : texts[n] \in Range(texts)
    BY <2>2 DEF Range
  <2>4. texts \in Seq(Range(texts))
    BY <2>1, <2>3
  <2> QED  BY <2>2, <2>4 DEF Last
<1>6. Counts(s) /\ Genuine(Current(s)) /\ seqNo \in Nat /\ IsList(past) /\ Len(past) = seqNo + 1
  BY <1>0, <1>4 DEF AllGenuine, Counts
<1>7. /\ IsList(history) /\ Len(history) = seqNo + 1 + m
      /\ \A n \in 1..seqNo + 1 : history[n] = past[n]
      /\ \A n \in 1..m : history[seqNo + 1 + n] = NewFromString(texts[n])
  <2> DEFINE S == Range(past) \cup Range(read)
  <2>1. past \in Seq(S) /\ read \in Seq(S) /\ Len(read) = m
    <3>1. past \in Seq(S)
      BY <1>6 DEF IsList, Range
    <3>2. read \in Seq(S) /\ Len(read) = m
      BY <1>5 DEF Range
    <3> QED  BY <3>1, <3>2
  <2>2. \A n \in 1..m : read[n] = NewFromString(texts[n])
    BY <1>5
  <2> HIDE DEF read, S
  <2>3. /\ history \in Seq(S) /\ Len(history) = Len(past) + m
        /\ \A n \in 1..Len(past) + m : history[n] = IF n <= Len(past) THEN past[n]
                                                     ELSE read[n - Len(past)]
    BY <2>1, ConcatProperties
  <2> HIDE DEF history
  <2>4. IsList(history)
    BY <2>3 DEF IsList
  <2>5. \A n \in 1..seqNo + 1 : history[n] = past[n]
    BY <1>6, <2>3
  <2>6. \A n \in 1..m : history[seqNo + 1 + n] = NewFromString(texts[n])
    <3> SUFFICES ASSUME NEW n \in 1..m
                 PROVE  history[seqNo + 1 + n] = NewFromString(texts[n])
      OBVIOUS
    <3>1. PICK k : k = seqNo + 1 + n
      OBVIOUS
    <3>2. k \in 1..Len(past) + m /\ ~(k <= Len(past)) /\ k - Len(past) = n
      BY <1>6, <3>1
    <3>3. history[k] = read[n]
      BY <2>3, <3>2
    <3> QED  BY <2>2, <3>1, <3>3
  <2> QED  BY <1>6, <2>3, <2>4, <2>5, <2>6
<1> HIDE DEF history
<1>8. servers' = [servers EXCEPT ![s] = server]
  <2>1. PICK text2, read2 : text2 = text /\ read2 = read
    OBVIOUS
  <2>2. LeadsTo(servers[s], entries, trees, texts, text2, read2)
    BY <1>0, <1>1, <1>3, <2>1 DEF LeadsTo
  <2>3. ComesTo(s, trees, texts, text2, read2)
    BY <2>2, OnParamSetStep
  <2> QED  BY <1>0, <2>1, <2>3 DEF ComesTo
<1>9. states' = [states EXCEPT ![s] = history]
  BY <1>0, <1>4 DEF history
<1>10. servers'[s] = server /\ states'[s] = history
  BY <1>8, <1>9 DEF AllGenuine
<1>11. \A n \in 1..m : Genuine(Update(s, seqNo + n, texts[n]))'
  <2> SUFFICES ASSUME NEW n \in 1..m PROVE Genuine(Update(s, seqNo + n, texts[n]))'
    OBVIOUS
  <2>1. PICK number, text2 : number = seqNo + n /\ text2 = texts[n]
    OBVIOUS
  <2>2. number \in Nat /\ number + 1 \in 1..Len(history) /\ number + 1 = seqNo + 1 + n
    BY <1>6, <1>7, <2>1
  <2>3. states'[s][number + 1] = NewFromString(text2)
    BY <1>7, <1>10, <2>1, <2>2
  <2> HIDE DEF server
  <2>4. Genuine(Update(s, number, text2))'
    BY <1>10, <2>2, <2>3 DEF Genuine, Update
  <2> QED  BY <2>1, <2>4
<1>12. Genuine(Current(s))'
  <2>0. PICK last : last = text
    OBVIOUS
  <2>1. Current(s)' = Update(s, seqNo + m, last)
    BY <1>5, <1>10, <2>0 DEF Current
  <2>2. CASE m = 0
    <3>1. text = old.text /\ Genuine(Update(s, seqNo, old.text))
      BY <1>0, <1>5, <1>6, <2>2 DEF Current
    <3>2. Genuine(Update(s, seqNo, old.text))'
      BY <1>0, <1>6, <1>7, <1>10, <2>2, <3>1 DEF Genuine, Update
    <3> QED  BY <1>6, <2>0, <2>1, <2>2, <3>1, <3>2
  <2>3. CASE m > 0
    <3>1. text = texts[m]
      BY <1>5, <2>3
    <3> QED  BY <1>11, <2>0, <2>1, <2>3, <3>1
  <2> QED  BY <2>2, <2>3
<1>13. Counts(s)'
  <2>1. history # << >>
    BY <1>6, <1>7
  <2> QED  BY <1>5, <1>6, <1>7, <1>10, <1>12, <2>1 DEF Counts
<1>14. \A u \in updates : Genuine(u)'
  BY <1>5, <1>11
<1>15. \A c \in Clients : \A u \in network'[c] : u \in network[c] \/ Genuine(u)'
  <2> HIDE DEF updates
  <2> QED  BY <1>4, <1>14, SentToClients
<1>16. Len(past) <= Len(history) /\ \A n \in 1..Len(past) : history[n] = past[n]
  BY <1>6, <1>7
<1> HIDE DEF server
<1> QED  BY <1>0, <1>4, <1>7, <1>8, <1>9, <1>13, <1>15, <1>16, ServerCopies

\* Nobody has parameters at first.
LEMMA InitCopies == ASSUME Init PROVE AllGenuine /\ Copies!Init
<1>1. AllGenuine
  <2>1. \A s \in Servers : Counts(s)
    BY DEF Init, NotStarted, Counts, IsList
  <2>2. \A c \in Clients : Copied(clients[c])
    BY DEF Init, NoParam, Copied
  <2> QED  BY <2>1, <2>2 DEF Init, AllGenuine
<1>2. Copies!Init
  BY DEF Init, NoParam, Copy, Copies!Init
<1> QED  BY <1>1, <1>2

\* Every step keeps the invariant, and is one of ParamCopies or changes no copy.
LEMMA NextCopies ==
  ASSUME ParamSetting, Clean, AllGenuine, [Next]_vars
  PROVE  AllGenuine' /\ [Copies!Next]_Copies!vars
<1>1. CASE \E s \in Servers :
              \/ StartServer(s) \/ CrashServer(s)
              \/ \E hearers \in SUBSET (Clients \X {Current(s)}) : PublishParams(s, hearers)
              \/ \E entries \in SetMessages : OnParamSet(s, entries)
  BY <1>1, StartServerCopies, CrashServerCopies, PublishParamsCopies, OnParamSetCopies
<1>2. CASE \E c \in Clients :
              \/ NewFromServer(c, TRUE) \/ NewFromServer(c, FALSE)
              \/ SwapRoot(c) \/ GotParams(c) \/ GiveUp(c)
              \/ \E update \in network[c] : OnParamUpdate(c, update)
              \/ \E entry \in Entries : Override(c, entry)
  BY <1>2, ClientsCopy
<1>3. CASE UNCHANGED vars
  BY <1>3 DEF vars, AllGenuine, Genuine, Counts, IsList, Current, Copied, Copies!vars, Copy
<1> QED
  BY <1>1, <1>2, <1>3 DEF Next

\* However updates are lost, late or overtaken and servers restart, a client that follows a
\* server has the parameters that this server had at one moment, and then later ones only, for
\* any clients, servers, file and entries (publish_params, on_param_set, _on_param_update).
THEOREM CopiesAreOfOneServer == ASSUME ParamSetting PROVE Spec => CopiesOfOneServer
<1>1. Init => Clean /\ AllGenuine /\ Copies!Init
  BY InitClean, InitCopies
<1>2. Clean /\ AllGenuine /\ [Next]_vars => Clean' /\ AllGenuine' /\ [Copies!Next]_Copies!vars
  BY NextClean, NextCopies
<1> QED  BY <1>1, <1>2, PTL DEF Spec, CopiesOfOneServer, Copies!Spec

-----------------------------------------------------------------------------
(* Parameters: what is set, written and read again is a tree.                   *)

\* A set of naturals that is not empty has a least element.
LEMMA LeastNat ==
  ASSUME NEW T, T \subseteq Nat, T # {}
  PROVE  \E x \in T : \A y \in T : x <= y
<1> DEFINE R == OpToRel(<, Nat)
<1>1. IsWellFoundedOn(R, Nat)
  BY NatLessThanWellFounded
<1>2. \A x, y \in Nat : y < x => <<y, x>> \in R
  BY DEF OpToRel
<1> HIDE DEF R
<1>3. PICK x \in T : \A y \in T : ~ (<<y, x>> \in R)
  BY <1>1, WFMin
<1>4. ASSUME NEW y \in T PROVE x <= y
  <2>1. ~(y < x)
    BY <1>2, <1>3
  <2> QED  BY <2>1
<1> QED
  BY <1>4

\* Numbers can be put in order: some permutation of their places does it.
LEMMA InOrder ==
  ASSUME NEW n \in Nat, NEW key \in [1..n -> Nat]
  PROVE  \E p \in Bijection(1..n, 1..n) : \A j, k \in 1..n : j < k => key[p[j]] <= key[p[k]]
<1> DEFINE D == 1..n
           Before(j, k) == key[j] < key[k] \/ (key[j] = key[k] /\ j <= k)
           upTo(k) == { j \in D : Before(j, k) }
           rank == [k \in D |-> Cardinality(upTo(k))]
<1>1. IsFiniteSet(D) /\ Cardinality(D) = n /\ D \subseteq Int
  BY FS_Interval
<1>2. \A k \in D : /\ IsFiniteSet(upTo(k))
                   /\ Cardinality(upTo(k)) \in Nat /\ Cardinality(upTo(k)) \in 1..n
  <2> SUFFICES ASSUME NEW k \in D
               PROVE  /\ IsFiniteSet(upTo(k))
                      /\ Cardinality(upTo(k)) \in Nat /\ Cardinality(upTo(k)) \in 1..n
    OBVIOUS
  <2>1. upTo(k) \in SUBSET D /\ upTo(k) # {}
    OBVIOUS
  <2> HIDE DEF D, upTo
  <2>2. IsFiniteSet(upTo(k)) /\ Cardinality(upTo(k)) <= n
    BY <1>1, <2>1, FS_Subset
  <2>3. Cardinality(upTo(k)) \in Nat /\ Cardinality(upTo(k)) # 0
    BY <2>1, <2>2, FS_CardinalityType, FS_EmptySet
  <2> QED  BY <2>2, <2>3
<1>3. ASSUME NEW j \in D, NEW k \in D, j # k, Before(j, k) PROVE rank[j] < rank[k]
  <2>1. upTo(j) \in SUBSET upTo(k)
    <3>1. \A i \in D : Before(i, j) => Before(i, k)
      BY <1>3
    <3> QED  BY <3>1
  <2>2. k \in upTo(k) /\ k \notin upTo(j)
    BY <1>3
  <2> HIDE DEF upTo, Before
  <2>3. Cardinality(upTo(j)) <= Cardinality(upTo(k)) /\ Cardinality(upTo(j)) # Cardinality(upTo(k))
    BY <1>2, <2>1, <2>2, FS_Subset
  <2> QED  BY <1>2, <2>3
<1>4. \A j, k \in D : j # k => Before(j, k) \/ Before(k, j)
  OBVIOUS
<1>5. rank \in [D -> D]
  <2> HIDE DEF upTo
  <2> QED  BY <1>2
<1> HIDE DEF rank, D, Before, upTo
<1>11. \A k \in D : rank[k] \in Int
  BY <1>1, <1>5
<1>12. \A j, k \in D : j # k /\ Before(j, k) => rank[j] < rank[k]
  BY <1>3
<1>6. rank \in Bijection(D, D)
  <2>1. rank \in Injection(D, D)
    <3>1. \A j, k \in D : rank[j] = rank[k] => j = k
      <4> SUFFICES ASSUME NEW j \in D, NEW k \in D, j # k PROVE rank[j] # rank[k]
        OBVIOUS
      <4>1. rank[j] < rank[k] \/ rank[k] < rank[j]
        BY <1>4, <1>12
      <4> QED  BY <1>11, <4>1
    <3> QED  BY <1>5, <3>1 DEF Injection, IsInjective
  <2>2. rank \in Surjection(D, D)
    BY <1>1, <2>1, FS_Injection
  <2> QED  BY <2>1, <2>2 DEF Bijection
<1> DEFINE p == [m \in D |-> CHOOSE k \in D : rank[k] = m]
<1>7. \A m \in D : p[m] \in D /\ rank[p[m]] = m
  BY <1>6 DEF Bijection, Surjection
<1>8. \A k \in D : p[rank[k]] = k
  BY <1>5, <1>6, <1>7 DEF Bijection, Injection, IsInjective
<1> HIDE DEF p
<1>9. p \in Bijection(D, D)
  <2>1. p \in [D -> D]
    BY <1>7 DEF p
  <2>2. IsInjective(p)
    BY <1>7, <2>1 DEF IsInjective
  <2>3. \A k \in D : \E m \in D : p[m] = k
    BY <1>5, <1>8
  <2> QED  BY <2>1, <2>2, <2>3 DEF Bijection, Injection, Surjection
<1>10. \A j, k \in D : j < k => key[p[j]] <= key[p[k]]
  <2> SUFFICES ASSUME NEW j \in D, NEW k \in D, j < k PROVE key[p[j]] <= key[p[k]]
    OBVIOUS
  <2>1. p[j] \in D /\ p[k] \in D /\ rank[p[j]] < rank[p[k]] /\ j \in Int /\ k \in Int
    BY <1>1, <1>7
  <2>2. p[j] # p[k] /\ ~Before(p[k], p[j])
    <3>1. rank[p[j]] \in Int /\ rank[p[k]] \in Int
      BY <1>11, <2>1
    <3>2. ~(rank[p[k]] < rank[p[j]]) /\ rank[p[j]] # rank[p[k]]
      BY <2>1, <3>1
    <3> QED  BY <1>12, <2>1, <3>2
  <2>3. key[p[j]] \in Nat /\ key[p[k]] \in Nat
    BY <2>1 DEF D
  <2> QED  BY <2>1, <2>2, <2>3 DEF Before, D
<1> QED
  BY <1>9, <1>10 DEF D

ByLength(text) == \A j, k \in DOMAIN text : j < k => Len(text[j].path) <= Len(text[k].path)

\* Statements can be written so that shorter paths come first, and each of them is.
LEMMA Sorted ==
  ASSUME NEW S, IsFiniteSet(S), \A x \in S : Len(x.path) \in Nat
  PROVE  LET text == CHOOSE t \in SetToSeqs(S) : ByLength(t)
         IN  DOMAIN text = 1..Cardinality(S) /\ Cardinality(S) \in Nat /\ Range(text) = S
<1> DEFINE n == Cardinality(S)
           text == CHOOSE t \in SetToSeqs(S) : ByLength(t)
<1>1. n \in Nat
  BY FS_CardinalityType
<1>2. PICK f \in Bijection(1..n, S) : TRUE
  BY FS_CardinalityType DEF ExistsBijection
<1>3. f \in [1..n -> S] /\ \A j, k \in 1..n : f[j] = f[k] => j = k
  BY <1>2 DEF Bijection, Injection, IsInjective
<1> DEFINE key == [k \in 1..n |-> Len(f[k].path)]
<1>4. key \in [1..n -> Nat]
  BY <1>3
<1> HIDE DEF n
<1>5. PICK p \in Bijection(1..n, 1..n) : \A j, k \in 1..n : j < k => key[p[j]] <= key[p[k]]
  <2> HIDE DEF key
  <2> QED  BY <1>1, <1>4, InOrder
<1>6. p \in [1..n -> 1..n] /\ \A j, k \in 1..n : p[j] = p[k] => j = k
  BY <1>5 DEF Bijection, Injection, IsInjective
<1> DEFINE t == [k \in 1..n |-> f[p[k]]]
<1>7. t \in SetToSeqs(S)
  BY <1>3, <1>6 DEF SetToSeqs, n
<1>8. ByLength(t)
  BY <1>5, <1>6 DEF ByLength
<1>9. text \in SetToSeqs(S)
  <2> HIDE DEF t
  <2> QED  BY <1>7, <1>8
<1> HIDE DEF text
<1>10. text \in [1..n -> S] /\ \A j, k \in 1..n : j # k => text[j] # text[k]
  BY <1>9 DEF SetToSeqs, n
<1>11. text \in Injection(1..n, S)
  BY <1>10 DEF Injection, IsInjective
<1>12. Cardinality(1..n) = Cardinality(S)
  <2>1. Cardinality(1..n) = n
    BY <1>1, FS_Interval
  <2> QED  BY <2>1 DEF n
<1>13. text \in Surjection(1..n, S)
  BY <1>11, <1>12, FS_Injection
<1>14. DOMAIN text = 1..n /\ Range(text) = S
  BY <1>10, <1>13 DEF Surjection, Range
<1> QED
  BY <1>1, <1>14 DEF n, text

\* A text leads to a tree with the paths of its statements.
LEMMA Parsed ==
  ASSUME NEW st, NEW n \in Nat, DOMAIN st = 1..n
  PROVE  DOMAIN NewFromString(st) = { st[k].path : k \in 1..n }
<1> DEFINE D == 1..n
           Step(f, s) == IF s = {} THEN NewParam ELSE ParseStatement(f[s \ {Max(s)}], st[Max(s)])
           E(f) == [s \in SUBSET D |-> Step(f, s)]
           iter == CHOOSE f : f = E(f)
           Solves(f, m) == \A s \in SUBSET D : s \subseteq 1..m => f[s] = Step(f, s)
           IsOn(f) == f = [s \in SUBSET D |-> f[s]]
           T == { m \in 0..n : ~ \E f : IsOn(f) /\ Solves(f, m) }
<1>1. NewFromString(st) = iter[D]
  BY Zenon DEF NewFromString, FoldLeft, MapThenFoldSet
<1>2. \A m \in 1..n, s \in SUBSET D : s \subseteq 1..m /\ m \in s => Max(s) = m
  <2> SUFFICES ASSUME NEW m \in 1..n, NEW s \in SUBSET D, s \subseteq 1..m, m \in s
               PROVE  Max(s) = m
    OBVIOUS
  <2>1. \A y \in s : m >= y /\ y \in Int
    OBVIOUS
  <2>2. \A x \in s : (\A y \in s : x >= y) => x = m
    BY <2>1
  <2> QED  BY <2>1, <2>2 DEF Max
<1>3. T = {}
  <2> SUFFICES ASSUME T # {} PROVE FALSE
    OBVIOUS
  <2>1. PICK m \in T : \A y \in T : m <= y
    <3>1. T \subseteq Nat
      OBVIOUS
    <3> HIDE DEF T
    <3> QED  BY <3>1, LeastNat
  <2>2. m # 0
    <3> DEFINE f == [s \in SUBSET D |-> NewParam]
    <3>1. IsOn(f) /\ Solves(f, 0)
      OBVIOUS
    <3> QED  BY <2>1, <3>1
  <2>3. m \in 1..n /\ m - 1 \in 0..n /\ m - 1 \notin T
    <3>1. T \subseteq 0..n
      OBVIOUS
    <3> HIDE DEF T
    <3> QED  BY <2>1, <2>2, <3>1
  <2>4. PICK f : IsOn(f) /\ Solves(f, m - 1)
    BY <2>3
  <2> DEFINE h == [s \in SUBSET D |-> IF m \in s THEN Step(f, s) ELSE f[s]]
  <2>5. ASSUME NEW s \in SUBSET D, s \subseteq 1..m PROVE h[s] = Step(h, s)
    <3>1. CASE m \in s
      <4>1. Max(s) = m /\ s # {} /\ s \ {m} \in SUBSET D
        BY <1>2, <2>3, <2>5, <3>1
      <4>2. h[s] = Step(f, s) /\ h[s \ {m}] = f[s \ {m}]
        BY <3>1, <4>1
      <4> HIDE DEF h
      <4> QED  BY <4>1, <4>2
    <3>2. CASE m \notin s
      <4>1. s \subseteq 1..m - 1
        BY <2>3, <2>5, <3>2
      <4>2. h[s] = Step(f, s) /\ s \ {Max(s)} \in SUBSET D /\ m \notin s \ {Max(s)}
        BY <2>4, <3>2, <4>1
      <4>3. h[s \ {Max(s)}] = f[s \ {Max(s)}]
        BY <4>2
      <4> HIDE DEF h
      <4> QED  BY <4>2, <4>3
    <3> QED  BY <3>1, <3>2
  <2>6. IsOn(h) /\ Solves(h, m)
    <3>1. Solves(h, m)
      BY <2>5
    <3> QED  BY <3>1
  <2> HIDE DEF h, Solves, IsOn
  <2> QED  BY <2>1, <2>6
<1>4. iter = E(iter)
  <2>1. n \in 0..n /\ n \notin T
    <3>1. n \in 0..n
      OBVIOUS
    <3> HIDE DEF T
    <3> QED  BY <1>3, <3>1
  <2>2. PICK f : IsOn(f) /\ Solves(f, n)
    BY <2>1
  <2>3. f = E(f)
    BY <2>2
  <2> HIDE DEF E
  <2> QED  BY <2>3
<1> HIDE DEF iter
<1>5. \A s \in SUBSET D : iter[s] = Step(iter, s)
  BY <1>4
<1> DEFINE Right(m) == DOMAIN iter[1..m] = { st[k].path : k \in 1..m }
           W == { m \in 0..n : ~Right(m) }
<1>6. Right(0)
  <2>1. 1..0 = {} /\ {} \in SUBSET D
    OBVIOUS
  <2>2. iter[{}] = NewParam
    BY <1>5, <2>1
  <2> QED  BY <2>1, <2>2 DEF NewParam
<1>7. ASSUME NEW m \in 1..n, Right(m - 1) PROVE Right(m)
  <2>1. /\ 1..m \in SUBSET D /\ 1..m # {} /\ m \in 1..m /\ 1..m - 1 = (1..m) \ {m}
        /\ 1..m = (1..m - 1) \cup {m}
    OBVIOUS
  <2>2. iter[1..m] = ParseStatement(iter[1..m - 1], st[m])
    BY <1>2, <1>5, <2>1
  <2>3. DOMAIN iter[1..m] = DOMAIN iter[1..m - 1] \cup {st[m].path}
    <3>1. PICK tree, statement : tree = iter[1..m - 1] /\ statement = st[m]
      OBVIOUS
    <3>2. DOMAIN ParseStatement(tree, statement) = DOMAIN tree \cup {statement.path}
      BY DEF ParseStatement
    <3> QED  BY <2>2, <3>1, <3>2
  <2> QED  BY <1>7, <2>1, <2>3
<1>8. W = {}
  <2> SUFFICES ASSUME W # {} PROVE FALSE
    OBVIOUS
  <2> HIDE DEF Right
  <2>1. PICK m \in W : \A y \in W : m <= y
    <3>1. W \subseteq Nat
      OBVIOUS
    <3> HIDE DEF W
    <3> QED  BY <3>1, LeastNat
  <2>2. m # 0
    BY <1>6, <2>1
  <2>3. m \in 1..n /\ m - 1 \in 0..n /\ m - 1 \notin W
    BY <2>1, <2>2
  <2> QED  BY <1>7, <2>1, <2>3
<1> QED
  <2>1. n \in 0..n
    OBVIOUS
  <2> HIDE DEF iter
  <2>2. Right(n)
    BY <1>8, <2>1
  <2> QED  BY <1>1, <2>2

\* What programs set and the file's statements have names, and the file opens each
\* container on the way to what it holds.
IsName(path) == path \in Seq(Range(path))

FileSetting ==
  /\ File \in Seq(Range(File))
  /\ \A t \in Range(File) :
        /\ IsName(t.path)
        /\ \A q \in Ancestors(t.path) : \E u \in Range(File) : u.path = q

LEMMA NameOf ==
  ASSUME NEW S, NEW q \in Seq(S) PROVE IsName(q)
<1>1. \A n \in 1..Len(q) : q[n] \in Range(q)
  BY DEF Range
<1>2. q = [n \in 1..Len(q) |-> q[n]] /\ Len(q) \in Nat
  OBVIOUS
<1> QED  BY <1>1, <1>2 DEF IsName

\* The containers that a path goes through are those that the path to one of them
\* goes through, that one and others.
LEMMA Ancestry ==
  ASSUME NEW p, IsName(p)
  PROVE  /\ IsFiniteSet(Ancestors(p))
         /\ \A q \in Ancestors(p) : IsName(q) /\ Ancestors(q) \subseteq Ancestors(p)
<1> DEFINE S == Range(p)
<1>1. p \in Seq(S) /\ Len(p) \in Nat
  BY DEF IsName
<1>2. \A n \in 1..Len(p) - 1 :
        /\ SubSeq(p, 1, n) \in Seq(S) /\ Len(SubSeq(p, 1, n)) = n
        /\ \A k \in 1..n : SubSeq(p, 1, n)[k] = p[k]
  <2> SUFFICES ASSUME NEW n \in 1..Len(p) - 1
               PROVE  /\ SubSeq(p, 1, n) \in Seq(S) /\ Len(SubSeq(p, 1, n)) = n
                      /\ \A k \in 1..n : SubSeq(p, 1, n)[k] = p[k]
    OBVIOUS
  <2>1. 1 \in 1..Len(p)+1 /\ n \in 0..Len(p) /\ n \in Nat /\ 1 <= n
    BY <1>1
  <2> HIDE DEF S
  <2>2. /\ SubSeq(p, 1, n) \in Seq(S)
        /\ Len(SubSeq(p, 1, n)) = IF 1 <= n THEN n - 1 + 1 ELSE 0
        /\ \A k \in 1 .. n - 1 + 1 : SubSeq(p, 1, n)[k] = p[1 + k - 1]
    BY <1>1, <2>1, SubSeqProperties
  <2> QED  BY <2>1, <2>2
<1>3. IsFiniteSet(Ancestors(p))
  <2> DEFINE f == [n \in 1..Len(p) - 1 |-> SubSeq(p, 1, n)]
  <2>1. f \in Surjection(1..Len(p) - 1, Ancestors(p))
    BY DEF Surjection, Ancestors
  <2>2. IsFiniteSet(1..Len(p) - 1)
    BY <1>1, FS_Interval
  <2> HIDE DEF f
  <2> QED  BY <2>1, <2>2, FS_Surjection
<1>4. ASSUME NEW q \in Ancestors(p) PROVE IsName(q) /\ Ancestors(q) \subseteq Ancestors(p)
  <2>1. PICK n \in 1..Len(p) - 1 : q = SubSeq(p, 1, n)
    BY DEF Ancestors
  <2>2. q \in Seq(S) /\ Len(q) = n /\ \A k \in 1..n : q[k] = p[k]
    BY <1>2, <2>1
  <2>3. IsName(q)
    BY <2>2, NameOf
  <2>4. ASSUME NEW m \in 1..n - 1 PROVE SubSeq(q, 1, m) = SubSeq(p, 1, m)
    <3>1. m \in 1..Len(p) - 1 /\ m \in Nat /\ 1 \in 1..Len(q)+1 /\ m \in 0..Len(q) /\ 1 <= m
          /\ 1..m \subseteq 1..n
      BY <1>1, <2>2
    <3> HIDE DEF S
    <3>2. /\ SubSeq(q, 1, m) \in Seq(S)
          /\ Len(SubSeq(q, 1, m)) = IF 1 <= m THEN m - 1 + 1 ELSE 0
          /\ \A k \in 1 .. m - 1 + 1 : SubSeq(q, 1, m)[k] = q[1 + k - 1]
      BY <2>2, <3>1, SubSeqProperties
    <3>3. Len(SubSeq(q, 1, m)) = m /\ \A k \in 1..m : SubSeq(q, 1, m)[k] = p[k]
      BY <2>2, <3>1, <3>2
    <3>4. /\ SubSeq(p, 1, m) \in Seq(S) /\ Len(SubSeq(p, 1, m)) = m
          /\ \A k \in 1..m : SubSeq(p, 1, m)[k] = p[k]
      BY <1>2, <3>1
    <3> QED  BY <3>2, <3>3, <3>4, SeqEqual
  <2>5. \A m \in 1..n - 1 : m \in 1..Len(p) - 1
    BY <1>1
  <2> QED  BY <2>2, <2>3, <2>4, <2>5 DEF Ancestors
<1> QED  BY <1>3, <1>4

\* A tree, of which there is an end.
IsFull(tree) == IsTree(tree) /\ IsFiniteSet(DOMAIN tree)

\* Every path that is spoken of has a name.
LEMMA PathsAreNames ==
  ASSUME ParamSetting, FileSetting, NEW p \in Paths PROVE IsName(p)
<1>1. PICK root \in { e.path : e \in Entries } \cup { t.path : t \in Range(File) } :
        p \in {root} \cup Ancestors(root)
  BY DEF Paths
<1>2. IsName(root)
  BY DEF ParamSetting, FileSetting, IsName
<1> QED  BY <1>1, <1>2, Ancestry

\* Setting a parameter gives it the containers it needs.
LEMMA SetIsFull ==
  ASSUME ParamSetting, FileSetting, NEW tree, IsFull(tree), NEW entry \in Entries, NEW value
  PROVE  IsFull(SetStr(tree, entry.path, value))
<1>1. PICK path : path = entry.path
  OBVIOUS
<1>2. IsName(path) /\ {path} \cup Ancestors(path) \subseteq Paths
  BY <1>1 DEF ParamSetting, IsName, Paths
<1>3. DOMAIN SetStr(tree, path, value) = DOMAIN tree \cup Ancestors(path) \cup {path}
  BY DEF SetStr, CreateKey
<1>4. IsFiniteSet(DOMAIN tree \cup Ancestors(path) \cup {path})
  <2>1. IsFiniteSet(DOMAIN tree) /\ IsFiniteSet(Ancestors(path)) /\ IsFiniteSet({path})
    BY <1>2, Ancestry, FS_Singleton DEF IsFull
  <2> QED  BY <2>1, FS_Union
<1>5. \A p \in DOMAIN tree \cup Ancestors(path) \cup {path} :
        Ancestors(p) \subseteq DOMAIN tree \cup Ancestors(path)
  BY <1>2, Ancestry DEF IsFull, IsTree
<1> QED  BY <1>1, <1>2, <1>3, <1>4, <1>5 DEF IsFull, IsTree

\* A text that is written of a tree is read as a tree.
LEMMA WrittenIsFull ==
  ASSUME ParamSetting, FileSetting, NEW tree, IsFull(tree)
  PROVE  IsFull(NewFromString(Write(tree)))
<1> DEFINE stmt(p) == IF tree[p].type = "array" THEN Assign(p, tree[p].values) ELSE Open(p)
           W == WrittenPaths(tree)
           S == { stmt(p) : p \in W }
<1>1. \A p \in W : stmt(p).path = p
  BY DEF Assign, Open
<1>2. W \in SUBSET DOMAIN tree /\ IsFiniteSet(W)
  BY FS_Subset DEF WrittenPaths, IsFull
<1>3. IsFiniteSet(S)
  <2> DEFINE f == [p \in W |-> stmt(p)]
  <2> HIDE DEF W, stmt
  <2>1. f \in Surjection(W, S)
    BY DEF Surjection
  <2> HIDE DEF f, S
  <2> QED  BY <1>2, <2>1, FS_Surjection
<1>4. \A x \in S : Len(x.path) \in Nat
  <2>1. \A p \in W : Len(p) \in Nat
    BY <1>2, PathsAreNames DEF IsFull, IsTree, IsName
  <2> HIDE DEF W, stmt
  <2> QED  BY <1>1, <2>1
<1> DEFINE text == CHOOSE t \in SetToSeqs(S) : ByLength(t)
<1>5. Write(tree) = text
  BY Zenon DEF Write, ByLength
<1>6. DOMAIN text = 1..Cardinality(S) /\ Cardinality(S) \in Nat /\ Range(text) = S
  <2> HIDE DEF S
  <2> QED  BY <1>3, <1>4, Sorted, Zenon
<1>7. DOMAIN NewFromString(text) = { text[k].path : k \in 1..Cardinality(S) }
  <2>1. PICK n : n = Cardinality(S)
    OBVIOUS
  <2>2. n \in Nat /\ DOMAIN text = 1..n
    BY <1>6, <2>1
  <2> HIDE DEF text, S
  <2>3. DOMAIN NewFromString(text) = { text[k].path : k \in 1..n }
    BY <2>2, Parsed
  <2> QED  BY <2>1, <2>3
<1>8. DOMAIN NewFromString(text) = W
  <2>1. DOMAIN NewFromString(text) = { x.path : x \in Range(text) }
    <3> HIDE DEF text, S
    <3> QED  BY <1>6, <1>7 DEF Range
  <2> HIDE DEF text, W, stmt
  <2> QED  BY <1>1, <1>6, <2>1
<1>9. \A p \in W : Ancestors(p) \subseteq W
  <2> SUFFICES ASSUME NEW p \in W, NEW q \in Ancestors(p) PROVE q \in W
    OBVIOUS
  <2>1. q \in DOMAIN tree /\ Ancestors(q) \subseteq Ancestors(p)
    BY <1>2, PathsAreNames, Ancestry DEF IsFull, IsTree
  <2> QED  BY <2>1 DEF WrittenPaths
<1>10. W \subseteq Paths
  BY <1>2 DEF IsFull, IsTree
<1> HIDE DEF text, W
<1> QED  BY <1>2, <1>5, <1>8, <1>9, <1>10 DEF IsFull, IsTree

\* A parameter file is read as a tree.
LEMMA FileIsFull ==
  ASSUME ParamSetting, FileSetting PROVE IsFull(NewFromString(File))
<1>1. PICK n \in Nat : n = Len(File) /\ DOMAIN File = 1..n
  BY DEF FileSetting
<1>2. DOMAIN NewFromString(File) = { File[k].path : k \in 1..n }
  BY <1>1, Parsed
<1>3. DOMAIN NewFromString(File) = { t.path : t \in Range(File) }
  BY <1>1, <1>2 DEF Range
<1>4. IsFiniteSet({ File[k].path : k \in 1..n })
  <2> DEFINE T == { File[k].path : k \in 1..n }
             f == [k \in 1..n |-> File[k].path]
  <2>1. f \in Surjection(1..n, T)
    BY DEF Surjection
  <2>2. IsFiniteSet(1..n)
    BY FS_Interval
  <2> HIDE DEF f, T
  <2>3. IsFiniteSet(T)
    BY <2>1, <2>2, FS_Surjection
  <2> QED  BY <2>3 DEF T
<1>5. { t.path : t \in Range(File) } \subseteq Paths
  BY DEF Paths
<1>6. \A p \in { t.path : t \in Range(File) } :
        Ancestors(p) \subseteq { t.path : t \in Range(File) }
  BY DEF FileSetting
<1> QED  BY <1>2, <1>3, <1>4, <1>5, <1>6 DEF IsFull, IsTree

\* Trees, one at least.
AreFull(trees) == trees \in Seq({ t \in Range(trees) : IsFull(t) }) /\ Len(trees) > 0

LEMMA FurtherIsFull ==
  ASSUME ParamSetting, FileSetting, NEW trees, AreFull(trees), NEW entry \in Entries
  PROVE  AreFull(Further(trees, entry))
<1>1. PICK tree : tree = SetStr(Last(trees), entry.path, entry.value)
  OBVIOUS
<1> DEFINE more == Append(trees, tree)
           S == { t \in Range(trees) \cup {tree} : IsFull(t) }
<1>2. trees[Len(trees)] \in { t \in Range(trees) : IsFull(t) }
  BY DEF AreFull
<1>3. IsFull(Last(trees))
  BY <1>2 DEF Last
<1>4. IsFull(tree)
  BY <1>1, <1>3, SetIsFull
<1>5. trees \in Seq(S) /\ tree \in S
  BY <1>4 DEF AreFull
<1> HIDE DEF S
<1>6. more \in Seq(S) /\ Len(more) = Len(trees) + 1
  BY <1>5
<1> HIDE DEF more
<1>7. \A n \in 1..Len(more) : more[n] \in Range(more) /\ more[n] \in S
  BY <1>6 DEF Range
<1>8. \A n \in 1..Len(more) : more[n] \in { t \in Range(more) : IsFull(t) }
  BY <1>7 DEF S
<1>9. more \in Seq({ t \in Range(more) : IsFull(t) })
  BY <1>6, <1>8
<1>10. AreFull(more)
  BY <1>5, <1>6, <1>9 DEF AreFull
<1> QED  BY <1>1, <1>10 DEF Further, more

\* What a set message leads to are trees.
LEMMA TreesAreFull ==
  ASSUME ParamSetting, FileSetting, NEW params, IsFull(params), NEW entries \in SetMessages
  PROVE  AreFull(Trees(params, entries))
<1>1. AreFull(<<params>>)
  BY DEF AreFull, Range
<1>2. /\ entries[1] \in Entries
      /\ Len(entries) = 2 => entries[2] \in Entries
  BY DEF SetMessages
<1> QED  BY <1>1, <1>2, TreesAre, FurtherIsFull

\* The invariant: whatever is somebody's parameters is a tree, and a client is not ahead of
\* its server.
IsBehind(me) ==
  \A s \in Servers : me.server_id = s => me.sequence_number \in -1..servers[s].seqNo

AllFull ==
  /\ \A s \in Servers :
        /\ servers[s].up \in BOOLEAN /\ IsFull(servers[s].params)
        /\ \A n \in 1..Len(states[s]) : IsFull(states[s][n])
  /\ \A c \in Clients : IsFull(clients[c].root) /\ IsBehind(clients[c])

\* A step of a client.
LEMMA ClientIsFull ==
  ASSUME Clean, AllFull, NEW c \in Clients, UNCHANGED <<servers, states>>,
         NEW me, clients' = [clients EXCEPT ![c] = me], IsFull(me.root), IsBehind(me)
  PROVE  AllFull'
<1>1. clients' = [x \in Clients |-> IF x = c THEN me ELSE clients[x]]
  BY DEF Clean
<1>2. \A x \in Clients : IsFull(clients'[x].root) /\ IsBehind(clients'[x])
  BY <1>1 DEF AllFull
<1>3. \A x : IsBehind(x)' <=> IsBehind(x)
  BY DEF IsBehind
<1>4. \A x \in Clients : IsBehind(clients[x])'
  BY <1>2, <1>3
<1>5. \A x \in Clients : IsFull(clients[x].root)'
  BY <1>2 DEF IsFull, IsTree
<1>6. \A s \in Servers :
        /\ servers'[s].up \in BOOLEAN /\ IsFull(servers'[s].params)
        /\ \A n \in 1..Len(states'[s]) : IsFull(states'[s][n])
  BY DEF AllFull
<1> QED  BY <1>4, <1>5, <1>6 DEF AllFull, IsFull, IsTree

\* A step of a server, which goes on counting.
LEMMA ServerIsFull ==
  ASSUME AllGenuine, AllFull, NEW s \in Servers, UNCHANGED clients,
         NEW server, servers' = [servers EXCEPT ![s] = server],
         NEW history, states' = [states EXCEPT ![s] = history],
         server.up \in BOOLEAN, IsFull(server.params),
         \A n \in 1..Len(history) : IsFull(history[n]),
         server.seqNo \in Nat, servers[s].seqNo <= server.seqNo
  PROVE  AllFull'
<1>1. /\ states' = [x \in Servers |-> IF x = s THEN history ELSE states[x]]
      /\ servers' = [x \in Servers |-> IF x = s THEN server ELSE servers[x]]
  BY DEF AllGenuine
<1>2. \A x \in Servers :
        /\ servers'[x].up \in BOOLEAN /\ IsFull(servers'[x].params)
        /\ \A n \in 1..Len(states'[x]) : IsFull(states'[x][n])
  BY <1>1 DEF AllFull
<1>3. \A x \in Servers : servers[x].seqNo \in Nat /\ servers[x].seqNo <= servers'[x].seqNo
                         /\ servers'[x].seqNo \in Nat
  BY <1>1 DEF AllGenuine, Counts
<1>4. \A c \in Clients : IsFull(clients[c].root) /\ IsBehind(clients[c])
  BY DEF AllFull
<1>5. \A x : IsBehind(x) => IsBehind(x)'
  <2> SUFFICES ASSUME NEW x, IsBehind(x), NEW y \in Servers, x.server_id = y
               PROVE  x.sequence_number \in -1..servers'[y].seqNo
    BY DEF IsBehind
  <2>1. x.sequence_number \in -1..servers[y].seqNo
    BY DEF IsBehind
  <2> QED  BY <1>3, <2>1
<1>6. \A c \in Clients : IsBehind(clients[c])'
  <2>1. \A c \in Clients : clients'[c] = clients[c]
    OBVIOUS
  <2> QED  BY <1>4, <1>5, <2>1 DEF IsBehind
<1> QED  BY <1>2, <1>4, <1>6 DEF AllFull, IsFull, IsTree

\* The steps of the clients.
LEMMA ClientsAreFull ==
  ASSUME ParamSetting, FileSetting, Clean, AllGenuine, AllFull, NEW c \in Clients,
         \/ NewFromServer(c, TRUE) \/ NewFromServer(c, FALSE)
         \/ SwapRoot(c) \/ GotParams(c) \/ GiveUp(c)
         \/ \E update \in network[c] : OnParamUpdate(c, update)
         \/ \E entry \in Entries : Override(c, entry)
  PROVE  AllFull'
<1> DEFINE old == clients[c]
<1>0. /\ Copied(old) /\ IsClient(old) /\ IsFull(old.root) /\ IsBehind(old)
      /\ IsFull(NewParam) /\ \A s \in Servers : s # Nobody
  <2>1. IsFull(NewParam)
    BY FS_EmptySet DEF IsFull, IsTree, NewParam
  <2> QED  BY <2>1, ServersAreSomebody DEF AllGenuine, AllFull, Clean, ClientHolds
<1>u. ASSUME NEW u, Genuine(u)
      PROVE  /\ u.server \in Servers /\ u.seqNo \in 0..servers[u.server].seqNo
             /\ IsFull(NewFromString(u.params))
  <2>1. /\ u.server \in Servers /\ u.seqNo + 1 \in 1..Len(states[u.server]) /\ u.seqNo \in Nat
        /\ NewFromString(u.params) = states[u.server][u.seqNo + 1]
    BY <1>u DEF Genuine
  <2>2. PICK s \in Servers : s = u.server
    BY <2>1
  <2>3. Counts(s) /\ states[s] # << >>
    BY <2>1, <2>2 DEF AllGenuine
  <2>4. Len(states[s]) = servers[s].seqNo + 1 /\ servers[s].seqNo \in Nat
    BY <2>3 DEF Counts
  <2>5. IsFull(NewFromString(u.params))
    BY <2>1 DEF AllFull
  <2> QED  BY <2>1, <2>2, <2>4, <2>5
<1>1. ASSUME NEW keep \in BOOLEAN, NewFromServer(c, keep) PROVE AllFull'
  <2> DEFINE me == [phase |-> "waiting", keep_updated |-> keep, server_id |-> Nobody,
                    sequence_number |-> 0, root |-> NewParam, incoming |-> NoUpdate]
  <2>1. clients' = [clients EXCEPT ![c] = me] /\ UNCHANGED <<servers, states>>
    BY <1>1, NewFromServerStep DEF NewFromServer
  <2>2. IsFull(me.root) /\ IsBehind(me)
    BY <1>0 DEF IsBehind
  <2> HIDE DEF me
  <2> QED  BY <2>1, <2>2, ClientIsFull
<1>2. CASE SwapRoot(c)
  <2> DEFINE u == old.incoming
             me == [phase |-> old.phase, keep_updated |-> old.keep_updated,
                    server_id |-> old.server_id, sequence_number |-> u.seqNo,
                    root |-> NewFromString(u.params), incoming |-> NoUpdate]
  <2>1. /\ clients' = [clients EXCEPT ![c] = me] /\ UNCHANGED <<servers, states>>
        /\ u # NoUpdate
    BY <1>2, SwapRootStep DEF SwapRoot
  <2>2. Genuine(u) /\ u.server = old.server_id
    BY <1>0, <2>1 DEF Copied
  <2>3. u.seqNo \in 0..servers[u.server].seqNo /\ IsFull(NewFromString(u.params))
    BY <1>u, <2>2
  <2>4. \A s \in Servers : old.server_id = s => u.seqNo \in -1..servers[s].seqNo
    BY <2>2, <2>3
  <2>5. IsFull(me.root) /\ IsBehind(me)
    BY <2>3, <2>4 DEF IsBehind
  <2> HIDE DEF me
  <2> QED  BY <2>1, <2>5, ClientIsFull
<1>3. CASE GotParams(c)
  <2>1. PICK id : id = IF old.keep_updated THEN old.server_id ELSE Nobody
    OBVIOUS
  <2> DEFINE me == [phase |-> "ready", keep_updated |-> old.keep_updated,
                    server_id |-> id, sequence_number |-> old.sequence_number,
                    root |-> old.root, incoming |-> old.incoming]
  <2>2. clients' = [clients EXCEPT ![c] = me] /\ UNCHANGED <<servers, states>>
    BY <1>3, <2>1, GotParamsStep DEF GotParams
  <2>3. IsFull(me.root) /\ IsBehind(me)
    BY <1>0, <2>1 DEF IsBehind
  <2> HIDE DEF me
  <2> QED  BY <2>2, <2>3, ClientIsFull
<1>4. CASE GiveUp(c)
  <2>1. clients' = [clients EXCEPT ![c] = NoParam] /\ UNCHANGED <<servers, states>>
    BY <1>4 DEF GiveUp
  <2>2. IsFull(NoParam.root) /\ IsBehind(NoParam)
    BY <1>0 DEF IsBehind, NoParam
  <2> QED  BY <2>1, <2>2, ClientIsFull
<1>5. ASSUME NEW u \in network[c], OnParamUpdate(c, u) PROVE AllFull'
  <2>1. PICK id, number :
          /\ id = IF old.server_id = Nobody THEN u.server ELSE old.server_id
          /\ number = IF old.server_id = Nobody THEN u.seqNo - 1 ELSE old.sequence_number
    OBVIOUS
  <2>2. PICK news : news = IF IsNews(u, id, number) THEN u ELSE NoUpdate
    OBVIOUS
  <2> DEFINE me == [phase |-> old.phase, keep_updated |-> old.keep_updated, server_id |-> id,
                    sequence_number |-> number, root |-> old.root, incoming |-> news]
  <2>3. clients' = [clients EXCEPT ![c] = me]
    BY <1>5, <2>1, <2>2, OnParamUpdateStep
  <2>4. /\ u.server \in Servers /\ u.seqNo \in 0..servers[u.server].seqNo
        /\ UNCHANGED <<servers, states>>
    BY <1>5, <1>u DEF AllGenuine, OnParamUpdate
  <2>5. \A s \in Servers : servers[s].seqNo \in Nat
    BY DEF AllGenuine, Counts
  <2>6. \A s \in Servers : id = s => number \in -1..servers[s].seqNo
    <3>1. CASE old.server_id = Nobody
      BY <2>1, <2>4, <2>5, <3>1
    <3>2. CASE old.server_id # Nobody
      BY <1>0, <2>1, <3>2 DEF IsBehind
    <3> QED  BY <3>1, <3>2
  <2>7. IsFull(me.root) /\ IsBehind(me)
    BY <1>0, <2>6 DEF IsBehind
  <2> HIDE DEF me
  <2> QED  BY <2>3, <2>4, <2>7, ClientIsFull
<1>6. ASSUME NEW entry \in Entries, Override(c, entry) PROVE AllFull'
  <2>1. PICK tree : tree = SetStr(old.root, entry.path, entry.value)
    OBVIOUS
  <2> DEFINE me == [phase |-> old.phase, keep_updated |-> old.keep_updated,
                    server_id |-> old.server_id, sequence_number |-> old.sequence_number,
                    root |-> tree, incoming |-> old.incoming]
  <2>2. /\ clients' = [clients EXCEPT ![c].root = SetStr(@, entry.path, entry.value)]
        /\ UNCHANGED <<servers, states>>
    BY <1>6 DEF Override
  <2>3. clients' = [clients EXCEPT ![c] = [old EXCEPT !.root = tree]]
    BY <2>1, <2>2 DEF Clean
  <2>4. [old EXCEPT !.root = tree] = me
    BY <1>0, Fields
  <2>5. IsFull(tree)
    BY <1>0, <2>1, SetIsFull
  <2>6. IsFull(me.root) /\ IsBehind(me)
    BY <1>0, <2>5 DEF IsBehind
  <2> HIDE DEF me
  <2> QED  BY <2>2, <2>3, <2>4, <2>6, ClientIsFull
<1> QED  BY <1>1, <1>2, <1>3, <1>4, <1>5, <1>6

\* The steps of a server.
LEMMA ServersAreFull ==
  ASSUME ParamSetting, FileSetting, AllGenuine, AllFull, NEW s \in Servers,
         \/ StartServer(s) \/ CrashServer(s)
         \/ \E hearers \in SUBSET (Clients \X {Current(s)}) : PublishParams(s, hearers)
         \/ \E entries \in SetMessages : OnParamSet(s, entries)
  PROVE  AllFull'
<1>0. /\ servers[s].up \in BOOLEAN /\ IsFull(servers[s].params) /\ servers[s].seqNo \in Nat
      /\ \A n \in 1..Len(states[s]) : IsFull(states[s][n])
      /\ states = [states EXCEPT ![s] = states[s]] /\ Counts(s)
  BY DEF AllFull, AllGenuine, Counts
<1>1. CASE StartServer(s)
  <2>1. PICK params, text : params = NewFromString(File) /\ text = Write(params)
    OBVIOUS
  <2> DEFINE server == [up |-> TRUE, seqNo |-> 0, params |-> params, text |-> text]
             history == << NewFromString(text) >>
  <2>2. /\ servers' = [servers EXCEPT ![s] = server] /\ states' = [states EXCEPT ![s] = history]
        /\ UNCHANGED clients /\ states[s] = << >>
    BY <1>1, <2>1 DEF StartServer
  <2>3. IsFull(params) /\ IsFull(NewFromString(text))
    BY <2>1, FileIsFull, WrittenIsFull
  <2>4. /\ server.up \in BOOLEAN /\ IsFull(server.params) /\ server.seqNo \in Nat
        /\ \A n \in 1..Len(history) : IsFull(history[n])
    BY <2>3
  <2>5. servers[s].seqNo <= server.seqNo
    BY <1>0, <2>2 DEF Counts
  <2> HIDE DEF server, history
  <2> QED  BY <2>2, <2>4, <2>5, ServerIsFull
<1>2. CASE CrashServer(s)
  <2> DEFINE server == [up |-> FALSE, seqNo |-> servers[s].seqNo,
                        params |-> servers[s].params, text |-> servers[s].text]
  <2>1. servers' = [servers EXCEPT ![s] = server]
    BY <1>2, CrashServerStep
  <2>2. states' = [states EXCEPT ![s] = states[s]] /\ UNCHANGED clients
    BY <1>0, <1>2 DEF CrashServer
  <2>3. /\ server.up \in BOOLEAN /\ IsFull(server.params) /\ server.seqNo \in Nat
        /\ servers[s].seqNo <= server.seqNo
    BY <1>0
  <2> HIDE DEF server
  <2> QED  BY <1>0, <2>1, <2>2, <2>3, ServerIsFull
<1>3. ASSUME NEW hearers, PublishParams(s, hearers) PROVE AllFull'
  BY <1>3 DEF PublishParams, AllFull, IsBehind, IsFull, IsTree
<1>4. ASSUME NEW entries \in SetMessages, OnParamSet(s, entries) PROVE AllFull'
  <2>1. PICK trees, texts, text, read : LeadsTo(servers[s], entries, trees, texts, text, read)
    BY DEF LeadsTo
  <2> DEFINE past == states[s]
             server == [up |-> servers[s].up, seqNo |-> servers[s].seqNo + Len(texts),
                        params |-> Last(trees), text |-> text]
             history == past \o read
  <2>2. servers' = [servers EXCEPT ![s] = server] /\ states' = [states EXCEPT ![s] = history]
    <3>1. ComesTo(s, trees, texts, text, read)
      BY <1>4, <2>1, OnParamSetStep
    <3> QED  BY <3>1 DEF ComesTo
  <2>3. AreFull(trees)
    BY <1>0, <2>1, TreesAreFull DEF LeadsTo
  <2>4. Len(trees) \in Nat \ {0} /\ \A n \in 1..Len(trees) : IsFull(trees[n])
    <3>1. PICK S : trees \in Seq(S) /\ Len(trees) > 0 /\ \A t \in S : IsFull(t)
      BY <2>3 DEF AreFull
    <3> QED  BY <3>1
  <2>5. PICK m \in Nat : m = Len(trees) - 1
    BY <2>4
  <2>6. /\ texts = [n \in 1..m |-> Write(trees[n + 1])] /\ Len(texts) = m
        /\ read = [n \in 1..m |-> NewFromString(Write(trees[n + 1]))] /\ Len(read) = m
    BY <2>1, <2>5 DEF LeadsTo
  <2>7. \A n \in 1..m : IsFull(read[n])
    <3>1. \A n \in 1..m : IsFull(trees[n + 1])
      BY <2>4, <2>5
    <3> QED  BY <2>6, <3>1, WrittenIsFull
  <2>8. \A n \in 1..Len(history) : IsFull(history[n])
    <3> DEFINE S == { t \in Range(past) \cup Range(read) : IsFull(t) }
    <3>1. past = [n \in 1..Len(past) |-> past[n]] /\ Len(past) \in Nat
      BY <1>0 DEF Counts, IsList
    <3>2. \A n \in 1..Len(past) : past[n] \in S
      BY <1>0, <3>1 DEF Range
    <3>3. \A n \in 1..m : read[n] \in S
      BY <2>6, <2>7 DEF Range
    <3> HIDE DEF S, past
    <3>4. past \in Seq(S)
      BY <3>1, <3>2
    <3>5. read \in Seq(S)
      <4>1. read = [n \in 1..m |-> read[n]]
        BY <2>6
      <4> QED  BY <3>3, <4>1
    <3>6. history \in Seq(S)
      BY <3>4, <3>5
    <3> HIDE DEF history
    <3>7. \A n \in 1..Len(history) : history[n] \in S
      BY <3>6
    <3> QED  BY <3>7 DEF S
  <2>9. IsFull(Last(trees))
    BY <2>4 DEF Last
  <2>10. /\ server.up \in BOOLEAN /\ IsFull(server.params) /\ server.seqNo \in Nat
         /\ servers[s].seqNo <= server.seqNo
    BY <1>0, <2>6, <2>9
  <2>11. UNCHANGED clients
    BY <1>4 DEF OnParamSet
  <2> HIDE DEF server, history
  <2> QED  BY <2>2, <2>8, <2>10, <2>11, ServerIsFull
<1> QED  BY <1>1, <1>2, <1>3, <1>4

\* Every step keeps what is somebody's parameters a tree.
LEMMA NextIsFull ==
  ASSUME ParamSetting, FileSetting, Clean, AllGenuine, AllFull, [Next]_vars
  PROVE  AllFull'
<1>1. CASE \E s \in Servers :
              \/ StartServer(s) \/ CrashServer(s)
              \/ \E hearers \in SUBSET (Clients \X {Current(s)}) : PublishParams(s, hearers)
              \/ \E entries \in SetMessages : OnParamSet(s, entries)
  BY <1>1, ServersAreFull
<1>2. CASE \E c \in Clients :
              \/ NewFromServer(c, TRUE) \/ NewFromServer(c, FALSE)
              \/ SwapRoot(c) \/ GotParams(c) \/ GiveUp(c)
              \/ \E update \in network[c] : OnParamUpdate(c, update)
              \/ \E entry \in Entries : Override(c, entry)
  BY <1>2, ClientsAreFull
<1>3. CASE UNCHANGED vars
  BY <1>3 DEF vars, AllFull, IsBehind, IsFull, IsTree
<1> QED
  BY <1>1, <1>2, <1>3 DEF Next

\* There is nothing at first, and nothing is a tree.
LEMMA InitIsFull == ASSUME ParamSetting, Init PROVE AllFull
<1>1. IsFull(NewParam)
  BY FS_EmptySet DEF IsFull, IsTree, NewParam
<1>2. \A s \in Servers : /\ servers[s].up \in BOOLEAN /\ IsFull(servers[s].params)
                         /\ \A n \in 1..Len(states[s]) : IsFull(states[s][n])
  <2>1. \A s \in Servers : servers[s].up = FALSE /\ servers[s].params = NewParam
    BY DEF Init, NotStarted
  <2>2. \A s \in Servers : states[s] = << >> /\ 1..Len(states[s]) = {}
    BY DEF Init
  <2> QED  BY <1>1, <2>1, <2>2
<1>3. \A c \in Clients : IsFull(clients[c].root) /\ IsBehind(clients[c])
  BY <1>1, ServersAreSomebody DEF Init, NoParam, IsBehind
<1> QED  BY <1>2, <1>3 DEF AllFull

\* However updates are lost, late or overtaken and servers restart, every tree is closed under
\* ancestors and holds no path that nobody gave, those that are read from a text included; a
\* client is not ahead of its server; and what it overrides is in its tree (param_internal.c,
\* param_server.c).
THEOREM ParametersAreTrees == ASSUME ParamSetting, FileSetting PROVE Spec => []TypeOK
<1>1. Init => Clean /\ AllGenuine /\ AllFull
  BY InitClean, InitCopies, InitIsFull
<1>2. Clean /\ AllGenuine /\ AllFull /\ [Next]_vars => Clean' /\ AllGenuine' /\ AllFull'
  BY NextClean, NextCopies, NextIsFull
<1>3. Clean /\ AllGenuine /\ AllFull => TypeOK
  <2> SUFFICES ASSUME Clean, AllGenuine, AllFull PROVE TypeOK
    OBVIOUS
  <2>1. \A s \in Servers :
          /\ servers[s].up \in BOOLEAN /\ IsTree(servers[s].params)
          /\ Len(states[s]) = IF states[s] = << >> THEN 0 ELSE servers[s].seqNo + 1
    BY DEF AllGenuine, Counts, AllFull, IsFull
  <2>2. \A c \in Clients : clients[c].phase \in {"none", "waiting", "ready"}
    BY DEF Clean, ClientHolds, IsClient
  <2>3. \A c \in Clients :
          /\ IsTree(clients[c].root)
          /\ \A s \in Servers :
                clients[c].server_id = s => clients[c].sequence_number \in -1..servers[s].seqNo
    BY DEF AllFull, IsFull, IsBehind
  <2>4. \A c \in Clients : DOMAIN overrides[c] \subseteq DOMAIN clients[c].root
    BY DEF Clean, ClientHolds, Held
  <2> QED  BY <2>1, <2>2, <2>3, <2>4 DEF TypeOK
<1> QED  BY <1>1, <1>2, <1>3, PTL DEF Spec
=============================================================================
