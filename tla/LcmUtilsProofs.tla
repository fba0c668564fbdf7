---------------------------- MODULE LcmUtilsProofs ---------------------------
(***************************************************************************)
(* What is proved of the LCM utilities, as they are put together in           *)
(* Libraries: messages come once to each network that the server of the       *)
(* tunnels connects; a tunnel over UDP is transparent, for any sizes, payload, *)
(* wrap of the numbers and number of packets under way; the tools that copy   *)
(* logs keep the events and their order.                                    *)
(***************************************************************************)
EXTENDS Libraries, SequenceTheorems, FiniteSetTheorems, NaturalsInduction,
        WellFoundedInduction, TLAPS

HubProofs == INSTANCE TunnelHubProofs WITH
  Clients <- HubClients, Server <- HubServer, MaxMessages <- HubMessages,
  params <- over_udp, client <- client_state, server <- server_state, published <- heard

-----------------------------------------------------------------------------
(* Messages over TCP and UDP between networks *)

\* A message comes to each network once and never back to its own, and to all that are
\* connected over TCP, for any clients and messages, and whatever UDP loses or overtakes
\* (introspect_is_message_from_self, check_and_send_to_tunnels).
THEOREM MessagesComeOnce ==
  ASSUME HubServer \notin HubClients, HubMessages \in Nat
  PROVE  Hub!Spec => []OthersHearItOnce
<1>1. HubProofs!Setting
  BY DEF HubProofs!Setting
<1>2. HubProofs!Spec => []HubProofs!OthersHearItOnce
  BY <1>1, HubProofs!Dissemination
<1>3. HubProofs!Init <=> Hub!Init
  BY Zenon DEF
     HubProofs!Init, Hub!Init, HubProofs!Processes, Hub!Processes, HubProofs!Introspect,
     Hub!Introspect
<1>4. [HubProofs!Next]_HubProofs!vars <=> [Hub!Next]_Hub!vars
  BY Zenon DEF
     HubProofs!Next, Hub!Next, HubProofs!vars, Hub!vars, HubProofs!streamVars, Hub!streamVars,
     HubProofs!historyVars, Hub!historyVars, HubProofs!Processes, Hub!Processes,
     HubProofs!ConnectToServer, Hub!ConnectToServer, HubProofs!AcceptClient, Hub!AcceptClient,
     HubProofs!OnClientMsg, Hub!OnClientMsg, HubProofs!OnServerMsg, Hub!OnServerMsg,
     HubProofs!Joined, Hub!Joined, HubProofs!ProgramPublishes, Hub!ProgramPublishes,
     HubProofs!Forwarding, Hub!Forwarding, HubProofs!SentDown, Hub!SentDown, HubProofs!SentUp,
     Hub!SentUp, HubProofs!OnLcmTunnelIntrospect, Hub!OnLcmTunnelIntrospect,
     HubProofs!OnLcmMessage, Hub!OnLcmMessage, HubProofs!LcmPublish, Hub!LcmPublish,
     HubProofs!Left, Hub!Left, HubProofs!ServerReceives, Hub!ServerReceives,
     HubProofs!ClientReceives, Hub!ClientReceives, HubProofs!Excused, Hub!Excused,
     HubProofs!ClientQuits, Hub!ClientQuits, HubProofs!ServerEnds, Hub!ServerEnds,
     HubProofs!ServerDisconnects, Hub!ServerDisconnects, HubProofs!ClientDisconnects,
     Hub!ClientDisconnects, HubProofs!Introspect, Hub!Introspect, HubProofs!ClientMsg,
     Hub!ClientMsg, HubProofs!ServerMsg, Hub!ServerMsg, HubProofs!Goodbye, Hub!Goodbye,
     HubProofs!RemoveAt, Hub!RemoveAt
<1>5. HubProofs!OthersHearItOnce => OthersHearItOnce
  BY Zenon DEF OthersHearItOnce,
     HubProofs!OthersHearItOnce, Hub!OthersHearItOnce, HubProofs!Quiet, Hub!Quiet,
     HubProofs!Joined, Hub!Joined, HubProofs!Processes, Hub!Processes, HubProofs!IsInjective,
     Hub!IsInjective, HubProofs!Range, Hub!Range
<1> QED
  BY <1>2, <1>3, <1>4, <1>5, PTL DEF Hub!Spec, HubProofs!Spec

-----------------------------------------------------------------------------
(* The tunnel over UDP: what keeps the order is that numbers tell earlier batches from later  *)
(* ones, as long as no packet is too late.                                                     *)

\* The gap is less than a lap of the numbers, and messages have a size.
TunnelSetting ==
  /\ Sizes \subseteq Nat \ {0} /\ Payload \in Nat \ {0} /\ MaxPackets \in Nat
  /\ SeqnoWrapGap \in Nat /\ SeqnoWrapVal \in Nat /\ SeqnoWrapGap + 1 < SeqnoWrapVal
  /\ FirstSeqno \in 0 .. SeqnoWrapVal - 1
  /\ \A mode \in Modes : mode.repeats \in Nat \ {0}

\* A set of natural numbers that is not empty has a least.
LEMMA LeastOf ==
  ASSUME NEW T, T \subseteq Nat, T # {}
  PROVE  \E x \in T : \A y \in T : x <= y
<1> DEFINE R == OpToRel(<, Nat)
<1>1. IsWellFoundedOn(R, Nat)
  BY NatLessThanWellFounded
<1>2. \A x, y \in Nat : y < x => <<y, x>> \in R
  BY DEF OpToRel
<1> HIDE DEF R
<1>3. PICK x \in T : \A y \in T : ~ (<<y, x>> \in R)
  BY <1>1, WFMin
<1>4. ASSUME NEW y \in T PROVE x <= y
  <2>1. ~(y < x)
    BY <1>2, <1>3
  <2> QED  BY <2>1
<1> QED  BY <1>4

\* The bytes of a batch are a number, and some if there is a message.
LEMMA BytesFacts ==
  ASSUME TunnelSetting, NEW messages \in Seq([id : Nat, size : Sizes])
  PROVE  /\ Tunnel!Bytes(messages) \in Nat
         /\ messages # << >> => Tunnel!Bytes(messages) > 0
<1> DEFINE L == Len(messages)
           Size(n) == messages[n].size
           Sums(f, n) == /\ f \in [0..n -> Nat] /\ f[0] = 0
                         /\ \A k \in 1..n : f[k] = f[k - 1] + Size(k)
           Solution(f) == f = [n \in 0..L |-> IF n = 0 THEN 0 ELSE f[n - 1] + Size(n)]
<1>1. L \in Nat /\ \A n \in 1..L : Size(n) \in Nat \ {0}
  <2>1. Len(messages) \in Nat
    OBVIOUS
  <2>2. ASSUME NEW n \in 1..L PROVE Size(n) \in Nat \ {0}
    <3>1. messages[n] \in [id : Nat, size : Sizes]
      BY <2>1, ElementOfSeq
    <3>2. messages[n].size \in Sizes
      BY <3>1
    <3> QED  BY <3>2 DEF TunnelSetting
  <2> QED  BY <2>1, <2>2
<1> HIDE DEF Size, L
<1>2. \A n \in 0..L : \E f : Sums(f, n)
  <2> DEFINE T == { n \in 0..L : ~ \E f : Sums(f, n) }
  <2> SUFFICES ASSUME T # {} PROVE FALSE
    <3> HIDE DEF Sums
    <3> QED  OBVIOUS
  <2>0. T \subseteq Nat
    <3> HIDE DEF Sums
    <3> QED  BY <1>1
  <2>1. PICK n \in T : \A k \in T : n <= k
    <3> HIDE DEF T
    <3> QED  BY <2>0, LeastOf
  <2>2. CASE n = 0
    <3>1. Sums([k \in 0..0 |-> 0], 0)
      OBVIOUS
    <3> QED  BY <2>1, <2>2, <3>1
  <2>3. CASE n > 0
    <3>1. n - 1 \in 0..L /\ ~(n <= n - 1)
      BY <1>1, <2>1, <2>3
    <3>2. n - 1 \notin T
      BY <2>1, <3>1
    <3>3. PICK f : Sums(f, n - 1)
      BY <3>1, <3>2
    <3> DEFINE g == [k \in 0..n |-> IF k = n THEN f[n - 1] + Size(n) ELSE f[k]]
    <3>4. n \in 1..L /\ f[n - 1] \in Nat /\ Size(n) \in Nat
      BY <1>1, <2>1, <2>3, <3>3
    <3>5. \A k \in 0..n - 1 : g[k] = f[k] /\ f[k] \in Nat
      BY <3>1, <3>3, <3>4
    <3>6. g[n] = g[n - 1] + Size(n) /\ g[n] \in Nat
      BY <3>1, <3>4, <3>5
    <3>7. g \in [0..n -> Nat] /\ g[0] = 0
      BY <3>3, <3>4, <3>5, <3>6
    <3>8. ASSUME NEW k \in 1..n PROVE g[k] = g[k - 1] + Size(k)
      <4>1. CASE k = n
        BY <3>6, <4>1
      <4>2. CASE k # n
        <5>1. k \in 1..n - 1 /\ k \in 0..n - 1 /\ k - 1 \in 0..n - 1
          BY <3>4, <4>2
        <5>2. f[k] = f[k - 1] + Size(k)
          BY <3>3, <5>1
        <5> HIDE DEF g
        <5> QED  BY <3>5, <5>1, <5>2
      <4> QED  BY <4>1, <4>2
    <3>9. Sums(g, n)
      <4> HIDE DEF g
      <4> QED  BY <3>7, <3>8
    <3> QED  BY <2>1, <3>9
  <2> QED  BY <1>1, <2>1, <2>2, <2>3
<1>3. \E f : Solution(f)
  <2>1. PICK f : Sums(f, L)
    <3>1. L \in 0..L
      BY <1>1
    <3> HIDE DEF Sums, L
    <3> QED  BY <1>2, <3>1
  <2>2. \A n \in 0..L : f[n] = IF n = 0 THEN 0 ELSE f[n - 1] + Size(n)
    BY <1>1, <2>1
  <2>3. f = [n \in 0..L |-> f[n]]
    BY <2>1
  <2>4. Solution(f)
    <3> DEFINE V(n) == IF n = 0 THEN 0 ELSE f[n - 1] + Size(n)
    <3>1. \A n \in 0..L : f[n] = V(n)
      BY <2>2
    <3> HIDE DEF V
    <3>2. f = [n \in 0..L |-> V(n)]
      BY <2>3, <3>1
    <3> QED  BY <3>2 DEF V
  <2> QED  BY <2>4
<1> DEFINE bytes == CHOOSE f : Solution(f)
<1>4. Solution(bytes)
  <2> HIDE DEF Solution
  <2> QED  BY <1>3
<1>5. Tunnel!Bytes(messages) = bytes[L]
  BY Zenon DEF Tunnel!Bytes, Size, L
<1> HIDE DEF bytes
<1>6. bytes[0] = 0 /\ \A n \in 1..L : bytes[n] = bytes[n - 1] + Size(n)
  <2> DEFINE V(n) == IF n = 0 THEN 0 ELSE bytes[n - 1] + Size(n)
  <2>1. bytes = [n \in 0..L |-> V(n)]
    BY <1>4
  <2>2. \A n \in 0..L : bytes[n] = V(n)
    <3> HIDE DEF V
    <3> QED  BY <2>1
  <2> QED  BY <1>1, <2>2
<1> HIDE DEF Solution
<1>7. \A n \in 0..L : bytes[n] \in Nat
  <2> DEFINE T == { n \in 0..L : bytes[n] \notin Nat }
  <2> SUFFICES ASSUME T # {} PROVE FALSE
    OBVIOUS
  <2>0. T \subseteq Nat
    BY <1>1
  <2>1. PICK n \in T : \A k \in T : n <= k
    <3> HIDE DEF T
    <3> QED  BY <2>0, LeastOf
  <2>2. n # 0
    BY <1>6, <2>1
  <2>3. n \in 1..L /\ n - 1 \in 0..L /\ ~(n <= n - 1)
    BY <1>1, <2>1, <2>2
  <2>4. n - 1 \notin T
    BY <2>1, <2>3
  <2>5. bytes[n - 1] \in Nat /\ Size(n) \in Nat
    BY <1>1, <2>3, <2>4
  <2> QED  BY <1>6, <2>1, <2>3, <2>5
<1>8. ASSUME messages # << >> PROVE bytes[L] > 0
  <2>1. L \in 1..L /\ L - 1 \in 0..L
    <3>1. L # 0
      BY <1>8 DEF L
    <3> QED  BY <1>1, <3>1
  <2>2. bytes[L - 1] \in Nat /\ Size(L) \in Nat \ {0} /\ bytes[L] = bytes[L - 1] + Size(L)
    BY <1>1, <1>6, <1>7, <2>1
  <2> QED  BY <2>2
<1> QED  BY <1>1, <1>5, <1>7, <1>8

\* What is left when the oldest are dropped.
LEMMA WithoutFacts ==
  ASSUME NEW S, NEW q \in Seq(S), NEW n \in 0..Len(q)
  PROVE  /\ Tunnel!Without(n, q) \in Seq(S) /\ Len(Tunnel!Without(n, q)) = Len(q) - n
         /\ \A i \in 1..Len(q) - n : Tunnel!Without(n, q)[i] = q[i + n]
BY SubSeqProperties DEF Tunnel!Without

\* A batch takes some packets.
LEMMA FragmentsFacts ==
  ASSUME TunnelSetting, NEW size \in Nat
  PROVE  /\ Tunnel!NumFragments(size) \in Nat
         /\ size > 0 => Tunnel!NumFragments(size) \in Nat \ {0}
<1>1. Payload \in Nat /\ Payload > 0
  BY DEF TunnelSetting
<1> DEFINE x == size + Payload - 1
<1>2. x \in Nat /\ (size > 0 => x >= Payload)
  BY <1>1
<1>3. \A y, p \in Nat : p > 0 => y \div p \in Nat
  OBVIOUS
<1>4. \A y, p \in Nat : p > 0 /\ y >= p => y \div p >= 1
  OBVIOUS
<1> HIDE DEF x
<1> QED  BY <1>1, <1>2, <1>3, <1>4 DEF Tunnel!NumFragments, x

\* Division with a rest.
LEMMA DivisionFacts ==
  ASSUME NEW W \in Nat \ {0}, NEW x \in Nat
  PROVE  \E q \in Nat : x = W * q + (x % W) /\ (x % W) \in 0..W - 1
<1>1. x \div W \in Nat /\ x = W * (x \div W) + (x % W) /\ (x % W) \in 0..W - 1
  OBVIOUS
<1> QED  BY <1>1

\* What is less than a lap ahead is as far ahead in the numbers, or has gone round.
LEMMA LapFacts ==
  ASSUME NEW W \in Nat \ {0}, NEW x \in Nat, NEW d \in 0..W - 1
  PROVE  ((x + d) % W) = IF (x % W) + d < W THEN (x % W) + d ELSE (x % W) + d - W
<1>1. PICK q \in Nat : x = W * q + (x % W) /\ (x % W) \in 0..W - 1
  BY DivisionFacts
<1>2. PICK p \in Nat : x + d = W * p + ((x + d) % W) /\ ((x + d) % W) \in 0..W - 1
  <2>1. x + d \in Nat
    OBVIOUS
  <2> QED  BY <2>1, DivisionFacts
<1> DEFINE r == x % W
           s == (x + d) % W
<1>3. r \in 0..W - 1 /\ s \in 0..W - 1 /\ W * p - W * q = r + d - s
  <2>1. W * p \in Int /\ W * q \in Int /\ x \in Int /\ d \in Int
    OBVIOUS
  <2>2. x = W * q + r /\ r \in 0..W - 1 /\ x + d = W * p + s /\ s \in 0..W - 1
    BY <1>1, <1>2
  <2> HIDE DEF r, s
  <2>3. r \in Int /\ s \in Int
    BY <2>2
  <2> QED  BY <2>1, <2>2, <2>3
<1> HIDE DEF r, s
<1>4. \A a, b \in Nat : a < b => W * a + W <= W * b
  <2>1. \A a, k \in Nat : W * (a + 1 + k) = W * a + W + W * k /\ W * k \in Nat
    OBVIOUS
  <2>2. ASSUME NEW a \in Nat, NEW b \in Nat, a < b PROVE W * a + W <= W * b
    <3>1. b - a - 1 \in Nat /\ a + 1 + (b - a - 1) = b
      BY <2>2
    <3> QED  BY <2>1, <3>1
  <2> QED  BY <2>2
<1>5. W * p \in Int /\ W * q \in Int /\ W \in Nat
  OBVIOUS
<1>6. ~(p < q)
  BY <1>3, <1>4, <1>5
<1>7. ~(q + 1 < p)
  <2>1. W * (q + 1) = W * q + W
    OBVIOUS
  <2> QED  BY <1>3, <1>4, <1>5, <2>1
<1>8. p = q \/ p = q + 1
  BY <1>6, <1>7
<1>9. CASE p = q
  BY <1>3, <1>5, <1>9 DEF r, s
<1>10. CASE p = q + 1
  <2>1. W * p = W * q + W
    BY <1>10
  <2> QED  BY <1>3, <1>5, <2>1 DEF r, s
<1> QED  BY <1>8, <1>9, <1>10

\* The number of a batch.
Number(b) == (FirstSeqno + b) % SeqnoWrapVal

\* What IsNew makes of a packet of batch c at a receiver that is at batch b, and that equal
\* numbers are those of one batch.
LEMMA NumbersFacts ==
  ASSUME TunnelSetting, NEW b \in Nat, NEW c \in Nat
  PROVE  /\ Number(b) \in 0..SeqnoWrapVal - 1
         /\ Number(0) = FirstSeqno
         /\ (Number(b) + 1) % SeqnoWrapVal = Number(b + 1)
         /\ b < c /\ c - b < SeqnoWrapVal - SeqnoWrapGap =>
              /\ Number(c) > Number(b) \/ Number(c) < Number(b) - SeqnoWrapGap
         /\ c <= b /\ b - c <= SeqnoWrapGap /\ Number(c) <= Number(b) =>
              ~(Number(c) > Number(b) \/ Number(c) < Number(b) - SeqnoWrapGap)
         /\ c < b /\ b - c <= SeqnoWrapGap => Number(c) # Number(b)
<1> DEFINE W == SeqnoWrapVal
<1>1. W \in Nat \ {0} /\ W > 1 /\ FirstSeqno \in 0..W - 1 /\ SeqnoWrapGap \in Nat
      /\ SeqnoWrapGap + 1 < W
  BY DEF TunnelSetting
<1> HIDE DEF W
<1>2. \A x \in Nat, d \in 0..W - 1 :
        /\ x % W \in 0..W - 1
        /\ ((x + d) % W) = IF (x % W) + d < W THEN (x % W) + d ELSE (x % W) + d - W
  <2>1. ASSUME NEW x \in Nat PROVE x % W \in 0..W - 1
    BY <1>1, DivisionFacts
  <2>2. ASSUME NEW x \in Nat, NEW d \in 0..W - 1
        PROVE  ((x + d) % W) = IF (x % W) + d < W THEN (x % W) + d ELSE (x % W) + d - W
    BY <1>1, LapFacts
  <2> QED  BY <2>1, <2>2
<1>3. \A x \in Nat : FirstSeqno + x \in Nat /\ Number(x) = (FirstSeqno + x) % W
  BY <1>1 DEF Number, W
<1>4. ASSUME NEW x \in Nat PROVE Number(x) \in 0..W - 1
  <2> DEFINE y == FirstSeqno + x
  <2>1. y \in Nat /\ Number(x) = y % W
    BY <1>3
  <2> HIDE DEF y
  <2>2. 0 \in 0..W - 1
    BY <1>1
  <2>3. y % W \in 0..W - 1
    BY <1>2, <2>1, <2>2
  <2> QED  BY <2>1, <2>3
<1>5. \A x \in Nat, d \in 0..W - 1 :
        Number(x + d) = IF Number(x) + d < W THEN Number(x) + d ELSE Number(x) + d - W
  <2> SUFFICES ASSUME NEW x \in Nat, NEW d \in 0..W - 1
               PROVE Number(x + d) = IF Number(x) + d < W THEN Number(x) + d ELSE Number(x) + d - W
    OBVIOUS
  <2>1. x + d \in Nat /\ FirstSeqno + x \in Nat /\ FirstSeqno + (x + d) = (FirstSeqno + x) + d
    BY <1>1
  <2> DEFINE y == FirstSeqno + x
  <2>2. y \in Nat /\ Number(x) = y % W /\ Number(x + d) = (y + d) % W
    BY <1>3, <2>1
  <2> HIDE DEF y
  <2>3. ((y + d) % W) = IF (y % W) + d < W THEN (y % W) + d ELSE (y % W) + d - W
    BY <1>2, <2>2
  <2> QED  BY <2>2, <2>3
<1>6. Number(0) = FirstSeqno
  <2>1. FirstSeqno % W = FirstSeqno
    BY <1>1
  <2>2. Number(0) = FirstSeqno % W
    BY <1>1, <1>3
  <2> QED  BY <2>1, <2>2
<1>7. (Number(b) + 1) % W = Number(b + 1)
  <2>1. Number(b) \in Nat /\ Number(b) % W = Number(b) /\ 1 \in 0..W - 1
    BY <1>1, <1>4
  <2>2. (Number(b) + 1) % W = IF Number(b) + 1 < W THEN Number(b) + 1 ELSE Number(b) + 1 - W
    BY <1>2, <2>1
  <2> QED  BY <1>5, <2>1, <2>2
<1> HIDE DEF Number
<1>8. ASSUME b < c, c - b < W
      PROVE  Number(c) = Number(b) + (c - b) \/ Number(c) = Number(b) + (c - b) - W
  <2>1. c - b \in 0..W - 1 /\ c = b + (c - b)
    BY <1>1, <1>8
  <2> QED  BY <1>5, <2>1
<1>9. ASSUME c <= b, b - c < W
      PROVE  Number(b) = Number(c) + (b - c) \/ Number(b) = Number(c) + (b - c) - W
  <2>1. b - c \in 0..W - 1 /\ b = c + (b - c)
    BY <1>1, <1>9
  <2> QED  BY <1>5, <2>1
<1>10. Number(b) \in 0..W - 1 /\ Number(c) \in 0..W - 1
  BY <1>4
<1>11. ASSUME b < c, c - b < W - SeqnoWrapGap
       PROVE  Number(c) > Number(b) \/ Number(c) < Number(b) - SeqnoWrapGap
  <2>1. c - b < W
    BY <1>1, <1>11
  <2> QED  BY <1>1, <1>8, <1>10, <1>11, <2>1
<1>12. ASSUME c <= b, b - c <= SeqnoWrapGap, Number(c) <= Number(b)
       PROVE  ~(Number(c) > Number(b) \/ Number(c) < Number(b) - SeqnoWrapGap)
  <2>1. b - c < W
    BY <1>1, <1>12
  <2> QED  BY <1>1, <1>9, <1>10, <1>12, <2>1
<1>13. ASSUME c < b, b - c <= SeqnoWrapGap PROVE Number(c) # Number(b)
  <2>1. b - c < W /\ b - c > 0
    BY <1>1, <1>13
  <2> QED  BY <1>1, <1>9, <1>10, <1>13, <2>1
<1> QED  BY <1>4, <1>6, <1>7, <1>11, <1>12, <1>13 DEF W

-----------------------------------------------------------------------------

TunnelMessages == [id : Nat, size : Sizes]

TunnelPackets == [seqno : Nat, payload_size : Nat, fragno : Nat, data : Nat]

TunnelTypes ==
  /\ params \in Modes /\ came \in Nat
  /\ queue \in Seq(TunnelMessages) /\ batch \in Seq(TunnelMessages)
  /\ sent \in Seq(Seq(TunnelMessages)) /\ packets \in Seq(TunnelPackets)
  /\ published \in Seq(Nat) /\ timely \in BOOLEAN /\ perfect \in BOOLEAN
  /\ thread = "sending" => batch # << >>

\* What came in is sent in its order, each message once.
HaveCome(messages) == \A i \in DOMAIN messages : messages[i].id <= came
InLine ==
  /\ HaveCome(queue) /\ HaveCome(batch)
  /\ Tunnel!InOrder(queue) /\ Tunnel!InOrder(batch) /\ Tunnel!Precede(batch, queue)
  /\ \A b \in 1..Len(sent) :
       /\ sent[b] # << >> /\ HaveCome(sent[b]) /\ Tunnel!InOrder(sent[b])
       /\ Tunnel!Precede(sent[b], batch) /\ Tunnel!Precede(sent[b], queue)
  /\ \A b, c \in 1..Len(sent) : b < c => Tunnel!Precede(sent[b], sent[c])

\* The number and the fragments of each packet are those of its batch.
Fragments(b) == Tunnel!NumFragments(Tunnel!Bytes(sent[b]))
IsPacket(p) ==
  /\ p.data \in 1..Len(sent) /\ p.seqno = Number(p.data)
  /\ p.payload_size = Tunnel!Bytes(sent[p.data]) /\ p.fragno \in 0..Fragments(p.data) - 1
Numbered ==
  /\ seqno = Number(Len(sent))
  /\ \A k \in 1..Len(packets) : IsPacket(packets[k])

\* The receiver is at a batch that was sent, and what it has published is from before.
Fitting(r) ==
  /\ r = [cur_seqno |-> r.cur_seqno, nfrags |-> r.nfrags, buf |-> r.buf,
          complete |-> r.complete, at |-> r.at]
  /\ r.at \in 0..Len(sent) /\ r.cur_seqno = Number(r.at)
  /\ r.complete \in BOOLEAN /\ (r.at = 0 => r.complete)
  /\ r.at > 0 => r.nfrags = Fragments(r.at)
  /\ \A f \in DOMAIN r.buf : r.buf[f] \in Nat
Receiving == Fitting(receiver)
GoesForward ==
  timely =>
    /\ \A f \in DOMAIN receiver.buf : receiver.buf[f] = receiver.at
    /\ \A n \in 1..Len(published) :
         published[n] \in 1..receiver.at /\ (~receiver.complete => published[n] < receiver.at)
    /\ \A m, n \in 1..Len(published) : m < n => published[m] < published[n]

\* Where nothing was lost or overtaken the packets follow one another, from the one
\* that the receiver had last to the last one of all.
Total(b) == IF b = 0 THEN 0 ELSE Fragments(b) * params.repeats
Follows(b, p, c, q) ==
  (c = b /\ q = p + 1 /\ p < Total(b)) \/ (c = b + 1 /\ q = 1 /\ p = Total(b))
Has(p) ==
  IF receiver.at = 0 THEN p = 0
  ELSE /\ p \in 1..Total(receiver.at)
       /\ receiver.complete <=> p >= Fragments(receiver.at)
       /\ ~receiver.complete => DOMAIN receiver.buf = 0..p - 1
Walk(at, nth) ==
  /\ at \in [0..Len(packets) -> Nat] /\ nth \in [0..Len(packets) -> Nat]
  /\ at[0] = receiver.at /\ Has(nth[0])
  /\ \A k \in 1..Len(packets) :
       /\ packets[k].data = at[k]
       /\ packets[k].fragno = (nth[k] - 1) % Fragments(at[k])
       /\ Follows(at[k - 1], nth[k - 1], at[k], nth[k])
  /\ at[Len(packets)] = Len(sent) /\ nth[Len(packets)] = Total(Len(sent))
Complete == IF receiver.complete THEN receiver.at ELSE receiver.at - 1
InStep ==
  perfect =>
    /\ timely /\ published = [b \in 1..Complete |-> b]
    /\ \E at, nth : Walk(at, nth)

TunnelInv == TunnelTypes /\ InLine /\ Numbered /\ Receiving /\ GoesForward /\ InStep

\* The invariant holds at first.
LEMMA TunnelBegins == ASSUME TunnelSetting, Tunnel!Init PROVE TunnelInv
<1> USE DEF Tunnel!Init
<1>1. Number(0) = FirstSeqno
  BY NumbersFacts
<1>2. TunnelTypes
  BY DEF TunnelTypes
<1>3. InLine
  BY DEF InLine, HaveCome, Tunnel!InOrder, Tunnel!Precede
<1>4. Numbered /\ Receiving /\ GoesForward
  BY <1>1 DEF Numbered, Receiving, Fitting, GoesForward
<1>5. InStep
  <2> DEFINE zero == [k \in 0..0 |-> 0]
  <2>1. zero \in [0..0 -> Nat] /\ zero[0] = 0 /\ Len(packets) = 0 /\ Len(sent) = 0
    OBVIOUS
  <2>2. Has(0) /\ Total(0) = 0 /\ receiver.at = 0 /\ receiver.complete /\ timely
    BY DEF Has, Total
  <2>3. Complete = 0 /\ published = [b \in 1..Complete |-> b]
    BY DEF Complete
  <2> HIDE DEF zero, Tunnel!Init
  <2>4. Walk(zero, zero)
    BY <2>1, <2>2 DEF Walk
  <2> QED  BY <2>2, <2>3, <2>4 DEF InStep
<1> QED  BY <1>2, <1>3, <1>4, <1>5 DEF TunnelInv

\* Where the packets and what was sent stay, so do the claims about them.
LEMMA LinkStays ==
  ASSUME TunnelInv, UNCHANGED <<params, Tunnel!linkVars>>
  PROVE  Numbered' /\ Receiving' /\ GoesForward' /\ InStep'
<1>1. UNCHANGED <<params, seqno, packets, receiver, sent, published, timely, perfect>>
  BY DEF Tunnel!linkVars
<1>2. \A b : Fragments(b)' = Fragments(b)
  BY <1>1 DEF Fragments
<1>3. Numbered' /\ Receiving' /\ GoesForward'
  BY <1>1, <1>2 DEF TunnelInv, Numbered, IsPacket, Receiving, Fitting, GoesForward
<1>4. ASSUME perfect' PROVE InStep'
  <2>1. PICK at, nth : Walk(at, nth)
    BY <1>1, <1>4 DEF TunnelInv, InStep
  <2>2. \A b : Total(b)' = Total(b)
    BY <1>1, <1>2 DEF Total
  <2>3. \A p : Has(p)' = Has(p)
    BY <1>1, <1>2, <2>2 DEF Has
  <2>4. \A e, p, c, q : Follows(e, p, c, q)' <=> Follows(e, p, c, q)
    BY <2>2 DEF Follows
  <2>5. Walk(at, nth)'
    BY <1>1, <1>2, <2>1, <2>2, <2>3, <2>4 DEF Walk
  <2>6. Complete' = Complete
    BY <1>1 DEF Complete
  <2> QED  BY <1>1, <1>4, <2>5, <2>6 DEF TunnelInv, InStep
<1> QED  BY <1>3, <1>4 DEF InStep

\* Messages have numbers.
LEMMA HaveNumbers ==
  ASSUME NEW messages \in Seq(TunnelMessages), NEW i \in DOMAIN messages
  PROVE  i \in 1..Len(messages) /\ messages[i] \in TunnelMessages /\ messages[i].id \in Nat
<1>1. i \in 1..Len(messages)
  OBVIOUS
<1>2. messages[i] \in TunnelMessages
  BY <1>1, ElementOfSeq
<1> QED  BY <1>1, <1>2 DEF TunnelMessages

\* A message is queued behind the others, and the oldest may be dropped.
LEMMA Sending ==
  ASSUME TunnelSetting, TunnelInv, NEW size \in Sizes, NEW timesync \in BOOLEAN,
         Tunnel!SendToRemote(size, timesync)
  PROVE  TunnelInv'
<1> DEFINE message == [id |-> came + 1, size |-> size]
           all == Append(queue, message)
<1>1. /\ came' = came + 1 /\ thread' = Tunnel!Woken
      /\ UNCHANGED <<params, batch, seqno, packets, receiver, sent, published, timely, perfect>>
  BY DEF Tunnel!SendToRemote, Tunnel!linkVars
<1>2. PICK n \in 0..Len(all) : queue' = Tunnel!Without(n, all)
  BY DEF Tunnel!SendToRemote
<1>3. TunnelTypes /\ InLine
  BY DEF TunnelInv
<1>4. /\ queue \in Seq(TunnelMessages) /\ came \in Nat /\ message \in TunnelMessages
      /\ message.id = came + 1
  BY <1>3 DEF TunnelTypes, TunnelMessages
<1> HIDE DEF message
<1>5. /\ all \in Seq(TunnelMessages) /\ Len(all) = Len(queue) + 1 /\ Len(queue) \in Nat
      /\ \A i \in 1..Len(queue) : all[i] = queue[i]
      /\ all[Len(queue) + 1] = message
  BY <1>4
<1>6. /\ queue' \in Seq(TunnelMessages) /\ Len(queue') = Len(all) - n
      /\ \A i \in 1..Len(all) - n : queue'[i] = all[i + n]
  BY <1>2, <1>5, WithoutFacts
<1> HIDE DEF all
<1>7. TunnelTypes'
  BY <1>1, <1>3, <1>4, <1>6 DEF TunnelTypes, Tunnel!Woken
<1>8. ASSUME NEW i \in DOMAIN queue'
      PROVE  /\ i \in 1..Len(all) - n /\ i + n \in 1..Len(queue) + 1 /\ queue'[i] = all[i + n]
             /\ \/ i + n \in 1..Len(queue) /\ queue'[i] = queue[i + n]
                \/ i + n = Len(queue) + 1 /\ queue'[i] = message
  <2>1. i \in 1..Len(all) - n
    BY <1>6
  <2> QED  BY <1>2, <1>5, <1>6, <2>1
<1>9. \A i \in 1..Len(queue) : queue[i].id \in Nat /\ queue[i].id <= came
  BY <1>3, <1>4, HaveNumbers DEF InLine, HaveCome
<1>10. \A i \in DOMAIN queue' : queue'[i].id <= came + 1
  BY <1>4, <1>8, <1>9
<1>11. Tunnel!InOrder(queue)'
  <2> SUFFICES ASSUME NEW i \in DOMAIN queue', NEW j \in DOMAIN queue', i < j
               PROVE  queue'[i].id < queue'[j].id
    BY DEF Tunnel!InOrder
  <2>1. /\ i + n \in 1..Len(queue) /\ queue'[i] = queue[i + n]
        /\ i \in Int /\ j \in Int /\ i + n < j + n
    BY <1>5, <1>8
  <2>2. CASE j + n \in 1..Len(queue) /\ queue'[j] = queue[j + n]
    BY <1>3, <1>4, <2>1, <2>2 DEF InLine, Tunnel!InOrder
  <2>3. CASE queue'[j] = message
    BY <1>4, <1>9, <2>1, <2>3
  <2> QED  BY <1>8, <2>2, <2>3
<1>12. ASSUME NEW messages \in Seq(TunnelMessages), HaveCome(messages),
              Tunnel!Precede(messages, queue)
       PROVE  Tunnel!Precede(messages, queue')
  <2> SUFFICES ASSUME NEW i \in DOMAIN messages, NEW j \in DOMAIN queue'
               PROVE  messages[i].id < queue'[j].id
    BY DEF Tunnel!Precede
  <2>1. messages[i].id \in Nat /\ messages[i].id <= came
    BY <1>12, HaveNumbers DEF HaveCome
  <2>2. CASE j + n \in 1..Len(queue) /\ queue'[j] = queue[j + n]
    BY <1>4, <1>12, <2>2 DEF Tunnel!Precede
  <2>3. CASE queue'[j] = message
    BY <1>4, <2>1, <2>3
  <2> QED  BY <1>8, <2>2, <2>3
<1>13. ASSUME NEW messages \in Seq(TunnelMessages), HaveCome(messages)
       PROVE  \A i \in DOMAIN messages : messages[i].id <= came + 1
  BY <1>4, <1>13, HaveNumbers DEF HaveCome
<1>14. batch \in Seq(TunnelMessages) /\ \A b \in 1..Len(sent) : sent[b] \in Seq(TunnelMessages)
  BY <1>3 DEF TunnelTypes
<1>15. InLine'
  <2>1. HaveCome(queue)' /\ HaveCome(batch)' /\ \A b \in 1..Len(sent) : HaveCome(sent[b])'
    BY <1>1, <1>3, <1>10, <1>13, <1>14 DEF InLine, HaveCome
  <2>2. Tunnel!Precede(batch, queue)' /\ \A b \in 1..Len(sent) : Tunnel!Precede(sent[b], queue')
    BY <1>1, <1>3, <1>12, <1>14 DEF InLine
  <2>3. Tunnel!InOrder(batch)'
    BY <1>1, <1>3 DEF InLine
  <2> QED  BY <1>1, <1>3, <1>11, <2>1, <2>2, <2>3 DEF InLine
<1>16. UNCHANGED <<params, Tunnel!linkVars>>
  BY DEF Tunnel!SendToRemote
<1> QED  BY <1>7, <1>15, <1>16, LinkStays DEF TunnelInv

\* The thread takes the queue.
LEMMA Taking == ASSUME TunnelSetting, TunnelInv, Tunnel!TakeQueue PROVE TunnelInv'
<1>1. /\ batch' = queue /\ queue' = << >> /\ queue # << >>
      /\ UNCHANGED <<params, came, seqno, packets, receiver, sent, published, timely, perfect>>
  BY DEF Tunnel!TakeQueue, Tunnel!linkVars
<1>2. TunnelTypes'
  BY <1>1 DEF TunnelInv, TunnelTypes
<1>3. InLine'
  BY <1>1 DEF TunnelInv, InLine, HaveCome, Tunnel!InOrder, Tunnel!Precede
<1>4. UNCHANGED <<params, Tunnel!linkVars>>
  BY DEF Tunnel!TakeQueue
<1> QED  BY <1>2, <1>3, <1>4, LinkStays DEF TunnelInv

\* Waiting, waking up and ending leave the messages where they are.
LEMMA Idling ==
  ASSUME TunnelInv, UNCHANGED <<params, came, queue, batch, Tunnel!linkVars>>,
         thread' = "sending" => thread = "sending"
  PROVE  TunnelInv'
<1>1. UNCHANGED <<params, came, queue, batch, seqno, packets, receiver, sent, published, timely,
                  perfect>>
  BY DEF Tunnel!linkVars
<1>2. TunnelTypes'
  BY <1>1 DEF TunnelInv, TunnelTypes
<1>3. InLine'
  BY <1>1 DEF TunnelInv, InLine, HaveCome, Tunnel!InOrder, Tunnel!Precede
<1> QED  BY <1>2, <1>3, LinkStays DEF TunnelInv

\* Batches that were sent are sequences of messages, and take packets.
LEMMA SentFacts ==
  ASSUME TunnelSetting, TunnelInv
  PROVE  /\ Len(sent) \in Nat
         /\ \A b \in 1..Len(sent) :
              /\ sent[b] \in Seq(TunnelMessages) /\ sent[b] # << >>
              /\ Fragments(b) \in Nat \ {0} /\ Tunnel!Bytes(sent[b]) \in Nat
              /\ Total(b) \in Nat /\ Fragments(b) <= Total(b)
         /\ Total(0) = 0
<1>1. sent \in Seq(Seq(TunnelMessages)) /\ params.repeats \in Nat \ {0} /\ Len(sent) \in Nat
  BY DEF TunnelSetting, TunnelInv, TunnelTypes
<1>2. ASSUME NEW b \in 1..Len(sent)
      PROVE  /\ sent[b] \in Seq(TunnelMessages) /\ sent[b] # << >>
             /\ Fragments(b) \in Nat \ {0} /\ Tunnel!Bytes(sent[b]) \in Nat
             /\ Total(b) \in Nat /\ Fragments(b) <= Total(b)
  <2>1. sent[b] \in Seq(TunnelMessages) /\ sent[b] # << >>
    BY <1>1, ElementOfSeq DEF TunnelInv, InLine
  <2>2. Tunnel!Bytes(sent[b]) \in Nat /\ Tunnel!Bytes(sent[b]) > 0
    BY <2>1, BytesFacts DEF TunnelMessages
  <2>3. Fragments(b) \in Nat \ {0}
    BY <2>2, FragmentsFacts DEF Fragments
  <2>4. \A f, r \in Nat \ {0} : f * r \in Nat /\ f <= f * r
    OBVIOUS
  <2>5. Total(b) = Fragments(b) * params.repeats
    BY DEF Total
  <2> HIDE DEF Fragments
  <2> QED  BY <1>1, <2>1, <2>2, <2>3, <2>4, <2>5
<1> QED  BY <1>1, <1>2 DEF Total

\* Two sequences one after the other.
LEMMA JoinedFacts ==
  ASSUME NEW S, NEW p \in Seq(S), NEW q \in Seq(S)
  PROVE  /\ p \o q \in Seq(S) /\ Len(p \o q) = Len(p) + Len(q)
         /\ \A k \in 1..Len(p) : (p \o q)[k] = p[k]
         /\ \A k \in Len(p) + 1..Len(p) + Len(q) :
              k - Len(p) \in 1..Len(q) /\ (p \o q)[k] = q[k - Len(p)]
<1>1. Len(p) \in Nat /\ Len(q) \in Nat
  OBVIOUS
<1>2. /\ p \o q \in Seq(S) /\ Len(p \o q) = Len(p) + Len(q)
      /\ \A k \in 1..Len(p) + Len(q) :
           (p \o q)[k] = IF k <= Len(p) THEN p[k] ELSE q[k - Len(p)]
  BY ConcatProperties
<1> QED  BY <1>1, <1>2

\* A batch is sent, and the network takes some of its packets.
LEMMA SendingBatch == ASSUME TunnelSetting, TunnelInv, Tunnel!SendLcmMessages PROVE TunnelInv'
<1>0. PICK L, N, B, F, T, all :
        /\ L = Len(packets) /\ N = Len(sent) /\ B = Len(sent) + 1
        /\ F = Tunnel!NumFragments(Tunnel!Bytes(batch)) /\ T = F * params.repeats
        /\ all = Tunnel!Packets(seqno')
  OBVIOUS
<1>1. /\ thread = "sending" /\ seqno' = (seqno + 1) % SeqnoWrapVal
      /\ sent' = Append(sent, batch) /\ batch' = << >> /\ thread' = "ready"
      /\ UNCHANGED <<params, came, queue, receiver, published, timely>>
  BY DEF Tunnel!SendLcmMessages
<1>2. PICK m \in 0..MaxPackets - L : \E kept \in Tunnel!Selections(m, Len(all)) :
        /\ packets' = packets \o [k \in 1..m |-> all[kept[k]]]
        /\ perfect' = (perfect /\ packets' = packets \o all)
  BY <1>0, Zenon DEF Tunnel!SendLcmMessages
<1>18. PICK kept \in Tunnel!Selections(m, Len(all)) :
        /\ packets' = packets \o [k \in 1..m |-> all[kept[k]]]
        /\ perfect' = (perfect /\ packets' = packets \o all)
  BY <1>2
<1>3. /\ TunnelTypes /\ InLine /\ Numbered /\ Receiving /\ GoesForward
      /\ batch \in Seq(TunnelMessages) /\ batch # << >> /\ params.repeats \in Nat \ {0}
      /\ L \in Nat /\ B \in Nat /\ N \in Nat /\ B = N + 1 /\ MaxPackets \in Nat
      /\ sent \in Seq(Seq(TunnelMessages)) /\ packets \in Seq(TunnelPackets)
  BY <1>0, <1>1 DEF TunnelSetting, TunnelInv, TunnelTypes
<1>4. Tunnel!Bytes(batch) \in Nat /\ F \in Nat \ {0} /\ T \in Nat /\ F <= T
  <2>1. Tunnel!Bytes(batch) \in Nat /\ Tunnel!Bytes(batch) > 0
    BY <1>3, BytesFacts DEF TunnelMessages
  <2>2. F \in Nat \ {0}
    BY <1>0, <2>1, FragmentsFacts
  <2>3. \A f, r \in Nat \ {0} : f * r \in Nat /\ f <= f * r
    OBVIOUS
  <2> QED  BY <1>0, <1>3, <2>1, <2>2, <2>3
<1>5. seqno' = Number(B) /\ Number(B) \in Nat
  BY <1>0, <1>1, <1>3, NumbersFacts DEF Numbered
<1>6. /\ Len(sent') = B /\ sent'[B] = batch /\ sent' \in Seq(Seq(TunnelMessages))
      /\ \A b \in 1..N : sent'[b] = sent[b]
  BY <1>0, <1>1, <1>3
<1>7. /\ all = [k \in 1..T |-> [seqno |-> Number(B), payload_size |-> Tunnel!Bytes(batch),
                               fragno |-> (k - 1) % F, data |-> B]]
  BY <1>0, <1>5, Zenon DEF Tunnel!Packets
<1>8. /\ Len(all) = T /\ DOMAIN all = 1..T
      /\ \A k \in 1..T :
           /\ all[k].seqno = Number(B) /\ all[k].payload_size = Tunnel!Bytes(batch)
           /\ all[k].fragno = (k - 1) % F /\ all[k].data = B
  BY <1>4, <1>7
<1>9. \A k \in 1..T : all[k].fragno \in 0..F - 1 /\ all[k] \in TunnelPackets
  <2>1. ASSUME NEW k \in 1..T PROVE (k - 1) % F \in 0..F - 1
    <3>1. k - 1 \in Nat
      BY <1>4
    <3> QED  BY <1>4, <3>1, DivisionFacts
  <2>2. \A k \in 1..T : (k - 1) % F \in Nat
    BY <1>4, <2>1
  <2>3. \A k \in 1..T : all[k] = [seqno |-> Number(B), payload_size |-> Tunnel!Bytes(batch),
                                 fragno |-> (k - 1) % F, data |-> B]
    BY <1>7
  <2>4. ASSUME NEW k \in 1..T PROVE all[k] \in TunnelPackets
    <3>1. PICK x : x = (k - 1) % F
      OBVIOUS
    <3>2. all[k] = [seqno |-> Number(B), payload_size |-> Tunnel!Bytes(batch), fragno |-> x,
                    data |-> B]
      BY <2>3, <3>1
    <3>3. Number(B) \in Nat /\ Tunnel!Bytes(batch) \in Nat /\ x \in Nat /\ B \in Nat
      BY <1>3, <1>4, <1>5, <2>2, <3>1
    <3> HIDE DEF Number
    <3> QED  BY <3>2, <3>3 DEF TunnelPackets
  <2> QED  BY <1>8, <2>1, <2>4
<1>10. m \in Nat /\ \A k \in 1..m : kept[k] \in 1..T
  <2>1. kept \in [1..m -> 1..Len(all)]
    BY DEF Tunnel!Selections
  <2> QED
    BY <1>3, <1>8, <2>1
<1>11. /\ packets' \in Seq(TunnelPackets) /\ Len(packets') = L + m
       /\ \A k \in 1..L : packets'[k] = packets[k]
       /\ \A k \in L + 1..L + m : kept[k - L] \in 1..T /\ packets'[k] = all[kept[k - L]]
  <2> DEFINE taken == [k \in 1..m |-> all[kept[k]]]
  <2>1. taken \in Seq(TunnelPackets) /\ Len(taken) = m /\ \A k \in 1..m : taken[k] = all[kept[k]]
    BY <1>9, <1>10
  <2>2. packets' = packets \o taken
    BY <1>18
  <2> HIDE DEF taken
  <2>3. /\ packets' \in Seq(TunnelPackets) /\ Len(packets') = L + m
        /\ \A k \in 1..L : packets'[k] = packets[k]
        /\ \A k \in L + 1..L + m : k - L \in 1..m /\ packets'[k] = taken[k - L]
    <3>1. /\ packets \o taken \in Seq(TunnelPackets)
          /\ Len(packets \o taken) = Len(packets) + Len(taken)
          /\ \A k \in 1..Len(packets) : (packets \o taken)[k] = packets[k]
          /\ \A k \in Len(packets) + 1..Len(packets) + Len(taken) :
               k - Len(packets) \in 1..Len(taken) /\ (packets \o taken)[k] = taken[k - Len(packets)]
      <4>1. packets \in Seq(TunnelPackets) /\ taken \in Seq(TunnelPackets)
        BY <1>3, <2>1
      <4> QED  BY <4>1, JoinedFacts
    <3> QED  BY <1>0, <2>1, <2>2, <3>1
  <2> QED  BY <1>10, <2>1, <2>3
<1>12. TunnelTypes'
  BY <1>1, <1>18, <1>3, <1>6, <1>11 DEF TunnelTypes
<1>13. InLine'
  <2>1. HaveCome(queue)' /\ HaveCome(batch)' /\ Tunnel!InOrder(queue)' /\ Tunnel!InOrder(batch)'
        /\ Tunnel!Precede(batch, queue)'
    BY <1>1, <1>3 DEF InLine, HaveCome, Tunnel!InOrder, Tunnel!Precede
  <2>2. ASSUME NEW b \in 1..B
        PROVE  /\ sent'[b] # << >> /\ \A i \in DOMAIN sent'[b] : sent'[b][i].id <= came
               /\ Tunnel!InOrder(sent'[b]) /\ Tunnel!Precede(sent'[b], << >>)
               /\ Tunnel!Precede(sent'[b], queue)
    <3>1. CASE b = B
      BY <1>0, <1>3, <1>6, <3>1 DEF InLine, HaveCome, Tunnel!Precede
    <3>2. CASE b \in 1..N
      <4>1. sent'[b] = sent[b] /\ b \in 1..Len(sent)
        BY <1>0, <1>6, <3>2
      <4>2. /\ sent[b] # << >> /\ HaveCome(sent[b]) /\ Tunnel!InOrder(sent[b])
            /\ Tunnel!Precede(sent[b], queue)
        BY <1>3, <4>1 DEF InLine
      <4> QED  BY <4>1, <4>2 DEF HaveCome, Tunnel!Precede
    <3> QED  BY <1>3, <3>1, <3>2
  <2>3. ASSUME NEW b \in 1..B, NEW c \in 1..B, b < c
        PROVE  Tunnel!Precede(sent'[b], sent'[c])
    <3>1. b \in 1..N /\ (c = B \/ c \in 1..N)
      BY <1>3, <2>3
    <3> QED  BY <1>0, <1>3, <1>6, <2>3, <3>1 DEF InLine
  <2> QED  BY <1>1, <1>6, <2>1, <2>2, <2>3 DEF InLine, HaveCome, Tunnel!InOrder, Tunnel!Precede
<1>14. /\ \A b \in 1..N : Fragments(b)' = Fragments(b) /\ Total(b)' = Total(b)
       /\ Fragments(B)' = F /\ Total(B)' = T /\ Total(0)' = 0 /\ Total(0) = 0
  <2>1. \A b \in 1..N : Fragments(b)' = Fragments(b)
    BY <1>6 DEF Fragments
  <2>2. Fragments(B)' = F
    BY <1>0, <1>6 DEF Fragments
  <2> QED  BY <1>0, <1>1, <1>3, <2>1, <2>2 DEF Total
<1>15. Numbered'
  <2>1. ASSUME NEW k \in 1..L + m PROVE IsPacket(packets[k])'
    <3>1. PICK p : p = packets'[k]
      OBVIOUS
    <3>2. CASE k \in 1..L
      <4>1. p = packets[k] /\ IsPacket(packets[k])
        BY <1>0, <1>3, <1>11, <3>1, <3>2 DEF Numbered
      <4>2. p.data \in 1..N /\ p.data \in 1..B /\ IsPacket(p)
        BY <1>0, <1>3, <4>1 DEF IsPacket
      <4>3. IsPacket(p)'
        BY <1>6, <1>14, <4>2 DEF IsPacket
      <4> QED  BY <3>1, <4>3 DEF IsPacket
    <3>3. CASE k \in L + 1..L + m
      <4>1. kept[k - L] \in 1..T /\ p = all[kept[k - L]]
        BY <1>11, <3>1, <3>3
      <4>2. B \in 1..B
        BY <1>3
      <4>3. IsPacket(p)'
        BY <1>6, <1>8, <1>9, <1>14, <4>1, <4>2 DEF IsPacket
      <4> QED  BY <3>1, <4>3 DEF IsPacket
    <3> QED  BY <1>3, <1>10, <3>2, <3>3
  <2> QED  BY <1>5, <1>6, <1>11, <2>1 DEF Numbered
<1>16. Receiving' /\ GoesForward'
  <2>1. receiver.at \in 0..B /\ (receiver.at > 0 => receiver.at \in 1..N)
    BY <1>0, <1>3 DEF Receiving, Fitting
  <2> QED  BY <1>1, <1>3, <1>6, <1>14, <2>1 DEF Receiving, Fitting, GoesForward
<1>17. ASSUME perfect' PROVE InStep'
  <2>1. perfect /\ packets' = packets \o all /\ InStep
    BY <1>18, <1>17 DEF TunnelInv
  <2>2. PICK at, nth : Walk(at, nth)
    BY <2>1 DEF InStep
  <2>3. /\ Len(packets') = L + T
        /\ \A k \in L + 1..L + T : packets'[k] = all[k - L]
        /\ \A k \in 1..L : packets'[k] = packets[k]
    <3>1. all \in Seq(TunnelPackets)
      <4>1. all = [k \in 1..T |-> all[k]]
        BY <1>7
      <4> QED  BY <1>4, <1>9, <4>1
    <3>2. /\ Len(packets \o all) = Len(packets) + Len(all)
          /\ \A k \in 1..Len(packets) : (packets \o all)[k] = packets[k]
          /\ \A k \in Len(packets) + 1..Len(packets) + Len(all) :
               (packets \o all)[k] = all[k - Len(packets)]
      BY <1>3, <3>1, JoinedFacts
    <3> QED  BY <1>0, <1>8, <2>1, <3>2
  <2>10. PICK at2, nth2 : /\ at2 = [k \in 0..L + T |-> IF k <= L THEN at[k] ELSE B]
                          /\ nth2 = [k \in 0..L + T |-> IF k <= L THEN nth[k] ELSE k - L]
    OBVIOUS
  <2>4. /\ at2 \in [0..L + T -> Nat] /\ nth2 \in [0..L + T -> Nat]
        /\ \A k \in 0..L : at2[k] = at[k] /\ nth2[k] = nth[k]
        /\ \A k \in L + 1..L + T : at2[k] = B /\ nth2[k] = k - L
    <3>1. at \in [0..L -> Nat] /\ nth \in [0..L -> Nat]
      BY <1>0, <2>2 DEF Walk
    <3>2. \A k \in 0..L : k \in 0..L + T /\ k <= L
      BY <1>3, <1>4
    <3>3. \A k \in L + 1..L + T : k \in 0..L + T /\ ~(k <= L) /\ k - L \in Nat
      BY <1>3, <1>4
    <3>4. \A k \in 0..L + T : k \in 0..L \/ k \in L + 1..L + T
      BY <1>3, <1>4
    <3>5. \A k \in 0..L + T : k <= L => k \in 0..L
      BY <1>3, <1>4
    <3>6. \A k \in 0..L + T : ~(k <= L) => k - L \in Nat
      BY <1>3, <1>4
    <3>7. at2 \in [0..L + T -> Nat] /\ nth2 \in [0..L + T -> Nat]
      BY <1>3, <2>10, <3>1, <3>5, <3>6
    <3> QED  BY <2>10, <3>2, <3>3, <3>7
  <2>5. Has(nth[0])'
    <3>1. receiver.at = 0 \/ receiver.at \in 1..N
      BY <1>0, <1>3 DEF Receiving, Fitting
    <3>2. Has(nth[0])
      BY <2>2 DEF Walk
    <3> QED  BY <1>1, <1>14, <3>1, <3>2 DEF Has
  <2>6. ASSUME NEW k \in 1..L + T
        PROVE  /\ packets'[k].data = at2[k]
               /\ packets'[k].fragno = (nth2[k] - 1) % Fragments(at2[k])'
               /\ Follows(at2[k - 1], nth2[k - 1], at2[k], nth2[k])'
    <3>1. CASE k \in 1..L
      <4>1. /\ packets[k].data = at[k] /\ packets[k].fragno = (nth[k] - 1) % Fragments(at[k])
            /\ Follows(at[k - 1], nth[k - 1], at[k], nth[k])
        BY <1>0, <2>2, <3>1 DEF Walk
      <4>2. at[k] \in 1..N
        BY <1>0, <1>3, <3>1, <4>1 DEF Numbered, IsPacket
      <4>3. k \in 0..L /\ k - 1 \in 0..L
        BY <1>3, <3>1
      <4>4. at[k - 1] \in 0..N
        <5>1. at[k - 1] \in Nat
          BY <1>0, <2>2, <4>3 DEF Walk
        <5>2. at[k] = at[k - 1] \/ at[k] = at[k - 1] + 1
          BY <4>1 DEF Follows
        <5> QED  BY <1>3, <4>2, <5>1, <5>2
      <4>5. \A b \in 0..N : Total(b)' = Total(b)
        BY <1>3, <1>14
      <4>6. Fragments(at[k])' = Fragments(at[k])
        BY <1>14, <4>2
      <4>7. Follows(at[k - 1], nth[k - 1], at[k], nth[k])'
        BY <4>1, <4>4, <4>5 DEF Follows
      <4> QED  BY <2>3, <2>4, <3>1, <4>1, <4>3, <4>6, <4>7
    <3>2. CASE k = L + 1
      <4>1. /\ k \in L + 1..L + T /\ k - 1 \in 0..L /\ k - L \in 1..T /\ k - 1 = L /\ k - L = 1
        BY <1>3, <1>4, <3>2
      <4>2. at[L] = N /\ nth[L] = Total(N)
        BY <1>0, <2>2 DEF Walk
      <4>3. Total(N)' = Total(N)
        BY <1>3, <1>14
      <4>4. Follows(N, nth[L], B, 1)'
        BY <1>3, <4>2, <4>3 DEF Follows
      <4>5. /\ packets'[k] = all[1] /\ at2[k] = B /\ nth2[k] = 1
            /\ at2[k - 1] = N /\ nth2[k - 1] = nth[L]
        BY <2>3, <2>4, <4>1, <4>2
      <4>6. 1 \in 1..T
        BY <4>1
      <4> QED  BY <1>8, <1>14, <4>4, <4>5, <4>6
    <3>3. CASE k \in L + 2..L + T
      <4>1. /\ k \in L + 1..L + T /\ k - 1 \in L + 1..L + T /\ k - L \in 1..T
            /\ k - L = (k - 1 - L) + 1 /\ k - 1 - L < T
        BY <1>3, <1>4, <3>3
      <4>3. Follows(B, k - 1 - L, B, k - L)'
        BY <1>14, <4>1 DEF Follows
      <4> QED  BY <1>8, <1>14, <2>3, <2>4, <4>1, <4>3
    <3> QED  BY <1>3, <1>4, <3>1, <3>2, <3>3
  <2>7. at2[L + T] = B /\ nth2[L + T] = T
    BY <1>3, <1>4, <2>4
  <2>8. at2[0] = receiver.at /\ nth2[0] = nth[0]
    BY <1>0, <1>3, <2>2, <2>4 DEF Walk
  <2>9. Walk(at2, nth2)'
    BY <1>0, <1>1, <1>6, <1>14, <2>3, <2>4, <2>5, <2>6, <2>7, <2>8 DEF Walk
  <2> QED  BY <1>1, <2>1, <2>9 DEF InStep, Complete
<1> QED  BY <1>12, <1>13, <1>15, <1>16, <1>17 DEF TunnelInv, InStep

\* Whether a packet adds to the batch that is being put together.
Joins(p, r) ==
  /\ ~r.complete /\ p.seqno = r.cur_seqno /\ Fragments(p.data) = r.nfrags
  /\ p.fragno \notin DOMAIN r.buf

\* What is known of a packet that comes.
LEMMA PacketFacts ==
  ASSUME TunnelSetting, TunnelInv, NEW n \in 1..Len(packets), NEW p, p = packets[n]
  PROVE  /\ IsPacket(p) /\ p.data \in 1..Len(sent) /\ p.data \in Nat \ {0}
         /\ p.seqno = Number(p.data) /\ p.seqno \in Nat
         /\ Tunnel!NumFragments(p.payload_size) = Fragments(p.data)
         /\ Fragments(p.data) \in Nat \ {0} /\ p.fragno \in 0..Fragments(p.data) - 1
<1>1. IsPacket(p)
  BY DEF TunnelInv, Numbered
<1>2. p.data \in 1..Len(sent) /\ Len(sent) \in Nat
  BY <1>1, SentFacts DEF IsPacket
<1>3. p.data \in Nat \ {0}
  BY <1>2
<1>4. p.seqno = Number(p.data) /\ p.seqno \in Nat
  <2>1. Number(p.data) \in 0..SeqnoWrapVal - 1
    BY <1>3, NumbersFacts
  <2> QED  BY <1>1, <2>1 DEF IsPacket, TunnelSetting
<1>5. Tunnel!NumFragments(p.payload_size) = Fragments(p.data)
  BY <1>1 DEF IsPacket, Fragments
<1>6. Fragments(p.data) \in Nat \ {0} /\ p.fragno \in 0..Fragments(p.data) - 1
  BY <1>1, <1>2, SentFacts DEF IsPacket
<1> QED  BY <1>1, <1>2, <1>3, <1>4, <1>5, <1>6

\* What the receiver knows after a packet: the fragment more, or nothing more.
Joined(p, r, after) ==
  /\ Fitting(after)
  /\ after.at = r.at /\ after.cur_seqno = r.cur_seqno /\ after.nfrags = r.nfrags
  /\ Joins(p, r) =>
       /\ DOMAIN after.buf = DOMAIN r.buf \cup {p.fragno}
       /\ after.complete = (DOMAIN after.buf = 0..r.nfrags - 1)
       /\ after.buf[p.fragno] = p.data
       /\ \A f \in DOMAIN r.buf : after.buf[f] = r.buf[f]
  /\ ~Joins(p, r) => after = r

\* What the receiver knows with a fragment more.
LEMMA JoiningFacts ==
  ASSUME TunnelSetting, TunnelInv, NEW n \in 1..Len(packets), NEW p, p = packets[n],
         NEW r, Fitting(r), NEW after, after = Tunnel!WithFragment(r, p)
  PROVE  Joined(p, r, after)
<1>1. p.data \in Nat /\ Tunnel!NumFragments(p.payload_size) = Fragments(p.data)
  BY PacketFacts
<1>2. CASE ~Joins(p, r)
  <2>1. after = r
    BY <1>1, <1>2 DEF Joins, Tunnel!WithFragment
  <2> QED  BY <1>2, <2>1 DEF Joined
<1>3. CASE Joins(p, r)
  <2> DEFINE buf2 == [ f \in DOMAIN r.buf \cup {p.fragno} |->
                         IF f = p.fragno THEN p.data ELSE r.buf[f] ]
             whole == DOMAIN buf2 = 0..r.nfrags - 1
  <2>1. after = [r EXCEPT !.buf = buf2, !.complete = whole]
    BY <1>1, <1>3 DEF Joins, Tunnel!WithFragment
  <2>2. /\ DOMAIN buf2 = DOMAIN r.buf \cup {p.fragno} /\ whole \in BOOLEAN
        /\ buf2[p.fragno] = p.data /\ \A f \in DOMAIN r.buf : buf2[f] = r.buf[f]
        /\ whole = (DOMAIN buf2 = 0..r.nfrags - 1)
    BY <1>3 DEF Joins
  <2>3. \A f \in DOMAIN buf2 : buf2[f] \in Nat
    <3>1. \A f \in DOMAIN r.buf : r.buf[f] \in Nat
      BY DEF Fitting
    <3> HIDE DEF buf2, whole
    <3> QED  BY <1>1, <2>2, <3>1
  <2> HIDE DEF buf2, whole
  <2>4. /\ after = [cur_seqno |-> r.cur_seqno, nfrags |-> r.nfrags, buf |-> buf2,
                    complete |-> whole, at |-> r.at]
    BY <2>1 DEF Fitting
  <2>5. /\ after.cur_seqno = r.cur_seqno /\ after.nfrags = r.nfrags /\ after.buf = buf2
        /\ after.complete = whole /\ after.at = r.at
    BY <2>4
  <2>6. r.at # 0
    BY <1>3 DEF Joins, Fitting
  <2>7. Fitting(after)
    BY <2>2, <2>3, <2>4, <2>5, <2>6 DEF Fitting
  <2> QED  BY <1>3, <2>2, <2>5, <2>7 DEF Joined
<1> QED  BY <1>2, <1>3

\* What the receiver is at when a packet has come: a new batch, or the one it was at.
LEMMA StartingFacts ==
  ASSUME TunnelSetting, TunnelInv, NEW n \in 1..Len(packets), NEW p, p = packets[n],
         NEW r, r = IF Tunnel!IsNew(p) THEN Tunnel!NewBatch(p) ELSE receiver
  PROVE  /\ Fitting(r)
         /\ Tunnel!IsNew(p) => /\ r.at = p.data /\ r.cur_seqno = p.seqno /\ ~r.complete
                               /\ r.nfrags = Fragments(p.data) /\ DOMAIN r.buf = {}
         /\ ~Tunnel!IsNew(p) => r = receiver
<1>1. /\ p.data \in 1..Len(sent) /\ p.seqno = Number(p.data) /\ p.data \in Nat \ {0}
      /\ Tunnel!NumFragments(p.payload_size) = Fragments(p.data) /\ Len(sent) \in Nat
  BY PacketFacts, SentFacts
<1>2. CASE Tunnel!IsNew(p)
  <2>1. r = [cur_seqno |-> p.seqno, nfrags |-> Fragments(p.data), buf |-> << >>,
             complete |-> FALSE, at |-> p.data]
    BY <1>1, <1>2 DEF Tunnel!NewBatch
  <2>2. /\ r.at = p.data /\ r.cur_seqno = p.seqno /\ r.complete = FALSE
        /\ r.nfrags = Fragments(p.data) /\ DOMAIN r.buf = {} /\ r.buf = << >>
    BY <2>1
  <2>3. p.data \in 0..Len(sent)
    BY <1>1
  <2>4. Fitting(r)
    BY <1>1, <2>1, <2>2, <2>3 DEF Fitting
  <2> QED  BY <1>2, <2>2, <2>4
<1>3. CASE ~Tunnel!IsNew(p)
  BY <1>3 DEF TunnelInv, Receiving
<1> QED  BY <1>2, <1>3

\* A packet in time is taken for what it is: one that starts a batch is of a later batch, and
\* one that adds to a batch is of that batch.
LEMMA InTimeFacts ==
  ASSUME TunnelSetting, TunnelInv, NEW n \in 1..Len(packets), NEW p, p = packets[n],
         Tunnel!InTime(p)
  PROVE  /\ Tunnel!IsNew(p) <=> p.data > receiver.at
         /\ p.seqno = receiver.cur_seqno => p.data = receiver.at
<1>1. p.data \in Nat /\ p.seqno = Number(p.data)
  BY PacketFacts
<1>2. receiver.at \in Nat /\ receiver.cur_seqno = Number(receiver.at)
  BY SentFacts DEF TunnelInv, Receiving, Fitting
<1>3. PICK b, c : b = receiver.at /\ c = p.data
  OBVIOUS
<1>4. b \in Nat /\ c \in Nat
  BY <1>1, <1>2, <1>3
<1>5. Tunnel!IsNew(p) <=> Number(c) > Number(b) \/ Number(c) < Number(b) - SeqnoWrapGap
  BY <1>1, <1>2, <1>3 DEF Tunnel!IsNew
<1>6. IF c > b THEN c - b < SeqnoWrapVal - SeqnoWrapGap
      ELSE b - c <= SeqnoWrapGap /\ Number(c) <= Number(b)
  BY <1>1, <1>2, <1>3 DEF Tunnel!InTime
<1>7. /\ b < c /\ c - b < SeqnoWrapVal - SeqnoWrapGap =>
              /\ Number(c) > Number(b) \/ Number(c) < Number(b) - SeqnoWrapGap
      /\ c <= b /\ b - c <= SeqnoWrapGap /\ Number(c) <= Number(b) =>
              ~(Number(c) > Number(b) \/ Number(c) < Number(b) - SeqnoWrapGap)
      /\ c < b /\ b - c <= SeqnoWrapGap => Number(c) # Number(b)
      /\ Number(b) \in 0..SeqnoWrapVal - 1 /\ Number(c) \in 0..SeqnoWrapVal - 1
  BY <1>4, NumbersFacts
<1> HIDE DEF Number
<1>8. SeqnoWrapGap \in Nat /\ SeqnoWrapVal \in Nat
  BY DEF TunnelSetting
<1>9. Tunnel!IsNew(p) <=> c > b
  BY <1>4, <1>5, <1>6, <1>7
<1>10. ASSUME Number(c) = Number(b) PROVE c = b
  <2>1. ~(c > b)
    <3>1. ~(Number(c) > Number(b) \/ Number(c) < Number(b) - SeqnoWrapGap)
      BY <1>7, <1>8, <1>10
    <3> QED  BY <1>5, <1>9, <3>1
  <2>2. ~(c < b)
    BY <1>4, <1>6, <1>7, <1>10, <2>1
  <2> QED  BY <1>4, <2>1, <2>2
<1> QED  BY <1>1, <1>2, <1>3, <1>9, <1>10

\* The packets that are left when one has come.
LEMMA LeftFacts ==
  ASSUME TunnelSetting, TunnelInv, NEW n \in 1..Len(packets), Tunnel!OnUdpData(n)
  PROVE  /\ Len(packets) \in Nat /\ packets' \in Seq(TunnelPackets)
         /\ Len(packets') = Len(packets) - 1
         /\ \A k \in 1..Len(packets) - 1 :
              packets'[k] = IF k < n THEN packets[k] ELSE packets[k + 1]
<1>1. packets \in Seq(TunnelPackets) /\ Len(packets) \in Nat
  BY DEF TunnelInv, TunnelTypes
<1>2. PICK L, p, q : /\ L = Len(packets) /\ p = SubSeq(packets, 1, n - 1)
                     /\ q = SubSeq(packets, n + 1, L)
  OBVIOUS
<1>3. packets' = p \o q
  BY <1>2 DEF Tunnel!OnUdpData
<1>4. /\ p \in Seq(TunnelPackets) /\ Len(p) = n - 1
      /\ \A k \in 1..n - 1 : p[k] = packets[k]
  BY <1>1, <1>2, SubSeqProperties
<1>5. /\ q \in Seq(TunnelPackets) /\ Len(q) = L - n
      /\ \A k \in 1..L - n : q[k] = packets[k + n]
  BY <1>1, <1>2, SubSeqProperties
<1>6. /\ packets' \in Seq(TunnelPackets) /\ Len(packets') = L - 1
      /\ \A k \in 1..n - 1 : packets'[k] = packets[k]
      /\ \A k \in n..L - 1 : k - n + 1 \in 1..L - n /\ packets'[k] = q[k - n + 1]
  <2>1. /\ p \o q \in Seq(TunnelPackets) /\ Len(p \o q) = Len(p) + Len(q)
        /\ \A k \in 1..Len(p) : (p \o q)[k] = p[k]
        /\ \A k \in Len(p) + 1..Len(p) + Len(q) :
             k - Len(p) \in 1..Len(q) /\ (p \o q)[k] = q[k - Len(p)]
    BY <1>4, <1>5, JoinedFacts
  <2>2. n \in Int /\ L \in Int /\ 1 <= n /\ n <= L
    BY <1>1, <1>2
  <2>3. Len(p) = n - 1 /\ Len(q) = L - n
    BY <1>4, <1>5
  <2>4. packets' \in Seq(TunnelPackets) /\ Len(packets') = L - 1
    BY <1>3, <2>1, <2>2, <2>3
  <2>5. \A k \in 1..n - 1 : packets'[k] = packets[k]
    BY <1>3, <1>4, <2>1, <2>3
  <2>6. ASSUME NEW k \in n..L - 1 PROVE k - n + 1 \in 1..L - n /\ packets'[k] = q[k - n + 1]
    <3>1. k \in Len(p) + 1..Len(p) + Len(q) /\ k - Len(p) = k - n + 1 /\ k - n + 1 \in 1..L - n
      BY <2>2, <2>3
    <3> QED  BY <1>3, <2>1, <3>1
  <2> QED  BY <2>4, <2>5, <2>6
<1>7. ASSUME NEW k \in 1..L - 1 PROVE packets'[k] = IF k < n THEN packets[k] ELSE packets[k + 1]
  <2>1. CASE k < n
    BY <1>1, <1>2, <1>6, <2>1
  <2>2. CASE ~(k < n)
    <3>1. k \in n..L - 1 /\ (k - n + 1) + n = k + 1
      BY <1>1, <1>2, <2>2
    <3> QED  BY <1>5, <1>6, <2>2, <3>1
  <2> QED  BY <2>1, <2>2
<1> QED  BY <1>1, <1>2, <1>6, <1>7

\* A packet comes: what does not depend on that nothing was lost.
LEMMA Coming ==
  ASSUME TunnelSetting, TunnelInv, NEW n \in 1..Len(packets), Tunnel!OnUdpData(n)
  PROVE  TunnelTypes' /\ InLine' /\ Numbered' /\ Receiving' /\ GoesForward'
<1>1. PICK p, r, after :
        /\ p = packets[n]
        /\ r = IF Tunnel!IsNew(p) THEN Tunnel!NewBatch(p) ELSE receiver
        /\ after = Tunnel!WithFragment(r, p)
  OBVIOUS
<1>2. /\ receiver' = after
      /\ published' = IF after.complete /\ ~r.complete
                      THEN Append(published, Tunnel!Spelled(after.buf)) ELSE published
      /\ timely' = (timely /\ Tunnel!InTime(p)) /\ perfect' = (perfect /\ n = 1)
      /\ UNCHANGED <<params, came, queue, thread, batch, seqno, sent>>
  BY <1>1, Zenon DEF Tunnel!OnUdpData, Tunnel!senderVars
<1>3. /\ Fitting(r)
      /\ Tunnel!IsNew(p) => /\ r.at = p.data /\ r.cur_seqno = p.seqno /\ ~r.complete
                            /\ r.nfrags = Fragments(p.data) /\ DOMAIN r.buf = {}
      /\ ~Tunnel!IsNew(p) => r = receiver
  BY <1>1, StartingFacts
<1>4. /\ Fitting(after)
      /\ after.at = r.at /\ after.cur_seqno = r.cur_seqno /\ after.nfrags = r.nfrags
      /\ Joins(p, r) =>
           /\ DOMAIN after.buf = DOMAIN r.buf \cup {p.fragno}
           /\ after.complete = (DOMAIN after.buf = 0..r.nfrags - 1)
           /\ after.buf[p.fragno] = p.data
           /\ \A f \in DOMAIN r.buf : after.buf[f] = r.buf[f]
      /\ ~Joins(p, r) => after = r
  <2>1. p = packets[n] /\ Fitting(r) /\ after = Tunnel!WithFragment(r, p)
    BY <1>1, <1>3
  <2>2. Joined(p, r, after)
    BY <2>1, JoiningFacts
  <2> QED  BY <2>2 DEF Joined
<1>5. /\ p.data \in 1..Len(sent) /\ p.data \in Nat \ {0}
      /\ Fragments(p.data) \in Nat \ {0} /\ p.fragno \in 0..Fragments(p.data) - 1
  BY <1>1, PacketFacts
<1>6. /\ TunnelTypes /\ InLine /\ Numbered /\ Receiving /\ GoesForward /\ Len(sent) \in Nat
      /\ published \in Seq(Nat) /\ Len(published) \in Nat
  BY SentFacts DEF TunnelInv, TunnelTypes
<1>7. ASSUME after.complete, ~r.complete
      PROVE  /\ Joins(p, r) /\ 0 \in DOMAIN after.buf /\ Tunnel!Spelled(after.buf) \in Nat
  <2>1. Joins(p, r)
    BY <1>4, <1>7
  <2>2. r.nfrags = Fragments(p.data)
    BY <2>1 DEF Joins
  <2>3. 0 \in DOMAIN after.buf
    <3>1. DOMAIN after.buf = 0..Fragments(p.data) - 1
      BY <1>4, <1>7, <2>1, <2>2
    <3>2. \A m \in Nat \ {0} : 0 \in 0..m - 1
      OBVIOUS
    <3> QED  BY <1>5, <3>1, <3>2
  <2>4. after.buf[0] \in Nat
    BY <1>4, <2>3 DEF Fitting
  <2> QED  BY <2>1, <2>3, <2>4 DEF Tunnel!Spelled
<1>8. published' \in Seq(Nat)
  BY <1>2, <1>6, <1>7
<1>9. TunnelTypes'
  <2>1. packets' \in Seq(TunnelPackets)
    BY LeftFacts
  <2>2. timely' \in BOOLEAN /\ perfect' \in BOOLEAN
    BY <1>2
  <2> QED  BY <1>2, <1>6, <1>8, <2>1, <2>2 DEF TunnelTypes
<1>10. InLine'
  BY <1>2, <1>6 DEF InLine, HaveCome, Tunnel!InOrder, Tunnel!Precede
<1>11. \A b : Fragments(b)' = Fragments(b)
  BY <1>2 DEF Fragments
<1>12. Numbered'
  <2>1. ASSUME NEW k \in 1..Len(packets') PROVE IsPacket(packets'[k])
    <3>1. /\ Len(packets) \in Nat /\ Len(packets') = Len(packets) - 1
          /\ \A i \in 1..Len(packets) - 1 :
               packets'[i] = IF i < n THEN packets[i] ELSE packets[i + 1]
      BY LeftFacts
    <3>2. k \in 1..Len(packets) - 1 /\ k \in 1..Len(packets) /\ k + 1 \in 1..Len(packets)
      BY <3>1
    <3> QED  BY <1>6, <3>1, <3>2 DEF Numbered
  <2>2. \A p2 : IsPacket(p2) => p2.data \in 1..Len(sent')
    BY <1>2 DEF IsPacket
  <2> QED  BY <1>2, <1>6, <1>11, <2>1 DEF Numbered, IsPacket
<1>13. Receiving'
  BY <1>2, <1>4, <1>11 DEF Receiving, Fitting
<1>14. ASSUME timely' PROVE GoesForward'
  <2>1. timely /\ Tunnel!InTime(p)
    BY <1>2, <1>14
  <2>2. /\ Tunnel!IsNew(p) <=> p.data > receiver.at
        /\ p.seqno = receiver.cur_seqno => p.data = receiver.at
    BY <1>1, <2>1, InTimeFacts
  <2>3. receiver.at \in Nat /\ receiver.at \in 0..Len(sent) /\ receiver.complete \in BOOLEAN
    BY <1>6 DEF Receiving, Fitting
  <2>4. /\ \A f \in DOMAIN r.buf : r.buf[f] = r.at
        /\ \A i \in 1..Len(published) :
             published[i] \in 1..r.at /\ (~r.complete => published[i] < r.at)
    <3>1. CASE Tunnel!IsNew(p)
      BY <1>3, <1>5, <1>6, <2>1, <2>2, <2>3, <3>1 DEF GoesForward
    <3>2. CASE ~Tunnel!IsNew(p)
      BY <1>3, <1>6, <2>1, <3>2 DEF GoesForward
    <3> QED  BY <3>1, <3>2
  <2>5. ASSUME Joins(p, r)
        PROVE  p.data = r.at /\ \A f \in DOMAIN after.buf : after.buf[f] = after.at
    <3>1. p.data = r.at
      BY <1>3, <2>2, <2>5 DEF Joins
    <3> QED  BY <1>4, <2>4, <2>5, <3>1
  <2>6. \A f \in DOMAIN after.buf : after.buf[f] = after.at
    BY <1>4, <2>4, <2>5
  <2>7. ASSUME NEW i, NEW j, i \in 1..Len(published), j \in 1..Len(published), i < j
        PROVE  published[i] < published[j]
    BY <1>6, <2>1, <2>7 DEF GoesForward
  <2>8. CASE after.complete /\ ~r.complete
    <3>1. Tunnel!Spelled(after.buf) = after.at
      BY <1>7, <2>6, <2>8 DEF Tunnel!Spelled
    <3>2. /\ Len(published') = Len(published) + 1 /\ published'[Len(published) + 1] = after.at
          /\ \A i \in 1..Len(published) : published'[i] = published[i]
      BY <1>2, <1>6, <1>7, <2>8, <3>1
    <3>3. after.at \in Nat \ {0} /\ after.at = r.at
      BY <1>4, <1>5, <1>7, <2>5, <2>8
    <3>4. \A i \in 1..Len(published') :
            i \in 1..Len(published) \/ i = Len(published) + 1
      BY <1>6, <3>2
    <3>5. \A i \in 1..Len(published') : published'[i] \in 1..after.at
      BY <2>4, <3>2, <3>3, <3>4
    <3>6. ASSUME NEW i \in 1..Len(published'), NEW j \in 1..Len(published'), i < j
          PROVE  published'[i] < published'[j]
      <4>1. i \in 1..Len(published)
        BY <1>6, <3>2, <3>6
      <4>2. CASE j \in 1..Len(published)
        BY <2>7, <3>2, <3>6, <4>1, <4>2
      <4>3. CASE j = Len(published) + 1
        BY <2>4, <2>8, <3>2, <3>3, <4>1, <4>3
      <4> QED  BY <3>4, <4>2, <4>3
    <3> QED  BY <1>2, <2>6, <2>8, <3>5, <3>6 DEF GoesForward
  <2>9. CASE ~(after.complete /\ ~r.complete)
    <3>1. published' = published
      BY <1>2, <2>9
    <3>2. ~after.complete => ~r.complete
      BY <1>4 DEF Joins
    <3> QED  BY <1>2, <1>4, <2>4, <2>6, <2>7, <3>1, <3>2 DEF GoesForward
  <2> QED  BY <2>8, <2>9
<1> QED  BY <1>9, <1>10, <1>12, <1>13, <1>14 DEF GoesForward

\* A packet comes, and nothing was lost or overtaken: it is the next one.
LEMMA ComingInStep ==
  ASSUME TunnelSetting, TunnelInv, NEW n \in 1..Len(packets), Tunnel!OnUdpData(n), perfect'
  PROVE  InStep'
<1>1. PICK p, r, after, L, b, c :
        /\ p = packets[n]
        /\ r = IF Tunnel!IsNew(p) THEN Tunnel!NewBatch(p) ELSE receiver
        /\ after = Tunnel!WithFragment(r, p)
        /\ L = Len(packets) /\ b = receiver.at /\ c = p.data
  OBVIOUS
<1>2. /\ receiver' = after
      /\ published' = IF after.complete /\ ~r.complete
                      THEN Append(published, Tunnel!Spelled(after.buf)) ELSE published
      /\ timely' = (timely /\ Tunnel!InTime(p)) /\ perfect' = (perfect /\ n = 1)
      /\ UNCHANGED <<params, sent>>
  BY <1>1, Zenon DEF Tunnel!OnUdpData
<1>3. /\ Fitting(r)
      /\ Tunnel!IsNew(p) => /\ r.at = p.data /\ r.cur_seqno = p.seqno /\ ~r.complete
                            /\ r.nfrags = Fragments(p.data) /\ DOMAIN r.buf = {}
      /\ ~Tunnel!IsNew(p) => r = receiver
  BY <1>1, StartingFacts
<1>4. /\ Fitting(after)
      /\ after.at = r.at /\ after.cur_seqno = r.cur_seqno /\ after.nfrags = r.nfrags
      /\ Joins(p, r) =>
           /\ DOMAIN after.buf = DOMAIN r.buf \cup {p.fragno}
           /\ after.complete = (DOMAIN after.buf = 0..r.nfrags - 1)
           /\ after.buf[p.fragno] = p.data
           /\ \A f \in DOMAIN r.buf : after.buf[f] = r.buf[f]
      /\ ~Joins(p, r) => after = r
  <2>1. p = packets[n] /\ Fitting(r) /\ after = Tunnel!WithFragment(r, p)
    BY <1>1, <1>3
  <2>2. Joined(p, r, after)
    BY <2>1, JoiningFacts
  <2> QED  BY <2>2 DEF Joined
<1>5. /\ c \in 1..Len(sent) /\ c \in Nat \ {0} /\ p.seqno = Number(c)
      /\ Fragments(c) \in Nat \ {0} /\ Total(c) \in Nat /\ Fragments(c) <= Total(c)
      /\ Len(sent) \in Nat /\ Total(0) = 0
  BY <1>1, PacketFacts, SentFacts
<1>6. n = 1 /\ perfect /\ InStep
  BY <1>2 DEF TunnelInv
<1>7. PICK at, nth : Walk(at, nth)
  BY <1>6 DEF InStep
<1>8. /\ L \in Nat \ {0} /\ b \in Nat /\ b \in 0..Len(sent) /\ receiver.complete \in BOOLEAN
      /\ receiver.cur_seqno = Number(b) /\ (b = 0 => receiver.complete)
      /\ b > 0 => receiver.nfrags = Fragments(b)
  <2>1. L \in Nat
    BY <1>1, LeftFacts
  <2> QED  BY <1>1, <1>5, <2>1 DEF TunnelInv, Receiving, Fitting
<1>9. /\ at \in [0..L -> Nat] /\ nth \in [0..L -> Nat] /\ at[0] = b /\ Has(nth[0])
      /\ \A k \in 1..L :
           /\ packets[k].data = at[k] /\ packets[k].fragno = (nth[k] - 1) % Fragments(at[k])
           /\ Follows(at[k - 1], nth[k - 1], at[k], nth[k])
      /\ at[L] = Len(sent) /\ nth[L] = Total(Len(sent))
  BY <1>1, <1>7 DEF Walk
<1>10. PICK i, j : i = nth[0] /\ j = nth[1]
  OBVIOUS
<1>11. /\ i \in Nat /\ j \in Nat /\ at[1] = c /\ p.fragno = (j - 1) % Fragments(c)
       /\ \/ c = b /\ j = i + 1 /\ i < Total(b)
          \/ c = b + 1 /\ j = 1 /\ i = Total(b)
  <2>1. 0 \in 0..L /\ 1 \in 0..L /\ 1 \in 1..L
    BY <1>8
  <2>2. /\ packets[1].data = at[1] /\ packets[1].fragno = (nth[1] - 1) % Fragments(at[1])
        /\ Follows(at[0], nth[0], at[1], nth[1])
    BY <1>9, <2>1
  <2>3. i \in Nat /\ j \in Nat
    BY <1>9, <1>10, <2>1
  <2> QED  BY <1>1, <1>6, <1>9, <1>10, <2>2, <2>3 DEF Follows
<1>12. /\ IF b = 0 THEN i = 0
          ELSE /\ i \in 1..Total(b) /\ (receiver.complete <=> i >= Fragments(b))
               /\ ~receiver.complete => DOMAIN receiver.buf = 0..i - 1
  BY <1>1, <1>9, <1>10 DEF Has
<1>13. Tunnel!InTime(p) /\ timely'
  <2>1. SeqnoWrapGap \in Nat /\ SeqnoWrapVal \in Nat /\ SeqnoWrapGap + 1 < SeqnoWrapVal
    BY DEF TunnelSetting
  <2>2. Number(c) \in 0..SeqnoWrapVal - 1
    BY <1>5, NumbersFacts
  <2> HIDE DEF Number
  <2>3. Number(c) \in Int
    BY <2>1, <2>2
  <2>7. /\ p.data = c /\ receiver.at = b /\ p.seqno = Number(c)
        /\ receiver.cur_seqno = Number(b)
    BY <1>1, <1>5, <1>8
  <2>8. b \in Int /\ c \in Int
    BY <1>5, <1>8
  <2>4. ASSUME c = b PROVE Tunnel!InTime(p)
    <3>1. ~(p.data > receiver.at)
      BY <2>4, <2>7, <2>8
    <3>2. receiver.at - p.data <= SeqnoWrapGap /\ p.seqno <= receiver.cur_seqno
      BY <2>1, <2>3, <2>4, <2>7, <2>8
    <3> QED  BY <3>1, <3>2, Zenon DEF Tunnel!InTime
  <2>5. ASSUME c = b + 1 PROVE Tunnel!InTime(p)
    <3>1. p.data > receiver.at
      BY <2>5, <2>7, <2>8
    <3>2. p.data - receiver.at < SeqnoWrapVal - SeqnoWrapGap
      BY <2>1, <2>5, <2>7, <2>8
    <3> QED  BY <3>1, <3>2, Zenon DEF Tunnel!InTime
  <2>6. Tunnel!InTime(p)
    BY <1>11, <2>4, <2>5
  <2> QED  BY <1>2, <1>6, <2>6 DEF InStep
<1>14. Tunnel!IsNew(p) <=> c > b
  BY <1>1, <1>13, InTimeFacts
<1>15. published = [d \in 1..Complete |-> d]
  BY <1>6 DEF InStep
<1>16. published \in Seq(Nat)
  BY DEF TunnelInv, TunnelTypes
<1>17. ASSUME after.complete, ~r.complete, r.at = c, Complete = c - 1,
              \A f \in DOMAIN after.buf : after.buf[f] = c
       PROVE  published' = [d \in 1..c |-> d]
  <2>1. Joins(p, r)
    BY <1>4, <1>17
  <2>2. 0 \in DOMAIN after.buf
    <3>1. r.nfrags = Fragments(c)
      BY <1>1, <2>1 DEF Joins
    <3>2. DOMAIN after.buf = 0..Fragments(c) - 1
      BY <1>4, <1>17, <2>1, <3>1
    <3>3. \A m \in Nat \ {0} : 0 \in 0..m - 1
      OBVIOUS
    <3> QED  BY <1>5, <3>2, <3>3
  <2>3. Tunnel!Spelled(after.buf) = c
    BY <1>17, <2>2 DEF Tunnel!Spelled
  <2>4. published' = Append(published, c)
    BY <1>2, <1>17, <2>3
  <2>5. published = [d \in 1..c - 1 |-> d]
    BY <1>15, <1>17
  <2>6. c - 1 \in Nat
    BY <1>5
  <2> QED  BY <1>5, <2>4, <2>5, <2>6
<1>18. \A f \in DOMAIN receiver.buf : receiver.buf[f] = b
  BY <1>1, <1>13, <1>2 DEF TunnelInv, GoesForward
<1>19. /\ after.at = c /\ j \in 1..Total(c) /\ (after.complete <=> j >= Fragments(c))
       /\ ~after.complete => DOMAIN after.buf = 0..j - 1
       /\ published' = [d \in 1..(IF after.complete THEN c ELSE c - 1) |-> d]
  <2>1. CASE c = b + 1
    <3>1. Tunnel!IsNew(p) /\ j = 1 /\ i = Total(b)
      BY <1>8, <1>11, <1>14, <2>1
    <3>2. p.fragno = 0
      <4>1. \A m \in Nat \ {0} : (1 - 1) % m = 0
        OBVIOUS
      <4> HIDE DEF Fragments
      <4> QED  BY <1>5, <1>11, <3>1, <4>1
    <3>3. Joins(p, r)
      BY <1>1, <1>3, <3>1 DEF Joins
    <3>4. DOMAIN after.buf = {0} /\ after.complete = ({0} = 0..Fragments(c) - 1)
      BY <1>1, <1>3, <1>4, <3>1, <3>2, <3>3
    <3>5. ({0} = 0..Fragments(c) - 1) <=> 1 >= Fragments(c)
      <4>1. CASE Fragments(c) = 1
        BY <4>1
      <4>2. CASE Fragments(c) > 1
        <5>1. 1 \in 0..Fragments(c) - 1
          BY <1>5, <4>2
        <5> QED  BY <1>5, <4>2, <5>1
      <4> HIDE DEF Fragments
      <4> QED  BY <1>5, <4>1, <4>2
    <3>6. receiver.complete /\ Complete = b
      <4>1. receiver.complete
        <5>1. CASE b = 0
          BY <1>8, <5>1
        <5>2. CASE b # 0
          <6>1. Fragments(b) <= Total(b) /\ Total(b) \in Nat /\ Fragments(b) \in Nat
            BY <1>8, <5>2, SentFacts
          <6> QED  BY <1>12, <3>1, <5>2, <6>1
        <5> QED  BY <5>1, <5>2
      <4> QED  BY <1>1, <4>1 DEF Complete
    <3>7. b = c - 1
      BY <1>8, <2>1
    <3>8. after.at = c /\ r.at = c /\ ~r.complete /\ after.buf[0] = c
      BY <1>1, <1>3, <1>4, <3>1, <3>2, <3>3
    <3>9. 1 \in 1..Total(c) /\ {0} = 0..1 - 1
      BY <1>5
    <3>10. published' = [d \in 1..(IF after.complete THEN c ELSE c - 1) |-> d]
      <4>1. CASE after.complete
        BY <1>17, <3>4, <3>6, <3>7, <3>8, <4>1
      <4>2. CASE ~after.complete
        BY <1>2, <1>15, <3>6, <3>7, <4>2
      <4> QED  BY <4>1, <4>2
    <3> QED  BY <3>1, <3>4, <3>5, <3>8, <3>9, <3>10
  <2>2. CASE c = b
    <3>1. ~Tunnel!IsNew(p) /\ r = receiver /\ j = i + 1 /\ i < Total(c) /\ b # 0
      BY <1>3, <1>5, <1>8, <1>11, <1>14, <2>2
    <3>2. i \in 1..Total(c) /\ j \in 1..Total(c)
      BY <1>5, <1>11, <1>12, <2>2, <3>1
    <3>3. /\ receiver.complete <=> i >= Fragments(c)
          /\ ~receiver.complete => DOMAIN receiver.buf = 0..i - 1
      BY <1>12, <2>2, <3>1
    <3>4. CASE receiver.complete
      <4>1. after = receiver
        BY <1>4, <3>1, <3>4 DEF Joins
      <4>2. i >= Fragments(c) /\ j >= Fragments(c)
        BY <1>5, <1>11, <3>1, <3>3, <3>4
      <4>3. Complete = c
        BY <1>1, <2>2, <3>4 DEF Complete
      <4> QED  BY <1>1, <1>2, <1>15, <2>2, <3>1, <3>2, <3>4, <4>1, <4>2, <4>3
    <3>5. CASE ~receiver.complete
      <4>1. i < Fragments(c) /\ DOMAIN receiver.buf = 0..i - 1
        BY <1>5, <1>11, <3>3, <3>5
      <4>2. p.fragno = i
        <5>1. \A m \in Nat \ {0} : \A q \in Nat : q < m => ((q + 1) - 1) % m = q
          OBVIOUS
        <5> HIDE DEF Fragments
        <5> QED  BY <1>5, <1>11, <3>1, <4>1, <5>1
      <4>3. i \notin 0..i - 1 /\ (0..i - 1) \cup {i} = 0..j - 1
        BY <1>11, <3>1
      <4>4. Joins(p, r)
        BY <1>1, <1>5, <1>8, <2>2, <3>1, <3>5, <4>1, <4>2, <4>3 DEF Joins
      <4>5. DOMAIN after.buf = 0..j - 1 /\ after.complete = (0..j - 1 = 0..Fragments(c) - 1)
        <5>1. r.nfrags = Fragments(c) /\ DOMAIN r.buf = 0..i - 1
          BY <1>8, <2>2, <3>1, <4>1
        <5>2. DOMAIN after.buf = DOMAIN r.buf \cup {i}
          BY <1>4, <4>2, <4>4
        <5>3. after.complete = (DOMAIN after.buf = 0..r.nfrags - 1)
          BY <1>4, <4>4
        <5>4. DOMAIN after.buf = 0..j - 1
          BY <4>3, <5>1, <5>2, Zenon
        <5> QED  BY <5>1, <5>3, <5>4, Zenon
      <4>6. (0..j - 1 = 0..Fragments(c) - 1) <=> j >= Fragments(c)
        <5>1. j <= Fragments(c)
          BY <1>5, <1>11, <3>1, <4>1
        <5>2. CASE j = Fragments(c)
          BY <1>11, <5>2
        <5>3. CASE j < Fragments(c)
          <6>1. j \in 0..Fragments(c) - 1 /\ j \notin 0..j - 1
            BY <1>5, <1>11, <5>3
          <6> QED  BY <1>5, <1>11, <5>3, <6>1
        <5> HIDE DEF Fragments
        <5> QED  BY <1>5, <1>11, <5>1, <5>2, <5>3
      <4>7. after.at = c /\ r.at = c /\ ~r.complete /\ Complete = c - 1
        BY <1>1, <1>4, <2>2, <3>1, <3>5 DEF Complete
      <4>8. \A f \in DOMAIN after.buf : after.buf[f] = c
        BY <1>1, <1>4, <1>18, <2>2, <3>1, <4>4
      <4>9. published' = [d \in 1..(IF after.complete THEN c ELSE c - 1) |-> d]
        <5>1. CASE after.complete
          BY <1>17, <4>7, <4>8, <5>1
        <5>2. CASE ~after.complete
          BY <1>2, <1>15, <4>7, <5>2
        <5> QED  BY <5>1, <5>2
      <4> QED  BY <3>2, <4>5, <4>6, <4>7, <4>9
    <3> QED  BY <3>4, <3>5
  <2> QED  BY <1>11, <2>1, <2>2
<1>20. /\ \A d : Fragments(d)' = Fragments(d)
       /\ \A d : Total(d)' = Total(d)
       /\ \A d, e, f, g : Follows(d, e, f, g)' <=> Follows(d, e, f, g)
  BY <1>2 DEF Fragments, Total, Follows
<1>21. PICK at2, nth2 : /\ at2 = [k \in 0..L - 1 |-> at[k + 1]]
                        /\ nth2 = [k \in 0..L - 1 |-> nth[k + 1]]
  OBVIOUS
<1>22. /\ at2 \in [0..L - 1 -> Nat] /\ nth2 \in [0..L - 1 -> Nat]
       /\ \A k \in 0..L - 1 : at2[k] = at[k + 1] /\ nth2[k] = nth[k + 1]
  <2>1. \A k \in 0..L - 1 : k + 1 \in 0..L
    BY <1>8
  <2>2. \A k \in 0..L - 1 : at[k + 1] \in Nat /\ nth[k + 1] \in Nat
    BY <1>9, <2>1
  <2> QED  BY <1>21, <2>2
<1>23. Has(nth2[0])'
  <2>1. nth2[0] = j
    BY <1>8, <1>10, <1>22
  <2>2. Has(j)'
    <3>1. receiver'.at = c /\ c # 0 /\ receiver' = after
      BY <1>2, <1>5, <1>19
    <3>2. PICK t, f : t = Total(c) /\ f = Fragments(c)
      OBVIOUS
    <3>3. Total(c)' = t /\ Fragments(c)' = f
      BY <1>20, <3>2
    <3> HIDE DEF Total, Fragments
    <3> QED  BY <1>19, <3>1, <3>2, <3>3 DEF Has
  <2> QED  BY <2>1, <2>2
<1>24. /\ Len(packets') = L - 1
       /\ \A k \in 1..L - 1 : packets'[k] = packets[k + 1]
  <2>1. /\ Len(packets') = L - 1
        /\ \A k \in 1..L - 1 : packets'[k] = IF k < n THEN packets[k] ELSE packets[k + 1]
    BY <1>1, LeftFacts
  <2> QED  BY <1>6, <1>8, <2>1
<1>25. ASSUME NEW k \in 1..L - 1
       PROVE  /\ packets'[k].data = at2[k]
              /\ packets'[k].fragno = (nth2[k] - 1) % Fragments(at2[k])'
              /\ Follows(at2[k - 1], nth2[k - 1], at2[k], nth2[k])'
  <2>1. k + 1 \in 1..L /\ k \in 0..L - 1 /\ k - 1 \in 0..L - 1 /\ (k - 1) + 1 = k /\ (k + 1) - 1 = k
    BY <1>8
  <2>2. /\ packets[k + 1].data = at[k + 1]
        /\ packets[k + 1].fragno = (nth[k + 1] - 1) % Fragments(at[k + 1])
        /\ Follows(at[k], nth[k], at[k + 1], nth[k + 1])
    BY <1>9, <2>1
  <2>3. /\ at2[k] = at[k + 1] /\ nth2[k] = nth[k + 1] /\ at2[k - 1] = at[k]
        /\ nth2[k - 1] = nth[k] /\ packets'[k] = packets[k + 1]
    BY <1>22, <1>24, <2>1
  <2> QED  BY <1>20, <2>2, <2>3
<1>26. Walk(at2, nth2)'
  <2>1. at2[0] = c /\ receiver'.at = c
    BY <1>2, <1>8, <1>11, <1>19, <1>22
  <2>2. L - 1 \in 0..L - 1 /\ (L - 1) + 1 = L
    BY <1>8
  <2>3. at2[L - 1] = Len(sent) /\ nth2[L - 1] = Total(Len(sent))
    BY <1>9, <1>22, <2>2
  <2>4. Len(sent') = Len(sent) /\ Total(Len(sent))' = Total(Len(sent))
    BY <1>2 DEF Total, Fragments
  <2> QED  BY <1>22, <1>23, <1>24, <1>25, <2>1, <2>3, <2>4 DEF Walk
<1>27. published' = [d \in 1..Complete' |-> d]
  BY <1>2, <1>19 DEF Complete
<1> QED  BY <1>13, <1>26, <1>27 DEF InStep

\* Every step keeps the invariant.
LEMMA TunnelStays == TunnelSetting /\ TunnelInv /\ [Tunnel!Next]_Tunnel!vars => TunnelInv'
<1> SUFFICES ASSUME TunnelSetting, TunnelInv, [Tunnel!Next]_Tunnel!vars PROVE TunnelInv'
  OBVIOUS
<1>1. ASSUME NEW size \in Sizes, NEW timesync \in BOOLEAN, Tunnel!SendToRemote(size, timesync)
      PROVE  TunnelInv'
  BY <1>1, Sending
<1>2. CASE Tunnel!StopThread
  BY <1>2, Idling DEF Tunnel!StopThread, Tunnel!Woken
<1>3. CASE Tunnel!WakeUp
  BY <1>3, Idling DEF Tunnel!WakeUp
<1>4. CASE Tunnel!EndThread
  BY <1>4, Idling DEF Tunnel!EndThread
<1>5. CASE Tunnel!WaitOrHold
  BY <1>5, Idling DEF Tunnel!WaitOrHold
<1>6. CASE Tunnel!TakeQueue
  BY <1>6, Taking
<1>7. CASE Tunnel!SendLcmMessages
  BY <1>7, SendingBatch
<1>8. CASE Tunnel!FlushTimeComes
  BY <1>8, Idling DEF Tunnel!FlushTimeComes
<1>9. ASSUME NEW n \in DOMAIN packets, Tunnel!OnUdpData(n) PROVE TunnelInv'
  <2>1. n \in 1..Len(packets)
    BY DEF TunnelInv, TunnelTypes
  <2>2. TunnelTypes' /\ InLine' /\ Numbered' /\ Receiving' /\ GoesForward'
    BY <1>9, <2>1, Coming
  <2>3. perfect' => InStep'
    BY <1>9, <2>1, ComingInStep
  <2> QED  BY <2>2, <2>3 DEF TunnelInv, InStep
<1>10. CASE UNCHANGED Tunnel!vars
  BY <1>10, Idling DEF Tunnel!vars, Tunnel!senderVars, Tunnel!linkVars
<1> QED
  BY <1>1, <1>2, <1>3, <1>4, <1>5, <1>6, <1>7, <1>8, <1>9, <1>10
  DEF Tunnel!Next, Tunnel!ThreadStep

\* The invariant gives the property.
LEMMA TunnelKept == TunnelSetting /\ TunnelInv => Transparent
<1> SUFFICES ASSUME TunnelSetting, TunnelInv PROVE Tunnel!PublishedInOrder /\ Tunnel!Transparent
  BY DEF Transparent
<1>1. /\ Len(sent) \in Nat /\ DOMAIN sent = 1..Len(sent) /\ DOMAIN published = 1..Len(published)
      /\ receiver.at \in 0..Len(sent)
  BY SentFacts DEF TunnelInv, TunnelTypes, Receiving, Fitting
<1>2. ASSUME timely PROVE Tunnel!PublishedInOrder
  <2>1. /\ \A n \in 1..Len(published) : published[n] \in 1..receiver.at
        /\ \A m, n \in 1..Len(published) : m < n => published[m] < published[n]
    BY <1>2 DEF TunnelInv, GoesForward
  <2>2. \A n \in DOMAIN published : published[n] \in 1..Len(sent)
    BY <1>1, <2>1
  <2>3. ASSUME NEW m \in DOMAIN published, NEW n \in DOMAIN published, m < n
        PROVE  Tunnel!Precede(sent[published[m]], sent[published[n]])
    BY <1>1, <2>1, <2>2, <2>3 DEF TunnelInv, InLine
  <2>4. \A b \in DOMAIN sent : Tunnel!InOrder(sent[b])
    BY <1>1 DEF TunnelInv, InLine
  <2> QED  BY <1>1, <2>2, <2>3, <2>4 DEF Tunnel!PublishedInOrder
<1>3. ASSUME perfect, packets = << >> PROVE published = [b \in DOMAIN sent |-> b]
  <2>1. PICK at, nth : Walk(at, nth)
    BY <1>3 DEF TunnelInv, InStep
  <2>2. Len(packets) = 0
    BY <1>3
  <2>3. receiver.at = Len(sent) /\ Has(nth[0]) /\ nth[0] = Total(Len(sent))
    BY <2>1, <2>2 DEF Walk
  <2>4. receiver.complete
    <3>1. CASE receiver.at = 0
      BY <3>1 DEF TunnelInv, Receiving, Fitting
    <3>2. CASE receiver.at # 0
      <4>1. receiver.at \in 1..Len(sent)
        BY <1>1, <3>2
      <4>2. /\ Fragments(receiver.at) \in Nat /\ Total(receiver.at) \in Nat
            /\ Fragments(receiver.at) <= Total(receiver.at)
        BY <4>1, SentFacts
      <4>3. receiver.complete <=> nth[0] >= Fragments(receiver.at)
        BY <2>3, <3>2 DEF Has
      <4> QED  BY <2>3, <4>2, <4>3
    <3> QED  BY <3>1, <3>2
  <2> QED  BY <1>1, <1>3, <2>3, <2>4 DEF TunnelInv, InStep, Complete
<1>4. Tunnel!PublishedInOrder
  BY <1>2 DEF Tunnel!PublishedInOrder
<1> QED  BY <1>3, <1>4 DEF Tunnel!Transparent

\* Whatever the network loses, sends twice or overtakes, as long as no packet is so late that its
\* number means another batch, messages are published in their order, each once, and no two
\* batches are mixed; and when nothing is lost or overtaken all of them are published
\* (send_to_remote, sendThreadFunc, send_lcm_messages, on_udp_data).
THEOREM TunnelsAreTransparent == ASSUME TunnelSetting PROVE Tunnel!Spec => []Transparent
<1>1. Tunnel!Init => TunnelInv
  BY TunnelBegins
<1>2. TunnelInv /\ [Tunnel!Next]_Tunnel!vars => TunnelInv'
  BY TunnelStays
<1>3. TunnelInv => Transparent
  BY TunnelKept
<1> QED
  BY <1>1, <1>2, <1>3, PTL DEF Tunnel!Spec

-----------------------------------------------------------------------------
(* The tools that copy events of logs *)

SpliceEvent == [timestamp : Int, channel : STRING]

\* Logs are sequences of events, the times of which are numbers, as is the end that is asked for.
SpliceSetting ==
  /\ SplicedLogs \subseteq Seq(SpliceEvent)
  /\ MostLogs \in Nat
  /\ \A opts \in SpliceOptions : opts.end \in Int

\* The place of the event of a log that is to be copied next, and those before it.
NextPlace(i) == IF events[i] = << >> THEN Len(sources[i]) + 1 ELSE Splice!Ahead(i)
IsRead(p) == p.place < NextPlace(p.log)

\* A number of logs, what is still to be read of each, and what was written.
SpliceTypes ==
  /\ asked \in SpliceOptions
  /\ \E n \in Nat : DOMAIN sources = 1..n
  /\ sources \in [DOMAIN sources -> Seq(SpliceEvent)]
  /\ src_logs \in [DOMAIN sources -> Seq(SpliceEvent)]
  /\ events \in [DOMAIN sources -> Seq(SpliceEvent)]
  /\ dst_log \in Seq([log : DOMAIN sources, place : Nat, event : SpliceEvent])
  /\ ended \in BOOLEAN

\* What is still to be read of a log is its end, and the event before that is read ahead.
ReadAhead ==
  \A i \in DOMAIN sources :
    /\ Len(src_logs[i]) <= Len(sources[i])
    /\ \A k \in 1..Len(src_logs[i]) : src_logs[i][k] = sources[i][Splice!Ahead(i) + k]
    /\ events[i] = << >> => src_logs[i] = << >>
    /\ events[i] # << >> =>
         Splice!Ahead(i) \in DOMAIN sources[i] /\ events[i] = <<sources[i][Splice!Ahead(i)]>>

AllInOrder == \A i \in DOMAIN sources : Splice!InOrder(sources[i])

\* The time from which others are counted is that of one of the events that were read, and of the
\* earliest of all if the logs are in order.
FirstOfAll ==
  /\ first_event = << >> => \A p \in Splice!Places : ~IsRead(p)
  /\ first_event # << >> =>
       \E p \in Splice!Places :
         /\ first_event = <<Splice!At(p).timestamp>>
         /\ AllInOrder => \A q \in Splice!Places : Splice!At(p).timestamp <= Splice!At(q).timestamp

\* In logs that are in order the line between what was read and what was not is a time.
Merged ==
  /\ \A p, q \in Splice!Places : IsRead(p) /\ ~IsRead(q) => Splice!Before(p, q)
  /\ \A m, n \in DOMAIN dst_log : m < n => Splice!Before(dst_log[m], dst_log[n])
  /\ \A m \in DOMAIN dst_log : Splice!IsWanted(dst_log[m])
  /\ \A p \in Splice!Places : IsRead(p) /\ Splice!IsWanted(p) => Splice!IsWritten(p)
  /\ ended => \A p \in Splice!Places : ~IsRead(p) => ~Splice!IsWanted(p)

\* What was written had been read.
WrittenIsRead == \A m \in DOMAIN dst_log : IsRead(dst_log[m])

SpliceInv ==
  /\ SpliceTypes /\ ReadAhead /\ FirstOfAll
  /\ Splice!KeepsTheOrder
  /\ WrittenIsRead
  /\ AllInOrder => Merged

\* A log or several, as they are opened.
LEMMA Opening == ASSUME SpliceSetting, Splice!Init PROVE SpliceInv
<1>1. /\ asked \in SpliceOptions /\ \E n \in Nat : DOMAIN sources = 1..n
      /\ sources \in [DOMAIN sources -> Seq(SpliceEvent)]
  <2>1. CASE Splice!InitFilter
    <3>1. PICK log \in SplicedLogs : sources = <<log>>
      BY <2>1 DEF Splice!InitFilter, Splice!Opened
    <3>2. DOMAIN sources = 1..1 /\ sources \in [1..1 -> Seq(SpliceEvent)]
      BY <3>1 DEF SpliceSetting
    <3>3. asked \in SpliceOptions
      BY <2>1 DEF Splice!InitFilter
    <3> QED  BY <3>2, <3>3
  <2>2. CASE Splice!InitSplice
    <3>1. PICK n \in 2..MostLogs : sources \in [1..n -> SplicedLogs]
      BY <2>2 DEF Splice!InitSplice, Splice!Opened
    <3>2. n \in Nat /\ DOMAIN sources = 1..n
      BY <3>1 DEF SpliceSetting
    <3>3. sources \in [1..n -> Seq(SpliceEvent)]
      BY <3>1 DEF SpliceSetting
    <3>4. asked \in SpliceOptions
      BY <2>2 DEF Splice!InitSplice
    <3> QED  BY <3>2, <3>3, <3>4
  <2> QED  BY <2>1, <2>2 DEF Splice!Init
<1>2. /\ src_logs = [i \in DOMAIN sources |-> Splice!Rest(sources[i])]
      /\ events = [i \in DOMAIN sources |-> Splice!Read(sources[i])]
      /\ first_event = << >> /\ dst_log = << >> /\ ended = FALSE
  BY DEF Splice!Init, Splice!InitFilter, Splice!InitSplice, Splice!Opened
<1>3. ASSUME NEW i \in DOMAIN sources
      PROVE  /\ sources[i] \in Seq(SpliceEvent)
             /\ src_logs[i] \in Seq(SpliceEvent) /\ events[i] \in Seq(SpliceEvent)
             /\ sources[i] = << >> => src_logs[i] = << >> /\ events[i] = << >>
             /\ sources[i] # << >> =>
                  /\ Splice!Ahead(i) = 1 /\ Len(src_logs[i]) = Len(sources[i]) - 1
                  /\ Len(sources[i]) >= 1 /\ events[i] = <<sources[i][1]>>
                  /\ \A k \in 1..Len(src_logs[i]) : src_logs[i][k] = sources[i][k + 1]
  <2>1. sources[i] \in Seq(SpliceEvent)
    BY <1>1 DEF SpliceSetting
  <2>2. CASE sources[i] = << >>
    BY <1>2, <2>1, <2>2 DEF Splice!Rest, Splice!Read
  <2>3. CASE sources[i] # << >>
    <3>1. src_logs[i] = Tail(sources[i]) /\ events[i] = <<Head(sources[i])>>
      BY <1>2, <2>3 DEF Splice!Rest, Splice!Read
    <3>2. /\ Tail(sources[i]) \in Seq(SpliceEvent) /\ Len(sources[i]) \in Nat \ {0}
          /\ Len(Tail(sources[i])) = Len(sources[i]) - 1
          /\ Head(sources[i]) = sources[i][1] /\ Head(sources[i]) \in SpliceEvent
          /\ \A k \in 1..Len(Tail(sources[i])) : Tail(sources[i])[k] = sources[i][k + 1]
      BY <2>1, <2>3, HeadTailProperties, EmptySeq
    <3> QED  BY <2>1, <2>3, <3>1, <3>2 DEF Splice!Ahead
  <2> QED  BY <2>2, <2>3
<1>0. \A x : <<x>> # << >>
  OBVIOUS
<1>4. SpliceTypes
  <2>1. src_logs \in [DOMAIN sources -> Seq(SpliceEvent)]
    BY <1>2, <1>3
  <2>2. events \in [DOMAIN sources -> Seq(SpliceEvent)]
    BY <1>2, <1>3
  <2>3. dst_log \in Seq([log : DOMAIN sources, place : Nat, event : SpliceEvent])
    BY <1>2
  <2>4. ended \in BOOLEAN
    BY <1>2
  <2> QED  BY <1>1, <2>1, <2>2, <2>3, <2>4 DEF SpliceTypes
<1>5. ReadAhead
  <2> SUFFICES ASSUME NEW i \in DOMAIN sources
               PROVE  /\ Len(src_logs[i]) <= Len(sources[i])
                      /\ \A k \in 1..Len(src_logs[i]) :
                           src_logs[i][k] = sources[i][Splice!Ahead(i) + k]
                      /\ events[i] = << >> => src_logs[i] = << >>
                      /\ events[i] # << >> =>
                           /\ Splice!Ahead(i) \in DOMAIN sources[i]
                           /\ events[i] = <<sources[i][Splice!Ahead(i)]>>
    BY DEF ReadAhead
  <2>1. CASE sources[i] = << >>
    BY <1>3, <2>1
  <2>2. CASE sources[i] # << >>
    <3>1. /\ Splice!Ahead(i) = 1 /\ Len(src_logs[i]) = Len(sources[i]) - 1
          /\ Len(sources[i]) >= 1 /\ events[i] = <<sources[i][1]>>
          /\ \A k \in 1..Len(src_logs[i]) : src_logs[i][k] = sources[i][k + 1]
          /\ sources[i] \in Seq(SpliceEvent) /\ Len(sources[i]) \in Nat
      BY <1>3, <2>2
    <3>2. events[i] # << >>
      BY <1>0, <3>1
    <3>3. Splice!Ahead(i) \in DOMAIN sources[i]
      BY <3>1
    <3>4. \A k \in 1..Len(src_logs[i]) : k + 1 = Splice!Ahead(i) + k
      BY <3>1
    <3> QED  BY <3>1, <3>2, <3>3, <3>4
  <2> QED  BY <2>1, <2>2
<1>6. ASSUME NEW i \in DOMAIN sources, NEW n \in DOMAIN sources[i]
      PROVE  ~(n < NextPlace(i))
  <2>1. sources[i] # << >> /\ n \in Nat /\ n >= 1
    BY <1>3
  <2>2. events[i] # << >> /\ Splice!Ahead(i) = 1
    BY <1>0, <1>3, <2>1
  <2> QED  BY <2>1, <2>2 DEF NextPlace
<1>7. \A p \in Splice!Places : ~IsRead(p)
  BY <1>6 DEF Splice!Places, IsRead
<1> QED
  BY <1>2, <1>4, <1>5, <1>7 DEF SpliceInv, FirstOfAll, Merged, WrittenIsRead,
     Splice!KeepsTheOrder

\* One of the events that wait is the least.
LEMMA LeastExists ==
  ASSUME SpliceTypes, Splice!Waiting # {}
  PROVE  /\ Splice!Least \in Splice!Waiting
         /\ \A j \in Splice!Waiting :
              /\ events[Splice!Least][1].timestamp <= events[j][1].timestamp
              /\ events[Splice!Least][1].timestamp = events[j][1].timestamp => Splice!Least <= j
<1> DEFINE T(j) == events[j][1].timestamp
           Lows(S) == { i \in S : \A j \in S : T(i) <= T(j) }
<1>1. PICK n \in Nat : DOMAIN sources = 1..n
  BY DEF SpliceTypes
<1>2. /\ Splice!Waiting \subseteq 1..n
      /\ \A j \in Splice!Waiting : T(j) \in Int
  <2>1. \A j \in DOMAIN events : events[j] \in Seq(SpliceEvent) /\ j \in 1..n
    BY <1>1 DEF SpliceTypes
  <2>2. ASSUME NEW j \in Splice!Waiting PROVE j \in 1..n /\ T(j) \in Int
    <3>1. j \in 1..n /\ events[j] \in Seq(SpliceEvent) /\ events[j] # << >>
      BY <2>1 DEF Splice!Waiting
    <3>2. events[j][1] \in SpliceEvent
      BY <3>1, EmptySeq
    <3> QED  BY <3>1, <3>2 DEF SpliceEvent
  <2> QED  BY <2>2
<1> HIDE DEF T
<1>3. \A m \in 0..n : Splice!Waiting \cap (1..m) # {} => Lows(Splice!Waiting \cap (1..m)) # {}
  <2> DEFINE Bad == { m \in 0..n : /\ Splice!Waiting \cap (1..m) # {}
                                   /\ Lows(Splice!Waiting \cap (1..m)) = {} }
  <2>1. SUFFICES ASSUME Bad # {} PROVE FALSE
    OBVIOUS
  <2>2. PICK m \in Bad : \A k \in Bad : m <= k
    <3>1. Bad \subseteq Nat
      OBVIOUS
    <3> HIDE DEF Bad
    <3> QED  BY <2>1, <3>1, LeastOf
  <2>3. m \in 1..n /\ m - 1 \in 0..n /\ m - 1 \notin Bad
    BY <2>2
  <2> DEFINE A == Splice!Waiting \cap (1..(m - 1))
             B == Splice!Waiting \cap (1..m)
  <2>4. B # {} /\ Lows(B) = {} /\ (A # {} => Lows(A) # {})
    BY <2>2, <2>3
  <2>5. A \subseteq B /\ B \subseteq A \cup {m}
    BY <2>3
  <2>6. \A j \in B : T(j) \in Int
    BY <1>2
  <2> HIDE DEF A, B, Bad
  <2>7. CASE m \notin B
    BY <2>4, <2>5, <2>7
  <2>8. CASE m \in B /\ A = {}
    <3>1. m \in Lows(B)
      BY <2>5, <2>6, <2>8
    <3> QED  BY <3>1, <2>4
  <2>9. CASE m \in B /\ A # {}
    <3>1. PICK i \in A : \A j \in A : T(i) <= T(j)
      BY <2>4, <2>9
    <3>2. T(i) \in Int /\ T(m) \in Int
      BY <2>5, <2>6, <2>9, <3>1
    <3>3. CASE T(m) < T(i)
      <4>1. \A j \in B : T(m) <= T(j)
        BY <2>5, <2>6, <3>1, <3>2, <3>3
      <4> QED  BY <2>4, <2>9, <4>1
    <3>4. CASE T(i) <= T(m)
      <4>1. \A j \in B : T(i) <= T(j)
        BY <2>5, <2>6, <3>1, <3>2, <3>4
      <4> QED  BY <2>4, <2>5, <3>1, <4>1
    <3> QED  BY <3>2, <3>3, <3>4
  <2> QED  BY <2>7, <2>8, <2>9
<1>4. Lows(Splice!Waiting) # {} /\ Lows(Splice!Waiting) \subseteq Nat
  <2>1. Splice!Waiting \cap (1..n) = Splice!Waiting
    BY <1>2
  <2>2. n \in 0..n
    BY <1>1
  <2>3. Lows(Splice!Waiting) # {}
    BY <1>3, <2>1, <2>2
  <2>4. \A i \in Lows(Splice!Waiting) : i \in Nat
    BY <1>2
  <2> QED  BY <2>3, <2>4
<1>5. PICK i \in Lows(Splice!Waiting) : \A j \in Lows(Splice!Waiting) : i <= j
  BY <1>4, LeastOf
<1>6. Splice!Least = Splice!Min(Lows(Splice!Waiting))
  BY DEF Splice!Least, T
<1> DEFINE L == Splice!Least
<1>7. L \in Lows(Splice!Waiting) /\ \A j \in Lows(Splice!Waiting) : L <= j
  BY <1>5, <1>6 DEF Splice!Min
<1>8. ASSUME NEW j \in Splice!Waiting, T(L) = T(j) PROVE L <= j
  <2>1. j \in Lows(Splice!Waiting)
    BY <1>7, <1>8
  <2> QED  BY <1>7, <2>1
<1> QED
  BY <1>7, <1>8 DEF T

\* One round reads the event at the next place of one log, and another one ahead.
LEMMA OneIsRead ==
  ASSUME SpliceTypes, ReadAhead, Splice!CopyNext, NEW l, l = Splice!Least
  PROVE  /\ SpliceTypes' /\ ReadAhead'
         /\ l \in DOMAIN sources /\ events[l] # << >>
         /\ NextPlace(l) = Splice!Ahead(l)
         /\ Splice!Ahead(l) \in DOMAIN sources[l]
         /\ sources[l][Splice!Ahead(l)] = events[l][1]
         /\ NextPlace(l)' = NextPlace(l) + 1
         /\ \A i \in DOMAIN sources \ {l} : NextPlace(i)' = NextPlace(i)
<1> DEFINE a == Splice!Ahead(l)
           e == events[l][1]
<1>1. /\ l \in DOMAIN sources /\ events[l] # << >> /\ events[l] \in Seq(SpliceEvent)
      /\ src_logs[l] \in Seq(SpliceEvent) /\ sources[l] \in Seq(SpliceEvent)
  BY LeastExists DEF Splice!CopyNext, Splice!Waiting, SpliceTypes
<1>2. /\ a \in DOMAIN sources[l] /\ events[l] = <<sources[l][a]>>
      /\ Len(src_logs[l]) <= Len(sources[l])
      /\ \A k \in 1..Len(src_logs[l]) : src_logs[l][k] = sources[l][a + k]
  BY <1>1 DEF ReadAhead
<1>3. e = sources[l][a] /\ e \in SpliceEvent /\ NextPlace(l) = a /\ a \in Nat
  BY <1>1, <1>2 DEF NextPlace
<1>4. /\ asked' = asked /\ sources' = sources
      /\ events' = [events EXCEPT ![l] = Splice!Read(src_logs[l])]
      /\ src_logs' = [src_logs EXCEPT ![l] = Splice!Rest(src_logs[l])]
      /\ ended' \in BOOLEAN
      /\ \/ dst_log' = dst_log
         \/ dst_log' = Append(dst_log, [log |-> l, place |-> a, event |-> e])
  BY DEF Splice!CopyNext
<1>5. /\ events'[l] = Splice!Read(src_logs[l]) /\ src_logs'[l] = Splice!Rest(src_logs[l])
      /\ \A i \in DOMAIN sources \ {l} : events'[i] = events[i] /\ src_logs'[i] = src_logs[i]
      /\ DOMAIN events' = DOMAIN sources /\ DOMAIN src_logs' = DOMAIN sources
  BY <1>1, <1>4 DEF SpliceTypes
<1>6. \A i \in DOMAIN sources \ {l} : NextPlace(i)' = NextPlace(i)
  BY <1>4, <1>5 DEF NextPlace, Splice!Ahead
<1>7. /\ events'[l] \in Seq(SpliceEvent) /\ src_logs'[l] \in Seq(SpliceEvent)
      /\ Len(src_logs'[l]) <= Len(sources'[l])
      /\ \A k \in 1..Len(src_logs'[l]) : src_logs'[l][k] = sources'[l][Splice!Ahead(l)' + k]
      /\ events'[l] = << >> => src_logs'[l] = << >>
      /\ events'[l] # << >> => /\ Splice!Ahead(l)' \in DOMAIN sources'[l]
                               /\ events'[l] = <<sources'[l][Splice!Ahead(l)']>>
      /\ NextPlace(l)' = a + 1
  <2>1. CASE src_logs[l] = << >>
    <3>1. events'[l] = << >> /\ src_logs'[l] = << >> /\ Len(src_logs[l]) = 0
      BY <1>5, <2>1 DEF Splice!Read, Splice!Rest
    <3>2. a = Len(sources[l])
      BY <1>1, <3>1 DEF Splice!Ahead
    <3> QED  BY <1>1, <1>4, <3>1, <3>2 DEF NextPlace
  <2>2. CASE src_logs[l] # << >>
    <3>1. events'[l] = <<Head(src_logs[l])>> /\ src_logs'[l] = Tail(src_logs[l])
      BY <1>5, <2>2 DEF Splice!Read, Splice!Rest
    <3>2. /\ Tail(src_logs[l]) \in Seq(SpliceEvent) /\ Len(src_logs[l]) \in Nat \ {0}
          /\ Len(Tail(src_logs[l])) = Len(src_logs[l]) - 1
          /\ Head(src_logs[l]) = src_logs[l][1] /\ Head(src_logs[l]) \in SpliceEvent
          /\ \A k \in 1..Len(Tail(src_logs[l])) : Tail(src_logs[l])[k] = src_logs[l][k + 1]
      BY <1>1, <2>2, HeadTailProperties, EmptySeq
    <3>3. Len(src_logs'[l]) = Len(src_logs[l]) - 1
      BY <3>1, <3>2
    <3>4. Splice!Ahead(l)' = a + 1
      <4>1. Splice!Ahead(l)' = Len(sources[l]) - Len(src_logs'[l])
        BY <1>4 DEF Splice!Ahead
      <4>2. a = Len(sources[l]) - Len(src_logs[l])
        BY DEF Splice!Ahead
      <4>3. Len(sources[l]) \in Nat
        BY <1>1
      <4> HIDE DEF a
      <4> QED  BY <3>2, <3>3, <4>1, <4>2, <4>3
    <3>5. a + 1 \in 1..Len(sources[l])
      <4>1. a = Len(sources[l]) - Len(src_logs[l])
        BY DEF Splice!Ahead
      <4>2. Len(sources[l]) \in Nat
        BY <1>1
      <4>3. a \in Nat /\ Len(src_logs[l]) \in Nat /\ Len(src_logs[l]) >= 1
        BY <1>3, <3>2
      <4>4. \A x, y, z \in Nat : z >= 1 /\ x = y - z => x + 1 \in 1..y
        OBVIOUS
      <4> HIDE DEF a
      <4> QED  BY <4>1, <4>2, <4>3, <4>4
    <3>6. Splice!Ahead(l)' \in DOMAIN sources'[l]
      BY <1>1, <1>4, <3>4, <3>5
    <3>7. events'[l] = <<sources'[l][Splice!Ahead(l)']>>
      BY <1>2, <1>4, <3>1, <3>2, <3>4
    <3>8. events'[l] # << >>
      BY <3>1
    <3>9. \A k \in 1..Len(src_logs'[l]) : src_logs'[l][k] = sources'[l][Splice!Ahead(l)' + k]
      <4> TAKE k \in 1..Len(src_logs'[l])
      <4>1. src_logs'[l][k] = src_logs[l][k + 1] /\ k + 1 \in 1..Len(src_logs[l]) /\ k \in Nat
        BY <3>1, <3>2, <3>3
      <4>2. src_logs[l][k + 1] = sources[l][a + (k + 1)]
        BY <1>2, <4>1
      <4>3. a + (k + 1) = Splice!Ahead(l)' + k
        BY <1>3, <3>4, <4>1
      <4> QED  BY <1>4, <4>1, <4>2, <4>3
    <3>10. events'[l] \in Seq(SpliceEvent) /\ src_logs'[l] \in Seq(SpliceEvent)
      BY <3>1, <3>2
    <3>11. Len(src_logs'[l]) <= Len(sources'[l])
      BY <1>1, <1>2, <1>4, <3>2, <3>3
    <3>12. NextPlace(l)' = a + 1
      BY <3>4, <3>8 DEF NextPlace
    <3> QED  BY <3>6, <3>7, <3>8, <3>9, <3>10, <3>11, <3>12
  <2> QED  BY <2>1, <2>2
<1>8. ReadAhead'
  <2> SUFFICES ASSUME NEW i \in DOMAIN sources
               PROVE  /\ Len(src_logs'[i]) <= Len(sources'[i])
                      /\ \A k \in 1..Len(src_logs'[i]) :
                           src_logs'[i][k] = sources'[i][Splice!Ahead(i)' + k]
                      /\ events'[i] = << >> => src_logs'[i] = << >>
                      /\ events'[i] # << >> =>
                           /\ Splice!Ahead(i)' \in DOMAIN sources'[i]
                           /\ events'[i] = <<sources'[i][Splice!Ahead(i)']>>
    BY <1>4 DEF ReadAhead
  <2>1. CASE i = l
    BY <1>7, <2>1
  <2>2. CASE i # l
    <3>1. Splice!Ahead(i)' = Splice!Ahead(i)
      BY <1>4, <1>5, <2>2 DEF Splice!Ahead
    <3> QED  BY <1>4, <1>5, <2>2, <3>1 DEF ReadAhead
  <2> QED  BY <2>1, <2>2
<1>9. SpliceTypes'
  <2>1. asked' \in SpliceOptions /\ \E n \in Nat : DOMAIN sources' = 1..n
    BY <1>4 DEF SpliceTypes
  <2>2. sources' \in [DOMAIN sources' -> Seq(SpliceEvent)]
    BY <1>4 DEF SpliceTypes
  <2>3. /\ src_logs' \in [DOMAIN sources' -> Seq(SpliceEvent)]
        /\ events' \in [DOMAIN sources' -> Seq(SpliceEvent)]
    BY <1>1, <1>4, <1>5, <1>7 DEF SpliceTypes
  <2>4. dst_log' \in Seq([log : DOMAIN sources', place : Nat, event : SpliceEvent])
    <3>1. [log |-> l, place |-> a, event |-> e]
            \in [log : DOMAIN sources, place : Nat, event : SpliceEvent]
      BY <1>1, <1>3
    <3>2. dst_log \in Seq([log : DOMAIN sources, place : Nat, event : SpliceEvent])
      BY DEF SpliceTypes
    <3> DEFINE S == [log : DOMAIN sources, place : Nat, event : SpliceEvent]
               entry == [log |-> l, place |-> a, event |-> e]
    <3>3. dst_log' = dst_log \/ dst_log' = Append(dst_log, entry)
      BY <1>4
    <3>4. entry \in S /\ dst_log \in Seq(S)
      BY <3>1, <3>2
    <3> HIDE DEF S, entry
    <3>5. dst_log' \in Seq(S)
      BY <3>3, <3>4, AppendProperties
    <3> QED  BY <1>4, <3>5 DEF S
  <2> QED  BY <1>4, <2>1, <2>2, <2>3, <2>4 DEF SpliceTypes
<1> QED
  BY <1>1, <1>2, <1>3, <1>6, <1>7, <1>8, <1>9

\* The event of a log with a number.
Spot(i, n) == [log |-> i, place |-> n]

\* What events are, and where.
LEMMA PlaceFacts ==
  ASSUME SpliceTypes, NEW p \in Splice!Places
  PROVE  /\ p.log \in DOMAIN sources /\ p.place \in DOMAIN sources[p.log]
         /\ p = Spot(p.log, p.place)
         /\ p.log \in Nat /\ p.place \in Nat
         /\ Splice!At(p) = sources[p.log][p.place] /\ Splice!At(p) \in SpliceEvent
         /\ Splice!At(p).timestamp \in Int
<1>0. PICK i \in DOMAIN sources : \E n \in DOMAIN sources[i] : p = Spot(i, n)
  BY DEF Splice!Places, Spot
<1>1. PICK n \in DOMAIN sources[i] : p = Spot(i, n)
  BY <1>0
<1>2. p.log = i /\ p.place = n
  BY <1>1 DEF Spot
<1>3. i \in Nat /\ sources[i] \in Seq(SpliceEvent)
  BY DEF SpliceTypes
<1>4. n \in Nat /\ sources[i][n] \in SpliceEvent
  BY <1>3
<1> QED
  BY <1>1, <1>2, <1>3, <1>4 DEF Splice!At, SpliceEvent

LEMMA SpotFacts ==
  ASSUME SpliceTypes, NEW i \in DOMAIN sources, NEW n \in DOMAIN sources[i]
  PROVE  /\ Spot(i, n) \in Splice!Places
         /\ Spot(i, n).log = i /\ Spot(i, n).place = n
         /\ Splice!At(Spot(i, n)) = sources[i][n]
         /\ IsRead(Spot(i, n)) <=> n < NextPlace(i)
  BY DEF Spot, Splice!Places, Splice!At, IsRead

\* No event that is still to be read comes before the one that is copied next.
LEMMA LeastIsFirst ==
  ASSUME SpliceTypes, ReadAhead, AllInOrder, Splice!Waiting # {}, NEW l, l = Splice!Least,
         NEW q \in Splice!Places, ~IsRead(q)
  PROVE  \/ q = Spot(l, Splice!Ahead(l))
         \/ Splice!Before(Spot(l, Splice!Ahead(l)), q)
<1> DEFINE i == q.log
           n == q.place
           T(j) == events[j][1].timestamp
           b == Splice!Ahead(l)
<1>1. /\ i \in DOMAIN sources /\ n \in DOMAIN sources[i] /\ q = Spot(i, n) /\ n \in Nat
      /\ Splice!At(q) = sources[i][n] /\ sources[i][n].timestamp \in Int
      /\ sources[i] \in Seq(SpliceEvent)
  BY PlaceFacts DEF SpliceTypes, SpliceEvent
<1>2. n >= NextPlace(i)
  <2>1. NextPlace(i) \in Int
    BY <1>1 DEF NextPlace, ReadAhead
  <2> QED  BY <1>1, <2>1 DEF IsRead
<1>3. events[i] # << >>
  BY <1>1, <1>2 DEF NextPlace
<1>4. i \in Splice!Waiting /\ l \in Splice!Waiting
  BY <1>1, <1>3, LeastExists DEF Splice!Waiting, SpliceTypes
<1>5. /\ Splice!Ahead(i) \in DOMAIN sources[i] /\ n >= Splice!Ahead(i)
      /\ T(i) = sources[i][Splice!Ahead(i)].timestamp
  BY <1>1, <1>2, <1>3 DEF ReadAhead, NextPlace
<1>6. T(i) <= sources[i][n].timestamp /\ T(i) \in Int
  <2>1. T(i) \in Int
    <3>1. /\ Splice!At(Spot(i, Splice!Ahead(i))) = sources[i][Splice!Ahead(i)]
          /\ Spot(i, Splice!Ahead(i)) \in Splice!Places
      BY <1>1, <1>5, SpotFacts
    <3> QED  BY <1>5, <3>1, PlaceFacts
  <2>2. Splice!InOrder(sources[i])
    BY <1>1 DEF AllInOrder
  <2>3. Splice!Ahead(i) < n => T(i) <= sources[i][n].timestamp
    BY <1>1, <1>5, <2>2 DEF Splice!InOrder
  <2>4. Splice!Ahead(i) < n \/ Splice!Ahead(i) = n
    BY <1>1, <1>5
  <2> QED  BY <1>5, <2>1, <2>3, <2>4
<1>7. /\ l \in DOMAIN sources /\ b \in DOMAIN sources[l] /\ b \in Nat
      /\ T(l) = sources[l][b].timestamp /\ T(l) \in Int
  <2>1. l \in DOMAIN sources /\ events[l] # << >> /\ sources[l] \in Seq(SpliceEvent)
    BY <1>4 DEF Splice!Waiting, SpliceTypes
  <2>2. b \in DOMAIN sources[l] /\ T(l) = sources[l][b].timestamp
    BY <2>1 DEF ReadAhead
  <2>3. /\ Splice!At(Spot(l, b)) = sources[l][b] /\ Spot(l, b) \in Splice!Places
        /\ Spot(l, b).place = b
    BY <2>1, <2>2, SpotFacts
  <2>4. T(l) \in Int /\ b \in Nat
    BY <2>2, <2>3, PlaceFacts
  <2> QED  BY <2>1, <2>2, <2>4
<1>8. T(l) <= T(i) /\ (T(l) = T(i) => l <= i)
  BY <1>4, LeastExists
<1>9. Splice!At(Spot(l, b)).timestamp = T(l) /\ Spot(l, b).log = l /\ Spot(l, b).place = b
  BY <1>7, SpotFacts
<1>10. l \in Nat /\ i \in Nat
  BY <1>1, <1>7 DEF SpliceTypes
<1>11. CASE T(l) < sources[i][n].timestamp
  BY <1>1, <1>9, <1>11 DEF Splice!Before
<1>12. CASE T(l) = sources[i][n].timestamp
  <2>1. T(l) = T(i) /\ l <= i
    <3> HIDE DEF T
    <3> QED  BY <1>6, <1>7, <1>8, <1>12
  <2>2. CASE l < i
    BY <1>1, <1>9, <1>12, <2>2 DEF Splice!Before
  <2>3. CASE l = i
    <3>1. b <= n
      BY <1>5, <2>3
    <3>2. CASE b = n
      BY <1>1, <2>3, <3>2
    <3>3. CASE b < n
      BY <1>1, <1>9, <1>12, <2>3, <3>3 DEF Splice!Before
    <3> QED  BY <1>1, <1>7, <3>1, <3>2, <3>3
  <2> QED  BY <1>10, <2>1, <2>2, <2>3
<1>13. T(l) < sources[i][n].timestamp \/ T(l) = sources[i][n].timestamp
  <2> HIDE DEF T
  <2> QED  BY <1>1, <1>6, <1>7, <1>8
<1> QED
  BY <1>11, <1>12, <1>13

\* The time from which others are counted stays, and is the least if the logs are in order.
LEMMA FirstKept ==
  ASSUME SpliceTypes, ReadAhead, FirstOfAll, Splice!CopyNext, NEW l, l = Splice!Least
  PROVE  \E p \in Splice!Places :
           /\ first_event' = <<Splice!At(p).timestamp>>
           /\ events[l][1].timestamp - Splice!At(p).timestamp
                = events[l][1].timestamp
                    - (IF first_event = << >> THEN events[l][1].timestamp ELSE first_event[1])
           /\ AllInOrder =>
                \A q \in Splice!Places : Splice!At(p).timestamp <= Splice!At(q).timestamp
<1>1. CASE first_event = << >>
  <2> DEFINE p == Spot(l, Splice!Ahead(l))
  <2>1. /\ p \in Splice!Places /\ Splice!At(p) = events[l][1]
        /\ Splice!At(p).timestamp \in Int
    BY OneIsRead, SpotFacts, PlaceFacts
  <2>2. first_event' = <<Splice!At(p).timestamp>>
    BY <1>1, <2>1 DEF Splice!CopyNext
  <2>3. ASSUME AllInOrder, NEW q \in Splice!Places
        PROVE  Splice!At(p).timestamp <= Splice!At(q).timestamp
    <3>1. q = p \/ Splice!Before(p, q)
      BY <1>1, <2>3, LeastIsFirst DEF FirstOfAll, Splice!CopyNext
    <3> HIDE DEF p
    <3> QED  BY <2>1, <3>1, PlaceFacts DEF Splice!Before
  <2> QED  BY <1>1, <2>1, <2>2, <2>3
<1>2. CASE first_event # << >>
  BY <1>2 DEF FirstOfAll, Splice!CopyNext
<1> QED
  BY <1>1, <1>2

\* The least of the times is that of an event that no other comes before.
LEMMA LeastOfAll ==
  ASSUME SpliceTypes, NEW p \in Splice!Places,
         \A q \in Splice!Places : Splice!At(p).timestamp <= Splice!At(q).timestamp
  PROVE  Splice!Min({ Splice!At(q).timestamp : q \in Splice!Places }) = Splice!At(p).timestamp
<1> DEFINE S == { Splice!At(q).timestamp : q \in Splice!Places }
           t == Splice!At(p).timestamp
<1>1. t \in S /\ \A x \in S : t <= x /\ x \in Int
  BY PlaceFacts
<1>2. Splice!Min(S) = CHOOSE x \in S : \A y \in S : x <= y
  BY DEF Splice!Min
<1> HIDE DEF S, t
<1>3. Splice!Min(S) \in S /\ \A y \in S : Splice!Min(S) <= y
  BY <1>1, <1>2
<1>4. Splice!Min(S) = t
  BY <1>1, <1>3
<1> QED
  BY <1>4 DEF S, t

\* What one round does to what was read and what was written.
LEMMA Reading ==
  ASSUME SpliceInv, Splice!CopyNext, NEW l, l = Splice!Least, NEW o, o = Spot(l, Splice!Ahead(l))
  PROVE  /\ o \in Splice!Places /\ ~IsRead(o) /\ o.log = l
         /\ Splice!Places' = Splice!Places
         /\ \A p : Splice!At(p)' = Splice!At(p)
         /\ \A p, q : Splice!Before(p, q)' <=> Splice!Before(p, q)
         /\ \A p : Splice!IsWanted(p)' <=> Splice!IsWanted(p)
         /\ AllInOrder' <=> AllInOrder
         /\ \A p \in Splice!Places : IsRead(p)' <=> IsRead(p) \/ p = o
         /\ \A i \in DOMAIN sources : NextPlace(i)' >= NextPlace(i)
         /\ \A i \in DOMAIN sources : NextPlace(i) \in Int /\ NextPlace(i)' \in Int
<1> USE DEF SpliceInv
<1>1. /\ l \in DOMAIN sources /\ events[l] # << >>
      /\ NextPlace(l) = Splice!Ahead(l) /\ Splice!Ahead(l) \in DOMAIN sources[l]
      /\ NextPlace(l)' = NextPlace(l) + 1
      /\ \A i \in DOMAIN sources \ {l} : NextPlace(i)' = NextPlace(i)
  BY OneIsRead
<1>2. o \in Splice!Places /\ o.log = l /\ o.place = Splice!Ahead(l) /\ o.place \in Nat
  BY <1>1, SpotFacts, PlaceFacts
<1>3. ~IsRead(o)
  BY <1>1, <1>2 DEF IsRead
<1>4. sources' = sources /\ asked' = asked
  BY DEF Splice!CopyNext
<1>5. /\ Splice!Places' = Splice!Places
      /\ \A p : Splice!At(p)' = Splice!At(p)
      /\ AllInOrder' <=> AllInOrder
  BY <1>4 DEF Splice!Places, Splice!At, AllInOrder
<1>6. \A p, q : Splice!Before(p, q)' <=> Splice!Before(p, q)
  BY <1>5 DEF Splice!Before
<1>7. \A p : Splice!IsWanted(p)' <=> Splice!IsWanted(p)
  BY <1>4, <1>5 DEF Splice!IsWanted, Splice!Copied, Splice!TooEarly, Splice!TooLate,
     Splice!Matches
<1>8. \A i \in DOMAIN sources : NextPlace(i) \in Int
  <2> TAKE i \in DOMAIN sources
  <2>1. sources[i] \in Seq(SpliceEvent) /\ src_logs[i] \in Seq(SpliceEvent)
    BY DEF SpliceTypes
  <2> QED  BY <2>1 DEF NextPlace, Splice!Ahead
<1>9. ASSUME NEW p \in Splice!Places PROVE IsRead(p)' <=> IsRead(p) \/ p = o
  <2>1. /\ p.log \in DOMAIN sources /\ p.place \in Nat /\ NextPlace(p.log) \in Int
        /\ p = Spot(p.log, p.place)
    BY <1>8, PlaceFacts
  <2>2. CASE p.log = l
    <3>1. p = o <=> p.place = NextPlace(l)
      BY <1>1, <1>2, <2>1, <2>2
    <3>2. IsRead(p)' <=> p.place < NextPlace(l) + 1
      BY <1>1, <2>2 DEF IsRead
    <3>3. IsRead(p) <=> p.place < NextPlace(l)
      BY <2>2 DEF IsRead
    <3> QED  BY <2>1, <2>2, <3>1, <3>2, <3>3
  <2>3. CASE p.log # l
    BY <1>1, <1>2, <2>1, <2>3 DEF IsRead
  <2> QED  BY <2>2, <2>3
<1>10. \A i \in DOMAIN sources : NextPlace(i)' >= NextPlace(i) /\ NextPlace(i)' \in Int
  BY <1>1, <1>8
<1> QED
  BY <1>2, <1>3, <1>5, <1>6, <1>7, <1>8, <1>9, <1>10

\* A sequence that one more is appended to.
LEMMA AppendFacts ==
  ASSUME NEW S, NEW s \in Seq(S), NEW x
  PROVE  /\ DOMAIN s = 1..Len(s) /\ Len(s) \in Nat
         /\ \A m \in DOMAIN s : s[m] \in S
         /\ DOMAIN Append(s, x) = 1..Len(s) + 1
         /\ \A m \in DOMAIN s : Append(s, x)[m] = s[m]
         /\ Append(s, x)[Len(s) + 1] = x
  OBVIOUS

\* What is written is in order of its places, and was read.
LEMMA WritingKeepsTheOrder ==
  ASSUME SpliceInv, Splice!CopyNext
  PROVE  Splice!KeepsTheOrder' /\ WrittenIsRead'
<1>1. PICK l : l = Splice!Least
  OBVIOUS
<1>2. PICK o : o = Spot(l, Splice!Ahead(l))
  OBVIOUS
<1>e. PICK entry : entry = [log |-> l, place |-> Splice!Ahead(l), event |-> events[l][1]]
  OBVIOUS
<1>3. /\ o \in Splice!Places
      /\ \A p \in Splice!Places : IsRead(p)' <=> IsRead(p) \/ p = o
      /\ \A i \in DOMAIN sources : NextPlace(i)' >= NextPlace(i)
      /\ \A i \in DOMAIN sources : NextPlace(i) \in Int /\ NextPlace(i)' \in Int
  BY <1>1, <1>2, Reading
<1>4. sources' = sources
  BY DEF Splice!CopyNext
<1>5. /\ entry.log = l /\ l \in DOMAIN sources
      /\ entry.place \in DOMAIN sources[l]
      /\ entry.event = sources[l][entry.place]
      /\ entry.place < NextPlace(l)' /\ entry.place = NextPlace(l)
  <2>1. /\ l \in DOMAIN sources /\ Splice!Ahead(l) \in DOMAIN sources[l]
        /\ sources[l][Splice!Ahead(l)] = events[l][1] /\ NextPlace(l) = Splice!Ahead(l)
        /\ NextPlace(l)' = NextPlace(l) + 1
    BY <1>1, OneIsRead DEF SpliceInv
  <2> QED  BY <1>e, <1>3, <2>1
<1>6. dst_log' = dst_log \/ dst_log' = Append(dst_log, entry)
  BY <1>1, <1>e DEF Splice!CopyNext
<1>t. dst_log \in Seq([log : DOMAIN sources, place : Nat, event : SpliceEvent])
  BY DEF SpliceInv, SpliceTypes
<1>7. /\ DOMAIN dst_log = 1..Len(dst_log) /\ Len(dst_log) \in Nat
      /\ \A m \in DOMAIN dst_log :
           dst_log[m] \in [log : DOMAIN sources, place : Nat, event : SpliceEvent]
      /\ DOMAIN Append(dst_log, entry) = 1..Len(dst_log) + 1
      /\ \A m \in DOMAIN dst_log : Append(dst_log, entry)[m] = dst_log[m]
      /\ Append(dst_log, entry)[Len(dst_log) + 1] = entry
  BY <1>t, AppendFacts
<1>8. ASSUME NEW m \in DOMAIN dst_log
      PROVE  /\ dst_log[m].log \in DOMAIN sources /\ dst_log[m].place \in Nat
             /\ dst_log[m].place \in DOMAIN sources[dst_log[m].log]
             /\ dst_log[m].event = sources[dst_log[m].log][dst_log[m].place]
             /\ dst_log[m].place < NextPlace(dst_log[m].log)
  <2>1. dst_log[m] \in [log : DOMAIN sources, place : Nat, event : SpliceEvent]
    BY <1>7
  <2>2. /\ dst_log[m].place \in DOMAIN sources[dst_log[m].log]
        /\ dst_log[m].event = sources[dst_log[m].log][dst_log[m].place]
    BY DEF SpliceInv, Splice!KeepsTheOrder, Splice!At
  <2>3. dst_log[m].place < NextPlace(dst_log[m].log)
    BY DEF SpliceInv, WrittenIsRead, IsRead
  <2> QED  BY <2>1, <2>2, <2>3
<1>9. \A m, n \in DOMAIN dst_log :
        m < n /\ dst_log[m].log = dst_log[n].log => dst_log[m].place < dst_log[n].place
  BY DEF SpliceInv, Splice!KeepsTheOrder
<1>10. ASSUME NEW i \in DOMAIN sources, NEW n \in Nat, n < NextPlace(i) PROVE n < NextPlace(i)'
  BY <1>3, <1>10
<1>11. ASSUME NEW m \in DOMAIN dst_log', NEW d, d = dst_log'[m]
       PROVE  /\ d.log \in DOMAIN sources /\ d.place \in DOMAIN sources[d.log]
              /\ d.event = sources[d.log][d.place] /\ d.place < NextPlace(d.log)'
  <2>1. CASE m \in DOMAIN dst_log /\ d = dst_log[m]
    BY <1>8, <1>10, <2>1
  <2>2. CASE d = entry
    BY <1>5, <2>2
  <2> QED  BY <1>6, <1>7, <1>11, <2>1, <2>2
<1>12. ASSUME NEW m \in DOMAIN dst_log', NEW n \in DOMAIN dst_log', m < n,
              dst_log'[m].log = dst_log'[n].log
       PROVE  dst_log'[m].place < dst_log'[n].place
  <2>1. CASE dst_log' = dst_log
    BY <1>9, <1>12, <2>1
  <2>2. CASE dst_log' = Append(dst_log, entry)
    <3>1. /\ DOMAIN dst_log' = 1..Len(dst_log) + 1
          /\ \A k \in DOMAIN dst_log : dst_log'[k] = dst_log[k]
          /\ dst_log'[Len(dst_log) + 1] = entry
      BY <1>7, <2>2
    <3>2. m \in DOMAIN dst_log /\ (n \in DOMAIN dst_log \/ n = Len(dst_log) + 1)
      BY <1>7, <1>12, <3>1
    <3>3. CASE n \in DOMAIN dst_log
      BY <1>9, <1>12, <3>1, <3>2, <3>3
    <3>4. CASE n = Len(dst_log) + 1
      BY <1>5, <1>8, <1>12, <3>1, <3>2, <3>4
    <3> QED  BY <3>2, <3>3, <3>4
  <2> QED  BY <1>6, <2>1, <2>2
<1>13. Splice!KeepsTheOrder'
  BY <1>4, <1>11, <1>12 DEF Splice!KeepsTheOrder, Splice!At
<1>14. WrittenIsRead'
  BY <1>11 DEF WrittenIsRead, IsRead
<1> QED
  BY <1>13, <1>14

\* The event of one round is written just if it is wanted, and the end is final.
LEMMA Writing ==
  ASSUME SpliceSetting, SpliceInv, AllInOrder, Splice!CopyNext, NEW l, l = Splice!Least,
         NEW o, o = Spot(l, Splice!Ahead(l))
  PROVE  /\ \/ dst_log' = dst_log /\ ~Splice!IsWanted(o)
            \/ /\ Splice!IsWanted(o)
               /\ \E entry : /\ dst_log' = Append(dst_log, entry)
                             /\ entry.log = o.log /\ entry.place = o.place
         /\ ended' => \A p \in Splice!Places : ~IsRead(p) /\ p # o => ~Splice!IsWanted(p)
<1>1. /\ o \in Splice!Places /\ ~IsRead(o) /\ Splice!At(o) = events[l][1]
      /\ o.log = l /\ o.place = Splice!Ahead(l)
  BY Reading, OneIsRead, SpotFacts DEF SpliceInv
<1>2. PICK p \in Splice!Places :
           /\ events[l][1].timestamp - Splice!At(p).timestamp
                = events[l][1].timestamp
                    - (IF first_event = << >> THEN events[l][1].timestamp ELSE first_event[1])
           /\ \A q \in Splice!Places : Splice!At(p).timestamp <= Splice!At(q).timestamp
  BY FirstKept DEF SpliceInv
<1> DEFINE Elapsed(q) == Splice!At(q).timestamp - Splice!At(p).timestamp
<1>3. \A q : Splice!IsWanted(q) <=> Splice!Copied(Splice!At(q), Elapsed(q))
  BY <1>2, LeastOfAll DEF SpliceInv, Splice!IsWanted
<1>4. Elapsed(o) = events[l][1].timestamp
                     - (IF first_event = << >> THEN events[l][1].timestamp ELSE first_event[1])
  BY <1>1, <1>2
<1> DEFINE entry == [log |-> l, place |-> Splice!Ahead(l), event |-> events[l][1]]
<1>5. /\ ended' <=> ~Splice!TooEarly(Elapsed(o)) /\ Splice!TooLate(Elapsed(o))
      /\ dst_log' = IF Splice!Copied(events[l][1], Elapsed(o))
                    THEN Append(dst_log, entry) ELSE dst_log
  BY <1>4 DEF Splice!CopyNext
<1>6. entry.log = o.log /\ entry.place = o.place
  BY <1>1
<1>7. \/ dst_log' = dst_log /\ ~Splice!IsWanted(o)
      \/ Splice!IsWanted(o) /\ dst_log' = Append(dst_log, entry)
  BY <1>1, <1>3, <1>5
<1>8. ASSUME ended', NEW q \in Splice!Places, ~IsRead(q), q # o PROVE ~Splice!IsWanted(q)
  <2>1. Splice!Before(o, q)
    BY <1>8, LeastIsFirst DEF SpliceInv, Splice!CopyNext
  <2>2. /\ Splice!At(o).timestamp \in Int /\ Splice!At(q).timestamp \in Int
        /\ Splice!At(p).timestamp \in Int /\ asked.end \in Int
    BY <1>1, PlaceFacts DEF SpliceInv, SpliceTypes, SpliceSetting
  <2>3. Elapsed(o) <= Elapsed(q)
    BY <2>1, <2>2 DEF Splice!Before
  <2>4. Splice!TooLate(Elapsed(q))
    BY <1>5, <1>8, <2>2, <2>3 DEF Splice!TooLate
  <2> QED  BY <1>3, <2>4 DEF Splice!Copied
<1> QED
  BY <1>6, <1>7, <1>8

\* What was read and what was not stay apart in time.
LEMMA MergingOn ==
  ASSUME SpliceSetting, SpliceInv, AllInOrder, Splice!CopyNext
  PROVE  Merged'
<1>1. PICK l : l = Splice!Least
  OBVIOUS
<1>2. PICK o : o = Spot(l, Splice!Ahead(l))
  OBVIOUS
<1>3. /\ o \in Splice!Places /\ ~IsRead(o)
      /\ Splice!Places' = Splice!Places
      /\ \A p, q : Splice!Before(p, q)' <=> Splice!Before(p, q)
      /\ \A p : Splice!IsWanted(p)' <=> Splice!IsWanted(p)
      /\ \A p \in Splice!Places : IsRead(p)' <=> IsRead(p) \/ p = o
  BY <1>1, <1>2, Reading
<1>4. /\ \/ dst_log' = dst_log /\ ~Splice!IsWanted(o)
         \/ /\ Splice!IsWanted(o)
            /\ \E entry : /\ dst_log' = Append(dst_log, entry)
                          /\ entry.log = o.log /\ entry.place = o.place
      /\ ended' => \A p \in Splice!Places : ~IsRead(p) /\ p # o => ~Splice!IsWanted(p)
  BY <1>1, <1>2, Writing
<1>5. Merged /\ ~ended
  BY DEF SpliceInv, Splice!CopyNext
<1>6. ASSUME NEW p \in Splice!Places, NEW q \in Splice!Places, IsRead(p)', ~IsRead(q)'
      PROVE  Splice!Before(p, q)'
  <2>1. CASE IsRead(p)
    BY <1>3, <1>5, <1>6, <2>1 DEF Merged
  <2>2. CASE p = o
    BY <1>1, <1>2, <1>3, <1>6, <2>2, LeastIsFirst DEF SpliceInv, Splice!CopyNext
  <2> QED  BY <1>3, <1>6, <2>1, <2>2
<1>7. ASSUME NEW m \in DOMAIN dst_log', NEW n \in DOMAIN dst_log', m < n
      PROVE  Splice!Before(dst_log'[m], dst_log'[n])
  <2>t. dst_log \in Seq([log : DOMAIN sources, place : Nat, event : SpliceEvent])
    BY DEF SpliceInv, SpliceTypes
  <2>1. CASE dst_log' = dst_log
    BY <1>5, <1>7, <2>1 DEF Merged
  <2>2. CASE dst_log' # dst_log
    <3>1. PICK entry : /\ dst_log' = Append(dst_log, entry)
                       /\ entry.log = o.log /\ entry.place = o.place
      BY <1>4, <2>2
    <3>2. /\ DOMAIN dst_log = 1..Len(dst_log) /\ Len(dst_log) \in Nat
          /\ DOMAIN dst_log' = 1..Len(dst_log) + 1
          /\ \A k \in DOMAIN dst_log : dst_log'[k] = dst_log[k]
          /\ dst_log'[Len(dst_log) + 1] = entry
      BY <2>t, <3>1, AppendFacts
    <3>3. m \in DOMAIN dst_log /\ (n \in DOMAIN dst_log \/ n = Len(dst_log) + 1)
      BY <1>7, <3>2
    <3>4. CASE n \in DOMAIN dst_log
      BY <1>5, <1>7, <3>2, <3>3, <3>4 DEF Merged
    <3>5. CASE n = Len(dst_log) + 1
      <4> DEFINE p == Spot(dst_log[m].log, dst_log[m].place)
      <4>1. p \in Splice!Places /\ IsRead(p)
        BY <3>3, SpotFacts DEF SpliceInv, Splice!KeepsTheOrder, WrittenIsRead, IsRead
      <4>2. Splice!Before(p, o)
        BY <1>3, <1>5, <4>1 DEF Merged
      <4>3. p.log = dst_log[m].log /\ p.place = dst_log[m].place
        BY DEF Spot
      <4>4. Splice!Before(dst_log[m], entry)
        BY <3>1, <4>2, <4>3 DEF Splice!Before, Splice!At
      <4> QED  BY <3>2, <3>3, <3>5, <4>4
    <3> QED  BY <3>3, <3>4, <3>5
  <2> QED  BY <2>1, <2>2
<1>8. ASSUME NEW m \in DOMAIN dst_log' PROVE Splice!IsWanted(dst_log'[m])
  <2>t. dst_log \in Seq([log : DOMAIN sources, place : Nat, event : SpliceEvent])
    BY DEF SpliceInv, SpliceTypes
  <2>1. CASE dst_log' = dst_log
    BY <1>5, <1>8, <2>1 DEF Merged
  <2>2. CASE dst_log' # dst_log
    <3>1. PICK entry : /\ dst_log' = Append(dst_log, entry) /\ Splice!IsWanted(o)
                       /\ entry.log = o.log /\ entry.place = o.place
      BY <1>4, <2>2
    <3>2. \/ m \in DOMAIN dst_log /\ dst_log'[m] = dst_log[m]
          \/ dst_log'[m] = entry
      BY <1>8, <2>t, <3>1, AppendFacts
    <3>3. Splice!IsWanted(entry)
      BY <3>1 DEF Splice!IsWanted, Splice!At
    <3> QED  BY <1>5, <3>2, <3>3 DEF Merged
  <2> QED  BY <2>1, <2>2
<1>9. ASSUME NEW p \in Splice!Places, IsRead(p)', Splice!IsWanted(p)
      PROVE  Splice!IsWritten(p)'
  <2>t. dst_log \in Seq([log : DOMAIN sources, place : Nat, event : SpliceEvent])
    BY DEF SpliceInv, SpliceTypes
  <2>1. CASE IsRead(p)
    <3>1. PICK m \in DOMAIN dst_log : dst_log[m].log = p.log /\ dst_log[m].place = p.place
      BY <1>5, <1>9, <2>1 DEF Merged, Splice!IsWritten
    <3>2. m \in DOMAIN dst_log' /\ dst_log'[m] = dst_log[m]
      BY <1>4, <2>t, <3>1, AppendFacts
    <3> QED  BY <3>1, <3>2 DEF Splice!IsWritten
  <2>2. CASE p = o
    <3>1. PICK entry : /\ dst_log' = Append(dst_log, entry)
                       /\ entry.log = o.log /\ entry.place = o.place
      BY <1>4, <1>9, <2>2
    <3>2. Len(dst_log) + 1 \in DOMAIN dst_log' /\ dst_log'[Len(dst_log) + 1] = entry
      BY <2>t, <3>1, AppendFacts
    <3> QED  BY <2>2, <3>1, <3>2 DEF Splice!IsWritten
  <2> QED  BY <1>3, <1>9, <2>1, <2>2
<1>10. ASSUME ended', NEW p \in Splice!Places, ~IsRead(p)' PROVE ~Splice!IsWanted(p)
  BY <1>3, <1>4, <1>10
<1>11. \A m, n \in DOMAIN dst_log' : m < n => Splice!Before(dst_log[m], dst_log[n])'
  BY <1>3, <1>7
<1>12. \A m \in DOMAIN dst_log' : Splice!IsWanted(dst_log[m])'
  BY <1>3, <1>8
<1> QED
  BY <1>3, <1>6, <1>9, <1>10, <1>11, <1>12 DEF Merged

\* A round keeps the invariant.
LEMMA SpliceStays ==
  ASSUME SpliceSetting, SpliceInv, [Splice!Next]_Splice!vars PROVE SpliceInv'
<1>1. CASE Splice!CopyNext
  <2>1. PICK l : l = Splice!Least
    OBVIOUS
  <2>2. PICK o : o = Spot(l, Splice!Ahead(l))
    OBVIOUS
  <2>3. SpliceTypes' /\ ReadAhead'
    BY <1>1, <2>1, OneIsRead DEF SpliceInv
  <2>4. FirstOfAll'
    <3>1. PICK p \in Splice!Places :
            /\ first_event' = <<Splice!At(p).timestamp>>
            /\ AllInOrder =>
                 \A q \in Splice!Places : Splice!At(p).timestamp <= Splice!At(q).timestamp
      BY <1>1, <2>1, FirstKept DEF SpliceInv
    <3>2. /\ Splice!Places' = Splice!Places /\ \A q : Splice!At(q)' = Splice!At(q)
          /\ AllInOrder' <=> AllInOrder
      BY <1>1, <2>1, <2>2, Reading
    <3>3. first_event' # << >>
      BY <3>1
    <3> QED  BY <3>1, <3>2, <3>3 DEF FirstOfAll
  <2>5. Splice!KeepsTheOrder' /\ WrittenIsRead'
    BY <1>1, WritingKeepsTheOrder
  <2>6. AllInOrder' => Merged'
    BY <1>1, <2>1, <2>2, Reading, MergingOn
  <2> QED  BY <2>3, <2>4, <2>5, <2>6 DEF SpliceInv
<1>2. CASE UNCHANGED Splice!vars
  <2>1. /\ asked' = asked /\ sources' = sources /\ src_logs' = src_logs /\ events' = events
        /\ first_event' = first_event /\ dst_log' = dst_log /\ ended' = ended
    BY <1>2 DEF Splice!vars
  <2>2. SpliceTypes' <=> SpliceTypes
    BY <2>1 DEF SpliceTypes
  <2>3. ReadAhead' <=> ReadAhead
    BY <2>1 DEF ReadAhead, Splice!Ahead
  <2>4. /\ Splice!Places' = Splice!Places
        /\ \A p : Splice!At(p)' = Splice!At(p)
        /\ \A p : IsRead(p)' <=> IsRead(p)
        /\ AllInOrder' <=> AllInOrder
    BY <2>1 DEF Splice!Places, Splice!At, IsRead, NextPlace, Splice!Ahead, AllInOrder
  <2>5. FirstOfAll' <=> FirstOfAll
    BY <2>1, <2>4 DEF FirstOfAll
  <2>6. Splice!KeepsTheOrder' <=> Splice!KeepsTheOrder
    BY <2>1 DEF Splice!KeepsTheOrder, Splice!At
  <2>7. WrittenIsRead' <=> WrittenIsRead
    BY <2>1, <2>4 DEF WrittenIsRead
  <2>8. /\ \A p, q : Splice!Before(p, q)' <=> Splice!Before(p, q)
        /\ \A p : Splice!IsWanted(p)' <=> Splice!IsWanted(p)
        /\ \A p : Splice!IsWritten(p)' <=> Splice!IsWritten(p)
    BY <2>1, <2>4 DEF Splice!Before, Splice!IsWanted, Splice!IsWritten, Splice!Copied,
       Splice!TooEarly, Splice!TooLate, Splice!Matches
  <2>9. Merged' <=> Merged
    BY <2>1, <2>4, <2>8 DEF Merged
  <2> QED  BY <2>2, <2>3, <2>4, <2>5, <2>6, <2>7, <2>9 DEF SpliceInv
<1> QED
  BY <1>1, <1>2 DEF Splice!Next

\* The invariant has the property.
LEMMA SplicedInOrder == ASSUME SpliceInv PROVE Splice!SplicesInOrder
<1>1. Splice!KeepsTheOrder
  BY DEF SpliceInv
<1>2. ASSUME AllInOrder, NEW p \in Splice!Places, Splice!IsWanted(p), ~Splice!IsWritten(p)
      PROVE  /\ ~ended /\ Splice!Waiting # {}
             /\ \A m \in DOMAIN dst_log : Splice!Before(dst_log[m], p)
  <2>1. ~IsRead(p) /\ ~ended
    BY <1>2 DEF SpliceInv, Merged
  <2>2. Splice!Waiting # {}
    <3>1. p.log \in DOMAIN sources /\ p.place \in 1..Len(sources[p.log])
      BY PlaceFacts DEF SpliceInv, SpliceTypes
    <3>2. Len(sources[p.log]) \in Nat
      BY <3>1 DEF SpliceInv, SpliceTypes
    <3>3. events[p.log] # << >>
      BY <2>1, <3>1, <3>2 DEF IsRead, NextPlace
    <3> QED  BY <3>1, <3>3 DEF Splice!Waiting, SpliceInv, SpliceTypes
  <2>3. ASSUME NEW m \in DOMAIN dst_log PROVE Splice!Before(dst_log[m], p)
    <3> DEFINE q == Spot(dst_log[m].log, dst_log[m].place)
    <3>1. q \in Splice!Places /\ IsRead(q)
      BY SpotFacts DEF SpliceInv, Splice!KeepsTheOrder, WrittenIsRead, IsRead
    <3>2. Splice!Before(q, p)
      BY <1>2, <2>1, <3>1 DEF SpliceInv, Merged
    <3>3. q.log = dst_log[m].log /\ q.place = dst_log[m].place
      BY DEF Spot
    <3> QED  BY <3>2, <3>3 DEF Splice!Before, Splice!At
  <2> QED  BY <2>1, <2>2, <2>3
<1>3. AllInOrder => /\ \A m, n \in DOMAIN dst_log : m < n => Splice!Before(dst_log[m], dst_log[n])
                    /\ \A m \in DOMAIN dst_log : Splice!IsWanted(dst_log[m])
  BY DEF SpliceInv, Merged
<1>4. AllInOrder <=> \A i \in DOMAIN sources : Splice!InOrder(sources[i])
  BY DEF AllInOrder
<1> QED
  BY <1>1, <1>2, <1>3, <1>4 DEF Splice!SplicesInOrder

\* Of logs that are in order of time the tools write the matching events of the time asked for
\* and no others, each once and by time; at any moment none that comes before one that was
\* written is missing (the loop of lcm-logsplice.c and lcm-logfilter.c).
THEOREM LogsAreSpliced == ASSUME SpliceSetting PROVE Splice!Spec => []SplicesInOrder
<1>1. Splice!Init => SpliceInv
  BY Opening
<1>2. SpliceInv /\ [Splice!Next]_Splice!vars => SpliceInv'
  BY SpliceStays
<1>3. SpliceInv => SplicesInOrder
  BY SplicedInOrder DEF SplicesInOrder
<1> QED
  BY <1>1, <1>2, <1>3, PTL DEF Splice!Spec
=============================================================================
