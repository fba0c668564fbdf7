--------------------------- MODULE TunnelHubProofs ---------------------------
(***************************************************************************)
(* A message comes to each network once, and to all that are connected, for *)
(* any number of clients and messages, and whatever UDP loses or overtakes.  *)
(***************************************************************************)
EXTENDS TunnelHub, SequenceTheorems, TLAPS

\* What is assumed of the constants.
Setting == Server \notin Clients /\ MaxMessages \in Nat

Ids == 1 .. Len(origins)

Items == [id : Int, self : BOOLEAN]

\* A message as a program has published it, and LCM has yet to hand over.
Fresh(m) == [id |-> m, self |-> FALSE]

Once(s, x) == \A i, j \in DOMAIN s : s[i] = x /\ s[j] = x => i = j

Types ==
  /\ running \subseteq Processes /\ isReady \subseteq Processes
  /\ inbox \in [Processes -> Seq(Items)]
  /\ params \in [Clients -> BOOLEAN]
  /\ client \in [Clients -> {"none", "SERVER_MSG", "RECV"}]
  /\ server \in [Clients -> {"none", "CLIENT_MSG", "RECV", "gone"}]
  /\ upstream \in [Clients -> Seq(Int)] /\ downstream \in [Clients -> Seq(Int)]
  /\ origins \in Seq(Processes)
  /\ audience \in Seq(SUBSET Processes) /\ Len(audience) = Len(origins)
  /\ published \in [Processes -> Seq(Int)]

\* Streams have messages that were published, and what is not a message where it belongs.
Contents ==
  /\ \A p \in Processes : \A x \in Range(inbox[p]) : x = Introspect \/ x.id \in Ids
  /\ \A p \in Processes : Range(published[p]) \subseteq Ids
  /\ \A c \in Clients : Range(upstream[c]) \subseteq Ids \cup {ClientMsg, Goodbye}
  /\ \A c \in Clients : Range(downstream[c]) \subseteq Ids \cup {ServerMsg, Goodbye}

\* Until it knows its own address, what a process hears first is the packet with it.
Introduced ==
  \A p \in running \ isReady : inbox[p] # << >> /\ Head(inbox[p]) = Introspect

\* The greeting of a client comes first, and is gone when the server forwards to it.
Greeted ==
  \A c \in Clients :
    /\ \A k \in DOMAIN upstream[c] : upstream[c][k] = ClientMsg => k = 1
    /\ server[c] \in {"RECV", "gone"} => ClientMsg \notin Range(upstream[c])
    /\ client[c] = "none" => server[c] = "none"

\* Who has said goodbye does not run.
Parted == \A c \in Clients : Goodbye \in Range(upstream[c]) => c \notin running

\* The message has left the network that it came from, for the server's other networks.
Passed(m) ==
  IF origins[m] = Server THEN Fresh(m) \notin Range(inbox[Server])
  ELSE m \in Range(published[Server])

\* Where a message is: only on its way from its origin to the server, and from there to
\* the others, and at each place once.
AtOnePlace(m) ==
  /\ \A p \in Processes :
       /\ Once(inbox[p], Fresh(m)) /\ Once(published[p], m)
       /\ Fresh(m) \in Range(inbox[p]) => origins[m] = p
       /\ m \in Range(published[p]) => origins[m] # p /\ Passed(m)
  /\ \A c \in Clients :
       /\ Once(upstream[c], m) /\ Once(downstream[c], m)
       /\ m \in Range(upstream[c]) => origins[m] = c /\ m \notin Range(published[Server])
       /\ m \in Range(downstream[c]) =>
            origins[m] # c /\ Passed(m) /\ m \notin Range(published[c])
  /\ Fresh(m) \in Range(inbox[origins[m]]) =>
       /\ m \notin Range(published[Server])
       /\ origins[m] # Server => m \notin Range(upstream[origins[m]])

\* The message is under way to p, which is connected over TCP as its origin is.
UnderWay(m, p) ==
  \/ Fresh(m) \in Range(inbox[origins[m]])
  \/ origins[m] # Server /\ m \in Range(upstream[origins[m]])
  \/ p # Server /\ m \in Range(downstream[p])

Arrives(m) ==
  \A p \in audience[m] :
    /\ {p, origins[m]} \subseteq Joined /\ p # origins[m]
    /\ m \in Range(published[p]) \/ UnderWay(m, p)

IInv ==
  /\ Types /\ Contents /\ Introduced /\ Greeted /\ Parted
  /\ \A m \in Ids : AtOnePlace(m) /\ Arrives(m)
-----------------------------------------------------------------------------
(* Streams *)

LEMMA AppendFacts ==
  ASSUME NEW S, NEW s \in Seq(S), NEW x \in S
  PROVE  /\ Append(s, x) \in Seq(S) /\ Append(s, x) # << >>
         /\ Range(Append(s, x)) = Range(s) \cup {x}
         /\ s # << >> => Head(Append(s, x)) = Head(s)
         /\ \A y : Once(s, y) /\ (y # x \/ y \notin Range(s)) => Once(Append(s, x), y)
<1>1. /\ Len(s) \in Nat /\ DOMAIN s = 1 .. Len(s)
      /\ Append(s, x) \in Seq(S) /\ Len(Append(s, x)) = Len(s) + 1
      /\ \A i \in 1 .. Len(s) : Append(s, x)[i] = s[i]
      /\ Append(s, x)[Len(s) + 1] = x
  BY AppendProperties, LenProperties
<1>2. DOMAIN Append(s, x) = 1 .. Len(s) + 1
  BY <1>1, LenProperties
<1>3. Range(Append(s, x)) = Range(s) \cup {x}
  BY <1>1, <1>2 DEF Range
<1>4. s # << >> => Head(Append(s, x)) = Head(s)
  BY <1>1, EmptySeq
<1>5. ASSUME NEW y, Once(s, y), y # x \/ y \notin Range(s)
      PROVE  Once(Append(s, x), y)
  <2> SUFFICES ASSUME NEW i \in 1 .. Len(s) + 1, NEW j \in 1 .. Len(s) + 1,
                      Append(s, x)[i] = y, Append(s, x)[j] = y
               PROVE  i = j
    BY <1>2 DEF Once
  <2>1. CASE i \in 1 .. Len(s) /\ j \in 1 .. Len(s)
    BY <1>1, <1>5, <2>1 DEF Once
  <2>2. CASE i = Len(s) + 1 /\ j \in 1 .. Len(s)
    BY <1>1, <1>5, <2>2 DEF Range
  <2>3. CASE j = Len(s) + 1 /\ i \in 1 .. Len(s)
    BY <1>1, <1>5, <2>3 DEF Range
  <2> QED  BY <1>1, <2>1, <2>2, <2>3
<1>6. Append(s, x) # << >>
  BY <1>1, EmptySeq
<1>7. \A y : Once(s, y) /\ (y # x \/ y \notin Range(s)) => Once(Append(s, x), y)
  BY <1>5
<1> QED  BY <1>1, <1>3, <1>4, <1>6, <1>7, Zenon

LEMMA AppendNumber ==
  \A s \in Seq(Int), x \in Int :
    /\ Append(s, x) \in Seq(Int) /\ Range(Append(s, x)) = Range(s) \cup {x}
    /\ \A y : Once(s, y) /\ (y # x \/ y \notin Range(s)) => Once(Append(s, x), y)
<1> SUFFICES ASSUME NEW s \in Seq(Int), NEW x \in Int
             PROVE  /\ Append(s, x) \in Seq(Int) /\ Range(Append(s, x)) = Range(s) \cup {x}
                    /\ \A y : Once(s, y) /\ (y # x \/ y \notin Range(s))
                              => Once(Append(s, x), y)
  OBVIOUS
<1> QED  BY AppendFacts, Zenon

LEMMA TailFacts ==
  ASSUME NEW S, NEW s \in Seq(S), s # << >>
  PROVE  /\ Tail(s) \in Seq(S) /\ Head(s) \in S /\ 1 \in DOMAIN s /\ Head(s) = s[1]
         /\ Range(s) = Range(Tail(s)) \cup {Head(s)}
         /\ \A k \in DOMAIN Tail(s) : k + 1 \in DOMAIN s /\ Tail(s)[k] = s[k + 1]
         /\ \A y : Once(s, y) => Once(Tail(s), y) /\ (y = Head(s) => y \notin Range(Tail(s)))
<1>1. /\ Len(s) \in Nat \ {0} /\ DOMAIN s = 1 .. Len(s)
      /\ Tail(s) \in Seq(S) /\ Len(Tail(s)) = Len(s) - 1 /\ Head(s) \in S
      /\ \A i \in 1 .. Len(Tail(s)) : Tail(s)[i] = s[i + 1]
  BY HeadTailProperties, LenProperties, EmptySeq
<1>2. DOMAIN Tail(s) = 1 .. Len(s) - 1
  BY <1>1, LenProperties
<1>3. Head(s) = s[1]
  BY <1>1
<1>4. Range(s) = Range(Tail(s)) \cup {Head(s)}
  <2>1. ASSUME NEW k \in 1 .. Len(s) PROVE s[k] \in Range(Tail(s)) \cup {s[1]}
    <3>1. CASE k = 1
      BY <3>1
    <3>2. CASE k # 1
      <4>1. k - 1 \in 1 .. Len(s) - 1 /\ Tail(s)[k - 1] = s[k]
        BY <1>1, <3>2
      <4> QED  BY <1>2, <4>1 DEF Range
    <3> QED  BY <3>1, <3>2
  <2>2. ASSUME NEW k \in 1 .. Len(s) - 1 PROVE Tail(s)[k] \in Range(s)
    <3>1. k + 1 \in 1 .. Len(s) /\ Tail(s)[k] = s[k + 1]
      BY <1>1
    <3> QED  BY <1>1, <3>1 DEF Range
  <2> QED  BY <1>1, <1>2, <1>3, <2>1, <2>2 DEF Range
<1>5. ASSUME NEW y, Once(s, y)
      PROVE  Once(Tail(s), y) /\ (y = Head(s) => y \notin Range(Tail(s)))
  <2>1. \A i, j \in 1 .. Len(s) : s[i] = y /\ s[j] = y => i = j
    BY <1>1, <1>5 DEF Once
  <2>2. \A i \in 1 .. Len(s) - 1 : i + 1 \in 1 .. Len(s) /\ i + 1 # 1 /\ Tail(s)[i] = s[i + 1]
    BY <1>1
  <2>3. \A i, j \in 1 .. Len(s) - 1 : i + 1 = j + 1 => i = j
    BY <1>1
  <2>4. Once(Tail(s), y)
    <3> SUFFICES ASSUME NEW i \in 1 .. Len(s) - 1, NEW j \in 1 .. Len(s) - 1,
                        Tail(s)[i] = y, Tail(s)[j] = y
                 PROVE  i = j
      BY <1>2 DEF Once
    <3>1. s[i + 1] = y /\ s[j + 1] = y
      BY <2>2
    <3> QED  BY <2>1, <2>2, <2>3, <3>1
  <2>5. ASSUME y = Head(s), y \in Range(Tail(s)) PROVE FALSE
    <3>1. PICK i \in 1 .. Len(s) - 1 : Tail(s)[i] = y
      BY <1>2, <2>5 DEF Range
    <3>2. s[i + 1] = y /\ s[1] = y /\ 1 \in 1 .. Len(s)
      BY <1>1, <1>3, <2>2, <2>5, <3>1
    <3> QED  BY <2>1, <2>2, <3>2
  <2> QED  BY <2>4, <2>5
<1>6. \A k \in DOMAIN Tail(s) : k + 1 \in DOMAIN s /\ Tail(s)[k] = s[k + 1]
  BY <1>1, <1>2
<1> QED  BY <1>1, <1>3, <1>4, <1>5, <1>6

\* A message that is taken in leaves the stream with all before it, but not the server's
\* answer, and the others are once in it as they were.
LEMMA LeftFacts ==
  ASSUME NEW s \in Seq(Int), NEW n \in 1 .. Len(s)
  PROVE  /\ Left(s, n) \in Seq(Int) /\ Range(Left(s, n)) \subseteq Range(s)
         /\ n = 1 => Range(s) \subseteq Range(Left(s, n)) \cup {s[1]}
         /\ \A y : y # ServerMsg /\ Once(s, y) =>
              Once(Left(s, n), y) /\ (y = s[n] => y \notin Range(Left(s, n)))
<1> DEFINE p == IF \E k \in 1 .. n - 1 : s[k] = ServerMsg THEN <<ServerMsg>> ELSE << >>
           q == SubSeq(s, n + 1, Len(s))
           t == p \o q
           d == Len(p)
           len == Len(s)
<1>1. /\ len \in Nat /\ DOMAIN s = 1 .. len /\ n \in 1 .. len /\ n \in Nat /\ len - n \in Nat
      /\ \A k \in 1 .. len : s[k] \in Int
  BY LenProperties, ElementOfSeq
<1>0. len = Len(s)
  OBVIOUS
<1> HIDE DEF len
<1>2. /\ q \in Seq(Int) /\ Len(q) = len - n
      /\ \A k \in 1 .. len - n : q[k] = s[n + k]
  <2>1. n + 1 \in Int /\ len \in Int /\ \A k \in n + 1 .. len : s[k] \in Int
    BY <1>1
  <2>2. /\ q \in Seq(Int) /\ Len(q) = IF n + 1 <= len THEN len - (n + 1) + 1 ELSE 0
        /\ \A k \in 1 .. len - (n + 1) + 1 : q[k] = s[n + 1 + k - 1]
    BY <1>0, <2>1, SubSeqProperties
  <2> HIDE DEF q
  <2>3. Len(q) = len - n
    BY <1>1, <2>2
  <2>4. \A k \in 1 .. len - n : k \in 1 .. len - (n + 1) + 1 /\ n + 1 + k - 1 = n + k
    BY <1>1
  <2> QED  BY <2>2, <2>3, <2>4
<1>3. /\ p \in Seq(Int) /\ d \in {0, 1}
      /\ d = 1 => p[1] = ServerMsg /\ ServerMsg \in Range(s) /\ n # 1
  <2>1. CASE \E k \in 1 .. n - 1 : s[k] = ServerMsg
    <3>1. p = <<ServerMsg>> /\ ServerMsg \in Int
      BY <2>1 DEF ServerMsg
    <3>2. PICK k \in 1 .. n - 1 : s[k] = ServerMsg
      BY <2>1
    <3>3. k \in DOMAIN s /\ n # 1
      BY <1>1, <3>2
    <3>4. ServerMsg \in Range(s)
      BY <3>2, <3>3 DEF Range
    <3> HIDE DEF p
    <3> QED  BY <3>1, <3>3, <3>4
  <2>2. CASE ~ \E k \in 1 .. n - 1 : s[k] = ServerMsg
    <3>1. p = << >>
      BY <2>2
    <3> HIDE DEF p
    <3> QED  BY <3>1, EmptySeq
  <2> QED  BY <2>1, <2>2
<1> HIDE DEF p, q
<1>4. /\ t \in Seq(Int) /\ Len(t) = d + (len - n) /\ DOMAIN t = 1 .. d + (len - n)
      /\ \A k \in 1 .. d + (len - n) : t[k] = IF k <= d THEN p[k] ELSE q[k - d]
  <2>1. /\ t \in Seq(Int) /\ Len(t) = Len(p) + Len(q)
        /\ \A k \in 1 .. Len(p) + Len(q) : t[k] = IF k <= Len(p) THEN p[k] ELSE q[k - Len(p)]
    BY <1>2, <1>3, ConcatProperties
  <2> QED  BY <1>2, <2>1, LenProperties
<1> HIDE DEF d, t
<1>5. \A k \in 1 .. d + (len - n) :
        IF k <= d THEN k = 1 /\ t[k] = ServerMsg
        ELSE n + (k - d) \in DOMAIN s /\ n + (k - d) > n /\ t[k] = s[n + (k - d)]
  <2> SUFFICES ASSUME NEW k \in 1 .. d + (len - n)
               PROVE  IF k <= d THEN k = 1 /\ t[k] = ServerMsg
                      ELSE /\ n + (k - d) \in DOMAIN s /\ n + (k - d) > n
                           /\ t[k] = s[n + (k - d)]
    OBVIOUS
  <2>1. CASE k <= d
    <3>1. k = 1 /\ d = 1
      BY <1>1, <1>3, <2>1
    <3> QED  BY <1>3, <1>4, <2>1, <3>1
  <2>2. CASE ~(k <= d)
    <3>1. k - d \in 1 .. len - n /\ n + (k - d) \in 1 .. len /\ n + (k - d) > n
      BY <1>1, <1>3, <2>2
    <3>2. t[k] = q[k - d]
      BY <1>4, <2>2
    <3> QED  BY <1>1, <1>2, <2>2, <3>1, <3>2
  <2> QED  BY <2>1, <2>2
<1>6. Range(t) \subseteq Range(s)
  <2> SUFFICES ASSUME NEW k \in 1 .. d + (len - n) PROVE t[k] \in Range(s)
    BY <1>4 DEF Range
  <2>1. CASE k <= d
    BY <1>1, <1>3, <1>5, <2>1
  <2>2. CASE ~(k <= d)
    BY <1>5, <2>2 DEF Range
  <2> QED  BY <2>1, <2>2
<1>7. ASSUME n = 1 PROVE Range(s) \subseteq Range(t) \cup {s[1]}
  <2>1. d = 0
    BY <1>3, <1>7
  <2> SUFFICES ASSUME NEW k \in 1 .. len, k # 1 PROVE s[k] \in Range(t)
    BY <1>1 DEF Range
  <2>2. k - 1 \in DOMAIN t /\ t[k - 1] = s[k]
    <3>1. k - 1 \in 1 .. d + (len - n) /\ ~(k - 1 <= d) /\ n + ((k - 1) - d) = k
      BY <1>1, <1>7, <2>1
    <3> QED  BY <1>4, <1>5, <3>1
  <2> QED  BY <2>2 DEF Range
<1>8. ASSUME NEW y, y # ServerMsg, Once(s, y)
      PROVE  Once(t, y) /\ (y = s[n] => y \notin Range(t))
  <2>1. \A i, j \in DOMAIN s : s[i] = y /\ s[j] = y => i = j
    BY <1>8 DEF Once
  <2>2. \A k \in 1 .. d + (len - n) : t[k] = y =>
          n + (k - d) \in DOMAIN s /\ n + (k - d) > n /\ s[n + (k - d)] = y
    BY <1>5, <1>8
  <2>3. Once(t, y)
    <3> SUFFICES ASSUME NEW i \in 1 .. d + (len - n), NEW j \in 1 .. d + (len - n),
                        t[i] = y, t[j] = y
                 PROVE  i = j
      BY <1>4 DEF Once
    <3>1. n + (i - d) = n + (j - d)
      BY <2>1, <2>2
    <3> QED  BY <1>1, <1>3, <3>1
  <2>4. ASSUME y = s[n], y \in Range(t) PROVE FALSE
    <3>1. PICK k \in 1 .. d + (len - n) : t[k] = y
      BY <1>4, <2>4 DEF Range
    <3>2. n + (k - d) = n
      BY <2>1, <2>2, <2>4, <3>1
    <3> QED  BY <2>2, <3>1, <3>2
  <2> QED  BY <2>3, <2>4
<1>9. Left(s, n) = t
  BY Zenon DEF Left, t, p, q
<1> QED  BY <1>4, <1>6, <1>7, <1>8, <1>9

\* What was sent by TCP is read without touching the rest.
LEMMA RemoveFacts ==
  ASSUME NEW s \in Seq(Int), NEW n \in 1 .. Len(s)
  PROVE  /\ RemoveAt(s, n) \in Seq(Int) /\ Range(RemoveAt(s, n)) \subseteq Range(s)
         /\ Range(s) \subseteq Range(RemoveAt(s, n)) \cup {s[n]}
         /\ \A y : Once(s, y) => Once(RemoveAt(s, n), y)
<1> DEFINE p == SubSeq(s, 1, n - 1)
           q == SubSeq(s, n + 1, Len(s))
           t == p \o q
           len == Len(s)
<1>1. /\ len \in Nat /\ DOMAIN s = 1 .. len /\ n \in 1 .. len /\ n \in Nat /\ len - n \in Nat
      /\ \A k \in 1 .. len : s[k] \in Int
  BY LenProperties, ElementOfSeq
<1>0. len = Len(s)
  OBVIOUS
<1> HIDE DEF len
<1>2. /\ q \in Seq(Int) /\ Len(q) = len - n
      /\ \A k \in 1 .. len - n : q[k] = s[n + k]
  <2>1. n + 1 \in Int /\ len \in Int /\ \A k \in n + 1 .. len : s[k] \in Int
    BY <1>1
  <2>2. /\ q \in Seq(Int) /\ Len(q) = IF n + 1 <= len THEN len - (n + 1) + 1 ELSE 0
        /\ \A k \in 1 .. len - (n + 1) + 1 : q[k] = s[n + 1 + k - 1]
    BY <1>0, <2>1, SubSeqProperties
  <2> HIDE DEF q
  <2>3. Len(q) = len - n
    BY <1>1, <2>2
  <2>4. \A k \in 1 .. len - n : k \in 1 .. len - (n + 1) + 1 /\ n + 1 + k - 1 = n + k
    BY <1>1
  <2> QED  BY <2>2, <2>3, <2>4
<1>3. /\ p \in Seq(Int) /\ Len(p) = n - 1
      /\ \A k \in 1 .. n - 1 : p[k] = s[k]
  <2>1. n - 1 \in Int /\ \A k \in 1 .. n - 1 : s[k] \in Int
    BY <1>1
  <2>2. /\ p \in Seq(Int) /\ Len(p) = IF 1 <= n - 1 THEN (n - 1) - 1 + 1 ELSE 0
        /\ \A k \in 1 .. (n - 1) - 1 + 1 : p[k] = s[1 + k - 1]
    BY <2>1, SubSeqProperties
  <2> HIDE DEF p
  <2> QED  BY <1>1, <2>2
<1> HIDE DEF p, q
<1>4. /\ t \in Seq(Int) /\ Len(t) = len - 1 /\ DOMAIN t = 1 .. len - 1
      /\ \A k \in 1 .. len - 1 : t[k] = IF k <= n - 1 THEN s[k] ELSE s[k + 1]
  <2>1. /\ t \in Seq(Int) /\ Len(t) = Len(p) + Len(q)
        /\ \A k \in 1 .. Len(p) + Len(q) : t[k] = IF k <= Len(p) THEN p[k] ELSE q[k - Len(p)]
    BY <1>2, <1>3, ConcatProperties
  <2>2. Len(p) + Len(q) = len - 1
    BY <1>1, <1>2, <1>3
  <2>3. \A k \in 1 .. len - 1 : t[k] = IF k <= n - 1 THEN s[k] ELSE s[k + 1]
    <3> SUFFICES ASSUME NEW k \in 1 .. len - 1
                 PROVE  t[k] = IF k <= n - 1 THEN s[k] ELSE s[k + 1]
      OBVIOUS
    <3>1. CASE k <= n - 1
      BY <1>1, <1>3, <2>1, <2>2, <3>1
    <3>2. CASE ~(k <= n - 1)
      <4>1. k - (n - 1) \in 1 .. len - n /\ n + (k - (n - 1)) = k + 1
        BY <1>1, <3>2
      <4>2. t[k] = q[k - (n - 1)]
        BY <1>3, <2>1, <2>2, <3>2
      <4> QED  BY <1>2, <3>2, <4>1, <4>2
    <3> QED  BY <3>1, <3>2
  <2> QED  BY <2>1, <2>2, <2>3, LenProperties
<1> HIDE DEF t
<1>5. Range(t) \subseteq Range(s)
  <2> SUFFICES ASSUME NEW k \in 1 .. len - 1 PROVE t[k] \in Range(s)
    BY <1>4 DEF Range
  <2>1. k \in DOMAIN s /\ k + 1 \in DOMAIN s
    BY <1>1
  <2> QED  BY <1>4, <2>1 DEF Range
<1>6. Range(s) \subseteq Range(t) \cup {s[n]}
  <2> SUFFICES ASSUME NEW k \in 1 .. len, k # n PROVE s[k] \in Range(t)
    BY <1>1 DEF Range
  <2>1. CASE k <= n - 1
    <3>1. k \in 1 .. len - 1 /\ t[k] = s[k]
      BY <1>1, <1>4, <2>1
    <3> QED  BY <1>4, <3>1 DEF Range
  <2>2. CASE ~(k <= n - 1)
    <3>1. k - 1 \in 1 .. len - 1 /\ ~(k - 1 <= n - 1) /\ (k - 1) + 1 = k
      BY <1>1, <2>2
    <3>2. t[k - 1] = s[k]
      BY <1>4, <3>1
    <3> QED  BY <1>4, <3>1, <3>2 DEF Range
  <2> QED  BY <2>1, <2>2
<1>7. ASSUME NEW y, Once(s, y) PROVE Once(t, y)
  <2> SUFFICES ASSUME NEW i \in 1 .. len - 1, NEW j \in 1 .. len - 1, t[i] = y, t[j] = y
               PROVE  i = j
    BY <1>4 DEF Once
  <2> DEFINE at(k) == IF k <= n - 1 THEN k ELSE k + 1
  <2>1. \A k \in 1 .. len - 1 : at(k) \in 1 .. len /\ t[k] = s[at(k)]
    BY <1>1, <1>4
  <2>2. at(i) = at(j)
    BY <1>1, <1>7, <2>1 DEF Once
  <2> QED  BY <1>1, <2>2
<1>8. RemoveAt(s, n) = t
  BY Zenon DEF RemoveAt, t, p, q
<1> QED  BY <1>4, <1>5, <1>6, <1>7, <1>8

LEMMA ShortFacts ==
  /\ \A S : << >> \in Seq(S)
  /\ Range(<< >>) = {} /\ \A y : Once(<< >>, y)
  /\ \A x : Range(<<x>>) = {x} /\ <<x>>[1] = x /\ DOMAIN <<x>> = {1} /\ <<x>> # << >>
            /\ Head(<<x>>) = x /\ \A y : Once(<<x>>, y)
<1>1. /\ \A S : << >> \in Seq(S)
      /\ DOMAIN << >> = {}
  BY EmptySeq
<1>2. ASSUME NEW x
      PROVE  /\ <<x>>[1] = x /\ DOMAIN <<x>> = {1} /\ <<x>> # << >> /\ Head(<<x>>) = x
  OBVIOUS
<1>3. Range(<< >>) = {} /\ \A y : Once(<< >>, y)
  BY <1>1 DEF Range, Once
<1>4. ASSUME NEW x PROVE Range(<<x>>) = {x} /\ \A y : Once(<<x>>, y)
  BY <1>2 DEF Range, Once
<1> QED  BY <1>1, <1>2, <1>3, <1>4

\* Of x, the stream has become what it was or less.
Fewer(old, new, x) ==
  /\ x \in Range(new) => x \in Range(old)
  /\ Once(old, x) => Once(new, x)

\* The message has been published where it had been.
AsPublished(m) ==
  \A p \in Processes :
    /\ m \in Range(published'[p]) <=> m \in Range(published[p])
    /\ Once(published[p], m) => Once(published'[p], m)

LEMMA AtOnePlaceStays ==
  ASSUME NEW m, AtOnePlace(m), m \in Ids, origins \in Seq(Processes),
         origins'[m] = origins[m], AsPublished(m), Setting,
         \A p \in Processes : Fewer(inbox[p], inbox'[p], Fresh(m)),
         \A c \in Clients : /\ Fewer(upstream[c], upstream'[c], m)
                            /\ Fewer(downstream[c], downstream'[c], m)
  PROVE  AtOnePlace(m)'
<1>1. /\ origins[m] \in Processes /\ Server \in Processes
      /\ \A c \in Clients : c \in Processes
  BY ElementOfSeq DEF Ids, Processes
<1>2. Passed(m) => Passed(m)'
  BY <1>1 DEF Passed, Fewer, Fresh, AsPublished
<1>3. ASSUME NEW p \in Processes
      PROVE  /\ Once(inbox'[p], Fresh(m)) /\ Once(published'[p], m)
             /\ Fresh(m) \in Range(inbox'[p]) => origins'[m] = p
             /\ m \in Range(published'[p]) => origins'[m] # p /\ Passed(m)'
  BY <1>2 DEF AtOnePlace, Fewer, AsPublished
<1>4. ASSUME NEW c \in Clients
      PROVE  /\ Once(upstream'[c], m) /\ Once(downstream'[c], m)
             /\ m \in Range(upstream'[c]) =>
                  origins'[m] = c /\ m \notin Range(published'[Server])
             /\ m \in Range(downstream'[c]) =>
                  origins'[m] # c /\ Passed(m)' /\ m \notin Range(published'[c])
  BY <1>1, <1>2 DEF AtOnePlace, Fewer, AsPublished
<1>5. Fresh(m) \in Range(inbox'[origins'[m]]) =>
        /\ m \notin Range(published'[Server])
        /\ origins'[m] # Server => m \notin Range(upstream'[origins'[m]])
  BY <1>1 DEF AtOnePlace, Fewer, Processes, AsPublished
<1> QED  BY <1>3, <1>4, <1>5 DEF AtOnePlace, Fresh

LEMMA AtOnePlaceKept ==
  ASSUME NEW m, AtOnePlace(m), m \in Ids, origins \in Seq(Processes), Setting,
         origins' = origins, published' = published,
         \A p \in Processes : Fewer(inbox[p], inbox'[p], Fresh(m)),
         \A c \in Clients : /\ Fewer(upstream[c], upstream'[c], m)
                            /\ Fewer(downstream[c], downstream'[c], m)
  PROVE  AtOnePlace(m)'
<1>1. AsPublished(m)
  BY DEF AsPublished
<1> QED  BY <1>1, AtOnePlaceStays

\* The message stays where it is in the streams of p.
Stays(p, m) ==
  /\ Fresh(m) \in Range(inbox[p]) => Fresh(m) \in Range(inbox'[p])
  /\ p # Server => /\ m \in Range(upstream[p]) => m \in Range(upstream'[p])
                   /\ m \in Range(downstream[p]) => m \in Range(downstream'[p])

LEMMA ArrivesStays ==
  ASSUME NEW m, Arrives(m), origins'[m] = origins[m], AsPublished(m),
         audience'[m] \subseteq audience[m],
         \A a \in audience'[m] : /\ {a, origins[m]} \subseteq Joined'
                                 /\ Stays(a, m) /\ Stays(origins[m], m)
  PROVE  Arrives(m)'
<1> SUFFICES ASSUME NEW p \in audience'[m]
             PROVE  /\ {p, origins[m]} \subseteq Joined' /\ p # origins[m]
                    /\ m \in Range(published'[p]) \/ UnderWay(m, p)'
  BY DEF Arrives
<1>1. {p, origins[m]} \subseteq Joined /\ p # origins[m] /\ p \in Processes
  BY DEF Arrives, Joined, Processes
<1>2. m \in Range(published[p]) \/ UnderWay(m, p)
  BY DEF Arrives
<1>3. UnderWay(m, p) => UnderWay(m, p)'
  BY DEF UnderWay, Stays, Fresh
<1> QED  BY <1>1, <1>2, <1>3 DEF AsPublished

LEMMA ArrivesKept ==
  ASSUME NEW m, Arrives(m), origins' = origins, published' = published,
         audience'[m] \subseteq audience[m],
         \A a \in audience'[m] : /\ {a, origins[m]} \subseteq Joined'
                                 /\ Stays(a, m) /\ Stays(origins[m], m)
  PROVE  Arrives(m)'
<1>1. AsPublished(m)
  BY DEF AsPublished
<1> QED  BY <1>1, ArrivesStays

-----------------------------------------------------------------------------
(* Connecting and the packet with the address *)

LEMMA IntroductionStep ==
  ASSUME Setting, IInv, NEW p \in Processes, OnLcmTunnelIntrospect(p)
  PROVE  IInv'
<1>1. /\ UNCHANGED <<running, streamVars, historyVars>>
      /\ p \in running /\ Head(inbox[p]) = Introspect /\ inbox[p] # << >>
      /\ isReady' = isReady \cup {p}
      /\ inbox \in [Processes -> Seq(Items)] /\ inbox[p] \in Seq(Items)
      /\ inbox' = [inbox EXCEPT ![p] = Tail(inbox[p])]
  BY DEF OnLcmTunnelIntrospect, IInv, Types
<1>2. /\ Tail(inbox[p]) \in Seq(Items)
      /\ Range(Tail(inbox[p])) \subseteq Range(inbox[p])
      /\ \A y : Once(inbox[p], y) => Once(Tail(inbox[p]), y)
      /\ Range(inbox[p]) = Range(Tail(inbox[p])) \cup {Introspect}
  BY <1>1, TailFacts
<1>3. UNCHANGED <<running, params, client, server, upstream, downstream, origins, audience,
                  published>>
  BY <1>1 DEF streamVars, historyVars
<1>4. Types'
  <2>1. inbox' \in [Processes -> Seq(Items)] /\ isReady' \subseteq Processes
    BY <1>1, <1>2 DEF IInv, Types
  <2> QED  BY <1>3, <2>1 DEF IInv, Types
<1>5. Contents'
  BY <1>1, <1>2, <1>3 DEF IInv, Contents, Ids
<1>6. Introduced'
  BY <1>1, <1>3 DEF IInv, Introduced, Processes
<1>7. Greeted' /\ Parted'
  BY <1>3 DEF IInv, Greeted, Parted
<1>8. ASSUME NEW m \in Ids PROVE AtOnePlace(m)' /\ Arrives(m)'
  <2>1. m \in Ids /\ AtOnePlace(m) /\ Arrives(m) /\ origins \in Seq(Processes)
    BY <1>8 DEF IInv, Types
  <2>2. \A q \in Processes : Fewer(inbox[q], inbox'[q], Fresh(m))
    BY <1>1, <1>2 DEF Fewer
  <2>3. \A c \in Clients : Fewer(upstream[c], upstream'[c], m)
                           /\ Fewer(downstream[c], downstream'[c], m)
    BY <1>3 DEF Fewer
  <2>4. AtOnePlace(m)'
    BY <1>3, <2>1, <2>2, <2>3, AtOnePlaceKept
  <2>5. Fresh(m) # Introspect
    BY DEF Fresh, Introspect
  <2>6. Joined' = Joined
    BY <1>3 DEF Joined
  <2>7. \A a \in Joined : Stays(a, m)
    BY <1>1, <1>2, <1>3, <2>5 DEF Stays, Joined, Processes
  <2>8. \A a \in audience[m] : {a, origins[m]} \subseteq Joined
    BY <2>1 DEF Arrives
  <2> QED  BY <1>3, <2>1, <2>4, <2>6, <2>7, <2>8, ArrivesKept
<1> QED  BY <1>3, <1>4, <1>5, <1>6, <1>7, <1>8 DEF IInv, Ids

LEMMA GreetingFacts ==
  /\ <<Introspect>> \in Seq(Items) /\ Range(<<Introspect>>) = {Introspect}
  /\ <<Introspect>> # << >> /\ Head(<<Introspect>>) = Introspect
  /\ \A m : Fresh(m) # Introspect /\ Once(<<Introspect>>, Fresh(m))
<1>1. Introspect \in Items
  BY DEF Introspect, Items
<1>2. \A m : Fresh(m) # Introspect
  BY DEF Introspect, Fresh
<1> HIDE DEF Introspect
<1>3. <<Introspect>> \in Seq(Items)
  BY <1>1
<1>4. /\ Range(<<Introspect>>) = {Introspect} /\ <<Introspect>> # << >>
      /\ Head(<<Introspect>>) = Introspect
      /\ \A y : Once(<<Introspect>>, y)
  BY ShortFacts, Zenon
<1> QED  BY <1>2, <1>3, <1>4

LEMMA ConnectStep ==
  ASSUME Setting, IInv, NEW c \in Clients, NEW udp \in BOOLEAN, ConnectToServer(c, udp)
  PROVE  IInv'
<1>1. /\ c \in Processes /\ c # Server
      /\ UNCHANGED <<isReady, server, downstream, origins, audience, published>>
      /\ client[c] = "none" /\ server[c] = "none"
      /\ running' = running \cup {c}
      /\ inbox' = [inbox EXCEPT ![c] = <<Introspect>>]
      /\ params' = [params EXCEPT ![c] = udp]
      /\ client' = [client EXCEPT ![c] = IF udp THEN "SERVER_MSG" ELSE "RECV"]
      /\ upstream' = [upstream EXCEPT ![c] = <<ClientMsg>>]
  BY DEF ConnectToServer, IInv, Greeted, Setting, Processes, historyVars
<1>2. /\ inbox \in [Processes -> Seq(Items)] /\ params \in [Clients -> BOOLEAN]
      /\ client \in [Clients -> {"none", "SERVER_MSG", "RECV"}]
      /\ upstream \in [Clients -> Seq(Int)] /\ origins \in Seq(Processes)
      /\ running \subseteq Processes
  BY DEF IInv, Types
<1>3. <<ClientMsg>> \in Seq(Int) /\ ClientMsg # Goodbye /\ ClientMsg \notin Ids
  BY DEF ClientMsg, Goodbye, Ids
<1>4. Types'
  <2>1. inbox' \in [Processes -> Seq(Items)]
    BY <1>1, <1>2, GreetingFacts
  <2>2. upstream' \in [Clients -> Seq(Int)]
    BY <1>1, <1>2, <1>3
  <2>3. /\ params' \in [Clients -> BOOLEAN] /\ running' \subseteq Processes
        /\ client' \in [Clients -> {"none", "SERVER_MSG", "RECV"}]
    BY <1>1, <1>2
  <2> QED  BY <1>1, <2>1, <2>2, <2>3 DEF IInv, Types
<1>5. /\ \A p \in Processes : inbox'[p] = IF p = c THEN <<Introspect>> ELSE inbox[p]
      /\ \A d \in Clients : upstream'[d] = IF d = c THEN <<ClientMsg>> ELSE upstream[d]
      /\ \A d \in Clients : d # c => params'[d] = params[d] /\ client'[d] = client[d]
      /\ client'[c] # "none"
  BY <1>1, <1>2
<1>6. Contents'
  <2>1. \A p \in Processes : \A x \in Range(inbox'[p]) : x = Introspect \/ x.id \in Ids
    BY <1>5, GreetingFacts DEF IInv, Contents
  <2>2. \A d \in Clients : Range(upstream'[d]) \subseteq Ids \cup {ClientMsg, Goodbye}
    BY <1>5, ShortFacts DEF IInv, Contents
  <2> QED  BY <1>1, <2>1, <2>2 DEF IInv, Contents, Ids
<1>7. Introduced'
  <2>1. inbox'[c] # << >> /\ Head(inbox'[c]) = Introspect
    BY <1>1, <1>5, GreetingFacts
  <2> QED  BY <1>1, <1>2, <1>5, <2>1 DEF IInv, Introduced
<1>8. Greeted'
  <2> SUFFICES ASSUME NEW d \in Clients
               PROVE  /\ \A k \in DOMAIN upstream'[d] : upstream'[d][k] = ClientMsg => k = 1
                      /\ server[d] \in {"RECV", "gone"} => ClientMsg \notin Range(upstream'[d])
                      /\ client'[d] = "none" => server[d] = "none"
    BY <1>1 DEF Greeted
  <2>1. CASE d = c
    BY <1>1, <1>5, <2>1, ShortFacts
  <2>2. CASE d # c
    BY <1>5, <2>2 DEF IInv, Greeted
  <2> QED  BY <2>1, <2>2
<1>9. Parted'
  BY <1>1, <1>3, <1>5, ShortFacts DEF IInv, Parted
<1>10. ASSUME NEW m \in Ids PROVE AtOnePlace(m)' /\ Arrives(m)'
  <2>1. m \in Ids /\ AtOnePlace(m) /\ Arrives(m)
    BY <1>10 DEF IInv
  <2>2. \A q \in Processes : Fewer(inbox[q], inbox'[q], Fresh(m))
    <3>1. Fresh(m) \notin Range(<<Introspect>>) /\ Once(<<Introspect>>, Fresh(m))
      <4>1. Fresh(m) # Introspect
        BY GreetingFacts, Zenon
      <4>2. Range(<<Introspect>>) = {Introspect} /\ Once(<<Introspect>>, Fresh(m))
        BY GreetingFacts, Zenon
      <4> QED  BY <4>1, <4>2
    <3> QED  BY <1>5, <3>1 DEF Fewer
  <2>3. \A d \in Clients : Fewer(upstream[d], upstream'[d], m)
                           /\ Fewer(downstream[d], downstream'[d], m)
    BY <1>1, <1>3, <1>5, ShortFacts DEF Fewer
  <2>4. AtOnePlace(m)'
    BY <1>1, <1>2, <2>1, <2>2, <2>3, AtOnePlaceKept
  <2>5. c \notin Joined /\ Joined \subseteq Joined'
    BY <1>1, <1>5 DEF Joined
  <2>6. \A a \in Joined : Stays(a, m)
    BY <1>1, <1>5, <2>5 DEF Stays, Joined, Processes
  <2>7. \A a \in audience[m] : {a, origins[m]} \subseteq Joined
    BY <2>1 DEF Arrives
  <2> QED  BY <1>1, <2>1, <2>4, <2>5, <2>6, <2>7, ArrivesKept
<1> QED  BY <1>1, <1>4, <1>6, <1>7, <1>8, <1>9, <1>10 DEF IInv, Ids

LEMMA AcceptStep ==
  ASSUME Setting, IInv, NEW c \in Clients, AcceptClient(c)
  PROVE  IInv'
<1>1. /\ UNCHANGED <<running, isReady, inbox, params, client, upstream, downstream, origins,
                     audience, published>>
      /\ client[c] # "none" /\ server[c] = "none"
      /\ server' = [server EXCEPT ![c] = "CLIENT_MSG"]
      /\ server \in [Clients -> {"none", "CLIENT_MSG", "RECV", "gone"}]
      /\ origins \in Seq(Processes)
  BY DEF AcceptClient, historyVars, IInv, Types
<1>2. /\ \A d \in Clients : server'[d] = IF d = c THEN "CLIENT_MSG" ELSE server[d]
      /\ server' \in [Clients -> {"none", "CLIENT_MSG", "RECV", "gone"}]
  BY <1>1
<1>3. Types' /\ Contents' /\ Introduced' /\ Parted'
  BY <1>1, <1>2 DEF IInv, Types, Contents, Introduced, Parted, Ids
<1>4. Greeted'
  BY <1>1, <1>2 DEF IInv, Greeted
<1>5. ASSUME NEW m \in Ids PROVE AtOnePlace(m)' /\ Arrives(m)'
  <2>1. m \in Ids /\ AtOnePlace(m) /\ Arrives(m)
    BY <1>5 DEF IInv
  <2>2. AtOnePlace(m)'
    <3>1. /\ \A q \in Processes : Fewer(inbox[q], inbox'[q], Fresh(m))
          /\ \A d \in Clients : /\ Fewer(upstream[d], upstream'[d], m)
                                /\ Fewer(downstream[d], downstream'[d], m)
      BY <1>1 DEF Fewer
    <3> QED  BY <1>1, <2>1, <3>1, AtOnePlaceKept
  <2>3. Joined \subseteq Joined' /\ \A a \in Joined : Stays(a, m)
    BY <1>1, <1>2 DEF Joined, Stays
  <2>4. \A a \in audience[m] : {a, origins[m]} \subseteq Joined
    BY <2>1 DEF Arrives
  <2> QED  BY <1>1, <2>1, <2>2, <2>3, <2>4, ArrivesKept
<1> QED  BY <1>1, <1>3, <1>4, <1>5 DEF IInv, Ids

LEMMA ClientMsgStep ==
  ASSUME Setting, IInv, NEW c \in Clients, OnClientMsg(c)
  PROVE  IInv'
<1> DEFINE up == IF params[c] THEN << >> ELSE Tail(upstream[c])
           down == IF params[c] THEN <<ServerMsg>> ELSE << >>
<1>1. /\ UNCHANGED <<running, isReady, inbox, params, client, origins, audience, published>>
      /\ server[c] = "CLIENT_MSG" /\ upstream[c] # << >>
      /\ server' = [server EXCEPT ![c] = "RECV"]
      /\ upstream' = [upstream EXCEPT ![c] = up]
      /\ downstream' = [downstream EXCEPT ![c] = down]
      /\ upstream[c] \in Seq(Int) /\ origins \in Seq(Processes)
      /\ server \in [Clients -> {"none", "CLIENT_MSG", "RECV", "gone"}]
      /\ upstream \in [Clients -> Seq(Int)] /\ downstream \in [Clients -> Seq(Int)]
  BY DEF OnClientMsg, historyVars, IInv, Types
<1>2. /\ Tail(upstream[c]) \in Seq(Int) /\ Range(Tail(upstream[c])) \subseteq Range(upstream[c])
      /\ \A k \in DOMAIN Tail(upstream[c]) :
           k + 1 \in DOMAIN upstream[c] /\ Tail(upstream[c])[k] = upstream[c][k + 1]
      /\ \A y : Once(upstream[c], y) => Once(Tail(upstream[c]), y)
  BY <1>1, TailFacts
<1>3. ClientMsg \notin Range(Tail(upstream[c]))
  <2> SUFFICES ASSUME NEW k \in DOMAIN Tail(upstream[c]), Tail(upstream[c])[k] = ClientMsg
               PROVE  FALSE
    BY DEF Range
  <2>1. k + 1 \in DOMAIN upstream[c] /\ upstream[c][k + 1] = ClientMsg
    BY <1>2
  <2>2. k + 1 = 1 /\ k \in Nat \ {0}
    <3>1. DOMAIN Tail(upstream[c]) \subseteq Nat \ {0}
      BY <1>2, LenProperties
    <3> QED  BY <2>1, <3>1 DEF IInv, Greeted
  <2> QED  BY <2>2
<1>4. /\ up \in Seq(Int) /\ Range(up) \subseteq Range(upstream[c]) /\ ClientMsg \notin Range(up)
      /\ \A y : Once(upstream[c], y) => Once(up, y)
  <2>1. CASE params[c]
    BY <2>1, ShortFacts
  <2>2. CASE ~params[c]
    BY <1>2, <1>3, <2>2
  <2> QED  BY <2>1, <2>2
<1>5. down \in Seq(Int) /\ Range(down) \subseteq {ServerMsg} /\ \A y : Once(down, y)
  <2>1. <<ServerMsg>> \in Seq(Int)
    BY DEF ServerMsg
  <2> QED  BY <2>1, ShortFacts
<1> HIDE DEF up, down
<1>6. /\ \A d \in Clients : server'[d] = IF d = c THEN "RECV" ELSE server[d]
      /\ \A d \in Clients : upstream'[d] = IF d = c THEN up ELSE upstream[d]
      /\ \A d \in Clients : downstream'[d] = IF d = c THEN down ELSE downstream[d]
  BY <1>1
<1>7. Types'
  <2>1. upstream' \in [Clients -> Seq(Int)]
    BY <1>1, <1>4
  <2>3. downstream' \in [Clients -> Seq(Int)]
    BY <1>1, <1>5
  <2>2. server' \in [Clients -> {"none", "CLIENT_MSG", "RECV", "gone"}]
    BY <1>1
  <2> QED  BY <1>1, <2>1, <2>2, <2>3 DEF IInv, Types
<1>8. Contents'
  <2>1. \A d \in Clients : Range(upstream'[d]) \subseteq Ids \cup {ClientMsg, Goodbye}
    BY <1>4, <1>6 DEF IInv, Contents
  <2>2. \A d \in Clients : Range(downstream'[d]) \subseteq Ids \cup {ServerMsg, Goodbye}
    BY <1>5, <1>6 DEF IInv, Contents
  <2> QED  BY <1>1, <2>1, <2>2 DEF IInv, Contents, Ids
<1>9. Introduced'
  BY <1>1 DEF IInv, Introduced
<1>10. Greeted'
  <2> SUFFICES ASSUME NEW d \in Clients
               PROVE  /\ \A k \in DOMAIN upstream'[d] : upstream'[d][k] = ClientMsg => k = 1
                      /\ server'[d] \in {"RECV", "gone"} => ClientMsg \notin Range(upstream'[d])
                      /\ client[d] = "none" => server'[d] = "none"
    BY <1>1 DEF Greeted
  <2>1. CASE d = c
    <3>1. \A k \in DOMAIN upstream'[d] : upstream'[d][k] # ClientMsg
      BY <1>4, <1>6, <2>1 DEF Range
    <3> QED  BY <1>1, <1>4, <1>6, <2>1, <3>1 DEF IInv, Greeted
  <2>2. CASE d # c
    BY <1>6, <2>2 DEF IInv, Greeted
  <2> QED  BY <2>1, <2>2
<1>11. Parted'
  BY <1>1, <1>4, <1>6 DEF IInv, Parted
<1>12. ASSUME NEW m \in Ids PROVE AtOnePlace(m)' /\ Arrives(m)'
  <2>1. m \in Ids /\ AtOnePlace(m) /\ Arrives(m) /\ m # ServerMsg
    BY <1>12 DEF IInv, Ids, ServerMsg
  <2>2. \A q \in Processes : Fewer(inbox[q], inbox'[q], Fresh(m))
    BY <1>1 DEF Fewer
  <2>3. \A d \in Clients : Fewer(upstream[d], upstream'[d], m)
                           /\ Fewer(downstream[d], downstream'[d], m)
    BY <1>4, <1>5, <1>6, <2>1 DEF Fewer
  <2>4. AtOnePlace(m)'
    BY <1>1, <2>1, <2>2, <2>3, AtOnePlaceKept
  <2>5. c \notin Joined /\ Joined \subseteq Joined'
    BY <1>1, <1>6 DEF Joined, IInv, Setting
  <2>6. \A a \in Joined : Stays(a, m)
    BY <1>1, <1>6, <2>5 DEF Stays, Joined
  <2>7. \A a \in audience[m] : {a, origins[m]} \subseteq Joined
    BY <2>1 DEF Arrives
  <2> QED  BY <1>1, <2>1, <2>4, <2>5, <2>6, <2>7, ArrivesKept
<1> QED  BY <1>1, <1>7, <1>8, <1>9, <1>10, <1>11, <1>12 DEF IInv, Ids

LEMMA ServerMsgStep ==
  ASSUME Setting, IInv, NEW c \in Clients, NEW n \in DOMAIN downstream[c], OnServerMsg(c, n)
  PROVE  IInv'
<1> DEFINE down == RemoveAt(downstream[c], n)
<1>1. /\ UNCHANGED <<running, isReady, inbox, params, server, upstream, origins, audience,
                     published>>
      /\ client[c] = "SERVER_MSG" /\ downstream[c][n] = ServerMsg
      /\ client' = [client EXCEPT ![c] = "RECV"]
      /\ downstream' = [downstream EXCEPT ![c] = down]
      /\ downstream[c] \in Seq(Int) /\ origins \in Seq(Processes)
      /\ client \in [Clients -> {"none", "SERVER_MSG", "RECV"}]
      /\ downstream \in [Clients -> Seq(Int)]
  BY DEF OnServerMsg, historyVars, IInv, Types
<1>2. /\ down \in Seq(Int) /\ Range(down) \subseteq Range(downstream[c])
      /\ Range(downstream[c]) \subseteq Range(down) \cup {ServerMsg}
      /\ \A y : Once(downstream[c], y) => Once(down, y)
  <2>1. n \in 1 .. Len(downstream[c])
    BY <1>1, LenProperties
  <2> QED  BY <1>1, <2>1, RemoveFacts
<1> HIDE DEF down
<1>3. /\ \A d \in Clients : client'[d] = IF d = c THEN "RECV" ELSE client[d]
      /\ \A d \in Clients : downstream'[d] = IF d = c THEN down ELSE downstream[d]
  BY <1>1
<1>4. Types'
  <2>1. /\ downstream' \in [Clients -> Seq(Int)]
        /\ client' \in [Clients -> {"none", "SERVER_MSG", "RECV"}]
    BY <1>1, <1>2
  <2> QED  BY <1>1, <2>1 DEF IInv, Types
<1>5. Contents'
  <2>1. \A d \in Clients : Range(downstream'[d]) \subseteq Ids \cup {ServerMsg, Goodbye}
    BY <1>2, <1>3 DEF IInv, Contents
  <2> QED  BY <1>1, <2>1 DEF IInv, Contents, Ids
<1>6. Introduced' /\ Parted'
  BY <1>1 DEF IInv, Introduced, Parted
<1>7. Greeted'
  BY <1>1, <1>3 DEF IInv, Greeted
<1>8. ASSUME NEW m \in Ids PROVE AtOnePlace(m)' /\ Arrives(m)'
  <2>1. m \in Ids /\ AtOnePlace(m) /\ Arrives(m) /\ m # ServerMsg
    BY <1>8 DEF IInv, Ids, ServerMsg
  <2>2. \A q \in Processes : Fewer(inbox[q], inbox'[q], Fresh(m))
    BY <1>1 DEF Fewer
  <2>3. \A d \in Clients : Fewer(upstream[d], upstream'[d], m)
                           /\ Fewer(downstream[d], downstream'[d], m)
    BY <1>1, <1>2, <1>3 DEF Fewer
  <2>4. AtOnePlace(m)'
    BY <1>1, <2>1, <2>2, <2>3, AtOnePlaceKept
  <2>5. Joined \subseteq Joined'
    BY <1>1, <1>3 DEF Joined
  <2>6. \A a \in Joined : Stays(a, m)
    BY <1>1, <1>2, <1>3, <2>1 DEF Stays, Joined
  <2>7. \A a \in audience[m] : {a, origins[m]} \subseteq Joined
    BY <2>1 DEF Arrives
  <2> QED  BY <1>1, <2>1, <2>4, <2>5, <2>6, <2>7, ArrivesKept
<1> QED  BY <1>1, <1>4, <1>5, <1>6, <1>7, <1>8 DEF IInv, Ids
-----------------------------------------------------------------------------
(* Leaving *)

LEMMA ExcusedFacts ==
  ASSUME IInv, NEW gone
  PROVE  /\ Excused(gone) \in Seq(SUBSET Processes) /\ Len(Excused(gone)) = Len(origins)
         /\ \A m \in Ids : Excused(gone)[m] = IF origins[m] \in gone THEN {}
                                              ELSE audience[m] \ gone
<1>1. /\ audience \in Seq(SUBSET Processes) /\ Len(audience) = Len(origins)
      /\ Len(audience) \in Nat /\ DOMAIN audience = 1 .. Len(audience)
      /\ DOMAIN audience = Ids
      /\ \A m \in DOMAIN audience : audience[m] \subseteq Processes
  BY LenProperties, ElementOfSeq DEF IInv, Types, Ids
<1>2. Excused(gone) \in [1 .. Len(audience) -> SUBSET Processes]
  BY <1>1 DEF Excused
<1>3. Excused(gone) \in Seq(SUBSET Processes)
  BY <1>1, <1>2, SeqDef
<1>4. Len(Excused(gone)) = Len(audience)
  BY <1>1, <1>2, <1>3, LenProperties
<1>5. \A m \in Ids : Excused(gone)[m] = IF origins[m] \in gone THEN {} ELSE audience[m] \ gone
  BY <1>1 DEF Excused
<1> QED  BY <1>1, <1>3, <1>4, <1>5

LEMMA QuitStep ==
  ASSUME Setting, IInv, NEW c \in Clients, ClientQuits(c)
  PROVE  IInv'
<1> DEFINE up == Append(upstream[c], Goodbye)
<1>1. /\ UNCHANGED <<isReady, params, client, server, origins, published>>
      /\ c \in Processes /\ c # Server
      /\ running' = running \ {c}
      /\ upstream' = [upstream EXCEPT ![c] = up]
      /\ inbox' = [inbox EXCEPT ![c] = << >>]
      /\ downstream' = [downstream EXCEPT ![c] = << >>]
      /\ audience' = Excused({c})
      /\ upstream[c] \in Seq(Int) /\ origins \in Seq(Processes) /\ running \subseteq Processes
      /\ inbox \in [Processes -> Seq(Items)]
      /\ upstream \in [Clients -> Seq(Int)] /\ downstream \in [Clients -> Seq(Int)]
  BY DEF ClientQuits, IInv, Types, Processes, Setting
<1>2. /\ Goodbye \in Int /\ Goodbye # ClientMsg /\ Goodbye \notin Ids
  BY DEF Goodbye, ClientMsg, Ids
<1>3. /\ up \in Seq(Int) /\ Range(up) = Range(upstream[c]) \cup {Goodbye}
      /\ \A y : Once(upstream[c], y) /\ y # Goodbye => Once(up, y)
  <2>1. upstream[c] \in Seq(Int) /\ Goodbye \in Int
    BY <1>1, <1>2
  <2>2. /\ up \in Seq(Int) /\ Range(up) = Range(upstream[c]) \cup {Goodbye}
        /\ \A y : Once(upstream[c], y) /\ (y # Goodbye \/ y \notin Range(upstream[c]))
                  => Once(up, y)
    BY <2>1, AppendFacts, Zenon
  <2> QED  BY <2>2
<1>4. \A k \in DOMAIN up : up[k] = ClientMsg => k \in DOMAIN upstream[c] /\ up[k] = upstream[c][k]
  BY <1>1, <1>2, AppendProperties, LenProperties
<1> HIDE DEF up
<1>5. /\ \A p \in Processes : inbox'[p] = IF p = c THEN << >> ELSE inbox[p]
      /\ \A d \in Clients : upstream'[d] = IF d = c THEN up ELSE upstream[d]
      /\ \A d \in Clients : downstream'[d] = IF d = c THEN << >> ELSE downstream[d]
  BY <1>1
<1>6. Types'
  <2>1. /\ << >> \in Seq(Int) /\ << >> \in Seq(Items)
    BY ShortFacts
  <2>2. upstream' \in [Clients -> Seq(Int)]
    BY <1>1, <1>3
  <2>3. downstream' \in [Clients -> Seq(Int)]
    BY <1>1, <2>1
  <2>4. inbox' \in [Processes -> Seq(Items)] /\ running' \subseteq Processes
    BY <1>1, <2>1
  <2>5. audience' \in Seq(SUBSET Processes) /\ Len(audience') = Len(origins)
    BY <1>1, ExcusedFacts
  <2> QED  BY <1>1, <2>2, <2>3, <2>4, <2>5 DEF IInv, Types
<1>7. Contents'
  <2>1. \A p \in Processes : \A x \in Range(inbox'[p]) : x = Introspect \/ x.id \in Ids
    BY <1>5, ShortFacts DEF IInv, Contents
  <2>2. \A d \in Clients : Range(upstream'[d]) \subseteq Ids \cup {ClientMsg, Goodbye}
    BY <1>3, <1>5 DEF IInv, Contents
  <2>3. \A d \in Clients : Range(downstream'[d]) \subseteq Ids \cup {ServerMsg, Goodbye}
    BY <1>5, ShortFacts DEF IInv, Contents
  <2> QED  BY <1>1, <2>1, <2>2, <2>3 DEF IInv, Contents, Ids
<1>8. Introduced'
  BY <1>1, <1>5 DEF IInv, Introduced
<1>9. Greeted'
  <2> SUFFICES ASSUME NEW d \in Clients
               PROVE  /\ \A k \in DOMAIN upstream'[d] : upstream'[d][k] = ClientMsg => k = 1
                      /\ server[d] \in {"RECV", "gone"} => ClientMsg \notin Range(upstream'[d])
                      /\ client[d] = "none" => server[d] = "none"
    BY <1>1 DEF Greeted
  <2>1. CASE d = c
    <3>1. \A k \in DOMAIN upstream'[d] : upstream'[d][k] = ClientMsg => k = 1
      BY <1>4, <1>5, <2>1 DEF IInv, Greeted
    <3>2. server[d] \in {"RECV", "gone"} => ClientMsg \notin Range(upstream'[d])
      BY <1>2, <1>3, <1>5, <2>1 DEF IInv, Greeted
    <3> QED  BY <3>1, <3>2 DEF IInv, Greeted
  <2>2. CASE d # c
    BY <1>5, <2>2 DEF IInv, Greeted
  <2> QED  BY <2>1, <2>2
<1>10. Parted'
  BY <1>1, <1>5 DEF IInv, Parted
<1>11. ASSUME NEW m \in Ids PROVE AtOnePlace(m)' /\ Arrives(m)'
  <2>1. m \in Ids /\ AtOnePlace(m) /\ Arrives(m) /\ m # Goodbye
    BY <1>2, <1>11 DEF IInv
  <2>2. \A q \in Processes : Fewer(inbox[q], inbox'[q], Fresh(m))
    BY <1>5, ShortFacts DEF Fewer
  <2>3. \A d \in Clients : Fewer(upstream[d], upstream'[d], m)
                           /\ Fewer(downstream[d], downstream'[d], m)
    BY <1>3, <1>5, <2>1, ShortFacts DEF Fewer
  <2>4. AtOnePlace(m)'
    BY <1>1, <2>1, <2>2, <2>3, AtOnePlaceKept
  <2>5. Joined' = Joined \ {c}
    BY <1>1 DEF Joined
  <2>6. \A a \in Joined' : Stays(a, m)
    BY <1>1, <1>5, <2>5 DEF Stays, Joined, Processes
  <2>7. audience'[m] = IF origins[m] = c THEN {} ELSE audience[m] \ {c}
    BY <1>1, <2>1, ExcusedFacts
  <2>8. \A a \in audience'[m] : {a, origins[m]} \subseteq Joined'
    BY <2>1, <2>5, <2>7 DEF Arrives
  <2> QED  BY <1>1, <2>1, <2>4, <2>6, <2>7, <2>8, ArrivesKept
<1> QED  BY <1>1, <1>6, <1>7, <1>8, <1>9, <1>10, <1>11 DEF IInv, Ids

LEMMA ServerEndsStep ==
  ASSUME Setting, IInv, ServerEnds
  PROVE  IInv'
<1> DEFINE told == { c \in Clients \cap running : ~params[c] \/ server[c] # "RECV" }
<1>1. /\ UNCHANGED <<isReady, params, client, server, origins, published>>
      /\ running' = running \ {Server} /\ Server \in Processes
      /\ upstream' = [c \in Clients |-> << >>]
      /\ inbox' = [inbox EXCEPT ![Server] = << >>]
      /\ audience' = Excused(Processes)
      /\ origins \in Seq(Processes) /\ running \subseteq Processes
      /\ inbox \in [Processes -> Seq(Items)]
      /\ downstream \in [Clients -> Seq(Int)]
  BY DEF ServerEnds, IInv, Types, Processes
<1>2. downstream' = [c \in Clients |-> IF c \in told THEN Append(downstream[c], Goodbye)
                                       ELSE downstream[c]]
  BY DEF ServerEnds
<1> HIDE DEF told
<1>3. Goodbye \in Int /\ Goodbye \notin Ids
  BY DEF Goodbye, Ids
<1>4. ASSUME NEW c \in Clients
      PROVE  /\ downstream'[c] \in Seq(Int)
             /\ Range(downstream'[c]) \subseteq Range(downstream[c]) \cup {Goodbye}
             /\ \A y : y # Goodbye /\ Once(downstream[c], y) => Once(downstream'[c], y)
  <2>1. downstream[c] \in Seq(Int)
    BY <1>1
  <2>2. downstream'[c] \in {downstream[c], Append(downstream[c], Goodbye)}
    BY <1>2
  <2>3. /\ Append(downstream[c], Goodbye) \in Seq(Int)
        /\ Range(Append(downstream[c], Goodbye)) = Range(downstream[c]) \cup {Goodbye}
        /\ \A y : Once(downstream[c], y) /\ (y # Goodbye \/ y \notin Range(downstream[c]))
                  => Once(Append(downstream[c], Goodbye), y)
    BY <1>3, <2>1, AppendFacts, Zenon
  <2> HIDE DEF Goodbye
  <2> QED  BY <2>1, <2>2, <2>3
<1>5. /\ \A p \in Processes : inbox'[p] = IF p = Server THEN << >> ELSE inbox[p]
      /\ \A c \in Clients : upstream'[c] = << >>
  BY <1>1
<1>6. Types'
  <2>1. /\ << >> \in Seq(Int) /\ << >> \in Seq(Items)
    BY ShortFacts
  <2>2. upstream' \in [Clients -> Seq(Int)]
    BY <1>1, <2>1
  <2>3. downstream' \in [Clients -> Seq(Int)]
    BY <1>2, <1>4
  <2>4. inbox' \in [Processes -> Seq(Items)] /\ running' \subseteq Processes
    BY <1>1, <2>1
  <2>5. audience' \in Seq(SUBSET Processes) /\ Len(audience') = Len(origins)
    BY <1>1, ExcusedFacts
  <2> QED  BY <1>1, <2>2, <2>3, <2>4, <2>5 DEF IInv, Types
<1>7. Contents'
  <2>1. \A p \in Processes : \A x \in Range(inbox'[p]) : x = Introspect \/ x.id \in Ids
    BY <1>5, ShortFacts DEF IInv, Contents
  <2>2. \A d \in Clients : Range(upstream'[d]) \subseteq Ids \cup {ClientMsg, Goodbye}
    BY <1>5, ShortFacts
  <2>3. \A d \in Clients : Range(downstream'[d]) \subseteq Ids \cup {ServerMsg, Goodbye}
    BY <1>4 DEF IInv, Contents
  <2> QED  BY <1>1, <2>1, <2>2, <2>3 DEF IInv, Contents, Ids
<1>8. Introduced'
  BY <1>1, <1>5 DEF IInv, Introduced
<1>9. Greeted' /\ Parted'
  <2>1. \A c \in Clients : DOMAIN upstream'[c] = {} /\ Range(upstream'[c]) = {}
    BY <1>5, ShortFacts, EmptySeq
  <2> QED  BY <1>1, <2>1 DEF IInv, Greeted, Parted
<1>10. ASSUME NEW m \in Ids PROVE AtOnePlace(m)' /\ Arrives(m)'
  <2>1. m \in Ids /\ AtOnePlace(m) /\ Arrives(m) /\ m # Goodbye /\ origins[m] \in Processes
    BY <1>1, <1>3, <1>10, ElementOfSeq DEF IInv, Ids
  <2>2. \A q \in Processes : Fewer(inbox[q], inbox'[q], Fresh(m))
    BY <1>5, ShortFacts DEF Fewer
  <2>3. \A d \in Clients : Fewer(upstream[d], upstream'[d], m)
                           /\ Fewer(downstream[d], downstream'[d], m)
    BY <1>4, <1>5, <2>1, ShortFacts DEF Fewer
  <2>4. AtOnePlace(m)'
    BY <1>1, <2>1, <2>2, <2>3, AtOnePlaceKept
  <2>5. audience'[m] = {}
    BY <1>1, <2>1, ExcusedFacts
  <2> QED  BY <2>4, <2>5 DEF Arrives
<1> QED  BY <1>1, <1>6, <1>7, <1>8, <1>9, <1>10 DEF IInv, Ids

LEMMA ServerDisconnectStep ==
  ASSUME Setting, IInv, NEW c \in Clients, NEW n \in DOMAIN upstream[c],
         ServerDisconnects(c, n)
  PROVE  IInv'
<1>1. CASE ServerEnds
  BY <1>1, ServerEndsStep
<1>2. CASE ~ServerEnds
  <2>1. /\ UNCHANGED <<running, isReady, inbox, params, client, downstream, origins, audience,
                       published>>
        /\ upstream[c][n] = Goodbye /\ server[c] = "RECV"
        /\ server' = [server EXCEPT ![c] = "gone"]
        /\ upstream' = [upstream EXCEPT ![c] = << >>]
        /\ server \in [Clients -> {"none", "CLIENT_MSG", "RECV", "gone"}]
        /\ upstream \in [Clients -> Seq(Int)] /\ origins \in Seq(Processes)
    BY <1>2 DEF ServerDisconnects, historyVars, IInv, Types
  <2>2. c \notin running
    BY <2>1 DEF IInv, Parted, Range
  <2>3. /\ \A d \in Clients : server'[d] = IF d = c THEN "gone" ELSE server[d]
        /\ \A d \in Clients : upstream'[d] = IF d = c THEN << >> ELSE upstream[d]
    BY <2>1
  <2>4. Types'
    <3>1. upstream' \in [Clients -> Seq(Int)]
      BY <2>1, ShortFacts
    <3>2. server' \in [Clients -> {"none", "CLIENT_MSG", "RECV", "gone"}]
      BY <2>1
    <3> QED  BY <2>1, <3>1, <3>2 DEF IInv, Types
  <2>5. Contents'
    <3>1. \A d \in Clients : Range(upstream'[d]) \subseteq Ids \cup {ClientMsg, Goodbye}
      BY <2>3, ShortFacts DEF IInv, Contents
    <3> QED  BY <2>1, <3>1 DEF IInv, Contents, Ids
  <2>6. Introduced'
    BY <2>1 DEF IInv, Introduced
  <2>7. Greeted' /\ Parted'
    <3>1. DOMAIN upstream'[c] = {} /\ Range(upstream'[c]) = {}
      BY <2>3, ShortFacts, EmptySeq
    <3>2. client[c] # "none"
      BY <2>1 DEF IInv, Greeted
    <3> QED  BY <2>1, <2>3, <3>1, <3>2 DEF IInv, Greeted, Parted
  <2>8. ASSUME NEW m \in Ids PROVE AtOnePlace(m)' /\ Arrives(m)'
    <3>1. m \in Ids /\ AtOnePlace(m) /\ Arrives(m)
      BY <2>8 DEF IInv
    <3>2. AtOnePlace(m)'
      <4>1. \A q \in Processes : Fewer(inbox[q], inbox'[q], Fresh(m))
        BY <2>1 DEF Fewer
      <4>2. \A d \in Clients : Fewer(upstream[d], upstream'[d], m)
                               /\ Fewer(downstream[d], downstream'[d], m)
        BY <2>1, <2>3, ShortFacts DEF Fewer
      <4> QED  BY <2>1, <3>1, <4>1, <4>2, AtOnePlaceKept
    <3>3. Joined' = Joined /\ (c # Server => c \notin Joined)
      BY <2>1, <2>2, <2>3 DEF Joined
    <3>4. \A a \in Joined : Stays(a, m)
      BY <2>1, <2>3, <3>3 DEF Stays, Joined
    <3>5. \A a \in audience[m] : {a, origins[m]} \subseteq Joined
      BY <3>1 DEF Arrives
    <3> QED  BY <2>1, <3>1, <3>2, <3>3, <3>4, <3>5, ArrivesKept
  <2> QED  BY <2>1, <2>4, <2>5, <2>6, <2>7, <2>8 DEF IInv, Ids
<1> QED  BY <1>1, <1>2

LEMMA ClientDisconnectStep ==
  ASSUME Setting, IInv, NEW c \in Clients, NEW n \in DOMAIN downstream[c],
         ClientDisconnects(c, n)
  PROVE  IInv'
<1>1. /\ UNCHANGED <<isReady, params, client, server, upstream, origins, published>>
      /\ c \in Processes /\ c # Server
      /\ running' = running \ {c}
      /\ inbox' = [inbox EXCEPT ![c] = << >>]
      /\ downstream' = [downstream EXCEPT ![c] = << >>]
      /\ audience' = Excused({c})
      /\ origins \in Seq(Processes) /\ running \subseteq Processes
      /\ inbox \in [Processes -> Seq(Items)] /\ downstream \in [Clients -> Seq(Int)]
  BY DEF ClientDisconnects, IInv, Types, Processes, Setting
<1>2. /\ \A p \in Processes : inbox'[p] = IF p = c THEN << >> ELSE inbox[p]
      /\ \A d \in Clients : downstream'[d] = IF d = c THEN << >> ELSE downstream[d]
  BY <1>1
<1>3. Types'
  <2>1. inbox' \in [Processes -> Seq(Items)] /\ running' \subseteq Processes
    BY <1>1, ShortFacts
  <2>2. downstream' \in [Clients -> Seq(Int)]
    BY <1>1, ShortFacts
  <2>3. audience' \in Seq(SUBSET Processes) /\ Len(audience') = Len(origins)
    BY <1>1, ExcusedFacts
  <2> QED  BY <1>1, <2>1, <2>2, <2>3 DEF IInv, Types
<1>4. Contents'
  <2>1. \A p \in Processes : \A x \in Range(inbox'[p]) : x = Introspect \/ x.id \in Ids
    BY <1>2, ShortFacts DEF IInv, Contents
  <2>2. \A d \in Clients : Range(downstream'[d]) \subseteq Ids \cup {ServerMsg, Goodbye}
    BY <1>2, ShortFacts DEF IInv, Contents
  <2> QED  BY <1>1, <2>1, <2>2 DEF IInv, Contents, Ids
<1>5. Introduced' /\ Greeted' /\ Parted'
  BY <1>1, <1>2 DEF IInv, Introduced, Greeted, Parted
<1>6. ASSUME NEW m \in Ids PROVE AtOnePlace(m)' /\ Arrives(m)'
  <2>1. m \in Ids /\ AtOnePlace(m) /\ Arrives(m)
    BY <1>6 DEF IInv
  <2>2. \A q \in Processes : Fewer(inbox[q], inbox'[q], Fresh(m))
    BY <1>2, ShortFacts DEF Fewer
  <2>3. \A d \in Clients : Fewer(upstream[d], upstream'[d], m)
                           /\ Fewer(downstream[d], downstream'[d], m)
    BY <1>1, <1>2, ShortFacts DEF Fewer
  <2>4. AtOnePlace(m)'
    BY <1>1, <2>1, <2>2, <2>3, AtOnePlaceKept
  <2>5. Joined' = Joined \ {c}
    BY <1>1 DEF Joined
  <2>6. \A a \in Joined' : Stays(a, m)
    BY <1>1, <1>2, <2>5 DEF Stays, Joined, Processes
  <2>7. audience'[m] = IF origins[m] = c THEN {} ELSE audience[m] \ {c}
    BY <1>1, <2>1, ExcusedFacts
  <2>8. \A a \in audience'[m] : {a, origins[m]} \subseteq Joined'
    BY <2>1, <2>5, <2>7 DEF Arrives
  <2> QED  BY <1>1, <2>1, <2>4, <2>6, <2>7, <2>8, ArrivesKept
<1> QED  BY <1>1, <1>3, <1>4, <1>5, <1>6 DEF IInv, Ids
-----------------------------------------------------------------------------
(* Messages *)

\* The streams of T have got x behind what they had, the others nothing.
Added(old, new, T, x) ==
  /\ new \in [Clients -> Seq(Int)]
  /\ \A d \in Clients :
       /\ Range(new[d]) = IF d \in T THEN Range(old[d]) \cup {x} ELSE Range(old[d])
       /\ \A y : (/\ Once(old[d], y)
                  /\ y = x /\ d \in T => y \notin Range(old[d]))
                 => Once(new[d], y)

LEMMA SentFacts ==
  ASSUME NEW streams \in [Clients -> Seq(Int)], NEW T, NEW x \in Int,
         NEW sent, sent = [d \in Clients |-> IF d \in T THEN Append(streams[d], x)
                                             ELSE streams[d]]
  PROVE  Added(streams, sent, T, x)
<1>1. ASSUME NEW d \in Clients
      PROVE  /\ sent[d] \in Seq(Int)
             /\ Range(sent[d]) = IF d \in T THEN Range(streams[d]) \cup {x}
                                 ELSE Range(streams[d])
             /\ \A y : (/\ Once(streams[d], y)
                        /\ y = x /\ d \in T => y \notin Range(streams[d]))
                       => Once(sent[d], y)
  <2>1. streams[d] \in Seq(Int)
    OBVIOUS
  <2>2. /\ Append(streams[d], x) \in Seq(Int)
        /\ Range(Append(streams[d], x)) = Range(streams[d]) \cup {x}
        /\ \A y : Once(streams[d], y) /\ (y # x \/ y \notin Range(streams[d]))
                  => Once(Append(streams[d], x), y)
    BY <2>1, AppendFacts, Zenon
  <2>3. CASE d \in T
    <3>1. sent[d] = Append(streams[d], x)
      BY <2>3
    <3> QED  BY <2>2, <2>3, <3>1, Zenon
  <2>4. CASE d \notin T
    BY <2>1, <2>4
  <2> QED  BY <2>3, <2>4
<1>2. sent \in [Clients -> Seq(Int)]
  BY <1>1
<1> QED  BY <1>1, <1>2, Zenon DEF Added

\* What p publishes, it hears, and knows that it is its own.
LEMMA PublishFacts ==
  ASSUME IInv, NEW p \in Processes, NEW x \in Ids, LcmPublish(p, x)
  PROVE  /\ inbox' \in [Processes -> Seq(Items)] /\ published' \in [Processes -> Seq(Int)]
         /\ \A q \in Processes :
              /\ \A i \in Range(inbox'[q]) : i \in Range(inbox[q]) \/ i.id \in Ids
              /\ \A m : Fresh(m) \in Range(inbox'[q]) <=> Fresh(m) \in Range(inbox[q])
              /\ \A m : Once(inbox[q], Fresh(m)) => Once(inbox'[q], Fresh(m))
              /\ inbox[q] # << >> => inbox'[q] # << >> /\ Head(inbox'[q]) = Head(inbox[q])
              /\ q # p => inbox'[q] = inbox[q] /\ published'[q] = published[q]
         /\ Range(published'[p]) = Range(published[p]) \cup {x}
         /\ \A m : Once(published[p], m) /\ (m # x \/ m \notin Range(published[p]))
                   => Once(published'[p], m)
<1> DEFINE item == [id |-> x, self |-> TRUE]
<1>1. /\ inbox \in [Processes -> Seq(Items)] /\ published \in [Processes -> Seq(Int)]
      /\ inbox[p] \in Seq(Items) /\ published[p] \in Seq(Int)
      /\ inbox' = [inbox EXCEPT ![p] = Append(inbox[p], item)]
      /\ published' = [published EXCEPT ![p] = Append(published[p], x)]
  BY DEF IInv, Types, LcmPublish
<1>2. /\ x \in Int /\ item \in Items /\ item.id = x
      /\ \A m : item # Fresh(m)
  <2>1. x \in Int
    BY DEF Ids
  <2> QED  BY <2>1 DEF Items, Fresh
<1> HIDE DEF item
<1>3. /\ Append(inbox[p], item) \in Seq(Items) /\ Append(inbox[p], item) # << >>
      /\ Range(Append(inbox[p], item)) = Range(inbox[p]) \cup {item}
      /\ inbox[p] # << >> => Head(Append(inbox[p], item)) = Head(inbox[p])
      /\ \A y : Once(inbox[p], y) /\ (y # item \/ y \notin Range(inbox[p]))
                => Once(Append(inbox[p], item), y)
  BY <1>1, <1>2, AppendFacts, Zenon
<1>4. /\ Append(published[p], x) \in Seq(Int)
      /\ Range(Append(published[p], x)) = Range(published[p]) \cup {x}
      /\ \A y : Once(published[p], y) /\ (y # x \/ y \notin Range(published[p]))
                => Once(Append(published[p], x), y)
  <2>1. published[p] \in Seq(Int) /\ x \in Int
    BY <1>1, <1>2
  <2> QED  BY <2>1, AppendNumber
<1>5. /\ \A q \in Processes : inbox'[q] = IF q = p THEN Append(inbox[p], item) ELSE inbox[q]
      /\ \A q \in Processes : published'[q] = IF q = p THEN Append(published[p], x)
                                              ELSE published[q]
  BY <1>1
<1>6. inbox' \in [Processes -> Seq(Items)]
  BY <1>1, <1>3
<1>7. published' \in [Processes -> Seq(Int)]
  BY <1>1, <1>4
<1>8. ASSUME NEW q \in Processes
      PROVE  /\ \A i \in Range(inbox'[q]) : i \in Range(inbox[q]) \/ i.id \in Ids
             /\ \A m : Fresh(m) \in Range(inbox'[q]) <=> Fresh(m) \in Range(inbox[q])
             /\ \A m : Once(inbox[q], Fresh(m)) => Once(inbox'[q], Fresh(m))
             /\ inbox[q] # << >> => inbox'[q] # << >> /\ Head(inbox'[q]) = Head(inbox[q])
             /\ q # p => inbox'[q] = inbox[q] /\ published'[q] = published[q]
  <2>1. CASE q = p
    <3>1. inbox'[q] = Append(inbox[p], item)
      BY <1>5, <2>1
    <3>2. \A m : Fresh(m) \in Range(inbox'[q]) <=> Fresh(m) \in Range(inbox[q])
      BY <1>2, <1>3, <2>1, <3>1
    <3>3. ASSUME NEW m, Once(inbox[q], Fresh(m)) PROVE Once(inbox'[q], Fresh(m))
      <4>1. Once(inbox[p], Fresh(m)) /\ Fresh(m) # item
        BY <1>2, <2>1, <3>3
      <4>2. Once(Append(inbox[p], item), Fresh(m))
        BY <1>3, <4>1, Zenon
      <4> QED  BY <3>1, <4>2, Zenon
    <3>4. \A i \in Range(inbox'[q]) : i \in Range(inbox[q]) \/ i.id \in Ids
      BY <1>2, <1>3, <2>1, <3>1
    <3> QED  BY <1>3, <2>1, <3>1, <3>2, <3>3, <3>4
  <2>2. CASE q # p
    <3>1. inbox'[q] = inbox[q] /\ published'[q] = published[q]
      BY <1>5, <2>2
    <3> QED  BY <2>2, <3>1
  <2> QED  BY <2>1, <2>2
<1>9. /\ Range(published'[p]) = Range(published[p]) \cup {x}
      /\ \A m : Once(published[p], m) /\ (m # x \/ m \notin Range(published[p]))
                => Once(published'[p], m)
  <2>1. published'[p] = Append(published[p], x)
    BY <1>5
  <2> QED  BY <1>4, <2>1, Zenon
<1> QED  BY <1>6, <1>7, <1>8, <1>9, Zenon

LEMMA PublishesStep ==
  ASSUME Setting, IInv, NEW p \in Processes, ProgramPublishes(p)
  PROVE  IInv'
<1> DEFINE who == IF p \in Joined THEN Joined \ {p} ELSE {}
<1>0. PICK x \in Nat : x = Len(origins) + 1
  BY LenProperties DEF IInv, Types
<1>1. /\ UNCHANGED <<running, isReady, params, client, server, upstream, downstream, published>>
      /\ origins' = Append(origins, p)
      /\ audience' = Append(audience, who)
      /\ inbox' = [inbox EXCEPT ![p] = Append(inbox[p], [id |-> Len(origins'), self |-> FALSE])]
      /\ origins \in Seq(Processes) /\ audience \in Seq(SUBSET Processes)
      /\ Len(audience) = Len(origins) /\ Len(origins) \in Nat
      /\ inbox \in [Processes -> Seq(Items)] /\ inbox[p] \in Seq(Items)
  BY LenProperties DEF ProgramPublishes, streamVars, IInv, Types
<1>2. who \subseteq Processes
  BY DEF Joined, Processes
<1> HIDE DEF who
<1>3. /\ origins' \in Seq(Processes) /\ Len(origins') = x
      /\ \A m \in Ids : origins'[m] = origins[m]
      /\ origins'[x] = p
  BY <1>0, <1>1, AppendProperties DEF Ids
<1>4. /\ audience' \in Seq(SUBSET Processes) /\ Len(audience') = x
      /\ \A m \in Ids : audience'[m] = audience[m]
      /\ audience'[x] = who
  BY <1>0, <1>1, <1>2, AppendProperties DEF Ids
<1>5. x \in Int /\ x \notin Ids /\ Ids' = Ids \cup {x} /\ Ids \subseteq Int
  BY <1>0, <1>1, <1>3 DEF Ids
<1>6. inbox' = [inbox EXCEPT ![p] = Append(inbox[p], Fresh(x))]
  BY <1>1, <1>3 DEF Fresh
<1>7. /\ Fresh(x) \in Items /\ Fresh(x).id = x
      /\ \A m : Fresh(m) = Fresh(x) => m = x
      /\ Fresh(x) # Introspect
  BY <1>5 DEF Fresh, Items, Introspect
<1>8. /\ Append(inbox[p], Fresh(x)) \in Seq(Items) /\ Append(inbox[p], Fresh(x)) # << >>
      /\ Range(Append(inbox[p], Fresh(x))) = Range(inbox[p]) \cup {Fresh(x)}
      /\ inbox[p] # << >> => Head(Append(inbox[p], Fresh(x))) = Head(inbox[p])
      /\ \A y : Once(inbox[p], y) /\ (y # Fresh(x) \/ y \notin Range(inbox[p]))
                => Once(Append(inbox[p], Fresh(x)), y)
  BY <1>1, <1>7, AppendFacts, Zenon
<1>9. \A q \in Processes :
        inbox'[q] = IF q = p THEN Append(inbox[p], Fresh(x)) ELSE inbox[q]
  BY <1>1, <1>6
<1>10. Types'
  <2>1. inbox' \in [Processes -> Seq(Items)]
    BY <1>1, <1>6, <1>8
  <2> QED  BY <1>1, <1>3, <1>4, <2>1 DEF IInv, Types
<1>11. Contents'
  <2>1. ASSUME NEW q \in Processes, NEW i \in Range(inbox'[q])
        PROVE  i = Introspect \/ i.id \in Ids'
    <3>1. i \in Range(inbox[q]) \/ i = Fresh(x)
      BY <1>8, <1>9, <2>1
    <3> QED  BY <1>5, <1>7, <3>1 DEF IInv, Contents
  <2>2. Ids \subseteq Ids'
    BY <1>5
  <2> QED  BY <1>1, <2>1, <2>2 DEF IInv, Contents
<1>12. Introduced'
  <2> SUFFICES ASSUME NEW q \in running \ isReady
               PROVE  inbox'[q] # << >> /\ Head(inbox'[q]) = Introspect
    BY <1>1 DEF Introduced
  <2>1. inbox[q] # << >> /\ Head(inbox[q]) = Introspect /\ q \in Processes
    BY DEF IInv, Introduced, Types
  <2> QED  BY <1>8, <1>9, <2>1
<1>13. Greeted' /\ Parted'
  BY <1>1 DEF IInv, Greeted, Parted
<1>14. Joined' = Joined
  BY <1>1 DEF Joined
<1>15. ASSUME NEW m \in Ids PROVE AtOnePlace(m)' /\ Arrives(m)'
  <2>1. /\ m \in Ids /\ AtOnePlace(m) /\ Arrives(m) /\ AsPublished(m) /\ m # x
        /\ Fresh(m) # Fresh(x)
    BY <1>1, <1>5, <1>7, <1>15 DEF IInv, AsPublished
  <2>2. \A q \in Processes : Fewer(inbox[q], inbox'[q], Fresh(m))
    <3> SUFFICES ASSUME NEW q \in Processes, q = p PROVE Fewer(inbox[q], inbox'[q], Fresh(m))
      BY <1>9 DEF Fewer
    <3>1. Fresh(m) \in Range(Append(inbox[p], Fresh(x))) => Fresh(m) \in Range(inbox[p])
      BY <1>8, <2>1
    <3>2. Once(inbox[p], Fresh(m)) => Once(Append(inbox[p], Fresh(x)), Fresh(m))
      BY <1>8, <2>1, Zenon
    <3> QED  BY <1>9, <3>1, <3>2 DEF Fewer
  <2>3. \A d \in Clients : Fewer(upstream[d], upstream'[d], m)
                           /\ Fewer(downstream[d], downstream'[d], m)
    BY <1>1 DEF Fewer
  <2>4. AtOnePlace(m)'
    BY <1>1, <1>3, <2>1, <2>2, <2>3, AtOnePlaceStays
  <2>5. \A a \in Joined : Stays(a, m)
    BY <1>1, <1>8, <1>9 DEF Stays, Joined, Processes
  <2>6. \A a \in audience[m] : {a, origins[m]} \subseteq Joined
    BY <2>1 DEF Arrives
  <2> QED  BY <1>3, <1>4, <1>14, <2>1, <2>4, <2>5, <2>6, ArrivesStays
<1>16. AtOnePlace(x)'
  <2>1. /\ \A q \in Processes : Fresh(x) \notin Range(inbox[q]) /\ x \notin Range(published[q])
        /\ \A d \in Clients : x \notin Range(upstream[d]) /\ x \notin Range(downstream[d])
    <3>1. x # ClientMsg /\ x # ServerMsg /\ x # Goodbye
      BY <1>0 DEF ClientMsg, ServerMsg, Goodbye
    <3> QED  BY <1>5, <1>7, <3>1 DEF IInv, Contents
  <2>2. \A q \in Processes : Fresh(x) \in Range(inbox'[q]) => q = p
    BY <1>9, <2>1
  <2>3. ASSUME NEW q \in Processes PROVE Once(inbox'[q], Fresh(x))
    <3>1. Once(inbox[q], Fresh(x))
      BY <2>1 DEF Once, Range
    <3>2. CASE q = p
      <4>1. Once(Append(inbox[p], Fresh(x)), Fresh(x))
        BY <1>8, <2>1, <3>1, <3>2, Zenon
      <4> QED  BY <1>9, <3>2, <4>1
    <3>3. CASE q # p
      BY <1>9, <3>1, <3>3
    <3> QED  BY <3>2, <3>3
  <2>4. /\ \A q \in Processes : Once(published[q], x)
        /\ \A d \in Clients : Once(upstream[d], x) /\ Once(downstream[d], x)
    BY <2>1 DEF Once, Range
  <2>5. p # Server => p \in Clients /\ Server \in Processes
    BY DEF Processes
  <2>6. Server \in Processes
    BY DEF Processes
  <2> QED  BY <1>1, <1>3, <2>1, <2>2, <2>3, <2>4, <2>5, <2>6 DEF AtOnePlace, Fresh
<1>17. Arrives(x)'
  <2>1. \A a \in who : {a, p} \subseteq Joined /\ a # p
    BY DEF who
  <2>2. Fresh(x) \in Range(inbox'[p])
    BY <1>8, <1>9
  <2> QED  BY <1>3, <1>4, <1>14, <2>1, <2>2 DEF Arrives, UnderWay, Fresh
<1> QED  BY <1>5, <1>10, <1>11, <1>12, <1>13, <1>15, <1>16, <1>17 DEF IInv

\* What a process hears of its own it drops: it has been told its address before.
LEMMA ForwardStep ==
  ASSUME Setting, IInv, NEW p \in Processes, OnLcmMessage(p)
  PROVE  IInv'
<1>1. /\ UNCHANGED <<running, isReady, params, client, server, origins, audience, published>>
      /\ p \in running /\ inbox[p] # << >> /\ Head(inbox[p]) # Introspect
      /\ inbox' = [inbox EXCEPT ![p] = Tail(inbox[p])]
      /\ inbox \in [Processes -> Seq(Items)] /\ inbox[p] \in Seq(Items)
      /\ upstream \in [Clients -> Seq(Int)] /\ downstream \in [Clients -> Seq(Int)]
      /\ origins \in Seq(Processes)
  BY DEF OnLcmMessage, historyVars, IInv, Types
<1>2. p \in isReady
  BY <1>1 DEF IInv, Introduced
<1>3. PICK item \in Items : item = Head(inbox[p])
  BY <1>1, TailFacts
<1>4. /\ downstream' = IF p = Server /\ ~item.self THEN SentDown(Forwarding, item.id)
                       ELSE downstream
      /\ upstream' = IF p # Server /\ client[p] = "RECV" /\ ~item.self
                     THEN SentUp({p}, item.id) ELSE upstream
  BY <1>2, <1>3 DEF OnLcmMessage
<1>5. /\ Tail(inbox[p]) \in Seq(Items)
      /\ Range(inbox[p]) = Range(Tail(inbox[p])) \cup {item}
      /\ \A y : Once(inbox[p], y) =>
                  Once(Tail(inbox[p]), y) /\ (y = item => y \notin Range(Tail(inbox[p])))
  BY <1>1, <1>3, TailFacts
<1>6. item.id \in Ids /\ (~item.self => item = Fresh(item.id))
  <2>1. item \in Range(inbox[p]) /\ item # Introspect
    BY <1>1, <1>3, <1>5
  <2>2. item.id \in Ids
    BY <2>1 DEF IInv, Contents
  <2> QED  BY <1>3, <2>2 DEF Items, Fresh
<1>7. PICK x \in Ids : x = item.id
  BY <1>6
<1>8. /\ \A q \in Processes : inbox'[q] = IF q = p THEN Tail(inbox[p]) ELSE inbox[q]
      /\ inbox' \in [Processes -> Seq(Items)]
      /\ \A q \in Processes : Range(inbox'[q]) \subseteq Range(inbox[q])
  BY <1>1, <1>5
<1>9. PICK up \in SUBSET Clients :
        /\ upstream' = [d \in Clients |-> IF d \in up THEN Append(upstream[d], x)
                                          ELSE upstream[d]]
        /\ up # {} => up = {p} /\ p # Server /\ item = Fresh(x)
        /\ p # Server /\ client[p] = "RECV" /\ item = Fresh(x) => up = {p}
  <2> DEFINE up == IF p # Server /\ client[p] = "RECV" /\ ~item.self THEN {p} ELSE {}
  <2>1. up \subseteq Clients
    BY DEF Processes
  <2>2. item = Fresh(x) => ~item.self
    BY DEF Fresh
  <2>3. upstream' = [d \in Clients |-> IF d \in up THEN Append(upstream[d], x) ELSE upstream[d]]
    BY <1>1, <1>4, <1>7 DEF SentUp
  <2>4. up # {} => up = {p} /\ p # Server /\ item = Fresh(x)
    BY <1>6, <1>7
  <2>5. p # Server /\ client[p] = "RECV" /\ item = Fresh(x) => up = {p}
    BY <2>2
  <2> HIDE DEF up
  <2> QED  BY <2>1, <2>3, <2>4, <2>5
<1>10. PICK down \in SUBSET Clients :
        /\ downstream' = [d \in Clients |-> IF d \in down THEN Append(downstream[d], x)
                                            ELSE downstream[d]]
        /\ down # {} => p = Server /\ item = Fresh(x)
        /\ p = Server /\ item = Fresh(x) => Forwarding \subseteq down
  <2> DEFINE down == IF p = Server /\ ~item.self THEN Forwarding ELSE {}
  <2>1. down \subseteq Clients
    BY DEF Forwarding
  <2>2. item = Fresh(x) => ~item.self
    BY DEF Fresh
  <2>3. downstream' =
          [d \in Clients |-> IF d \in down THEN Append(downstream[d], x) ELSE downstream[d]]
    BY <1>1, <1>4, <1>7 DEF SentDown
  <2>4. down # {} => p = Server /\ item = Fresh(x)
    BY <1>6, <1>7
  <2>5. p = Server /\ item = Fresh(x) => Forwarding \subseteq down
    BY <2>2
  <2> HIDE DEF down
  <2> QED  BY <2>1, <2>3, <2>4, <2>5
<1>11. x \in Int /\ x # ClientMsg /\ x # Goodbye /\ x # ServerMsg
  BY DEF Ids, ClientMsg, Goodbye, ServerMsg
<1>12. /\ upstream' \in [Clients -> Seq(Int)]
       /\ \A d \in Clients :
            /\ Range(upstream'[d]) = IF d \in up THEN Range(upstream[d]) \cup {x}
                                     ELSE Range(upstream[d])
            /\ \A y : (/\ Once(upstream[d], y)
                       /\ y = x /\ d \in up => y \notin Range(upstream[d]))
                      => Once(upstream'[d], y)
  <2>1. upstream \in [Clients -> Seq(Int)] /\ x \in Int
    BY <1>1, <1>11
  <2>2. Added(upstream, upstream', up, x)
    BY <1>9, <2>1, SentFacts
  <2> QED  BY <2>2, Zenon DEF Added
<1>13. /\ downstream' \in [Clients -> Seq(Int)]
       /\ \A d \in Clients :
            /\ Range(downstream'[d]) = IF d \in down THEN Range(downstream[d]) \cup {x}
                                       ELSE Range(downstream[d])
            /\ \A y : (/\ Once(downstream[d], y)
                       /\ y = x /\ d \in down => y \notin Range(downstream[d]))
                      => Once(downstream'[d], y)
  <2>1. downstream \in [Clients -> Seq(Int)] /\ x \in Int
    BY <1>1, <1>11
  <2>2. Added(downstream, downstream', down, x)
    BY <1>10, <2>1, SentFacts
  <2> QED  BY <2>2, Zenon DEF Added
<1>14. Types'
  BY <1>1, <1>8, <1>12, <1>13 DEF IInv, Types
<1>15. Contents'
  <2>1. \A q \in Processes : \A i \in Range(inbox'[q]) : i = Introspect \/ i.id \in Ids
    BY <1>8 DEF IInv, Contents
  <2>2. \A d \in Clients : Range(upstream'[d]) \subseteq Ids \cup {ClientMsg, Goodbye}
    BY <1>12 DEF IInv, Contents
  <2>3. \A d \in Clients : Range(downstream'[d]) \subseteq Ids \cup {ServerMsg, Goodbye}
    BY <1>13 DEF IInv, Contents
  <2> QED  BY <1>1, <2>1, <2>2, <2>3 DEF IInv, Contents, Ids
<1>16. Introduced'
  <2>1. \A q \in running \ isReady : q \in Processes /\ inbox'[q] = inbox[q]
    BY <1>2, <1>8 DEF IInv, Types
  <2> QED  BY <1>1, <2>1 DEF IInv, Introduced
<1>17. Greeted'
  <2> SUFFICES ASSUME NEW d \in Clients
               PROVE  /\ \A k \in DOMAIN upstream'[d] : upstream'[d][k] = ClientMsg => k = 1
                      /\ server[d] \in {"RECV", "gone"} => ClientMsg \notin Range(upstream'[d])
                      /\ client[d] = "none" => server[d] = "none"
    BY <1>1 DEF Greeted
  <2>1. ASSUME NEW k \in DOMAIN upstream'[d], upstream'[d][k] = ClientMsg PROVE k = 1
    <3>1. CASE d \in up
      <4>1. upstream'[d] = Append(upstream[d], x) /\ upstream[d] \in Seq(Int)
        BY <1>1, <1>9, <3>1
      <4>2. k \in DOMAIN upstream[d] /\ upstream[d][k] = ClientMsg
        BY <1>11, <2>1, <4>1, AppendProperties, LenProperties
      <4> QED  BY <4>2 DEF IInv, Greeted
    <3>2. CASE d \notin up
      BY <1>9, <2>1, <3>2 DEF IInv, Greeted
    <3> QED  BY <3>1, <3>2
  <2>2. server[d] \in {"RECV", "gone"} => ClientMsg \notin Range(upstream'[d])
    BY <1>11, <1>12 DEF IInv, Greeted
  <2> QED  BY <2>1, <2>2 DEF IInv, Greeted
<1>18. Parted'
  BY <1>1, <1>11, <1>12 DEF IInv, Parted
<1>19. Joined' = Joined
  BY <1>1 DEF Joined
<1>20. ASSUME NEW m \in Ids PROVE AtOnePlace(m)' /\ Arrives(m)'
  <2>1. m \in Ids /\ AtOnePlace(m) /\ Arrives(m) /\ origins[m] \in Processes
    BY <1>1, <1>20, ElementOfSeq DEF IInv, Ids
  <2>2. \A a \in audience[m] : {a, origins[m]} \subseteq Joined
    BY <2>1 DEF Arrives
  <2>3. \A q \in Processes : Fewer(inbox[q], inbox'[q], Fresh(m))
    BY <1>5, <1>8 DEF Fewer
  <2>4. CASE m # x \/ item # Fresh(x)
    <3>1. m = x => up = {} /\ down = {}
      BY <1>9, <1>10, <2>4
    <3>2. \A d \in Clients : Fewer(upstream[d], upstream'[d], m)
      BY <1>12, <3>1 DEF Fewer
    <3>3. \A d \in Clients : Fewer(downstream[d], downstream'[d], m)
      BY <1>13, <3>1 DEF Fewer
    <3>4. AtOnePlace(m)'
      BY <1>1, <2>1, <2>3, <3>2, <3>3, AtOnePlaceKept
    <3>5. Fresh(m) # item
      <4>1. Fresh(m).id = m
        BY DEF Fresh
      <4> QED  BY <1>7, <2>4, <4>1
    <3>6. ASSUME NEW a \in Joined PROVE Stays(a, m)
      <4>1. a \in Processes /\ (a # Server => a \in Clients)
        BY DEF Joined, Processes
      <4>2. Fresh(m) \in Range(inbox[a]) => Fresh(m) \in Range(inbox'[a])
        BY <1>5, <1>8, <3>5, <4>1
      <4>3. a # Server => /\ Range(upstream[a]) \subseteq Range(upstream'[a])
                          /\ Range(downstream[a]) \subseteq Range(downstream'[a])
        BY <1>12, <1>13, <4>1
      <4> QED  BY <4>2, <4>3 DEF Stays
    <3> QED  BY <1>1, <1>19, <2>1, <2>2, <3>4, <3>6, ArrivesKept
  <2>5. CASE m = x /\ item = Fresh(x)
    <3>1. origins[x] = p /\ Fresh(x) \in Range(inbox[p])
      BY <1>5, <2>1, <2>5 DEF AtOnePlace
    <3>2. \A q \in Processes : Fresh(x) \notin Range(inbox'[q])
      <4>1. Fresh(x) \notin Range(Tail(inbox[p]))
        <5>1. Once(inbox[p], Fresh(x))
          BY <2>1, <2>5 DEF AtOnePlace
        <5> QED  BY <1>5, <2>5, <5>1, Zenon
      <4>2. \A q \in Processes : q # p => Fresh(x) \notin Range(inbox[q])
        BY <2>1, <2>5, <3>1 DEF AtOnePlace
      <4> QED  BY <1>8, <4>1, <4>2
    <3>3. /\ x \notin Range(published[Server])
          /\ p # Server => x \notin Range(upstream[p])
      BY <2>1, <2>5, <3>1 DEF AtOnePlace
    <3>4. ~Passed(x)
      BY <3>1, <3>3 DEF Passed
    <3>5. /\ \A q \in Processes : x \notin Range(published[q])
          /\ \A d \in Clients : x \notin Range(downstream[d])
      BY <2>1, <2>5, <3>4 DEF AtOnePlace
    <3>6. \A d \in Clients : /\ d \in up => x \notin Range(upstream[d])
                             /\ Once(upstream[d], x) /\ Once(downstream[d], x)
      BY <1>9, <2>1, <2>5, <3>3 DEF AtOnePlace
    <3>7. \A q \in Processes : Once(inbox'[q], Fresh(x)) /\ Once(published[q], x)
      BY <2>1, <2>3, <2>5 DEF AtOnePlace, Fewer
    <3>8. \A d \in Clients : Once(upstream'[d], x) /\ Once(downstream'[d], x)
      BY <1>12, <1>13, <3>5, <3>6
    <3>9. \A d \in Clients : x \in Range(upstream'[d]) => d = p
      BY <1>9, <1>12, <2>1, <2>5, <3>1 DEF AtOnePlace
    <3>10. \A d \in Clients : x \in Range(downstream'[d]) => p = Server /\ d # p
      BY <1>10, <1>13, <3>5 DEF Setting
    <3>11. p = Server => Passed(x)'
      BY <1>1, <3>1, <3>2 DEF Passed, Fresh, Processes
    <3>12. Server \in Processes /\ \A d \in Clients : d \in Processes
      BY DEF Processes
    <3>13. AtOnePlace(x)'
      BY <1>1, <3>1, <3>2, <3>3, <3>5, <3>7, <3>8, <3>9, <3>10, <3>11, <3>12
      DEF AtOnePlace, Fresh
    <3>14. ASSUME NEW a \in audience[x] PROVE UnderWay(x, a)'
      <4>1. {a, p} \subseteq Joined /\ a # p
        BY <2>1, <2>5, <3>1 DEF Arrives
      <4>2. CASE p = Server
        <5>1. a \in Forwarding /\ a # Server /\ a \in Clients
          BY <4>1, <4>2 DEF Joined, Forwarding
        <5>2. x \in Range(downstream'[a])
          BY <1>10, <1>13, <2>5, <4>2, <5>1
        <5> QED  BY <5>1, <5>2 DEF UnderWay
      <4>3. CASE p # Server
        <5>1. p \in Clients /\ client[p] = "RECV"
          BY <4>1, <4>3 DEF Joined
        <5>2. x \in Range(upstream'[p])
          BY <1>9, <1>12, <2>5, <4>3, <5>1
        <5> QED  BY <1>1, <3>1, <4>3, <5>2 DEF UnderWay
      <4> QED  BY <4>2, <4>3
    <3>15. Arrives(x)'
      BY <1>1, <1>19, <2>1, <2>5, <3>14 DEF Arrives
    <3> QED  BY <2>5, <3>13, <3>15
  <2> QED  BY <2>4, <2>5
<1> QED  BY <1>1, <1>14, <1>15, <1>16, <1>17, <1>18, <1>20 DEF IInv, Ids

\* What came by UDP may have overtaken the rest, which is lost: that concerns no client
\* that is connected over TCP.
LEMMA ServerReceivesStep ==
  ASSUME Setting, IInv, NEW c \in Clients, NEW n \in DOMAIN upstream[c], ServerReceives(c, n)
  PROVE  IInv'
<1>1. /\ UNCHANGED <<running, isReady, params, client, server, origins, audience>>
      /\ server[c] = "RECV" /\ upstream[c][n] # Goodbye /\ (n = 1 \/ params[c])
      /\ upstream' = [upstream EXCEPT ![c] = Left(upstream[c], n)]
      /\ upstream \in [Clients -> Seq(Int)] /\ downstream \in [Clients -> Seq(Int)]
      /\ upstream[c] \in Seq(Int) /\ n \in 1 .. Len(upstream[c])
      /\ origins \in Seq(Processes)
      /\ Server \in Processes /\ c \in Processes /\ c # Server
      /\ \A d \in Clients : d \in Processes /\ d # Server
  BY LenProperties DEF ServerReceives, IInv, Types, Processes, Setting
<1>2. upstream[c][n] \in Range(upstream[c])
  BY DEF Range
<1>3. PICK x \in Ids : x = upstream[c][n]
  BY <1>1, <1>2 DEF IInv, Greeted, Contents
<1>4. x \in Int /\ x # ClientMsg /\ x # Goodbye /\ x # ServerMsg
  BY DEF Ids, ClientMsg, Goodbye, ServerMsg
<1>5. LcmPublish(Server, x) /\ downstream' = SentDown(Forwarding \ {c}, x)
  BY <1>3 DEF ServerReceives
<1>6. PICK left \in Seq(Int) : left = Left(upstream[c], n)
  BY <1>1, LeftFacts
<1>7. /\ Range(left) \subseteq Range(upstream[c])
      /\ n = 1 => Range(upstream[c]) \subseteq Range(left) \cup {upstream[c][1]}
      /\ \A y : y # ServerMsg /\ Once(upstream[c], y) =>
           Once(left, y) /\ (y = upstream[c][n] => y \notin Range(left))
  BY <1>1, <1>6, LeftFacts, Zenon
<1>8. /\ \A d \in Clients : upstream'[d] = IF d = c THEN left ELSE upstream[d]
      /\ upstream' \in [Clients -> Seq(Int)]
  BY <1>1, <1>6
<1>9. /\ downstream' \in [Clients -> Seq(Int)]
      /\ \A d \in Clients :
           /\ Range(downstream'[d]) = IF d \in Forwarding \ {c} THEN Range(downstream[d]) \cup {x}
                                      ELSE Range(downstream[d])
           /\ \A y : (/\ Once(downstream[d], y)
                      /\ y = x /\ d \in Forwarding \ {c} => y \notin Range(downstream[d]))
                     => Once(downstream'[d], y)
  <2>1. Added(downstream, downstream', Forwarding \ {c}, x)
    BY <1>1, <1>4, <1>5, SentFacts DEF SentDown
  <2> QED  BY <2>1, Zenon DEF Added
<1>10. /\ inbox' \in [Processes -> Seq(Items)] /\ published' \in [Processes -> Seq(Int)]
       /\ \A q \in Processes :
            /\ \A i \in Range(inbox'[q]) : i \in Range(inbox[q]) \/ i.id \in Ids
            /\ \A m : Fresh(m) \in Range(inbox'[q]) <=> Fresh(m) \in Range(inbox[q])
            /\ \A m : Once(inbox[q], Fresh(m)) => Once(inbox'[q], Fresh(m))
            /\ inbox[q] # << >> => inbox'[q] # << >> /\ Head(inbox'[q]) = Head(inbox[q])
            /\ q # Server => inbox'[q] = inbox[q] /\ published'[q] = published[q]
       /\ Range(published'[Server]) = Range(published[Server]) \cup {x}
       /\ \A m : Once(published[Server], m) /\ (m # x \/ m \notin Range(published[Server]))
                 => Once(published'[Server], m)
  BY <1>1, <1>5, PublishFacts, Zenon
<1>11. Types'
  BY <1>1, <1>8, <1>9, <1>10 DEF IInv, Types
<1>12. Contents'
  <2>1. \A q \in Processes : \A i \in Range(inbox'[q]) : i = Introspect \/ i.id \in Ids
    BY <1>10 DEF IInv, Contents
  <2>2. \A q \in Processes : Range(published'[q]) \subseteq Ids
    BY <1>10 DEF IInv, Contents
  <2>3. \A d \in Clients : Range(upstream'[d]) \subseteq Ids \cup {ClientMsg, Goodbye}
    BY <1>7, <1>8 DEF IInv, Contents
  <2>4. \A d \in Clients : Range(downstream'[d]) \subseteq Ids \cup {ServerMsg, Goodbye}
    BY <1>9 DEF IInv, Contents
  <2> QED  BY <1>1, <2>1, <2>2, <2>3, <2>4 DEF Contents, Ids
<1>13. Introduced'
  BY <1>1, <1>10 DEF IInv, Introduced, Types
<1>14. Greeted'
  <2>1. ClientMsg \notin Range(left)
    BY <1>1, <1>7 DEF IInv, Greeted
  <2>2. \A k \in DOMAIN left : left[k] # ClientMsg
    BY <2>1 DEF Range
  <2> QED  BY <1>1, <1>8, <2>1, <2>2 DEF IInv, Greeted
<1>15. Parted'
  BY <1>1, <1>7, <1>8 DEF IInv, Parted
<1>16. Joined' = Joined
  BY <1>1 DEF Joined
<1>17. c \in Joined => n = 1
  BY <1>1 DEF Joined
<1>18. ASSUME NEW m \in Ids PROVE AtOnePlace(m)' /\ Arrives(m)'
  <2>1. m \in Ids /\ AtOnePlace(m) /\ Arrives(m) /\ m # ServerMsg
    BY <1>18 DEF IInv, Ids, ServerMsg
  <2>2. \A a \in audience[m] : {a, origins[m]} \subseteq Joined /\ a # origins[m]
    BY <2>1 DEF Arrives
  <2>3. \A q \in Processes : Fewer(inbox[q], inbox'[q], Fresh(m))
    BY <1>10 DEF Fewer
  <2>4. \A d \in Clients : Fewer(upstream[d], upstream'[d], m)
    BY <1>7, <1>8, <2>1 DEF Fewer
  <2>5. CASE m # x
    <3>1. AsPublished(m)
      BY <1>10, <2>5 DEF AsPublished
    <3>2. \A d \in Clients : Fewer(downstream[d], downstream'[d], m)
      BY <1>9, <2>5 DEF Fewer
    <3>3. AtOnePlace(m)'
      BY <1>1, <2>1, <2>3, <2>4, <3>1, <3>2, AtOnePlaceStays
    <3>4. ASSUME NEW a \in Joined PROVE Stays(a, m)
      <4>1. a \in Processes /\ (a # Server => a \in Clients)
        BY DEF Joined, Processes
      <4>2. Fresh(m) \in Range(inbox[a]) => Fresh(m) \in Range(inbox'[a])
        BY <1>10, <4>1
      <4>3. a # Server /\ m \in Range(upstream[a]) => m \in Range(upstream'[a])
        BY <1>3, <1>7, <1>8, <1>17, <2>5, <4>1
      <4>4. a # Server => Range(downstream[a]) \subseteq Range(downstream'[a])
        BY <1>9, <4>1
      <4> QED  BY <4>2, <4>3, <4>4 DEF Stays
    <3> QED  BY <1>1, <1>16, <2>1, <2>2, <3>1, <3>3, <3>4, ArrivesStays
  <2>6. CASE m = x
    <3>1. origins[x] = c /\ x \notin Range(published[Server])
      BY <1>2, <1>3, <2>1, <2>6 DEF AtOnePlace
    <3>2. ~Passed(x)
      BY <1>1, <3>1 DEF Passed
    <3>3. /\ \A q \in Processes : x \notin Range(published[q])
          /\ \A d \in Clients : x \notin Range(downstream[d])
      BY <2>1, <2>6, <3>2 DEF AtOnePlace
    <3>4. \A q \in Processes : Fresh(x) \notin Range(inbox'[q])
      <4>1. \A q \in Processes : Fresh(x) \in Range(inbox[q]) => q = c
        BY <2>1, <2>6, <3>1 DEF AtOnePlace
      <4>2. Fresh(x) \notin Range(inbox[c])
        BY <1>1, <1>2, <1>3, <2>1, <2>6, <3>1 DEF AtOnePlace
      <4> QED  BY <1>10, <4>1, <4>2
    <3>5. x \notin Range(left)
      BY <1>3, <1>4, <1>7, <2>1, <2>6 DEF AtOnePlace
    <3>6. \A d \in Clients : x \notin Range(upstream'[d])
      BY <1>8, <2>1, <2>6, <3>1, <3>5 DEF AtOnePlace
    <3>7. Passed(x)'
      BY <1>1, <1>10, <3>1 DEF Passed
    <3>8. \A q \in Processes : x \in Range(published'[q]) => q = Server
      BY <1>10, <3>3
    <3>9. ASSUME NEW q \in Processes
          PROVE  Once(inbox'[q], Fresh(x)) /\ Once(published'[q], x)
      <4>1. Once(inbox[q], Fresh(x)) /\ Once(published[q], x)
        BY <2>1, <2>6 DEF AtOnePlace
      <4>2. Once(inbox'[q], Fresh(x))
        BY <1>10, <4>1
      <4>3. Once(published'[q], x)
        BY <1>10, <3>3, <4>1
      <4> QED  BY <4>2, <4>3
    <3>10. \A d \in Clients : Once(upstream'[d], x) /\ Once(downstream'[d], x)
      <4>1. \A d \in Clients : Once(upstream[d], x) /\ Once(downstream[d], x)
        BY <2>1, <2>6 DEF AtOnePlace
      <4>2. \A d \in Clients : Once(upstream'[d], x)
        BY <1>4, <1>7, <1>8, <4>1
      <4>3. ASSUME NEW d \in Clients PROVE Once(downstream'[d], x)
        <5>1. Once(downstream[d], x) /\ x \notin Range(downstream[d])
          BY <3>3, <4>1
        <5> QED  BY <1>9, <5>1, Zenon
      <4> QED  BY <4>2, <4>3
    <3>11. \A d \in Clients : x \in Range(downstream'[d]) => d # c
      BY <1>9, <3>3
    <3>12. AtOnePlace(x)'
      BY <1>1, <3>1, <3>4, <3>6, <3>7, <3>8, <3>9, <3>10, <3>11 DEF AtOnePlace, Fresh
    <3>13. ASSUME NEW a \in audience[x]
           PROVE  x \in Range(published'[a]) \/ UnderWay(x, a)'
      <4>1. a \in Joined /\ a # c
        BY <2>2, <2>6, <3>1
      <4>2. CASE a = Server
        BY <1>10, <4>2
      <4>3. CASE a # Server
        <5>1. a \in Forwarding \ {c}
          BY <4>1, <4>3 DEF Joined, Forwarding
        <5>2. x \in Range(downstream'[a])
          BY <1>9, <5>1 DEF Forwarding
        <5> QED  BY <4>3, <5>2 DEF UnderWay
      <4> QED  BY <4>2, <4>3
    <3>14. Arrives(x)'
      BY <1>1, <1>16, <2>2, <2>6, <3>13 DEF Arrives
    <3> QED  BY <2>6, <3>12, <3>14
  <2> QED  BY <2>5, <2>6
<1> QED  BY <1>1, <1>11, <1>12, <1>13, <1>14, <1>15, <1>18 DEF IInv, Ids

LEMMA ClientReceivesStep ==
  ASSUME Setting, IInv, NEW c \in Clients, NEW n \in DOMAIN downstream[c],
         ClientReceives(c, n)
  PROVE  IInv'
<1>1. /\ UNCHANGED <<running, isReady, params, client, server, upstream, origins, audience>>
      /\ downstream[c][n] \notin {Goodbye, ServerMsg} /\ (n = 1 \/ params[c])
      /\ downstream' = [downstream EXCEPT ![c] = Left(downstream[c], n)]
      /\ downstream \in [Clients -> Seq(Int)]
      /\ downstream[c] \in Seq(Int) /\ n \in 1 .. Len(downstream[c])
      /\ origins \in Seq(Processes)
      /\ Server \in Processes /\ c \in Processes /\ c # Server
      /\ \A d \in Clients : d \in Processes /\ d # Server
  BY LenProperties DEF ClientReceives, IInv, Types, Processes, Setting
<1>2. downstream[c][n] \in Range(downstream[c])
  BY DEF Range
<1>3. PICK x \in Ids : x = downstream[c][n]
  BY <1>1, <1>2 DEF IInv, Contents
<1>4. x # ServerMsg /\ LcmPublish(c, x)
  BY <1>1, <1>3 DEF ClientReceives
<1>5. PICK left \in Seq(Int) : left = Left(downstream[c], n)
  BY <1>1, LeftFacts
<1>6. /\ Range(left) \subseteq Range(downstream[c])
      /\ n = 1 => Range(downstream[c]) \subseteq Range(left) \cup {downstream[c][1]}
      /\ \A y : y # ServerMsg /\ Once(downstream[c], y) =>
           Once(left, y) /\ (y = downstream[c][n] => y \notin Range(left))
  BY <1>1, <1>5, LeftFacts, Zenon
<1>7. /\ \A d \in Clients : downstream'[d] = IF d = c THEN left ELSE downstream[d]
      /\ downstream' \in [Clients -> Seq(Int)]
  BY <1>1, <1>5
<1>8. /\ inbox' \in [Processes -> Seq(Items)] /\ published' \in [Processes -> Seq(Int)]
      /\ \A q \in Processes :
           /\ \A i \in Range(inbox'[q]) : i \in Range(inbox[q]) \/ i.id \in Ids
           /\ \A m : Fresh(m) \in Range(inbox'[q]) <=> Fresh(m) \in Range(inbox[q])
           /\ \A m : Once(inbox[q], Fresh(m)) => Once(inbox'[q], Fresh(m))
           /\ inbox[q] # << >> => inbox'[q] # << >> /\ Head(inbox'[q]) = Head(inbox[q])
           /\ q # c => inbox'[q] = inbox[q] /\ published'[q] = published[q]
      /\ Range(published'[c]) = Range(published[c]) \cup {x}
      /\ \A m : Once(published[c], m) /\ (m # x \/ m \notin Range(published[c]))
                => Once(published'[c], m)
  BY <1>1, <1>4, PublishFacts, Zenon
<1>9. Types'
  BY <1>1, <1>7, <1>8 DEF IInv, Types
<1>10. Contents'
  <2>1. \A q \in Processes : \A i \in Range(inbox'[q]) : i = Introspect \/ i.id \in Ids
    BY <1>8 DEF IInv, Contents
  <2>2. \A q \in Processes : Range(published'[q]) \subseteq Ids
    BY <1>8 DEF IInv, Contents
  <2>3. \A d \in Clients : Range(downstream'[d]) \subseteq Ids \cup {ServerMsg, Goodbye}
    BY <1>6, <1>7 DEF IInv, Contents
  <2> QED  BY <1>1, <2>1, <2>2, <2>3 DEF IInv, Contents, Ids
<1>11. Introduced'
  BY <1>1, <1>8 DEF IInv, Introduced, Types
<1>12. Greeted' /\ Parted'
  BY <1>1 DEF IInv, Greeted, Parted
<1>13. Joined' = Joined /\ (c \in Joined => n = 1)
  BY <1>1 DEF Joined
<1>14. ASSUME NEW m \in Ids PROVE AtOnePlace(m)' /\ Arrives(m)'
  <2>1. m \in Ids /\ AtOnePlace(m) /\ Arrives(m) /\ m # ServerMsg
    BY <1>14 DEF IInv, Ids, ServerMsg
  <2>2. \A a \in audience[m] : {a, origins[m]} \subseteq Joined /\ a # origins[m]
    BY <2>1 DEF Arrives
  <2>3. \A q \in Processes : Fewer(inbox[q], inbox'[q], Fresh(m))
    BY <1>8 DEF Fewer
  <2>4. \A d \in Clients : Fewer(downstream[d], downstream'[d], m)
    BY <1>6, <1>7, <2>1 DEF Fewer
  <2>5. \A d \in Clients : Fewer(upstream[d], upstream'[d], m)
    BY <1>1 DEF Fewer
  <2>6. ASSUME NEW a \in Joined
        PROVE  /\ Fresh(m) \in Range(inbox[a]) => Fresh(m) \in Range(inbox'[a])
               /\ a # Server /\ m \in Range(downstream[a]) =>
                    m \in Range(downstream'[a]) \/ (m = x /\ a = c)
    <3>1. a \in Processes /\ (a # Server => a \in Clients)
      BY DEF Joined, Processes
    <3> QED  BY <1>3, <1>6, <1>7, <1>8, <1>13, <3>1
  <2>7. CASE m # x
    <3>1. AsPublished(m)
      BY <1>8, <2>7 DEF AsPublished
    <3>2. AtOnePlace(m)'
      BY <1>1, <2>1, <2>3, <2>4, <2>5, <3>1, AtOnePlaceStays
    <3>3. \A a \in Joined : Stays(a, m)
      BY <1>1, <2>6, <2>7 DEF Stays
    <3> QED  BY <1>1, <1>13, <2>1, <2>2, <3>1, <3>2, <3>3, ArrivesStays
  <2>8. CASE m = x
    <3>1. origins[x] # c /\ Passed(x) /\ x \notin Range(published[c])
      BY <1>2, <1>3, <2>1, <2>8 DEF AtOnePlace
    <3>2. Passed(x)'
      BY <1>1, <1>8, <3>1 DEF Passed
    <3>3. Range(published'[Server]) = Range(published[Server])
      BY <1>1, <1>8
    <3>4. \A d \in Clients : x \in Range(downstream'[d]) =>
            x \in Range(downstream[d]) /\ d # c
      BY <1>3, <1>4, <1>6, <1>7, <2>1, <2>8 DEF AtOnePlace
    <3>5. ASSUME NEW q \in Processes
          PROVE  /\ Once(inbox'[q], Fresh(x)) /\ Once(published'[q], x)
                 /\ Fresh(x) \in Range(inbox'[q]) => origins[x] = q
                 /\ x \in Range(published'[q]) => origins[x] # q
      <4>1. /\ Once(inbox[q], Fresh(x)) /\ Once(published[q], x)
            /\ Fresh(x) \in Range(inbox[q]) => origins[x] = q
            /\ x \in Range(published[q]) => origins[x] # q
        BY <2>1, <2>8 DEF AtOnePlace
      <4>2. Once(inbox'[q], Fresh(x)) /\ (Fresh(x) \in Range(inbox'[q]) => origins[x] = q)
        BY <1>8, <4>1
      <4>3. Once(published'[q], x) /\ (x \in Range(published'[q]) => origins[x] # q)
        BY <1>8, <3>1, <4>1
      <4> QED  BY <4>2, <4>3
    <3>6. ASSUME NEW d \in Clients
          PROVE  /\ Once(upstream'[d], x) /\ Once(downstream'[d], x)
                 /\ x \in Range(upstream'[d]) =>
                      origins[x] = d /\ x \notin Range(published'[Server])
                 /\ x \in Range(downstream'[d]) =>
                      origins[x] # d /\ x \notin Range(published'[d])
      <4>1. Once(downstream'[d], x) /\ Once(upstream'[d], x)
        BY <1>1, <2>1, <2>4, <2>8 DEF AtOnePlace, Fewer
      <4>2. x \in Range(upstream'[d]) => origins[x] = d /\ x \notin Range(published'[Server])
        BY <1>1, <2>1, <2>8, <3>3 DEF AtOnePlace
      <4>3. x \in Range(downstream'[d]) => origins[x] # d /\ x \notin Range(published'[d])
        BY <1>1, <1>8, <2>1, <2>8, <3>4 DEF AtOnePlace
      <4> QED  BY <4>1, <4>2, <4>3
    <3>7. Fresh(x) \in Range(inbox'[origins[x]]) =>
            /\ x \notin Range(published'[Server])
            /\ origins[x] # Server => x \notin Range(upstream'[origins[x]])
      <4>1. origins[x] \in Processes
        BY <1>1, ElementOfSeq DEF Ids
      <4> QED  BY <1>1, <1>8, <2>1, <2>8, <3>3, <4>1 DEF AtOnePlace
    <3>8. AtOnePlace(x)'
      BY <1>1, <3>2, <3>5, <3>6, <3>7 DEF AtOnePlace, Fresh
    <3>9. ASSUME NEW a \in audience[x]
          PROVE  x \in Range(published'[a]) \/ UnderWay(x, a)'
      <4>1. a \in Joined /\ origins[x] \in Joined /\ a \in Processes
        BY <2>2, <2>8 DEF Joined, Processes
      <4>2. CASE a = c
        BY <1>8, <4>2
      <4>3. CASE a # c
        <5>1. x \in Range(published[a]) \/ UnderWay(x, a)
          BY <2>1, <2>8 DEF Arrives
        <5>2. x \in Range(published[a]) => x \in Range(published'[a])
          BY <1>8, <4>1, <4>3
        <5>3. UnderWay(x, a) => UnderWay(x, a)'
          BY <1>1, <2>6, <2>8, <4>1, <4>3 DEF UnderWay, Fresh
        <5> QED  BY <5>1, <5>2, <5>3
      <4> QED  BY <4>2, <4>3
    <3>10. Arrives(x)'
      BY <1>1, <1>13, <2>2, <2>8, <3>9 DEF Arrives
    <3> QED  BY <2>8, <3>8, <3>10
  <2> QED  BY <2>7, <2>8
<1> QED  BY <1>1, <1>9, <1>10, <1>11, <1>12, <1>14 DEF IInv, Ids
-----------------------------------------------------------------------------
(* All steps together *)

LEMMA InitHolds ==
  ASSUME Setting, Init
  PROVE  IInv
<1>1. /\ running = {Server} /\ isReady = {}
      /\ inbox = [p \in Processes |-> IF p = Server THEN <<Introspect>> ELSE << >>]
      /\ params = [c \in Clients |-> FALSE]
      /\ client = [c \in Clients |-> "none"] /\ server = [c \in Clients |-> "none"]
      /\ upstream = [c \in Clients |-> << >>] /\ downstream = [c \in Clients |-> << >>]
      /\ origins = << >> /\ audience = << >> /\ published = [p \in Processes |-> << >>]
      /\ Server \in Processes
  BY DEF Init, Processes
<1>2. Len(origins) = 0 /\ Ids = {}
  BY <1>1, EmptySeq DEF Ids
<1>3. Types
  <2>1. inbox \in [Processes -> Seq(Items)]
    BY <1>1, GreetingFacts, ShortFacts
  <2>2. upstream \in [Clients -> Seq(Int)] /\ downstream \in [Clients -> Seq(Int)]
    BY <1>1, ShortFacts
  <2>3. published \in [Processes -> Seq(Int)]
    BY <1>1, ShortFacts
  <2>4. origins \in Seq(Processes) /\ audience \in Seq(SUBSET Processes)
    BY <1>1, ShortFacts
  <2>5. Len(audience) = Len(origins)
    BY <1>1
  <2> QED  BY <1>1, <2>1, <2>2, <2>3, <2>4, <2>5 DEF Types
<1>4. /\ \A p \in Processes : Range(published[p]) = {}
      /\ \A c \in Clients : /\ Range(upstream[c]) = {} /\ DOMAIN upstream[c] = {}
                            /\ Range(downstream[c]) = {}
  BY <1>1, ShortFacts, EmptySeq
<1>5. \A p \in Processes : Range(inbox[p]) \subseteq {Introspect}
  BY <1>1, ShortFacts, GreetingFacts
<1>6. Contents
  BY <1>4, <1>5 DEF Contents
<1>7. Introduced
  BY <1>1, GreetingFacts DEF Introduced
<1>8. Greeted /\ Parted
  BY <1>1, <1>4 DEF Greeted, Parted
<1> QED  BY <1>2, <1>3, <1>6, <1>7, <1>8 DEF IInv

LEMMA StepHolds ==
  ASSUME Setting, IInv, [Next]_vars
  PROVE  IInv'
<1>1. CASE UNCHANGED vars
  <2>1. UNCHANGED <<running, isReady, inbox, params, client, server, upstream, downstream,
                    origins, audience, published>>
    BY <1>1 DEF vars, streamVars, historyVars
  <2>2. /\ Types' /\ Contents' /\ Introduced' /\ Greeted' /\ Parted'
    BY <2>1 DEF IInv, Types, Contents, Introduced, Greeted, Parted, Ids
  <2>3. ASSUME NEW m \in Ids PROVE AtOnePlace(m)' /\ Arrives(m)'
    <3>1. AtOnePlace(m) /\ Arrives(m)
      BY <2>3 DEF IInv
    <3>2. Passed(m)' <=> Passed(m)
      BY <2>1 DEF Passed, Fresh
    <3>3. AtOnePlace(m)'
      BY <2>1, <3>1, <3>2 DEF AtOnePlace, Fresh
    <3>4. Joined' = Joined /\ \A p : UnderWay(m, p)' <=> UnderWay(m, p)
      BY <2>1 DEF Joined, UnderWay, Fresh
    <3>5. Arrives(m)'
      BY <2>1, <3>1, <3>4 DEF Arrives
    <3> QED  BY <3>3, <3>5
  <2> QED  BY <2>1, <2>2, <2>3 DEF IInv, Ids
<1>2. ASSUME NEW c \in Clients, NEW udp \in BOOLEAN, ConnectToServer(c, udp) PROVE IInv'
  BY <1>2, ConnectStep
<1>3. ASSUME NEW c \in Clients, AcceptClient(c) \/ OnClientMsg(c) \/ ClientQuits(c)
      PROVE  IInv'
  BY <1>3, AcceptStep, ClientMsgStep, QuitStep
<1>4. ASSUME NEW c \in Clients, NEW n \in DOMAIN upstream[c],
             ServerReceives(c, n) \/ ServerDisconnects(c, n)
      PROVE  IInv'
  BY <1>4, ServerReceivesStep, ServerDisconnectStep
<1>5. ASSUME NEW c \in Clients, NEW n \in DOMAIN downstream[c],
             OnServerMsg(c, n) \/ ClientReceives(c, n) \/ ClientDisconnects(c, n)
      PROVE  IInv'
  BY <1>5, ServerMsgStep, ClientReceivesStep, ClientDisconnectStep
<1>6. ASSUME NEW p \in Processes,
             ProgramPublishes(p) \/ OnLcmTunnelIntrospect(p) \/ OnLcmMessage(p)
      PROVE  IInv'
  BY <1>6, PublishesStep, IntroductionStep, ForwardStep
<1> QED  BY <1>1, <1>2, <1>3, <1>4, <1>5, <1>6 DEF Next

\* The inductive invariant: where a message is, and that it gets to its audience.
THEOREM Invariance == ASSUME Setting PROVE Spec => []IInv
<1>1. Init => IInv
  BY InitHolds
<1>2. IInv /\ [Next]_vars => IInv'
  BY StepHolds
<1> QED  BY <1>1, <1>2, PTL DEF Spec

LEMMA HeardOnce == ASSUME IInv PROVE OthersHearItOnce
<1>1. ASSUME NEW p \in Processes
      PROVE  IsInjective(published[p]) /\ \A m \in Range(published[p]) : origins[m] # p
  <2>1. \A m \in Range(published[p]) : m \in Ids
    BY DEF IInv, Contents
  <2>2. \A m \in Range(published[p]) : Once(published[p], m) /\ origins[m] # p
    BY <2>1 DEF IInv, AtOnePlace
  <2>3. \A i, j \in DOMAIN published[p] : published[p][i] = published[p][j] => i = j
    BY <2>2 DEF Once, Range
  <2> QED  BY <2>2, <2>3 DEF IsInjective
<1>2. ASSUME Quiet, NEW m \in DOMAIN audience, NEW p \in audience[m]
      PROVE  m \in Range(published[p])
  <2>1. m \in Ids
    BY LenProperties DEF IInv, Types, Ids
  <2>2. /\ {p, origins[m]} \subseteq Joined
        /\ m \in Range(published[p]) \/ UnderWay(m, p)
    BY <2>1 DEF IInv, Arrives
  <2>3. /\ inbox[origins[m]] = << >>
        /\ origins[m] # Server => upstream[origins[m]] = << >>
        /\ p # Server => downstream[p] = << >>
    BY <1>2, <2>2 DEF Quiet
  <2>4. ~UnderWay(m, p)
    BY <2>3, ShortFacts DEF UnderWay
  <2> QED  BY <2>2, <2>4
<1> QED  BY <1>1, <1>2 DEF OthersHearItOnce

\* A message is published once on each network and never again on the one it came from,
\* and all processes that were connected over TCP and still are have it once the streams
\* are empty.
THEOREM Dissemination == ASSUME Setting PROVE Spec => []OthersHearItOnce
<1>1. IInv => OthersHearItOnce
  BY HeardOnce
<1> QED  BY <1>1, Invariance, PTL
=============================================================================
