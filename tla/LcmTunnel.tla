----------------------------- MODULE LcmTunnel -----------------------------
(***************************************************************************)
(* One direction of an LCM tunnel over UDP (lcm_tunnel.cpp), from the moment *)
(* both ends know each other: the main loop queues LCM messages, a thread   *)
(* sends what is in the queue as one batch cut into fragments, and the      *)
(* other end puts the fragments together and publishes the messages.        *)
(* Forward error correction is left out.                                   *)
(***************************************************************************)
EXTENDS Integers, Sequences

CONSTANTS
  Sizes,            \* sizes of messages, in units
  Payload,          \* MAX_PAYLOAD_BYTES_PER_FRAGMENT, in units
  SendAtOnce,       \* NUM_BYTES_TO_SEND_IMMEDIATELY, in units
  MaxSendBuffer,    \* MAX_SEND_BUFFER_SIZE, in units
  SeqnoWrapVal,     \* SEQNO_WRAP_VAL
  SeqnoWrapGap,     \* SEQNO_WRAP_GAP
  Modes,            \* tunnel_params: [max_delay, repeats]
  FirstSeqno,       \* number of the batch before the ones that are modelled
  MaxMessages,      \* bound: messages that come in
  MaxInFlight       \* packets that the network holds; more are lost

VARIABLES
  params,           \* tunnel_params: is there a max_delay_ms, how often to send
  came,             \* how many messages came in: ids are given in order
  queue,            \* sendQueue: the messages, [id, size], that wait to be sent
  flushImmediately,
  due,              \* nextFlushTime has come
  thread,           \* where the send thread is
  batch,            \* tmpQueue: what the thread is sending
  seqno,            \* udp_send_seqno
  network,          \* packets on their way
  receiver,         \* what the other end knows of the batch it receives
  stopSendThread,
  sent,             \* the batches that were sent (history)
  published,        \* which of them were published, 0 for a mixture (history)
  timely,           \* no packet came when its number had another meaning (history)
  perfect           \* no packet was lost or overtaken (history)

senderVars == <<queue, flushImmediately, due, thread, batch, stopSendThread>>
linkVars == <<seqno, network, receiver, sent, published, timely, perfect>>
vars == <<params, came, senderVars, linkVars>>

Bytes(messages) ==
  LET bytes[n \in 0..Len(messages)] == IF n = 0 THEN 0 ELSE bytes[n - 1] + messages[n].size
  IN  bytes[Len(messages)]

Init ==
  /\ params \in Modes /\ came = 0
  /\ queue = << >> /\ batch = << >>
  /\ flushImmediately = FALSE /\ stopSendThread = FALSE
  /\ due = TRUE /\ thread = "waiting"
  /\ seqno = FirstSeqno
  /\ network = << >>
  /\ receiver = [cur_seqno |-> seqno, nfrags |-> 0, buf |-> << >>, complete |-> TRUE, at |-> 0]
  /\ sent = << >> /\ published = << >> /\ timely = TRUE /\ perfect = TRUE

-----------------------------------------------------------------------------
(* The main loop of the sending end. *)

\* The n oldest messages are dropped, and no more than it takes for the rest to fit.
Without(n, messages) == SubSeq(messages, n + 1, Len(messages))
Fits(messages) == Bytes(messages) <= MaxSendBuffer
Dropping(n, messages) ==
  Fits(Without(n, messages)) /\ \A k \in 0..n - 1 : ~Fits(Without(k, messages))

Woken == IF thread = "waiting" THEN "woken" ELSE IF thread = "holding" THEN "ready" ELSE thread

\* send_to_remote: the flag tells whether the newest message is a TIMESYNC.
SendToRemote(size, timesync) ==
  /\ ~stopSendThread /\ came < MaxMessages
  /\ came' = came + 1
  /\ LET all == Append(queue, [id |-> came + 1, size |-> size])
     IN  \E n \in 0..Len(all) : Dropping(n, all) /\ queue' = Without(n, all)
  /\ flushImmediately' = timesync
  /\ thread' = Woken
  /\ UNCHANGED <<params, due, batch, stopSendThread, linkVars>>

\* ~LcmTunnel up to the join; the queue is emptied when the thread is gone.
StopThread ==
  /\ ~stopSendThread
  /\ stopSendThread' = TRUE
  /\ thread' = Woken
  /\ UNCHANGED <<params, came, queue, flushImmediately, due, batch, linkVars>>

-----------------------------------------------------------------------------
(* The send thread, which holds the lock except in its waits and while it sends. *)

\* g_cond_wait returns: the messages that come now may be held from here on.
WakeUp ==
  /\ thread = "woken"
  /\ due' = ~params.max_delay
  /\ thread' = "ready"
  /\ UNCHANGED <<params, came, queue, flushImmediately, batch, stopSendThread, linkVars>>

MayHold == params.max_delay /\ Bytes(queue) < SendAtOnce /\ ~due /\ ~flushImmediately

\* The head of the loop.
EndThread ==
  /\ thread = "ready" /\ stopSendThread
  /\ thread' = "ended"
  /\ UNCHANGED <<params, came, queue, flushImmediately, due, batch, stopSendThread, linkVars>>

\* Defect: it waits before it looks at the queue.
WaitUnseeing ==
  /\ thread = "ready" /\ ~stopSendThread
  /\ thread' = "waiting"
  /\ UNCHANGED <<params, came, queue, flushImmediately, due, batch, stopSendThread, linkVars>>

\* With nothing to send it waits; what may be held for a while waits for company.
WaitOrHold ==
  /\ thread = "ready" /\ ~stopSendThread
  /\ \/ queue = << >> /\ thread' = "waiting"
     \/ queue # << >> /\ MayHold /\ thread' = "holding"
  /\ UNCHANGED <<params, came, queue, flushImmediately, due, batch, stopSendThread, linkVars>>

\* The lock is released for what follows.
TakeQueue ==
  /\ thread = "ready" /\ ~stopSendThread
  /\ queue # << >> /\ ~MayHold
  /\ batch' = queue /\ queue' = << >>
  /\ flushImmediately' = FALSE
  /\ thread' = "sending"
  /\ UNCHANGED <<params, came, due, stopSendThread, linkVars>>

\* The wall clock reaches nextFlushTime.  It does not end the wait: the deadline of
\* g_cond_wait_until is a time since boot, which is decades away.
FlushTimeComes ==
  /\ ~due /\ due' = TRUE
  /\ UNCHANGED <<params, came, queue, flushImmediately, thread, batch, stopSendThread, linkVars>>

NumFragments(size) == (size + Payload - 1) \div Payload

\* All the packets of a batch, one round after another; data says of which batch they are.
Packets(number) ==
  LET size == Bytes(batch)
      n == NumFragments(size)
  IN  [ k \in 1..n * params.repeats |->
          [seqno |-> number, payload_size |-> size, fragno |-> (k - 1) % n,
           data |-> Len(sent) + 1] ]

\* The ways to take m of n in their order.
Selections(m, n) == { f \in [1..m -> 1..n] : \A i, j \in 1..m : i < j => f[i] < f[j] }

\* send_lcm_messages: the network takes some of the packets and loses the others.
SendLcmMessages ==
  /\ thread = "sending"
  /\ seqno' = (seqno + 1) % SeqnoWrapVal
  /\ LET packets == Packets(seqno') IN
       \E m \in 0..MaxInFlight - Len(network) : \E kept \in Selections(m, Len(packets)) :
         /\ network' = network \o [k \in 1..m |-> packets[kept[k]]]
         /\ perfect' = (perfect /\ network' = network \o packets)
  /\ sent' = Append(sent, batch)
  /\ batch' = << >> /\ thread' = "ready"
  /\ UNCHANGED <<params, came, queue, flushImmediately, due, stopSendThread>>
  /\ UNCHANGED <<receiver, published, timely>>

-----------------------------------------------------------------------------
(* The receiving end. *)

\* Defect: numbers only grow.
IsAbove(packet) == packet.seqno > receiver.cur_seqno

\* A packet starts a new batch; far below the current number it has wrapped around.
IsNew(packet) ==
  \/ packet.seqno > receiver.cur_seqno
  \/ packet.seqno < receiver.cur_seqno - SeqnoWrapGap

NewBatch(packet) ==
  [cur_seqno |-> packet.seqno, nfrags |-> NumFragments(packet.payload_size),
   buf |-> << >>, complete |-> FALSE, at |-> packet.data]

\* What the packet adds to: the batch it belongs to, if that is not complete.
WithFragment(batchOf, packet) ==
  IF /\ ~batchOf.complete /\ packet.seqno = batchOf.cur_seqno
     /\ NumFragments(packet.payload_size) = batchOf.nfrags
     /\ packet.fragno \notin DOMAIN batchOf.buf
  THEN LET buf == [ f \in DOMAIN batchOf.buf \cup {packet.fragno} |->
                      IF f = packet.fragno THEN packet.data ELSE batchOf.buf[f] ]
       IN  [batchOf EXCEPT !.buf = buf,
                           !.complete = DOMAIN buf = 0..batchOf.nfrags - 1]
  ELSE batchOf

\* publishLcmMessagesInBuf: the batch that the fragments spell, unless they are of
\* different batches.
Spelled(buf) == IF \A f \in DOMAIN buf : buf[f] = buf[0] THEN buf[0] ELSE 0

\* The number of the packet tells where its batch is from the one that the receiver is at:
\* an earlier one in the same lap of the numbers and not too far back, or one that is less
\* than the rest of a lap ahead.
InTime(packet) ==
  IF packet.data > receiver.at
  THEN packet.data - receiver.at < SeqnoWrapVal - SeqnoWrapGap
  ELSE receiver.at - packet.data <= SeqnoWrapGap /\ packet.seqno <= receiver.cur_seqno

\* on_udp_data, for any packet on its way.
OnUdpData(n) ==
  LET packet == network[n]
      before == IF IsNew(packet) THEN NewBatch(packet) ELSE receiver
      after == WithFragment(before, packet)
  IN  /\ receiver' = after
      /\ published' = IF after.complete /\ ~before.complete
                      THEN Append(published, Spelled(after.buf)) ELSE published
      /\ network' = SubSeq(network, 1, n - 1) \o SubSeq(network, n + 1, Len(network))
      /\ timely' = (timely /\ InTime(packet))
      /\ perfect' = (perfect /\ n = 1)
      /\ UNCHANGED <<params, came, senderVars, seqno, sent>>

-----------------------------------------------------------------------------
ThreadStep == WakeUp \/ EndThread \/ WaitOrHold \/ TakeQueue \/ SendLcmMessages

Next ==
  \/ \E size \in Sizes, timesync \in BOOLEAN : SendToRemote(size, timesync)
  \/ StopThread
  \/ ThreadStep
  \/ FlushTimeComes
  \/ \E n \in DOMAIN network : OnUdpData(n)

\* The thread is scheduled, and the wall clock goes on.
Fairness == WF_vars(ThreadStep) /\ WF_vars(FlushTimeComes)

Spec == Init /\ [][Next]_vars /\ Fairness

\* Tunnels without and with a delay, as instances have them.
TwoModes == { [max_delay |-> FALSE, repeats |-> 2], [max_delay |-> TRUE, repeats |-> 1] }

-----------------------------------------------------------------------------
(* Properties. *)

\* Messages are in order of their numbers within this batch, and between these two.
InOrder(messages) == \A i, j \in DOMAIN messages : i < j => messages[i].id < messages[j].id
Precede(these, those) == \A i \in DOMAIN these, j \in DOMAIN those : these[i].id < those[j].id

\* The other end publishes messages in the order in which they came in, each of them
\* once and none put together from two batches, whatever packets are lost, sent
\* twice or overtaken (on_udp_data), unless one is so late that its number has come to
\* mean another batch.
PublishedInOrder ==
  timely =>
    /\ \A n \in DOMAIN published : published[n] \in DOMAIN sent
    /\ \A m, n \in DOMAIN published :
         m < n => Precede(sent[published[m]], sent[published[n]])
    /\ \A b \in DOMAIN sent : InOrder(sent[b])

\* A network that loses nothing and keeps the order makes the tunnel transparent:
\* when no packet is under way all that was sent was published, also across the
\* wrap of the numbers and when each packet is sent twice (on_udp_data).
Transparent == perfect /\ network = << >> => published = [b \in DOMAIN sent |-> b]

\* No wake-up is lost, so that this holds in the end: without a delay nothing stays in the
\* queue, and when the thread is told to end it has ended, wherever it was, and the join of
\* the destructor returns (send_to_remote signals after it unlocks; sendThreadFunc looks at
\* the queue again before it waits; ~LcmTunnel).
NothingIsHeldUp ==
  /\ queue = << >> \/ params.max_delay \/ stopSendThread
  /\ stopSendThread => thread = "ended"

\* With a delay, messages are grouped for that time and then sent
\* (lcm_tunnel.cpp, usage of --wait-time-ms).
HeldForATime == queue # << >> ~> queue = << >> \/ stopSendThread
=============================================================================
