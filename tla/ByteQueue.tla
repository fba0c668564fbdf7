------------------------------ MODULE ByteQueue ------------------------------
(***************************************************************************)
(* What a ring buffer promises: a bounded queue of bytes.                    *)
(***************************************************************************)
EXTENDS Integers, Sequences

CONSTANTS Bytes, MaxSize

VARIABLES
  queue,            \* the bytes, oldest first
  got               \* the last call: the number it returned, and the bytes it gave
                    \* or was given

vars == <<queue, got>>

Result(n, bytes) == [n |-> n, bytes |-> bytes]
Refused == Result(-1, << >>)

Space == MaxSize - Len(queue)

Init == queue = << >> /\ got = Result(0, << >>)

\* As many bytes are appended as there is room for, the first of those offered.
Put(data) ==
  LET taken == IF Len(data) <= Space THEN Len(data) ELSE Space
  IN  queue' = queue \o SubSeq(data, 1, taken) /\ got' = Result(taken, data)

\* A source that delivers less than it was asked for is not noticed: the queue grows
\* all the same.
PutSome(n) ==
  /\ n <= Space /\ got' = Result(n, << >>)
  /\ \E data \in [1..n -> Bytes] : queue' = queue \o data

Look(n) ==
  /\ UNCHANGED queue
  /\ got' = IF n <= Len(queue) THEN Result(n, SubSeq(queue, 1, n)) ELSE Refused

\* Whoever asks for more than there is loses what there is.
Take(n) ==
  IF n <= Len(queue)
  THEN queue' = SubSeq(queue, n + 1, Len(queue)) /\ got' = Result(n, SubSeq(queue, 1, n))
  ELSE queue' = << >> /\ got' = Refused

Drop(n) ==
  /\ queue' = IF n < 0 THEN << >> ELSE SubSeq(queue, n + 1, Len(queue))
  /\ got' = Result(0, << >>)

Next ==
  \/ \E n \in 0..MaxSize + 1 :
       \/ Look(n) \/ Take(n) \/ PutSome(n)
       \/ \E data \in [1..n -> Bytes] : Put(data)
  \/ \E n \in -1..Len(queue) : Drop(n)

Spec == Init /\ [][Next]_vars
=============================================================================
