------------------------------- MODULE RingBuf -------------------------------
(***************************************************************************)
(* The byte ring buffer that stands between a serial device and its parser   *)
(* (ringbuf.c).                                                             *)
(***************************************************************************)
EXTENDS Integers, Sequences

CONSTANTS Bytes, MaxSize

VARIABLES
  buf, readOffset, writeOffset, numBytes,
  got               \* the last call: the number it returned, and the bytes it gave
                    \* or was given

vars == <<buf, readOffset, writeOffset, numBytes, got>>

Result(n, bytes) == [n |-> n, bytes |-> bytes]
Refused == Result(-1, << >>)

Least(a, b) == IF a < b THEN a ELSE b

\* malloc: any bytes.
Init ==
  /\ buf \in [0..MaxSize - 1 -> Bytes]
  /\ readOffset = 0 /\ writeOffset = 0 /\ numBytes = 0
  /\ got = Result(0, << >>)

-----------------------------------------------------------------------------
(* Helpers. *)

\* memcpy of a sequence to an offset.
Copied(to, offset, data) ==
  [k \in DOMAIN to |-> IF k \in offset..offset + Len(data) - 1 THEN data[k - offset + 1]
                       ELSE to[k]]

\* Defect: what does not fit before the end is put behind the first part.
WrittenOnce(data) == Copied(buf, writeOffset, data)

\* In two parts: up to the end, and the rest from the start.
Written(data) ==
  LET first == Least(MaxSize - writeOffset, Len(data))
  IN  Copied(Copied(buf, writeOffset, SubSeq(data, 1, first)),
             0, SubSeq(data, first + 1, Len(data)))

Peeked(n) ==
  LET first == Least(MaxSize - readOffset, n)
  IN  [k \in 1..n |-> IF k <= first THEN buf[readOffset + k - 1] ELSE buf[k - first - 1]]

Advance(n) ==
  /\ numBytes' = numBytes + n
  /\ writeOffset' = (writeOffset + n) % MaxSize

\* bot_ringbuf_flush of the bytes that a read got, or of all.
Flushed(n) ==
  IF n < 0
  THEN readOffset' = 0 /\ writeOffset' = 0 /\ numBytes' = 0
  ELSE /\ numBytes' = numBytes - n
       /\ readOffset' = (readOffset + n) % MaxSize
       /\ UNCHANGED writeOffset

-----------------------------------------------------------------------------
(* Operations. *)

\* What does not fit is discarded.
Write(data) ==
  LET n == Least(Len(data), MaxSize - numBytes)
  IN  /\ buf' = Written(SubSeq(data, 1, n))
      /\ Advance(n)
      /\ got' = Result(n, data)
      /\ UNCHANGED readOffset

\* bot_ringbuf_peek, and bot_ringbuf_peek_buf of as many bytes.
Peek(n) ==
  /\ got' = IF n > numBytes THEN Refused ELSE Result(n, Peeked(n))
  /\ UNCHANGED <<buf, readOffset, writeOffset, numBytes>>

\* A peek, and a flush of what the peek returned: -1 when it is refused.
Read(n) ==
  /\ got' = IF n > numBytes THEN Refused ELSE Result(n, Peeked(n))
  /\ Flushed(IF n > numBytes THEN -1 ELSE n)
  /\ UNCHANGED buf

Flush(n) == Flushed(n) /\ got' = Result(0, << >>) /\ UNCHANGED buf

Data(n) == UNION { [1..k -> Bytes] : k \in 0..n }

\* bot_ringbuf_fill_from_fd of n bytes: each of two reads may deliver less than it was
\* asked for, and the rest is what was there before.
FillFromFd(n) ==
  LET room == Least(n, MaxSize - numBytes)
      first == Least(MaxSize - writeOffset, room)
  IN  /\ \E part1 \in Data(first), part2 \in Data(room - first) :
            buf' = Copied(Copied(buf, writeOffset, part1), 0, part2)
      /\ Advance(room)
      /\ got' = Result(room, << >>)
      /\ UNCHANGED readOffset

\* Callers flush at most what there is.
Next ==
  \/ \E data \in Data(MaxSize + 1) : Write(data)
  \/ \E n \in 0..MaxSize + 1 : Peek(n) \/ Read(n) \/ FillFromFd(n)
  \/ \E n \in -1..numBytes : Flush(n)

Spec == Init /\ [][Next]_vars

-----------------------------------------------------------------------------
(* Property. *)

Queue == INSTANCE ByteQueue WITH
           queue <- [k \in 1..numBytes |-> buf[(readOffset + k - 1) % MaxSize]]

\* Wherever reading and writing stand in the array, and however they wrap around, the
\* buffer is a bounded queue of bytes (bot_ringbuf_write, _peek, _read, _flush,
\* _fill_from_fd).
IsAQueue == Queue!Spec
=============================================================================
