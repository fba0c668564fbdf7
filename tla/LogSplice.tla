------------------------------ MODULE LogSplice ------------------------------
(***************************************************************************)
(* The tools that copy events from log files to a new one: lcm-logsplice,   *)
(* which merges several by time, and lcm-logfilter, which reads one.  Both  *)
(* copy the channels that match, within a time that starts with the first   *)
(* event.                                                                   *)
(***************************************************************************)
EXTENDS Integers, Sequences, FiniteSetsExt

CONSTANTS
  Logs,             \* what a log may hold: sequences of [timestamp, channel]
  MaxLogs,          \* bound: logs
  Options           \* [start, end, have_end, channels, invert]: channels are those that match

VARIABLES
  options,
  logs,             \* the logs
  src_logs,         \* what is still to be read of each
  events,           \* events[i]: << >> or the event of log i that was read last
  first_event,      \* << >> or the time of the first event
  dst_log,          \* what was written, with the place that it came from (history)
  ended             \* whether an event was past the end

vars == <<options, logs, src_logs, events, first_event, dst_log, ended>>

\* One event read ahead of each log.
Read(log) == IF log = << >> THEN << >> ELSE <<Head(log)>>
Rest(log) == IF log = << >> THEN << >> ELSE Tail(log)

Opened(sources) ==
  /\ logs = sources
  /\ src_logs = [i \in DOMAIN sources |-> Rest(sources[i])]
  /\ events = [i \in DOMAIN sources |-> Read(sources[i])]
  /\ first_event = << >> /\ dst_log = << >> /\ ended = FALSE

\* A start before the first event, or an end before the start, is refused.
Accepted(opts) == opts.start >= 0 /\ (opts.have_end => opts.end >= opts.start)

InitFilter == options \in Options /\ Accepted(options) /\ \E log \in Logs : Opened(<<log>>)

InitSplice ==
  /\ options \in Options /\ Accepted(options)
  /\ \E n \in 2..MaxLogs : \E sources \in [1..n -> Logs] : Opened(sources)

Init == InitFilter \/ InitSplice

-----------------------------------------------------------------------------

Waiting == { i \in DOMAIN events : events[i] # << >> }

\* Defect: the last of the logs with the least time comes first.
LeastLast ==
  Max({ i \in Waiting : \A j \in Waiting : events[i][1].timestamp <= events[j][1].timestamp })

\* The log whose event is the least, the first of these.
Least ==
  Min({ i \in Waiting : \A j \in Waiting : events[i][1].timestamp <= events[j][1].timestamp })

TooEarly(elapsed) == elapsed < options.start
TooLate(elapsed) == options.have_end /\ elapsed > options.end
Matches(event) == (event.channel \in options.channels) # options.invert

\* Whether an event that was read is written.
Copied(event, elapsed) == ~TooEarly(elapsed) /\ ~TooLate(elapsed) /\ Matches(event)

\* The place in its log of the event that was read last.
Ahead(i) == Len(logs[i]) - Len(src_logs[i])

\* One round of the loop.
CopyNext ==
  /\ ~ended /\ Waiting # {}
  /\ LET i == Least
         event == events[i][1]
         first == IF first_event = << >> THEN event.timestamp ELSE first_event[1]
         elapsed == event.timestamp - first
     IN  /\ first_event' = <<first>>
         /\ events' = [events EXCEPT ![i] = Read(src_logs[i])]
         /\ src_logs' = [src_logs EXCEPT ![i] = Rest(@)]
         /\ ended' = (~TooEarly(elapsed) /\ TooLate(elapsed))
         /\ dst_log' =
              IF Copied(event, elapsed)
              THEN Append(dst_log, [log |-> i, place |-> Ahead(i), event |-> event])
              ELSE dst_log
  /\ UNCHANGED <<options, logs>>

Next == CopyNext

Spec == Init /\ [][Next]_vars

-----------------------------------------------------------------------------
(* Properties. *)

InOrder(log) == \A m, n \in DOMAIN log : m < n => log[m].timestamp <= log[n].timestamp

Places == UNION { { [log |-> i, place |-> n] : n \in DOMAIN logs[i] } : i \in DOMAIN logs }
At(p) == logs[p.log][p.place]

\* Events come by time, those of one time by log, and those of one log as they are in it.
Before(p, q) ==
  \/ At(p).timestamp < At(q).timestamp
  \/ /\ At(p).timestamp = At(q).timestamp
     /\ p.log < q.log \/ (p.log = q.log /\ p.place < q.place)

\* An event that is asked for: it matches, and its time since the first one is one to copy.
IsWanted(p) == Copied(At(p), At(p).timestamp - Min({ At(q).timestamp : q \in Places }))
IsWritten(p) == \E m \in DOMAIN dst_log : dst_log[m].log = p.log /\ dst_log[m].place = p.place

\* What is written are events of the logs, those of each log in their order and none twice.
KeepsTheOrder ==
  /\ \A m \in DOMAIN dst_log :
       /\ dst_log[m].log \in DOMAIN logs /\ dst_log[m].place \in DOMAIN logs[dst_log[m].log]
       /\ dst_log[m].event = At(dst_log[m])
  /\ \A m, n \in DOMAIN dst_log :
       m < n /\ dst_log[m].log = dst_log[n].log => dst_log[m].place < dst_log[n].place

\* Of logs in order of time exactly the matching events of the time asked for are written, in
\* order of time; at any moment none that comes before one that was written is missing.
SplicesInOrder ==
  /\ KeepsTheOrder
  /\ (\A i \in DOMAIN logs : InOrder(logs[i])) =>
       /\ \A m, n \in DOMAIN dst_log : m < n => Before(dst_log[m], dst_log[n])
       /\ \A m \in DOMAIN dst_log : IsWanted(dst_log[m])
       /\ \A p \in Places : IsWanted(p) =>
            \/ IsWritten(p)
            \/ /\ ~ended /\ Waiting # {}
               /\ \A m \in DOMAIN dst_log : Before(dst_log[m], p)
=============================================================================
