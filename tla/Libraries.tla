----------------------------- MODULE Libraries -----------------------------
(***************************************************************************)
(* The libraries of libbot2 about which something is proved, with their      *)
(* variables and what is claimed of them; MCLibraries puts them and the      *)
(* others side by side.                                                     *)
(***************************************************************************)
EXTENDS Integers, Sequences, FiniteSets

CONSTANTS
  Sizes, Payload, SendAtOnce, MaxSendBuffer, SeqnoWrapVal, SeqnoWrapGap, FirstSeqno, Modes,
  MaxMessages, MaxPackets,                      \* see LcmTunnel
  HubClients, HubServer, HubMessages,           \* see TunnelHub
  Deputies, DiscoveryTicks, DiscoveryLosses,    \* see DeputyDiscovery
  RingBytes, RingSize,                          \* see RingBuf
  Capacities, MaxAdds,                          \* see PtrCircular
  Handlers, Priorities, Distances,              \* see Viewer
  DrawnFrames, Bookmarks, Remembered, MinDist, MaxDist, Decimate, Room, MaxTimers, MaxPath,
  MaxActions,                                   \* see ViewerCamera
  SplicedLogs, MostLogs, SpliceOptions,         \* see LogSplice
  MovedFrames, TopFrame, NoFrame, Coords, SliderValues, MostChanges, MostOthers,
  MostUnheard,                                  \* see FrameModifier
  Machines, KillSignal, StopSignals, MostSignals    \* see ProcessTree

VARIABLES
  part,             \* the library that the behaviour is of
  params, came, queue, flushImmediately, due, thread, batch, seqno, packets, receiver,
  stopSendThread, sent, published, timely, perfect,
  running, isReady, inbox, over_udp, client_state, server_state, upstream, downstream,
  origins, audience, heard,
  phase, ticks, periodic, arrived, lost,
  buf, readOffset, writeOffset, numBytes, got,
  circ, pointers, handed, cleared, alive,
  event_handlers, priority, enabled, picking, picking_handler, hovering, event, called,
  invalidated, recent, redraw_timer_pending, timers, is_recording, movie_draw_pending,
  record_button, movie_buffer, movie_path, undrawn, passed_over, by_program, viewer_crashed,
  view, viewpath, path_timers, marks, target, selected, follow, smooth, trail, where, approached,
  moves,
  asked, sources, src_logs, events, first_event, dst_log, ended,
  trans, updates_sent, active, shown, sensitive, updating, crashed, accepted, echoes, changes,
  others, unheard,
  machine, procs, last_pid, pid, zombie, descendants_to_kill, doing, killed, runs, forks,
  signals, seen, orphans

Tunnel == INSTANCE LcmTunnel WITH MaxInFlight <- MaxPackets, network <- packets

Hub == INSTANCE TunnelHub WITH
  Clients <- HubClients, Server <- HubServer, MaxMessages <- HubMessages,
  params <- over_udp, client <- client_state, server <- server_state, published <- heard

Discovery == INSTANCE DeputyDiscovery WITH MaxLost <- DiscoveryLosses, due <- periodic

Ring == INSTANCE RingBuf WITH Bytes <- RingBytes, MaxSize <- RingSize

Circular == INSTANCE PtrCircular WITH added <- pointers

Events == INSTANCE Viewer

Redraw == INSTANCE ViewerRedraw

Camera == INSTANCE ViewerCamera WITH
  timers <- path_timers, bookmarks <- marks, path <- trail, actions <- moves

Splice == INSTANCE LogSplice WITH
  Logs <- SplicedLogs, MaxLogs <- MostLogs, Options <- SpliceOptions, options <- asked,
  logs <- sources

Modifier == INSTANCE FrameModifier WITH
  FrameNames <- MovedFrames, Root <- TopFrame, None <- NoFrame, Values <- SliderValues,
  MaxActs <- MostChanges, MaxOthers <- MostOthers, MaxLost <- MostUnheard,
  network <- updates_sent, acts <- changes, lost <- unheard

Processes == INSTANCE ProcessTree WITH
  Kill <- KillSignal, Signals <- StopSignals, MaxSignals <- MostSignals

-----------------------------------------------------------------------------
(* Properties, each stated where the library is modelled. *)

\* A tunnel publishes in order, each message once and whole, and without losses what goes in
\* comes out (on_udp_data).
Transparent == part = "tunnel" => Tunnel!PublishedInOrder /\ Tunnel!Transparent

\* A message comes once to each network that is connected (lcm_tunnel_server.cpp).
OthersHearItOnce == part = "hub" => Hub!OthersHearItOnce

\* At most one deputy of a name serves (discovery_timeout).
AtMostOneServes == part = "discovery" => Discovery!AtMostOneServes

\* The ring buffer is a bounded queue of bytes (ringbuf.c).
IsAQueue == Ring!IsAQueue

\* The circular buffer holds the newest pointers, and hands none of the others to the handler
\* twice or too early (ptr_circular.c).
KeepsTheNewest == part = "circular" => Circular!KeepsTheNewest /\ Circular!FreedOnce

\* The handler that picks hears of an event first, the others once each (viewer.c).
PickerGoesFirst == part = "events" => Events!PickerGoesFirst

\* What has changed is drawn, now or by a timer that is set, unless it was passed over for a
\* movie; and movies that only the record button starts and stops free nothing twice (viewer.c).
NoRedrawForgotten == part = "redraw" => Redraw!NoRedrawForgotten /\ Redraw!ButtonIsSafe

\* The camera comes to the bookmark that was loaded, and the path that is drawn is one of the
\* frame that is selected (default_view_handler.c, coord_frames_renderer.c).
ReachesTheBookmark == part = "camera" => Camera!ReachesTheBookmark /\ Camera!PathIsOfTheFrame

\* Logs are merged in order of time, with what matches of the time that is asked for
\* (lcm-logsplice.c, lcm-logfilter.c).
SplicesInOrder == part = "splice" => Splice!SplicesInOrder

\* The controls that move a frame show its transform, and what the user asks for comes about
\* (frame_modifier_renderer.c).
ControlsMoveTheFrame ==
  part = "modifier" =>
    Modifier!ShownIsTrue /\ Modifier!EchoesDieOut /\ Modifier!ChangesTakeEffect

\* Whatever is killed for a command belongs to it, and to the run that is over or is to end
\* (procman_kill_cmd, procman_check_for_dead_children).
KillsItsOwn == part = "processes" => Processes!KillsItsOwn
============================================================================
