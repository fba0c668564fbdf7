# A TLA+ verification of libbot2

libbot2 is a collection of libraries, daemons and tools for robotics built on
LCM. This directory holds TLA+ models of the parts of it whose control is hard
to get right, the TLC configurations that check the models, and theorems about
them that TLAPS checks. Paths below are relative to the root of the repository
(`src/`). `PROJECT.json` maps every definition to the lines it models.

The centre is **procman**, the process manager, in which several processes on several
hosts must agree about shared state over a lossy network, and in which children, timers,
signals and messages interleave. Around it stand models of the LCM tunnel, the parameter
server and its clients, the coordinate frames, the containers, remote drawing and the
event loop of the viewer.

## 1. Inventory

### procman (`bot2-procman`)

A *sheriff* (Python, usually inside a GUI) keeps lists of commands that
*deputies* (C daemons, one per host) are to run. They talk over LCM multicast:

    user -> sheriff --- PMD_ORDERS2 (orders2_t) ---> deputy -> fork, signal, reap
                    <-- PMD_INFO2   (info2_t)   ----

| component | state | operations | hard behaviour | what makes it correct |
|---|---|---|---|---|
| **deputy** `src/deputy/procman_deputy.c`, `procman.c` | list of commands, each with pid, `actual_runid`, `should_be_stopped`, `respawn_timeout_id`, `first_kill_time`, `remove_requested`; `exiting` | `_handle_orders2`, `start_cmd`, `stop_cmd`, `check_for_dead_children`, `on_scheduled_respawn`, signal handler, `on_quit_timeout`, reports | timers that outlive the state they were set in; SIGCHLD that stands for several exits; a stop that becomes a kill only when it is repeated; a quit while children resist | runs only what is wanted; a live run keeps its identity; warns before it kills; leaves nothing behind; reaps every child |
| **processes and words of a command** `src/deputy/procinfo.c`, `procman.c` | `descendants_to_kill`; the table of variables, the environment | read `/proc`, signal a child and its descendants, kill orphans; split and expand a command line | processes fork, end and are adopted while they are read, and their numbers come again; variables named in several ways | kills what belongs to the command and leaves none of it; runs what the text asks for |
| **sheriff** `python/src/bot_procman/sheriff.py` | per deputy a dictionary of commands with desired and reported run id, reported pid, `force_quit`, `scheduled_for_removal`; `last_update_utime` | add, start, restart, stop, remove, set_auto_respawn; `_handle_info2_t`; `_make_orders2_message` | judges the present by an old report; takes over running commands after a restart; learns of removal by omission | what it shows as stopped does not run; what the user asks for happens; nothing comes back |
| **script executor** `sheriff.py` (`ScriptExecutionContext`, `ScriptManager`) | action list, position, waits, GLib timers | run, abort, wait_ms, wait_status, run_script | timers of an aborted script; statuses that never come | a script performs its actions in order, once |
| **discovery** in the deputy | conflicting deputies seen | discovery messages, timeout | two deputies of one name start together | at most one deputy of a name |
| **signal pipe** `signal_pipe.c` | a pipe | handler writes, main loop reads | full pipe, coalesced signals | no exit is missed |
| **configuration** `sheriff_config.py`, `sheriff.py` (`load_config`, `save_config`) | the list of commands, the scripts, a text | write, parse, load, merge, save | what fails half way; names that are not escaped; deputies that were not heard from | what was saved comes back |
| **window** `sheriff_gtk/command_model.py` | a tree of rows and references to them | `repopulate` | rows move while references and paths to them are kept | the table shows the commands as they are |
| process statistics, dialogs | | | pure input or display | |

The sheriff owns the run ids: each start asks for a new `desired_runid`, the
deputy copies it to `actual_runid` when it forks, and a difference between the
two is what makes a deputy start or restart a command. Orders and reports are
both repeated every second, and neither is acknowledged.

### The rest

* **LCM tunnel** (`bot2-lcm-utils/src/tunnel`; `LcmTunnel`, `TunnelHub`): a connection
  state machine over TCP, a send queue filled by LCM callbacks and drained by a thread,
  UDP fragments with optional repeats or forward error correction, reassembly, and a
  server that forwards among its tunnels. Hard: the queue's lock and condition, fragments
  lost, repeated or out of order, numbers that wrap, messages that come back. Correct when
  each message is delivered at most once and whole to every network but its own, and a
  queued message is sent. The LDPC library below it (`LdpcFec`) recovers lost packets by
  substitution; correct when it finds what can be found and nothing else.
* **Parameter server and clients** (`bot2-param`; `ParamTree`, `ParamSync`, `ParamFile`): the server
  owns a tree of parameters and a sequence number and publishes the whole tree on change,
  on request and periodically; a client adopts a server id, asks for updates, and
  swaps in a new tree under a lock. Hard: restarts and several servers, updates lost or
  overtaken, local overrides, and a text format that publisher and parser must agree on.
  Correct when clients converge on the server's state, never go back, and read what was written.
* **Coordinate transforms and frames** (`bot2-core` ctrans, `bot2-frames`; `FramePaths`,
  `CTrans`, `BotFrames`): a graph of frames whose links hold a bounded history
  ordered by time; LCM updates add to both and are passed on to subscribers. Correct when a
  lookup interpolates between neighbours, and paths are shortest paths of the graph as it is now,
  as far as names of frames tell pairs of frames apart.
* **Containers** (`bot2-core`; `RingBuf`, `PtrCircular`, `MinHeap`): byte ring buffer,
  circular buffers of pointers and of values, min-heap, set. Sequential; correct when they
  implement a bounded queue, the newest elements, a multiset.
* **LCMGL** (`bot2-lcmgl`; `LcmGl`): an encoder with a growing buffer and a
  decoder that must agree on every command.
* **Viewer** (`bot2-vis/src/bot_vis/viewer.c`; `Viewer`, `ViewerRedraw`): events that go
  to whoever picks and then by priority; redraws limited in rate by timers and by a movie.
  Correct when one handler picks, and goes first, and no change stays undrawn but what a movie passed over.
* **What a viewer keeps and who moves its camera** (`viewer.c`, `param_widget.c`,
  `default_view_handler.c`, the frames renderers; `ViewerSettings`,
  `ViewerCamera`, `FrameModifier`): menus, widgets and bookmarks in a preferences file; a camera
  moved by the user, by timers and by frames; a frame moved by controls that hear their own
  updates. Correct when a session begins as the last one ended, the camera comes to its
  bookmark, and controls and frame agree.
* **Models in files** (`bot2-vis/src/bot_vis/glm.c`, `wavefront.c`; `Wavefront`): a file is read in two
  passes of which the first makes room for the second; models are turned, welded, given normals,
  drawn in two passes and written. Correct when the model is what the file says, its normals fit
  its faces whatever is done to it, and it is drawn once and read back as it was.
* **Log tools** (`bot2-lcm-utils`; `LogSplice`): logs merged and filtered. Correct when
  exactly the matching events are written, in order.
* **Other LCM utilities, core utilities, other renderers and widgets**: batch I/O, system calls,
  display code. Not modelled.

`PROJECT.json` lists every component with its status, and the hazards: what can
go wrong at which line and which property would catch it, or why none does yet.

## 2. Modules

| module | models | built on |
|---|---|---|
| `Supervisor` | what a deputy promises: running, wanted, closing | |
| `ProcmanDeputy` | the deputy's handlers and its children | implements `Supervisor` |
| `Sheriff` | the sheriff's list for one deputy | |
| `Procman` | a sheriff and a deputy over a lossy network, with restarts | instances of `Sheriff` and `ProcmanDeputy` |
| `ScriptRun` | what running a script promises: a list of actions, performed in order | |
| `SheriffScript` | the script executor with its contexts, waits and timers | `Sheriff`; implements `ScriptRun` |
| `ConfigFile`, `SheriffConfig` | the text of a configuration; loading, merging and saving it | `SheriffConfig` uses `ConfigFile` |
| `ProcessTree` | the processes of a command, and the deputy that reads, signals and reaps them | |
| `CommandLine` | the words and the environment of a command, the table of variables | |
| `SheriffTree` | the table of commands in the sheriff's window | |
| `DeputyDiscovery` | deputies of one name that look for each other | |
| `LcmTunnel` | one direction of a tunnel over UDP: queue, thread, fragments | |
| `LdpcFec` | parity symbols of a batch and what the receiver makes of them | |
| `TunnelHub` | the tunnels of a server: connecting, forwarding, leaving | |
| `ParamTree` | the tree of parameters, its inheritance and its writing | |
| `ParamCopies` | what a client promises: the states of one server, going forward | |
| `ParamSync` | servers, clients, updates that are lost or overtaken | `ParamTree`; implements `ParamCopies` |
| `ParamFile` | the parser of parameter files, the writer, typed answers | |
| `FramePaths`, `CTrans` | the search for paths; a graph that grows, with its cache | `CTrans` uses `FramePaths` |
| `BotFrames` | frames with their histories, updates and subscribers | `FramePaths` |
| `FrameModifier` | the controls that move a frame, and their echoes | |
| `ByteQueue`, `RingBuf` | a bounded queue of bytes; the ring buffer | `RingBuf` implements `ByteQueue` |
| `PtrCircular`, `MinHeap` | the circular buffer of pointers; the heap | |
| `LcmGl` | the layout of the drawing commands on both sides; client and viewer | |
| `Viewer`, `ViewerRedraw` | events and picks; when the viewer draws | |
| `ViewerSettings` | rows of controls; what a viewer keeps between sessions | |
| `ViewerCamera` | who moves the camera | |
| `Wavefront` | models in files: reading, changing, drawing, writing | |
| `LogSplice` | the tools that merge and filter logs | |
| `Libraries` | the libraries about which something is proved, with what is claimed of them | instances of `TunnelHub`, `LcmTunnel`, `DeputyDiscovery`, `RingBuf`, `PtrCircular`, `Viewer`, `ViewerRedraw`, `ViewerCamera`, `LogSplice`, `FrameModifier`, `ProcessTree` |
| `MCProcman`, `MCSheriffScript` | instances for TLC | |
| `MCLibraries` | instances of all libraries side by side | `ParamSync`, `Libraries` and the others |
| `ProcmanDeputyProofs`, `ProcmanProofs`, `SheriffScriptProofs`, `TunnelHubProofs`, `ParamSyncProofs`, `ViewerProofs` | the theorems about the module of that name | it |
| `LcmUtilsProofs` | the theorems about what `Libraries` claims of the LCM utilities: hub, tunnel over UDP, logs | `Libraries`, an instance of `TunnelHubProofs` |
| `LibrariesProofs` | the theorems about the rest of what `Libraries` claims | `Libraries`, an instance of `ViewerProofs` |

### ProcmanDeputy

The deputy is one GLib main loop, so a handler runs to completion and is one
action: `HandleOrders` (`_handle_orders2`), `HandleSigchld` and
`HandleQuitSignal` (`glib_handle_signal`), `RespawnTimer` and `StrayTimer`
(`on_scheduled_respawn`), `OnQuitTimeout`. The environment adds `ChildExits` and
`StopTimePasses`. The helpers `StartCmd`, `StopCmd`, `Obey`, `RequestRemoval`
and `MaybeScheduleRespawn` are functions from a command's record to a command's
record, in the code's order of effects.

Decisions that carry the interesting behaviour:

* `child` is the process behind `pid`: alive, or dead and not reaped, or none.
  Between death and reaping the deputy still takes the command for running.
* `signal` is the last signal the process was sent. It is a ghost of `kill()`:
  the code remembers only `first_kill_time`.
* `start_cmd` sets `respawn_timeout_id` to 0 without removing the source, and
  `stop_cmd` removes the source and keeps the id. So a command has the source
  that its field names (`timer`), sources whose id was lost (`stray`), and when
  it is freed they are left behind (`dangling`).
* A timer on a freed record reads freed memory: the next state is any of a crash
  or a read that happens to do nothing. (A read that finds a plausible record
  and acts on it is left out.)
* Time appears by its effects: `first_kill` is unset, recent or overdue. The
  respawn delay is not modelled: a source comes due at some time after it is set.
* Entries of `cmds` outside `managed` are blank: the record does not exist.
* `wanted` is a history variable: what the last obeyed orders want to run.

### Sheriff and Procman

`Sheriff` has one deputy's dictionary (`known`, `commands`), whether an info was
ever taken in (`heard`, i.e. `last_update_utime` is not zero) and a history
(`fate`) of what became of each id. `pid` is what the sheriff tells apart: never
reported, none, some. `MakeOrders`, `Status`, `UpdateFromDeputyInfo` and
`Reconcile` follow the code, with the exception that the reconciling loop ends
in kept as the code has it: the ids have changed and the info is dropped.
`add_command` draws a random id that no command has; the model draws a fresh one.
Renaming chains, in which a command takes an id that another gives up in the same
loop, are left out.

`Procman` has two bounded first-in first-out channels. Sending puts a message
on the channel or loses it; losing stands for the network and for orders
that the deputy drops as stale. A user's action sends orders in the same step, as
`send_orders()` ends each operation. A deputy that took an action reports at
once. `HandleSigchld` sends several reports in the code (one per reaped child);
the model puts at most one of them on the channel, of all that may be sent.
A restart of either process happens when no message is under way: a new process
subscribes after the old one's messages are gone, and the deputy first spends
its discovery time.

### SheriffScript and ScriptRun

The executor has no thread: `_execute_next_script_action` performs one action and is
called again by a GLib timer (`TimerFires`) or by an info that changes a status
(`ReceiveInfo`). The stack of `ScriptExecutionContext` is a sequence of places in scripts; `Search` is
`get_next_action` of one context, by recursion into the scripts that it runs, and `GetNextAction`
that of nested ones. `check_script_for_errors` follows the path of calls to find a script
that comes to call itself; here those that do not are the ones that call to a bounded depth (`Nested`,
`Sound`). Timers that an aborted script leaves behind are counted in `stale` and may fire at any
later time. The deputy is reduced to what `Procman` shows of it. `ScriptRun` is the specification of
all that: a list of actions and a cursor. The refinement maps the contexts to what is left of the
script with its sub-scripts expanded (`Remaining`).

### ProcessTree and CommandLine

`ProcessTree` has the processes of a machine with what `/proc` tells of them, a parent and a session,
and a label: the run of the command that a process descends from. They fork, take sessions of
their own and end at any time, `init` adopts, and numbers are given in turn, so that they come again.
The deputy is in the middle of something (`doing`): `ReadNext` is one round of the loop in
`get_all_pids_and_ppids`, and only then `SignalChild` and `SignalDescendant` send the signals,
one by one; `Reap` and `CheckOrphan` are what `procman_check_for_dead_children` does about the list
that it remembers. A number is not given again while the deputy is in the middle of something
(`taken`): numbers go round once in 32768 processes or more, and no check of the deputy's could
help it. `Descendants` is a recursive function, over numbers that grow from parent to child.

`CommandLine` has commands and variables as they are added, changed and removed, and what a start
makes of them: `SplitStr`, `SubstVars`, `ParseVariable` on sequences of characters, as here the
conversion is what the property is about.

### ConfigFile, SheriffConfig and SheriffTree

`ConfigFile` writes and parses a configuration as a sequence of tokens: groups in groups,
commands, scripts. `SheriffConfig` has the sheriff's `load_config`, `__merge_commands` and
`save_config` with what they do before they fail: a load over commands of a deputy that was
not heard from raises after the scripts are gone, a file entry without an id makes it partial.
`SheriffTree` is `repopulate` with its three walks over the rows, and references to rows that
follow them until they are removed; an exception leaves the table as it is at that point.

### DeputyDiscovery

Each deputy asks, listens and, when its time is over, serves. A deputy that is still asking
exits when it hears the question of another one, or an info; one that serves answers a
question with an info. A network step delivers a message to each deputy or loses it. The time of discovery is counted in periods of its timer.

### LcmTunnel and TunnelHub

`LcmTunnel` has the main loop that fills the queue, the thread with its two kinds of waits
(`WaitOrHold`), the batch cut into packets, a network that loses, repeats and reorders, and
the reassembly in `on_udp_data`. Sizes are counted in units of which a packet holds two.
Numbers wrap at the code's constant; the run starts just before it. History variables keep what was
sent (`sent`), which batches were published (`published`), whether nothing was lost or overtaken so far
(`perfect`), and whether every packet came while its number still told which batch it is of
(`timely`, see section 6).

`TunnelHub` takes a tunnel as a queue and models what is around it: `ConnectToServer`,
`AcceptClient`, the parameter message and the answer with the port, the switch from TCP to
UDP, who forwards what, and how a client leaves. LCM gives every process what it has
published itself; `introspect.c` finds out the own address so that this is not sent back.
A packet sent by UDP may arrive before the answer that goes by TCP. On a disconnect message
`on_udp_data` deletes the tunnel and goes on to use it; the model lets the server crash there.

`LdpcFec` has the random matrix, built as the code builds it (left degree, the triangle of
parity symbols, even numbers of ones per row), the parity symbols and the decoder that
substitutes whenever an equation lacks one symbol. The content of a symbol is the set of source
symbols added in it, so that wrong content shows. `ldpc_rand` is any choice.

### ParamTree, ParamSync, ParamCopies, ParamFile

A tree is a function from paths to values, with the inheritance of `_bot_param_get_str` and
the writer that `bot_param_write` is; what hangs below an array is not written. `ParamSync`
has servers that are started and killed, updates under way that may be lost or overtake each
other, and clients that adopt a server, subscribe, unsubscribe and override. `ParamCopies`
says what a client may see: the states of one server in order, each of them whole.

`ParamFile` takes a text character by character: the lexer with its comments, strings, casts
and longest token, the parser of containers, arrays and duplicate names, setting and overriding by
programs, the writer, and what the typed getters answer.

### Transforms

`FramePaths` is the search for a path; `CTrans` a graph to which frames and links are added
while paths are cached. Links and cached paths are found by the text of two names with `-` between
them. Names may hold a `-` themselves, so in `CTrans` a name is the sequence of its parts and `Key`
joins two of them; `LinkId` puts the later name first. A link that has the id of another replaces and
frees it while the frames still list it: a behaviour ends there (`crashed`). `BotFrames` the frames of a configuration: the circular history of a
link with its insertion by time, updates at given times, updates that
add a frame or a link, configurations with something wrong in them, and subscribers. A
transform is what it is made of: an update, or the two updates that it interpolates between.
Composition of two is composition of these terms.

`FrameModifier` is the renderer that publishes what its controls show and hears it again;
setting a control from an update is a change as well, which is why the flag `updating` exists.
Setting all controls one after the other is given by what comes of it (`SetAll`).

### Containers and drawing

`RingBuf` keeps offsets modulo the size as the code does and implements `ByteQueue`.
`PtrCircular` and `MinHeap` keep their arrays; `added`, `handed` (how often each
pointer was given to the handler), `removed` are histories.
`LcmGl` gives for each command what the client writes and what the viewer reads, so that a
difference in either list of cases shows; it has the buffer and its growth, the textures,
the switch of buffers and the message.

### Viewer and ViewerRedraw

An event is handed out in steps, one per handler that is called: `ButtonPress` and the
others run the queries and begin, `CallPickingHandler` and `CallOther` call. What a handler
does is open: it may consume the event, end its pick, ask for one, or nothing; it may
do the latter also between events. A handler without a callback is one that does nothing.
`ViewerRedraw` has the expose event, the timer that puts it off, and the movie, which the record
button or a program starts and stops. `undrawn` and `passed_over` are histories that only drawing, dropped
expose events and new changes write, `by_program` one of who starts and stops. Setting the
button inactive calls `on_record_toggled` if it was active: `StartRecording` and `StopRecording` include that call.

`ViewerSettings` has the control widget, rows with their GTK type, range and options, and
runs sessions of a viewer: it adds renderers, loads preferences, is used, saves.
`ViewerCamera` has the user, the smooth approach of a bookmark by timers that share one path,
and the renderer of frames, which follows the selected one. Positions lie on a line.

`Wavefront` has a model as its positions, normals, coordinates, triangles and groups. A file is a
sequence of statements, which `FirstPass` counts and `SecondPass` stores. A normal is the set of directions
that it is the mean of, so that what was averaged shows; positions are integers. The library of
materials is a file of its own, which a program that wrote it has not closed, so that a reader may find
part of it (`unflushed`).

### LogSplice

The two programs that copy events, `lcm-logsplice` from several logs by time and
`lcm-logfilter` from one, with their options for channels, start and end.

## 3. What the runs check

| run | instance | states | properties |
|---|---|---|---|
| `deputy` | 1 command, run ids 0..2, auto_respawn any | 9,276 | `TypeOK`, `ImplementsSupervisor`, `RunKeepsItsRecord`, `WarnedBeforeKilled` |
| `deputy_pair` | 2 commands, run ids 0..1, with fairness | 20,584 | `ExitLeavesNothingRunning`, `QuitHappens`, `ReapedEventually` |
| `procman` | 1 command, run ids 0..2, 2 messages each way | 580,186 | `StoppedIsStopped`, `RunidsAgree`, `RemovalIsFinal`, `RunsAdvance` |
| `procman_liveness` | 1 command, run ids 0..2, 1 message each way, with fairness | 53,332 | `StopTakesEffect`, `RemovalCompletes`, `StartTakesEffect` |
| `procman_restarts` | 2 alike commands, 1 start each, 2 messages each way, 2 restarts | 89,140 | `Undisturbed`, `StoppedIsStopped` |
| `script` | 2 commands, 6 scripts, 2 executions, with fairness | 155,874 | `WaitsAreMet`, `RunsAsWritten`, `ScriptGoesOn` |
| `libraries` | each library by itself, see below, with fairness | 253,234 | 21, see below |
| `respawn_after_removal`, `removed_stays_removed`, `every_info_is_heard`, `script_misses_status`, `tunnel_holds` | small | | one claim each, violated (section 5) |

`MCLibraries` puts the libraries, which share no state, side by side: the variable `part`
names the one that a behaviour is of, and the others stay as they began. Each property is
about one part.

| part | instance | states | properties |
|---|---|---|---|
| parameters | 1 client, 2 servers, a container and a leaf, 2 sets, 2 messages | 15,661 | `TypeOK`, `OverridesStick`, `CopiesOfOneServer`, `ComeToRest` |
| text | texts of up to 3 pieces, programs that set and override | 4,801 | `WrittenIsReadBack` |
| tunnel | 3 messages of size 1 or 3, 2 packets under way, numbers from 29998 | 43,302 | `Transparent`, `ComeToRest` |
| fec | 3 and 4 source symbols with 4 and 3 of parity, left degree 3, 2 symbols a packet | 3,917 | `WrittenIsReadBack` |
| hub | a server, 2 clients, 1 message | 29,547 | `OthersHearItOnce` |
| paths | 4 frames, 2 pairs of which make one text, 4 of 6 possible links, 1 cached path | 5,001 | `TransformsAreRight` |
| frames | histories of 2, 1 and 0, times 0..2, 3 updates, 1 subscriber, 9 odd configurations | 22,572 | `TransformsAreRight` |
| modifier | 2 frames, 2 controls, 3 changes, 1 update of others, 1 loss | 3,059 | `ControlsMoveTheFrame` |
| discovery | 3 deputies, 3 periods, 1 loss | 9,340 | `AtMostOneServes` |
| config | 3 configurations, 4 operations | 18,779 | `SavedComesBack` |
| table | 2 commands in groups of up to 2 levels | 7,808 | `ShowsWhatIs` |
| ring | 2 bytes of {0, 1} | 296 | `IsAQueue` |
| circular | capacities 0, 2, 3, 5 pointers | 1,534 | `KeepsTheNewest` |
| heap | 4 nodes, 3 scores | 1,501 | `TransformsAreRight` |
| drawing | programs of each of the C, Java and Python clients, of five commands or three | 8,998 | `ShowsWhatIs` |
| events | 2 handlers, 2 priorities, 3 distances | 5,539 | `PickerGoesFirst` |
| redraw | | 444 | `NoRedrawForgotten` |
| settings | 3 renderers, 2 actions a session, 1 bookmark | 16,994 | `SavedComesBack` |
| camera | positions -2..2, 2 frames, 1 bookmark, 2 timers, 3 actions | 14,031 | `ReachesTheBookmark` |
| model | 7 files of up to 4 triangles and 3 groups, 2 libraries, 2 changes, then drawn, or written and read | 7,799 | `ModelsAreWhole`, `ShowsWhatIs`, `WrittenIsReadBack` |
| processes | numbers 1..3 or 1..4, up to 4 forks, 1 command signalled once with SIGINT or SIGKILL | 21,830 | `KillsItsOwn`, `CommandsRunAsAsked` |
| lines | 22 command lines, 2 variables, 2 calls | 5,478 | `CommandsRunAsAsked` |
| splice | up to 2 logs of up to 2 events of 4 kinds, 5 choices of options | 7,930 | `SplicesInOrder` |

What the properties of procman say:

* `ImplementsSupervisor`: the deputy is a `Supervisor`. However orders, exits,
  quit signals and late timers interleave, it forks only what the last orders
  want, and nothing once it is quitting. The respawn timer is the danger.
* `RunKeepsItsRecord`: a live process keeps its entry and its `actual_runid`.
  The sheriff depends on it to know which run it is looking at.
* `WarnedBeforeKilled`: SIGKILL is never the first signal of a process, although
  `first_kill_time` outlives the process it was set for.
* `ExitLeavesNothingRunning`, `QuitHappens`, `ReapedEventually`: the quit ends
  the loop with every child dead or killed; no zombie is forgotten, although one
  SIGCHLD may stand for several.
* `StoppedIsStopped`: what the sheriff shows as stopped is not running, although
  both its knowledge and the orders under way may be old.
* `RunidsAgree`: the deputy and the messages never have a later run id than the
  sheriff; otherwise a start could ask for a run the deputy takes for done.
* `RunsAdvance`: an order that arrives starts a command only for a later run than its last, so
  repeated orders never run a completed command again.
* `RemovalIsFinal`: a command that some info had shown and that was then removed
  is nowhere: not on either list and in no message.
* `StopTakesEffect`, `StartTakesEffect`, `RemovalCompletes`: what the user asks
  for happens unless he changes his mind, although messages are lost, forks fail
  and processes ignore their stop signal.
* `Undisturbed`: a process that was only started once is never stopped, also when
  a sheriff restarts and adopts it or a deputy restarts and starts it anew.
* `RunsAsWritten`: whatever timers and infos advance the contexts, the actions of a
  script and those of its sub-scripts are performed in order and once. `WaitsAreMet`: one
  thing at a time is to move it on, and after a wait the deputy, and not only the sheriff's
  picture of it, has what was waited for. `ScriptGoesOn`: a script that does
  not end waits for a status that its commands do not get; none is missed.

And of the libraries:

* `CopiesOfOneServer`, `OverridesStick`: a client's tree is a state of the server
  that it follows, and its later ones are later states; what a program overrides stays.
  `TypeOK`: no tree has a path without its ancestors or one that nobody gave.
* `WrittenIsReadBack`: a published tree answers every question as the publisher's own does, unless
  a program has set a value that cannot be put between quotes, or there is something below an array.
  A model that is written has the same triangles in its groups when it is read, and its materials if the
  library has come to the disk. Of a batch the decoder finds what was sent, and all that substitution can
  find from the packets that came, in whatever order and however often.
* `Transparent`: a tunnel publishes in order, once and whole whatever the network does; a network
  that does nothing makes it transparent, also where the numbers wrap.
* `ComeToRest`: clients end at the last state of their server if the updates stop; no wake-up of
  the send thread is lost and it ends when told to.
* `OthersHearItOnce`: a message comes to every network that is connected by TCP, once, and not
  back to its own, although every process hears itself and the server has a tunnel back.
* `TransformsAreRight`: a path found is a shortest path of the graph as it is, not as it was
  when the path was cached, and the heap that the search rests on returns the least score. Of two pairs
  of frames whose names make one text, one may get the path of the other. A transform is
  interpolated between the updates on both sides of its time, transforms of one time compose, the
  functions that ask agree, frames are listed in order and subscribers are told of each update.
* `ControlsMoveTheFrame`: the controls of a frame show its transform unless an update is awaited, what
  the user asks for comes about, and echoes die out.
* `ShowsWhatIs`: the sheriff's table has each command under its group, whatever changed between
  two repopulates. What a viewer draws for a client is what was queued, argument by argument, and nothing is
  written past the end of the buffer. Of a model each triangle is drawn once, those that let
  light through after the others, with the material and texture that the file gives it.
* `ModelsAreWhole`: what the second pass stores has room and is what the file says, no number is
  out of range, and normals lie on the outer side of the faces that share them, in whatever order a model is turned
  inside out, welded, unitized and given normals and coordinates.
* `KillsItsOwn`: what is killed for a run of a command descends from that run, although processes come and
  go while `/proc` is read and descendants of earlier runs stay in the list when their numbers
  have gone to others.
* `CommandsRunAsAsked`: when a command has ended, none of its descendants that were there when it was
  signalled is left with `init` in its session. A command is started with the words of its text, in which each
  reference is replaced by its value as the comment at `procman.c:452` says, and with what it
  assigns; no two commands have one number.
* `AtMostOneServes`: of deputies of one name, one at most gets to serve.
* `SavedComesBack`: a configuration that was saved is there when it has been loaded; a merge keeps
  the list and adds what it lacks. A session of a viewer that loads its preferences last begins as the one
  that saved them ended, and programs know what their widgets show.
* `IsAQueue`, `KeepsTheNewest`: the containers against what they stand for, over every
  sequence of calls: a queue of bytes; the newest pointers, the others freed once.
* `PickerGoesFirst`: at most one handler picks; it hears first, and the others in order and
  once. `NoRedrawForgotten`: a change that is not drawn has an expose event or a timer that will draw
  it, unless an expose event since was dropped for a movie: if that is stopped before its next frame,
  the change stays undrawn. Movies that only the record button starts and stops free nothing twice.
* `ReachesTheBookmark`: the camera
  is at the bookmark when the last timer has ended, and the path that is drawn is of the frame
  that is selected.
* `SplicesInOrder`: events of one log keep their order and none is written twice. Of logs in order
  of time exactly the matching events are written, in order, and nothing is missing before what was written.

Each property of a passing run has a mutant in `PROJECT.json`: a defect of the
kind a change to the code could introduce (defined beside the operator it
changes, with a comment "Defect: ...") under which TLC finds the property violated.

### Bounds

* *Commands.* Orders treat commands independently; what they share is the list,
  SIGCHLD and the quit (`deputy_pair` has two) and, in the sheriff, reconciling,
  which needs two commands that look alike (`procman_restarts` has two).
* *Run ids.* Two starts (`MaxRunid` 2) show a run being replaced while its
  predecessor is stopped, twice in a row. More starts only repeat this: the code
  compares run ids for equality. Only `procman_restarts` allows one.
* *Messages.* With two under way in each direction an old message can be followed by
  a newer one that contradicts it, while both cross messages of the other side. One is
  enough for liveness, where a fuller channel only delays.
* *`Respawns`* is {FALSE} in the composed runs. An auto-respawning command whose
  first fork fails respawns under its old run id and is then stopped and started
  again by the next orders, so `Undisturbed` does not hold of it; a dangling timer
  may crash the deputy, after which nothing is live; and `StoppedIsStopped` is a
  claim about commands that do not restart by themselves. The other properties of run
  ids and removal were also explored with both settings
  (one start, one message each way, 6.0 million states) without an error.
* *Restarts* are 0 where a property is about one incarnation of each process.
  `RunsAdvance` and `RemovalIsFinal` do not survive a deputy that restarts, since
  nothing of the deputy is persistent, and `RunidsAgree` does not survive reconciling,
  which gives adopted commands a desired run id of 0. `StoppedIsStopped` does
  survive restarts of commands that are only started; the constraint `OnlyStarted`
  ends the exploration of `procman_restarts` where users restart, stop or remove.
* *Scripts.* The six scripts have every kind of action, a sub-script in the middle and at
  the end, an empty one and two that call each other. Two executions let the timer
  of an aborted one meet its successor.
* *Parameters.* Two servers are one restart. Values can be read back by the parser or not
  ("#" begins a comment), and a container can be set like a leaf.
* *Tunnel.* A message of size 3 is two packets, one of size 1 is one; three messages make
  batches of one, two and three. Two packets under way are lost, repeated and overtaken
  in every way; three (89,121 states of the tunnel alone, 43,302 with two) were also explored without an error. The numbers pass 30000, the code's `SEQNO_WRAP_VAL`.
* *Hub.* One message meets both clients at every stage of connecting and leaving. With two
  messages (297,845 states) the property was also explored without an error.
* *Error correction.* Each of two shapes has one sequence of random numbers, which leaves no
  symbol in its place; packets are lost, repeated and reordered in every way.
* *Texts.* Three pieces make every pair of tokens with a third to end them; the longest token is 3
  characters here, 256 in the code.
* *Frames.* Times 0..2 with updates at 0 and 2 ask before, between and after; three
  updates fill and overwrite a history of two.
* *Configurations.* Four operations are a save, a change, a load or merge, and another.
* *Table.* Two commands in groups of two levels can change places, ids and groups in every way
  between two repopulates, which is how often the two levels need.
* *Discovery.* A newcomer asks three times; the proof is for any number of questions and fewer
  losses (section 4). With three losses the property fails, as it must: nothing tells the newcomer.
* *Containers.* Capacities up to 3 with 5 pointers go round and are resized in every
  position; a heap of 4 has three levels.
* *Drawing.* Commands of a fixed length are read one after the other, so each has to occur
  once; those whose length depends on an argument, and textures, occur in all triples. The clients in
  Java and Python write each of their commands; two that the viewer misreads are excepted (section 6).
* *Events.* Two handlers are a picking one and another one. Three (156,627 states) were
  also explored without an error; the proof is for any number.
* *Viewer.* The three renderers have a widget of each kind between them; two actions change a value
  and close its control. Two timers are two bookmarks being approached at once.
* *Models.* The files have faces of three and four corners, with and without coordinates, normals,
  groups and materials, faces before the first group, a number that is out of range, a library with a
  material without a name or with a statement that nobody knows. Two changes are enough for one to meet what
  the other left behind.
* *Processes.* With three or four numbers and as many forks a number comes again within two runs of
  the command, also that of a process which is still in the list; 4 numbers have a child, a grandchild
  and a stranger. A signal that may be ignored and SIGKILL are both sent.
* *Command lines.* Words have a prefix and a reference in each of the ways to write one, right and
  wrong; lines have assignments before and after the program, or do not parse.
* *Logs.* Two logs of two events meet at equal times, in and out of order, before and after the end.

`CHECK_DEADLOCK` is FALSE throughout: a deputy that has quit or crashed stops, and so does
a library that has reached its bound.

### Fairness

In `ProcmanDeputy`: the GLib loop dispatches a ready source (`HandleSigchld`,
`OnQuitTimeout`), and the kernel ends a process that was sent SIGKILL. No process
is assumed to react to its stop signal.
In `Procman`, in addition: the two one-second timers keep sending, and of infinitely
many sendings one gets through (strong fairness, as the channel may be full again
and again); what has arrived is handled; `stop_time_allowed` passes; and `forkpty`
does not fail for ever. Nothing is assumed of users. `RepeatOrders` is a timer of
the programs that use the sheriff (`sheriff_gtk.py:118` and `:747`; the example at
`sheriff.py:565`), not of the sheriff: a program without it has no such guarantee, as
the mutant `RepeatOrdersOff` shows.
In `SheriffScript`: GLib timers fire, the deputy obeys and reports, and reports arrive.
In `ParamSync`: the server's five-second timer publishes and not every publication of the
state is lost or overtaken (strong fairness, per client and server), and the client's thread
handles what has arrived. In `LcmTunnel`: the thread is scheduled and the clock goes on;
nothing is assumed of the network.

## 4. What is proved

| module | theorem | states, for every value of the constants |
|---|---|---|
| `ProcmanDeputyProofs` | `Invariance`, `TypeCorrect` | the inductive invariant and the types of a deputy |
| | `QuitIsClean`, `RunKept`, `KillIsSecond` | `ExitLeavesNothingRunning`, `RunKeepsItsRecord`, `WarnedBeforeKilled` |
| | `Refinement` | a deputy implements `Supervisor` |
| `ProcmanProofs` | `TypeCorrect` | `Spec => []TypeOK`, restarts included |
| | `RunidsAgreeAtFirst`, `RemovalIsFinalAtFirst` | `RunidsAgree`, `RemovalIsFinal` while neither side has restarted |
| | `EachRunOnce` | `RunsAdvance` without restarts |
| | `StoppedIsStoppedAtFirst`, `UndisturbedAtFirst` | `StoppedIsStopped`, `Undisturbed` while neither side has restarted and of commands that do not respawn |
| `SheriffScriptProofs` | `Invariance`, `WaitsMet` | `Spec => []WaitsAreMet`, for any scripts |
| | `ScriptsRunAsWritten` | `RunsAsWritten`: the executor implements `ScriptRun`, for scripts that call one another to any depth |
| `ParamSyncProofs` | `OverridesAreKept` | `OverridesStick`, for any clients, servers, file and entries |
| | `CopiesAreOfOneServer` | `CopiesOfOneServer`: a client with its servers implements `ParamCopies` |
| | `ParametersAreTrees` | `TypeOK`, for any clients, servers, file and entries |
| `LcmUtilsProofs` | `MessagesComeOnce` | `OthersHearItOnce`, for any number of clients and messages |
| | `TunnelsAreTransparent` | `Transparent`, for any sizes, repeats and wrap of the numbers |
| | `LogsAreSpliced` | `SplicesInOrder`, for any logs and options |
| `LibrariesProofs` | `OneDeputyServes` | `AtMostOneServes`, for any number of deputies |
| | `RingIsAQueue` | a ring buffer of any size implements `ByteQueue` |
| | `NewestAreKept` | `KeepsTheNewest`, for any capacities and numbers of pointers |
| | `FirstDibs` | `PickerGoesFirst`, for any handlers |
| | `RedrawsComeAbout` | `NoRedrawForgotten`, with its exception |
| | `BookmarksAreReached` | `ReachesTheBookmark`, for any bookmarks, frames and distances |
| | `ControlsAreTrue` | `ControlsMoveTheFrame`, for any frames, controls and positions |
| | `OnlyItsOwnAreKilled` | `KillsItsOwn`, for any number of processes and of runs |
| `TunnelHubProofs`, `ViewerProofs` | `Dissemination`, `FirstDibs` with their invariants | the same of the module by itself |

Each proof has the form Init => I, I /\ [Next]_vars => I', I => property. What follows says for
each what the invariant I is, and why the property needs it.

### The deputy

`ProcmanDeputyProofs` assumes that `MaxRunid` is in `Nat` and `Respawns` in `SUBSET BOOLEAN` (the
two named assumptions of `ProcmanDeputy`) and nothing else.

The inductive invariant `IInv` is the conjunction of

* `TypeOK`;
* `FreeIsBlank`: an id off the list has a blank record. Without it nothing says that a live
  process has an entry, nor that an added command starts with run id 0;
* `UnwantedIsStopped`: a listed command the last orders do not want has
  `should_be_stopped`. It is why a late respawn timer is harmless, and so the
  heart of `Refinement`: `Respawned` forks only if the flag is off;
* `EveryWarned`: a process with a stop clock has been sent a signal. It rests on
  `start_cmd` resetting `first_kill_time`, and gives `KillIsSecond`;
* `QuitWarned`: while the deputy is exiting every process has been sent a signal,
  since nothing is forked any more. `OnQuitTimeout` needs it for `KillIsSecond`;
* `ExitLeavesNothingRunning`.

The facts about one command's record (`StartCmdFacts`, `StopCmdFacts`, `ObeyFacts`,
`RespawnedFacts`, ...) are lemmas stated once. Each handler then has a lemma
that it preserves `IInv`, with a step per conjunct; `NextIInv` combines them. The
action properties and the refinement follow from `IInv` by the same split of `Next`:
`HandleOrders` maps to `Ordered`, a respawn that forks to `Launch`, an exit to
`Ends`, a quit signal to `Close`, and everything else to a stutter.

### A sheriff and a deputy

`ProcmanProofs` is about both processes and the channels between them, for any set of ids, any
number of run ids, of messages under way and of restarts.

* `Base` is what holds always: the types of all variables, the deputy's `IInv`, which is taken
  over from `ProcmanDeputyProofs` as the deputy of `Procman` is an instance, and that
  every setting is one of `Respawns`. It is inductive by itself.
* `Calm` holds until something restarts. It speaks of every message under way: once an order does
  not name a command that the deputy has or an earlier order names, the command is being
  removed and no later order names it (`OrdersInStep`); once an info does not show a command that
  was shown, the deputy is through with it (`InfosInStep`); and run ids only grow, from what the
  sheriff knows over the deputy and each order under way to what the sheriff wants (`RunsInStep`).
  `RemovedIsGone` says that a command whose removal was confirmed is nowhere. Without the parts
  about the channels none of this is inductive: it is the order that is still under way that
  would break it.
* `Settled` says of each live command what its end looks like on the way to the sheriff: if the
  sheriff knows the last run as over, or an info under way shows it, the deputy has no process and
  nothing that it has or will be told starts one (`Ended`); and a command that was only started once is
  told to stop only when that run is over (`StartedOnce`).

`Next` of `Procman` has a dozen actions, some with many cases; for the channels only four kinds of steps matter, and every
action is shown to be one of them: a step of the sheriff that may add orders (`SheriffStep`),
one that takes an info in (`InfoStep`), a deputy that obeys orders (`OrdersStep`), and a step that
touches neither, but may report (`QuietStep`). The invariants are proved of these.

The hypotheses are those without which TLC finds the claim false. After a restart of the
deputy, which remembers nothing, a sheriff may be told that a command is gone which an order
under way brings back (`RemovalIsFinal`), and a completed run be started again (`RunsAdvance`);
a sheriff that restarts during a removal adopts what is being stopped (`StoppedIsStopped`) and
gives it a desired run id of 0 (`RunidsAgree`). With an auto-respawning command the deputy
starts what the sheriff takes for stopped. With restarts, what remains true (`Undisturbed`, and
`StoppedIsStopped` of commands that are only started) is checked by `procman_restarts`.

### Scripts

`SheriffScriptProofs` proves `WaitsAreMet` for any scripts, also those that call themselves, by
`IInv` = `Types` /\ `Reports` /\ `Places`. `Reports` relates the sheriff's picture of a command to
the deputy, what it knows and what the info under way will tell it: neither is ahead of
the deputy, and when the last run is reported as over it is. `Places` says that an undisturbed script
is at a timer, with all that its action waits for done and nothing under way that would undo it, or
at a wait for all commands of the action that are left, and never at both.
This proof does not depend on what `get_next_action` computes.

`RunsAsWritten` is about nothing else. Its invariant is `InPlace`: the contexts are places in scripts
without errors. The core is `NextIsFirst`: of any nested contexts `get_next_action` finds the first of
the actions that are left, and leaves the others, or finds none when none is left. For this
the recursive functions of the model are unfolded first (`NestedDef`, `RestDef`, `FoundDef`,
`RemainingDef`). Each goes down in an order in which everything comes down to something: to call
a script is to go down in depth (`Depths`), to go on in it is to come nearer to its end (`PlaceOrder`). The lemma
`Recursion` says that over such an order a recursion has a solution; it takes the step of the recursion as a
function and the order as a set of pairs, and so needs no operator as a parameter. Induction is that a set of
counterexamples would have a least one (`LeastNat`, `Founded`).

### The tunnels of a server

`TunnelHubProofs` assumes that the server is none of the clients. `AtOnePlace` says of a message
where it is: as a new one in the inbox of its origin, then under way to the server or published
by it, then under way to the others or published by them, and at each place once. `Passed`
is the border that it crosses once. `Introduced` says that a process which does not know its own
address has the packet with it at the head of its inbox, so that what it hears of
itself afterwards is dropped; without it a message would come back. `Greeted` and `Parted` speak of what is not a
message: a client's greeting comes first and is gone when the server forwards to it, and who has
said goodbye does not run. `Arrives` follows a message to everyone of its audience:
published there, or under way. Nothing is overtaken there, as those who are connected over TCP read only
what is first. A step of UDP may lose what it has overtaken (`LeftFacts`).

### The tunnel over UDP

`TunnelSetting` assumes that messages and packets have a size, that every packet is sent at least once
and that the gap of the numbers is less than a lap without one (5000 and 30000 in `lcm_tunnel.h:55`). `TunnelInv` has

* `InLine`: what was sent, what the thread is sending and the queue are the messages in the order in which they came;
* `Numbered`: every packet under way is a fragment of a batch that was sent, with its size and its
  number, which is that of the batch modulo the wrap;
* `Receiving`: what the receiver has fits the batch it is at (`Fitting`), a batch that was sent, by number and count of fragments;
* `GoesForward`: as long as every packet was in time, what was published are earlier batches in
  order, and the fragments that the receiver has are all of one batch, the one it is at;
* `InStep`: as long as nothing was lost or overtaken, the packets under way are what follows the
  fragment that came last, step by step to the end of the last batch (`Walk`), and all batches
  that are over were published.

`InTimeFacts` is the heart of it: a packet in time starts a new batch (`IsNew`) if and only if its batch is later
than the receiver's, on either side of the wrap. `Joined` says what a packet adds to a batch, `NumbersFacts` how a
number goes on over the wrap. That a packet in step is in time (`ComingInStep`) makes the second part of `Transparent`
independent of `timely`: a network that keeps the order needs no assumption about laps.

### Discovery

The invariant `DiscoveryInv` (in `LibrariesProofs`) relates any two deputies. While both ask, as many messages
were lost as one of them has asked, or the question is among what has arrived (`HeardByEachOther`); while one
asks and the other serves, as many were lost as were asked, or the last question or its
answer has arrived (`HeardByServer`). `DiscoveryClocks` says that a timer which is due but was not yet
dispatched belongs to the period that is over, so that `periodic` tells whether the last question was asked. It
needs more questions than losses (`DiscoveryLosses` < `DiscoveryTicks`); with as many losses as questions TLC
finds two that serve.

### The ring buffer

The invariant is `RingInv`, of the offsets: both are places of the array, and the write offset is the read
offset plus the count, around the end. Each call is then one step of `ByteQueue` for the
bytes between the offsets, for both parts of a read or write that wraps around.

### The circular buffer

`NewestAreKept` assumes that capacities are natural numbers and pointers are counted by one. `CircularInv`
adds to `KeepsTheNewest` and `FreedOnce` what a handler call depends on: the offset of the next
element is inside the array, a full buffer is one whose size is its capacity, two places of
the array hold the same pointer only if it is `NULL` or the buffer was cleared, and a pointer that is stored was not handed over
before, nor one that is yet to be added. `OffsetsDiffer` says that no two elements share
a place however often the buffer went round, `HandedOnce` that a step
which hands over what is at some places adds one to the count of the pointers there, and to no other.

### Events, redraws and the camera

`ViewerProofs` has `Sorted` (the list is in order of priority), `Flags` (who picks and hovers is
one handler, enabled or not) and `HandedOut`, which says of an event under way where it is: the one
that picks is due (`PickerDue`) or has been called, the others are due in order (`OthersDue`,
`InTurn`) and all before the next one have been called or passed over (`Covered`).
Both parts of `NoRedrawForgotten`, on redraws and on the record button, are inductive as they stand. `ReachesTheBookmark` needs `OnItsWay`: the goal of
the one path that all timers share is the bookmark that was loaded last, which was not saved over
since, the projection is its projection, and a timer is left unless the camera is there.
`CameraSetting` has types of bounds only. `PathGrows` is about the path: a point that is added is far enough
from the last, and what is cut off is cut off at the old end.

### The controls of a frame

`ModifierSetting` assumes that the controls are finitely many numbers and that no frame has the name of the entry
for none. `ModifierInv` has, besides types:

* `AwaitsOne`: while an update is awaited no echo was heard, and otherwise the controls show what the
  selected frame has;
* `EchoesShrink`: there are never more updates under way than others have sent, and one that is awaited, and
  what is heard as an echo differs from what is shown in one control less than the one before. This is why
  echoes die out, and with two updates of others there is no such bound;
* `AskedComesAbout`: what the user asked for was heard, or is the one update under way.

`FirstIsSet` says what the first control that differs does to the difference when it is set, `DifferAtMost` that
there are no more differences than controls.

### The logs

`SpliceSetting` assumes that logs are sequences of events with times. `SpliceInv` has, of logs in any order,
`ReadAhead` (what is left of a log is its end, and the event read ahead is the one before), `FirstOfAll` (the time that
others are counted from is that of an event, the earliest if the logs are in order), `KeepsTheOrder` and
`WrittenIsRead`. Of logs that are in order it has `Merged`: the line between what was read and what was not is a time,
all wanted events before it were written and only those, by time. `SplicesInOrder` alone is not inductive: it does not
say that nothing which was passed over could be wanted.

### The processes of a command

`ProcessSetting` assumes that the numbers of processes begin with that of `init` and are finitely many. `ProcessInv` has

* `Family`: who has a parent other than `init` is of the run of that parent, and who is in the session of the
  child is of the run that goes on. `Reap` needs that a child which has ended is nobody's parent;
* `InTheMiddle`, about what was read while processes came and went. There is a label of each number that was seen
  (`Labelled`), the run that its process had when it was read: who still lives has it, and the children which were found
  have that of their parent, since a process was its parent's when it was read, and a parent other than `init`
  hands its run down. The parent may be gone by then and its children be `init`'s, so that `Family` no longer tells.
  While signals are sent, whoever is in the list and lives is of the run that is to end;
* `KillsItsOwn`.

`DescendantsAreAlike` says that what `pid_info_get_descendants` collects below the child has its label. The recursion is
over numbers that grow from parent to child, which `ReadingNext` shows of what was read; `RankedRecursion` says that
such a recursion has a solution (`DescendantsDef`), and a process of greatest number without the property would
have a child without it. Only init's number is passed on by adoption, and it is never below the child. That
numbers are not given again within one call of the deputy (`taken`) is part of the model (section 2); between
calls they come again.

### Parameters

`OverridesStick` follows from `Clean`: a client that listens has no tree yet or knows whose it is, no
update is taken in by one that does not listen, a program overrides only where nothing reaches the
client any more (`IsItsOwn`), and the path that it has overridden is in the tree with the value that
was set and all containers on the way (`Held`). `SetIsHeld` shows this of `SetStr`, `HeldIsFound`
that `GetStr` then answers it, inheritance or not. That an update under way at the time of an
unsubscribe does not undo it is the case that the theorem is for. `ParamSetting` assumes that the
names which programs set are not empty.

`CopiesOfOneServer` is that the servers and what the clients have of them implement `ParamCopies`: a server only
adds states, and a client takes a state of one server, takes a later one of the same, or leaves. Its invariant
`AllGenuine` says of every update, whether it is under way or about to be taken in, and of the tree of every
client that follows a server, that it is the state which that server had at the sequence number it carries. An update
that is overtaken or arrives late is then harmless, as it is compared with what the client has
(`OnParamUpdate`, `SwapRoot`). A step of the server maps to `Change` or a stutter (`ServerCopies`), one of a client to `Take`,
`Leave` or a stutter (`ClientCopies`, `ClientsCopy`). `TreesFollow` is about a message that sets one entry or two:
the states that a server goes through within it are those the model lists, so that `OnParamSet` only adds to them.
Nothing is used of how trees are made, as `AllGenuine` is about which tree it is.

`TypeOK` is about how they are made. `FileSetting` assumes that a file is a sequence of statements, and opens each container
on the way to what it holds, as one that is parsed at all does. The invariant `AllFull` says that every tree which a server has,
had or published is closed under ancestors and has only paths of the file and of entries, that so has every client's, and that a
client is not ahead of its server (`IsBehind`); it needs `AllGenuine`, since the tree that a client takes next is known
only as that of an update. `Sorted` shows that what a tree is written as can be put in an order in which a container comes
before what is in it (`InOrder`: numbers have a sorting permutation), and then is a text of all statements; `Parsed` that the fold over
a text makes a tree of exactly the paths of its statements. The fold is unfolded by hand: it has a solution, since of the
lengths up to which it has none there would be a least one (`LeastNat`). `SetIsFull`, `WrittenIsFull` and `FileIsFull` say
that setting, writing and reading keep trees what they are.

### Components and their instances

The runs check `TunnelHub`, `LcmTunnel`, `DeputyDiscovery`, `RingBuf`, `PtrCircular`, `LogSplice`, `FrameModifier`, `ProcessTree` and `Viewer` as instances in `Libraries`, with renamed
constants and variables. The proofs about all but `TunnelHub` and `Viewer` are of these instances. For the
others, `LcmUtilsProofs` and `LibrariesProofs` instantiate their proof modules in the same way and
show that both instances say the same, definition by definition, so that the theorems are
about the formulas that TLC checks.

### What is only model-checked

* Liveness (`QuitHappens`, `ReapedEventually`, `StopTakesEffect`, `StartTakesEffect`,
  `RemovalCompletes`, `ScriptGoesOn`, `ComeToRest`): reasoning about fairness needs `ENABLED`,
  which the prover does not handle.
* What `RECURSIVE` operators compute: `ConfigFile`, `FramePaths` (and with it `CTrans`,
  `BotFrames`), `LcmGl`, `LdpcFec`, `MinHeap`, `SheriffConfig` and
  `SheriffTree` declare some, and so take the SMT solver away. What folds compute: the
  values that `ParamTree` makes of a file (its paths are proved), the parser of `ParamFile`,
  the settings of `ViewerSettings`, the models of `Wavefront`, and in `ProcessTree` which descendants stayed
  (`NoOrphanIsLeft`). Their definitions take operators as parameters, which the induction used for scripts cannot; each
  has to be unfolded by itself, as `Parsed` does for the paths of a text, and these are not.
* `CommandLine`: what the recursion over the characters of a word computes. It could be unfolded as that of
  `ProcessTree` is, but the property is about texts, of which the runs have one of each kind.

## 5. Disagreements between the code and what is written about it

Each has a run in which TLC exhibits the behaviour.

* `respawn_after_removal`: orders free a stopped command with its respawn pending
  (`procman_deputy.c:957`); the timer reads the freed record.
* `removed_stays_removed`: an info that was sent before the deputy had heard of a
  command counts as confirmation of its removal (`sheriff.py:388`); the command comes
  back with the next info. `sheriff.py:1086` says the sheriff waits for confirmation.
* `every_info_is_heard`: reconciling (`sheriff.py:768`) changes the dictionary it
  iterates over; the exception drops the info, and while nothing was heard no orders
  are sent to that deputy.
* `script_misses_status`: the throttle of status checks multiplies microseconds by 1000 where
  it should divide (`sheriff.py:1395`), so it lasts a tenth of a microsecond; when the clock
  reads the same twice the check is dropped and nothing repeats it, so that a wait for a
  status that its commands already have does not end. `config_file.md:313` says that the
  script waits until the commands have it.
* `tunnel_holds`: with a delay, the thread waits until a time of the monotonic clock that was
  computed from the wall clock (`lcm_tunnel.cpp:738`), which is far in the future. Messages
  that do not fill the queue stay in it until another one comes. The usage text
  (`lcm_tunnel.cpp:1082`) describes a maximum time that messages are held.

A deputy's start by orders also overwrites `respawn_timeout_id` and leaves the source
(`procman_deputy.c:292`), which then comes due while the command runs; the attempt fails,
because the command has a pid, and schedules another. `ImplementsSupervisor` covers it.

## 6. Abstractions and what is not modelled

*Deputy.* The age of orders and the test of host names (orders are obeyed or
lost), the back-off arithmetic and its integer widths, output pipes, dispatch of several sources within one iteration of the loop, the capacity of
the signal pipe. The time since a command
was started is an `int` of milliseconds (`procman_deputy.c:295`), and of one that never was the time since
1970, truncated; it only shortens or lengthens the back-off. In discovery, the time between two periods is long compared with the
time that a message takes.

*Processes of a command.* A descendant whose parent still lives when orphans are looked for escapes
(`procinfo.c`, `procinfo_is_orphaned_child_of`), as does one with a lower number than its parent or with a blank
in its name, and one that took a session of its own; `NoOrphanIsLeft` says which do not. `descendants_to_kill` is never
cleared, so that later runs go through the numbers of earlier ones: `KillsItsOwn` is about that.

*Command lines.* A command of assignments only makes the search for the program run past the words (`procman.c:525`),
where the model crashes. `\x` yields a backslash alone, a digit is only valid as the first character of a name, and a text
that the shell's rules cannot parse is split at blanks and not expanded. The deputy itself sets no
variables: it clears the table with each orders (`procman_deputy.c:818`).

*Sheriff.* Observer mode, several deputies and `move_command_to_deputy`,
`purge_useless_deputies`, CPU and memory figures, alerts. LCM does not reorder or duplicate
messages in `Procman`, as on one network segment. Scripts are not changed while one runs, and a
group is the set of its commands.

*Configurations.* How characters make tokens. The model shows what a user may trip over: a load over
commands of a deputy that was not heard from raises when the scripts are already gone
(`sheriff.py:1523`), an entry without id or host makes a load partial (`sheriff.py:1573`), saving
leaves out stop signals and times, names of groups are not escaped (`sheriff_config.py:237`), and
a nickname with a slash is taken by the sheriff and refused by the parser. A merge during a
removal loses the command (`sheriff.py:1514`). `SavedComesBack` excepts these.

*Window.* Columns, selection, dialogs. A command whose group and id change between two
repopulates, which the edit dialog does (`command_treeview.py:383`), may be moved in place of
another row, as a path is read again after the rows were sorted (`command_model.py`,
`_update_cmd_row`); TLC finds a group that is removed with its commands, after which every
repopulate raises. `ShowsWhatIs` excepts such a change.

*Tunnel.* What a number means is only known for a while: a packet that was overtaken across the wrap, or by
a lap less the gap, is taken for a new batch (`lcm_tunnel.cpp:387`), and the receiver goes back. `Transparent` excepts
what comes after such a packet (`timely`). Regular expressions for channels (every tunnel forwards every message), in TCP mode the
thread's writes and the messages that it drops when they are too old.
The packet that tells a process its own address is assumed to arrive; were it lost, messages would come
back until the next one half a minute later. `initializeServer` means to wait for that packet, but its
loop tests the wrong way round (`lcm_tunnel_server.cpp:107`) and does not wait; the model
does not either. A process that has both a server above it and clients below it is left
out: it does not forward upwards what comes from below, as the tunnel of a client has no
expression to match. Each client connects once.

*Error correction.* Of the LDPC library what the tunnel uses: no other kinds of matrices, no
Gaussian elimination, no callbacks. Encoder and decoder of a process draw from one global seed, here they do
not disturb each other. The receiver counts packets that come twice, and so may give up early
(`lcm_tunnel.cpp:485`).

*Parameters.* `ParamSync` takes a file as the sequence of what it opens and assigns; `ParamFile` has
its characters, but one client. The global instance, `get_*_or_fail` and the utilities are left
out. A parse that fails while an element is read for the second time frees it twice
(`param_internal.c:579`); the model ends there. `#` begins a comment within a string as well
(`param_internal.c:188`), and a value of 256 characters or more, set over LCM, spoils the updates of
every client: both are the exceptions in `WrittenIsReadBack`.

*Transforms.* The geometry: that interpolation and composition are what they should be for
quaternions. The model crashes where the code does: on an update of a frame that is not known,
unless both ends are (`bot_frames.c:153`), or of the root frame (`:165`), and on a configuration
whose frame comes before the one that it is relative to. A frame that an update adds
is not counted, so that `get_frame_names` lists one of two (`num_frames` stays).
The path from `z` to `y-x` and that from `z-y` to `x` share an entry of the cache (`ctrans.c:411`), so whichever is
asked for second is answered with the other; `TransformsAreRight` excepts pairs whose names make one text, and claims
that their answer is right for one of them. Two links of one id (`ctrans.c:177`), of such pairs or of one pair that is
linked twice, free the first (`:398`); nothing is claimed after that. In `BotFrames` no name has a `-`. A
link of a frame to itself is left out, and so are names of more than 127 characters, whose length overflows (`:407`).

*Moving a frame.* An update of another program is answered with a mixture of the old transform and
the new that overwrites it, and two of them on their way may be answered for ever; `ControlsMoveTheFrame`
says how far that goes. Selecting the root frame crashes and ends a behaviour.

*Containers.* `set.c`, a hash table with an array beside it. A circular buffer that is cleared and
then destroyed hands its old pointers over again; `KeepsTheNewest` excepts it.

*Drawing.* Functions made of other commands, OpenGL, the formats of texels. That nothing is written
past the end of the buffer holds as no argument is longer than the first allocation; a texture row
of more than that (1 MB) would be. The Java client's `glMultMatrixd` writes another opcode
(`LCMGL.java:191`) and the Python client's `glTexture2d` leaves out an argument (`lcmgl.py:224`), which
the viewer misreads; `ShowsWhatIs` excepts scenes with these.

*Viewer.* Handlers do not change the list or the flags of others while an event is handed
out. A handler that is disabled while it picks goes on picking, and so keeps others from it
until it is enabled again (`viewer.c:601`). A handler that ends its pick in its call and does not
consume the event hears of it a second time (`viewer.c:638`); one that ends it between
events misses the next key. What an expose event dropped for the sake of a movie
(`viewer.c:470`) stays undrawn when the recording stops, until something else asks:
`NoRedrawForgotten` excepts it. A program that stops what the button started frees `movie_path` twice, as
setting the button inactive stops once more (`viewer.c:191`); so does the button when it
stops what a program started, and a second stop. A start by a program whose file cannot be opened leaves
`movie_buffer`, which the next start asserts is not there (`:127`). Nothing is claimed after these crashes but
that they need a program. Rendering is left out.

*Settings.* A control that was never opened or closed is saved as closed though it is shown open
(`viewer.c`, the flag `expanded`); toggle buttons are saved and never restored, as `set_bool` only takes
check boxes; a number is clamped to the first range that its row had; nobody is told of a text
entry. `SavedComesBack` says what does come back.

*Camera.* Geometry is a line. Timers of two approaches share one path; following that was paused goes on
with a jump by what the frame has moved meanwhile.

*Models in files.* Faces before the first of several groups are stored in the newest one, which has no
room for them (`glm.c`, `glmSecondPass`); the model ends there, as it does where an assertion fails: at a material
without a name, which is what comes of a map of another kind, as the second pass drops the line after it. Names of libraries and
textures lose their last letter (the size given to `snprintf`). `glmWriteMTL` does not close its file and leaves out
transparency and textures. Smooth normals with coordinates are written in the order v/n/t and read in the order v/t/n; flat
ones with coordinates are written in place of these, and too few of them where there are fewer
normals than facets; `WrittenIsReadBack` is about the other modes. Numbers of coordinates are not verified.
`glmWeld` loses the first position. A triangle of the default material is drawn with the one before it, and in the second
pass the first material without a texture gets that of the first pass. `glmUnitize` takes the sum of the greatest
and the least absolute coordinate for the width. `glmScale`, `glmList` and the flipping of textures are left out.

*Logs.* Regular expressions (a channel matches or not), and progress shown. Of a log whose times go
back events after the end may be lost.

Of the rest of the repository: numeric and display code, batch tools and third-party
code, listed in `PROJECT.json` with the reason for each.

## 7. Plan

Done: procman's deputy with the processes and words of a command, its sheriff, script executor, discovery and
configurations; tunnel, parameters, transforms, containers, remote drawing, viewer, models in files, log tools; proofs
of the safety of procman, of the parameters and of all that `Libraries` claims. What is left, in this order:

1. **Restarts**: what remains of `RunidsAgree` when a sheriff adopts commands, as a theorem.
2. **RespawnBackoff**: the delay as a function, with the widths of its integers, against
   a reference definition over bounded inputs; and the run id under which a failed first
   start respawns.
3. **Sheriff**: observer mode and several deputies.
4. **Paths**: the search of `FramePaths` without recursive operators, and a proof that paths are shortest.
