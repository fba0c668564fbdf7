---------------------------- MODULE MCLibraries ----------------------------
(***************************************************************************)
(* The libraries of libbot2 that share no state, side by side: a behaviour   *)
(* is one of any of them, the others staying as they began.  Nothing of one  *)
(* can affect another, so one run checks them all.  The parameters, which    *)
(* have the most to evaluate, are extended and the others instantiated, here  *)
(* or in Libraries, which has those that something is proved of.              *)
(***************************************************************************)
EXTENDS ParamSync, Libraries

CONSTANTS client, a, b, c, d

VARIABLES
  graph, path_cache, graph_crashed,
  built, frames_graph, links, paths, handles, num_frames, nupdates, logs, dispatch, subscribers,
  nodes, added, removed,
  data, data_alloc, overrun, texture_count, queued, rest, scenes, messages, front,
  code, session, result, given,
  commands, informed, scripts, executing, file, operations,
  parser, outcome, tree, changed,
  visit, renderers, bookmarks, preferences, left, acts,
  shown_commands, table, group_row_references, edits, repopulated, confused,
  model, library, unflushed, written, opened, closed, drawn, model_acts,
  managed, variables, environ, procman_crashed, calls

tunnelVars == <<params, came, queue, flushImmediately, due, thread, batch, seqno, packets,
                receiver, stopSendThread, sent, published, timely, perfect>>
hubVars == <<running, isReady, inbox, over_udp, client_state, server_state, upstream,
             downstream, origins, audience, heard>>
pathsVars == <<graph, path_cache, graph_crashed>>
framesVars == <<built, frames_graph, links, paths, handles, num_frames, nupdates, logs,
                dispatch, subscribers>>
discoveryVars == <<phase, ticks, periodic, arrived, lost>>
ringVars == <<buf, readOffset, writeOffset, numBytes, got>>
circularVars == <<circ, pointers, handed, cleared, alive>>
heapVars == <<nodes, added, removed>>
drawingVars == <<data, data_alloc, overrun, texture_count, queued, rest, scenes,
                 messages, front>>
eventVars == <<event_handlers, priority, enabled, picking, picking_handler, hovering, event,
               called>>
redrawVars == <<invalidated, recent, redraw_timer_pending, timers, is_recording,
                movie_draw_pending, record_button, movie_buffer, movie_path, undrawn,
                passed_over, by_program, viewer_crashed>>
fecVars == <<code, session, result, given>>
configVars == <<commands, informed, scripts, executing, file, operations>>
textVars == <<parser, outcome, tree, changed>>
settingsVars == <<visit, renderers, bookmarks, preferences, left, acts>>
cameraVars == <<view, viewpath, path_timers, marks, target, selected, follow, smooth, trail,
                where, approached, moves>>
treeVars == <<shown_commands, table, group_row_references, edits, repopulated, confused>>
modifierVars == <<trans, updates_sent, active, shown, sensitive, updating, crashed, accepted,
                  echoes, changes, others, unheard>>
spliceVars == <<asked, sources, src_logs, events, first_event, dst_log, ended>>
modelVars == <<model, library, unflushed, written, opened, closed, drawn, model_acts>>
processVars == <<machine, procs, last_pid, pid, zombie, descendants_to_kill, doing, killed, runs,
                 forks, signals, seen, orphans>>
lineVars == <<managed, variables, environ, procman_crashed, calls>>
allVars ==
  <<part, vars, tunnelVars, hubVars, pathsVars, framesVars, discoveryVars, ringVars, circularVars,
    heapVars, drawingVars, eventVars, redrawVars, fecVars, configVars, textVars,
    settingsVars, cameraVars, treeVars, modifierVars, spliceVars,
    modelVars, processVars, lineVars>>

-----------------------------------------------------------------------------
(* Parameters: a file with a container and a leaf; programs set the leaf, to a  *)
(* value that can be read back or not, and try to set the container.           *)

leaf == <<"g", "x">>
OneLeaf == << Open(<<"g">>), Assign(leaf, <<"old">>) >>
SomeEntries ==
  { [path |-> leaf, value |-> "new"], [path |-> leaf, value |-> "#"],
    [path |-> <<"g">>, value |-> "new"] }

\* The tunnel, with and without a delay, as its numbers wrap around.
TwoModes == { [max_delay |-> FALSE, repeats |-> 2], [max_delay |-> TRUE, repeats |-> 1] }

\* Frames in a square with a diagonal, called x, y-x, z and z-y: both the links and the paths
\* of z and y-x, which are there from the start, and of z-y and x have the text z-y-x.
Link(from, to) == [frame_from |-> from, frame_to |-> to]
X == <<1>>
YX == <<2, 1>>
Z == <<3>>
ZY == <<3, 2>>
SomeLinks == { Link(X, YX), Link(Z, YX), Link(Z, ZY), Link(X, ZY), Link(YX, ZY), Link(YX, X) }

Graphs == INSTANCE CTrans WITH
  FirstFrames <- <<X, YX, Z>>, LaterFrames <- {ZY}, MayLink <- SomeLinks,
  MaxLinks <- 4, MaxCached <- 1, crashed <- graph_crashed

\* A body that moves and a camera that moves on it.
Frame(name, relative_to, history, channel) ==
  [name |-> name, relative_to |-> relative_to, history |-> history, channel |-> channel,
   initial_transform |-> TRUE]
RootFrame == [name |-> "root_frame"]
Body == Frame("body", "local", 2, "POSE")
GoodFrames == <<RootFrame, Body, Frame("camera", "body", d, d)>>
\* No frames but two fields that are not; and one thing wrong in each of the others.  d stands
\* for a field left out.
OddFrames ==
  { <<RootFrame, [name |-> "unit"]>>,
    << >>, <<Body>>, <<Frame("laser", "body", 0, d), Body, RootFrame>>,
    <<RootFrame, Body, Body>>, <<RootFrame, Body, Frame("camera", "body", 1, "POSE")>>,
    <<RootFrame, Frame("body", d, 1, d)>>,
    <<RootFrame, Frame("body", "body", 1, d)>>,
    <<RootFrame, [Body EXCEPT !.initial_transform = FALSE]>> }

Frames == INSTANCE BotFrames WITH
  Configs <- {GoodFrames} \cup OddFrames, Root <- "local", Unset <- d,
  Unheard <- "unheard", Utimes <- {0, 2}, Asked <- 0..2, DefaultHistory <- 1, MaxUpdates <- 3,
  MaxSubscribers <- 1, outcome <- built, graph <- frames_graph, updates <- nupdates

Heap == INSTANCE MinHeap WITH Scores <- 1..3, MaxNodes <- 4

\* Events find objects near, far or not there.
SomeDistances == {-1, 1, 2}

\* Programs that draw five of the commands whose length is fixed, or any three others.
Code == INSTANCE LcmGl WITH
  Programs <- {}, InitialAlloc <- 8, UseBotVis <- TRUE, MaxScenes <- 0, network <- messages
Command(from, op, n, rows, zip) ==
  [client |-> from, op |-> op, n |-> n, rows |-> rows, zip |-> zip]
OneOfEach(from) ==
  FoldSet(LAMBDA op, program : Append(program, Command(from, op, 0, 0, FALSE)), << >>,
          DOMAIN Code!Widths[from])
Parts(program) ==
  { SubSeq(program, 5 * n - 4, Min({5 * n, Len(program)})) : n \in 1 .. (Len(program) + 4) \div 5 }
TextOrTexture(from) ==
  { Command(from, "TEXT_LONG", 2, 0, FALSE), Command(from, "TEX_2D", 3, 2, FALSE),
    Command(from, "TEX_2D", 3, 2, from = "C"), Command(from, "TEX_DRAW_QUAD", 1, 0, FALSE) }
SomePrograms ==
  UNION { Parts(OneOfEach(from)) : from \in DOMAIN Code!Widths }
    \cup {<<Command("Java", "TEXT_LONG", 2, 0, FALSE)>>}
    \cup UNION { [1..2 -> TextOrTexture(from)] : from \in {"C", "Python"} }

Drawing == INSTANCE LcmGl WITH
  Programs <- SomePrograms, InitialAlloc <- 8, UseBotVis <- TRUE, MaxScenes <- 2,
  network <- messages

\* Codes of three and four symbols, two to a packet; parity symbols are shuffled so that no
\* number stays where it was.
Shuffles ==
  { [i \in 0 .. Len(draws) - 1 |-> draws[i + 1]] : draws \in { <<1, 1, 2>>, <<1, 2, 2, 3>> } }

Fec == INSTANCE LdpcFec WITH
  Shapes <- { [nbSource |-> 3, nbParity |-> 4], [nbSource |-> 4, nbParity |-> 3] },
  LeftDegree <- 3, NbSymbolsPerPkt <- 2, Draws <- Shuffles

\* Commands of two deputies, in groups or not, and files that somebody wrote.
Texts == INSTANCE ConfigFile WITH Quoted <- {"q"}, Slashed <- {"a/b"}, Blank <- {" "}

CommandSpec(deputy, exec, id, group, auto_respawn, stop_signal) ==
  [deputy |-> deputy, exec |-> exec, id |-> id, group |-> group, auto_respawn |-> auto_respawn,
   stop_signal |-> stop_signal]
SomeSpecs ==
  { CommandSpec("h1", "x", "one", << >>, FALSE, 2),
    CommandSpec("h1", "x", "two", <<"", "g", "s">>, TRUE, 9),
    CommandSpec("h2", "y", "a/b", <<"g">>, FALSE, 2) }

SomeScript ==
  << Texts!Action("start", "group", "g", "running"),
     [Texts!Action("wait_ms", "", "", "") EXCEPT !.delay_ms = 5],
     Texts!Action("wait_status", "cmd", "one", "stopped"),
     Texts!Action("run_script", "", "go", ""), Texts!Action("stop", "everything", "", "") >>

Block(head, body) == head \o <<Texts!OpenStruct>> \o body \o <<Texts!CloseStruct>>
GroupBlock(name, body) == Block(<<Texts!Word("group"), Texts!Text(name)>>, body)
CommandBlock(names, body) == Block(<<Texts!Word("cmd")>> \o names, body)
Setting(name, tok) == <<Texts!Word(name), Texts!Assign, tok, Texts!EndStatement>>
Plain == Setting("exec", Texts!Text("x")) \o Setting("host", Texts!Text("h1"))
One == <<Texts!Text("one")>>
SomeFiles ==
  { GroupBlock("g", GroupBlock("s", CommandBlock(<<Texts!Text("two")>>,
      Plain \o Setting("stop_signal", Texts!Tok("Integer", 9))
        \o Setting("auto_respawn", Texts!Text("yes")))))
      \o <<Texts!Tok("Comment", "#")>> \o CommandBlock(One, Plain),
    CommandBlock(One, Plain) \o CommandBlock(<< >>, Plain),
    CommandBlock(One, Plain \o Setting("stop_signal", Texts!Tok("Integer", 0))),
    CommandBlock(One, Setting("host", Texts!Text("h1"))),
    Texts!ScriptText("go", << >>) \o Texts!ScriptText("go", << >>) }

Config == INSTANCE SheriffConfig WITH
  Specs <- SomeSpecs, Groups <- { <<"g">>, <<"q">> }, ScriptLists <- { << >>, [go |-> SomeScript] },
  Files <- SomeFiles, MaxOperations <- 4, Quoted <- {"q"}, Slashed <- {"a/b"}, Blank <- {" "},
  heard <- informed, running <- executing

\* Any short parameter file, one named "a" that it may include, and programs that set a leaf to
\* a number or to what cannot be read back.
Letter == <<"a">>
IncludeLetter == <<"I">>
Included ==
  [ f \in {Letter} |-> <<"a", "=", "1", ";", "\n", "a", "{", "I", "=", "a", ";", "}">> ]
SomeSettings ==
  { [path |-> <<Letter>>, value |-> <<"1">>], [path |-> <<Letter, Letter>>, value |-> <<"#">>] }
SomeArrays ==
  { [path |-> <<Letter>>, values |-> values] : values \in { <<Letter>>, <<Letter, <<"1">>>> } }

Text == INSTANCE ParamFile WITH
  Include <- IncludeLetter, Contents <- Included, TokenSize <- 3, Settings <- SomeSettings,
  Arrays <- SomeArrays, MaxSize <- 3, params <- tree

\* A viewer with the renderers of the grid and of frames, and one that has no widget.  A second
\* menu takes the name of the first, and the boxes "Draw" come to nothing.
Spin(name, gtk_type, data_type, initial) ==
  [add |-> "number", name |-> name, gtk_type |-> gtk_type, data_type |-> data_type,
   min |-> 0, max |-> 2, initial |-> initial]
Boxes(names, gtk_type, data_type, initial) ==
  [add |-> "boxes", names |-> names, gtk_type |-> gtk_type, data_type |-> data_type,
   initial |-> initial]
Menu(options, initial) ==
  [add |-> "menu", name |-> "Frame", options |-> options, initial |-> initial]
SomeRenderers ==
  [ grid |->
      << Spin("Spacing", "spin", "double", 1),
         Boxes(<<"Light", "Ground">>, "check", "boolean", 1) >>,
    frames |->
      << Menu(<<0, 1>>, 0), Boxes(<<"yaw">>, "toggle", "boolean", 0),
         [add |-> "text", name |-> "Note", initial |-> 0],
         Spin("Max Hist", "scale", "int", 2), Boxes(<<"Draw", "yaw">>, "check", "boolean", 1),
         Menu(<<2, 0>>, 0), Boxes(<<"Find">>, "button", "button", 0) >>,
    lcmgl |-> << >> ]

Preferences == INSTANCE ViewerSettings WITH
  Renderers <- SomeRenderers, Bookmarks <- {1}, Views <- {"near"}, MaxActions <- 2,
  session <- visit, file <- preferences, actions <- acts

\* A bookmark that another session may have left
SomeViews == { [eye |-> -1, lookat |-> 0, mode |-> "orthographic"] }

\* The table of two commands, whose groups and ids sort before and after each other.
Table == INSTANCE SheriffTree WITH
  Commands <- {a, b}, Ids <- {1, 3, 5}, Groups <- { << >>, <<2>>, <<2, 4>> }, MaxEdits <- 2,
  commands <- shown_commands, rows <- table

\* One or two logs of up to two events, in order of time or not.
Logged(timestamp, channel) == [timestamp |-> timestamp, channel |-> channel]
SomeLogs ==
  UNION { [1..n -> { Logged(0, "x"), Logged(1, "x"), Logged(1, "y"), Logged(2, "y") }]
          : n \in 0..2 }
Option(start, end, channels, invert) ==
  [start |-> start, end |-> end, have_end |-> end >= 0, channels |-> channels, invert |-> invert]
SomeOptions ==
  { Option(0, -1, {"x", "y"}, FALSE), Option(1, -1, {"x"}, FALSE), Option(0, 1, {"x"}, TRUE),
    Option(1, 1, {"x", "y"}, FALSE), Option(2, 1, {"x"}, FALSE) }

\* Six points, two of them alike, and faces of three and four of them: in groups or not, with
\* materials and normals or not, and files that are not as they should be.
Corner(v, t, n) == [v |-> v, t |-> t, n |-> n]
Point(v) == Corner(v, -1, -1)
Position(x, y, z) == [op |-> "v", at |-> <<x, y, z>>, unit |-> 1]
Face(corners) == [op |-> "f", corners |-> corners]
Named(op, name) == [op |-> op, name |-> name]
Bare(op) == [op |-> op]
Points ==
  << Position(0, 0, 0), Position(2, 0, 0), Position(2, 2, 0), Position(0, 2, 0),
     Position(0, 0, 2), Position(2, 0, 0) >>
Triangle(t, n) == Face(<<Corner(1, t, n), Corner(2, t, n), Corner(3, t, n)>>)
Wall == Face(<<Point(1), Point(5), Point(6)>>)
ModelFiles ==
  { Points \o <<Face(<<Point(1), Point(2), Point(3), Point(4)>>), Wall>>,
    <<Bare("mtllib")>> \o Points
      \o << Bare("vt"), Named("g", "a"), Named("usemtl", "glass"), Triangle(1, -1),
            Named("usemtl", "wood"), Face(<<Corner(1, 1, -1), Corner(3, 1, -1), Corner(4, 1, -1)>>),
            Named("g", "b"), Wall, Named("usemtl", "glass"),
            Face(<<Point(4), Point(5), Point(1)>>) >>,
    Points \o << [op |-> "vn", to |-> <<0, 0, 1>>], Bare("vt"), Named("g", "a"), Triangle(1, 1),
                 Face(<<Corner(1, 1, -1), Corner(5, 1, -1), Corner(6, 1, -1)>>) >>,
    Points \o <<Triangle(-1, -1), Named("g", "a"), Wall>>,
    Points \o <<Face(<<Point(1), Point(2), Point(7)>>)>>,
    <<Bare("mtllib")>> \o Points \o <<Named("usemtl", "wood"), Triangle(2, -1)>>,
    <<Bare("mtllib")>> \o Points \o <<Named("usemtl", "lost"), Triangle(-1, -1)>> }
SomeMaterials ==
  { << Named("newmtl", "wood"), Named("map_Kd", "grain"), Named("newmtl", "glass"), Bare("d"),
       Named("map_Kd", "frost"), Bare("map_other"), Named("newmtl", "lost") >>,
    <<Bare("unknown")>> }

Models == INSTANCE Wavefront WITH
  Files <- ModelFiles, MaterialLibraries <- SomeMaterials,
  Modes <- { {}, {"FLAT"}, {"SMOOTH", "TEXTURE", "MATERIAL"}, {"SMOOTH", "MATERIAL"},
             {"TEXTURE", "COLOR"}, {"TEXTURE", "FLAT"} },
  MaxActs <- 2, ended <- closed, acts <- model_acts

\* Machines with few numbers for processes, which come again; one process has a blank in its name.
Machine(last_number, blank, given_last, most) ==
  [pids |-> 1..last_number, blank |-> blank, last |-> given_last, forks |-> most]
SomeMachines == { Machine(4, {}, 1, 3), Machine(3, {}, 1, 4), Machine(4, {4}, 3, 2) }

\* Commands of a word in which variables are named well or badly, and of several words.
References ==
  { << >>, <<"$">>, <<"$", "a">>, <<"$", "1", "a">>, <<"$", "{", "b", "}">>, <<"$", "{", "a">> }
SomeLines ==
  { [words |-> << u \o v >>, parses |-> TRUE] :
      u \in { <<"a">>, <<"\\">>, <<"$", "b">> }, v \in References }
    \cup { [words |-> << <<"a", "=", "1", "=">>, <<"$", "b">>, <<"b", "=", "$", "a">> >>,
            parses |-> TRUE],
           [words |-> << <<"a", "=", "1">>, <<"=", "a">>, <<"a", "=">>, <<"$", "P">> >>,
            parses |-> TRUE],
           [words |-> << <<"a", "=", "1">> >>, parses |-> TRUE],
           [words |-> << <<"a", "=", "1">>, <<"$", "a">> >>, parses |-> FALSE] }

CommandLines == INSTANCE CommandLine WITH
  Lines <- SomeLines, Environment <- (<<"a">> :> <<"$", "1">>) @@ (<<"P">> :> <<"b">>),
  BinPath <- <<"b">>, Variables <- { <<"a">>, <<"b">> }, Values <- { <<"b">> }, MaxCalls <- 2,
  commands <- managed, crashed <- procman_crashed

-----------------------------------------------------------------------------
\* The variables of a library that the behaviour is not of say nothing.
HubIdle ==
  /\ running = 0 /\ isReady = 0 /\ inbox = 0 /\ over_udp = 0 /\ client_state = 0
  /\ server_state = 0 /\ upstream = 0 /\ downstream = 0 /\ origins = 0 /\ audience = 0
  /\ heard = 0
GraphsIdle ==
  /\ graph = 0 /\ path_cache = 0 /\ graph_crashed = 0
FramesIdle ==
  /\ built = 0 /\ frames_graph = 0 /\ links = 0 /\ paths = 0 /\ handles = 0
  /\ num_frames = 0 /\ nupdates = 0 /\ logs = 0 /\ dispatch = 0 /\ subscribers = 0
DiscoveryIdle ==
  /\ phase = 0 /\ ticks = 0 /\ periodic = 0 /\ arrived = 0 /\ lost = 0
CircularIdle ==
  /\ circ = 0 /\ pointers = 0 /\ handed = 0 /\ cleared = 0 /\ alive = 0
HeapIdle ==
  /\ nodes = 0 /\ added = 0 /\ removed = 0
DrawingIdle ==
  /\ data = 0 /\ data_alloc = 0 /\ overrun = 0 /\ texture_count = 0 /\ queued = 0 /\ rest = 0
  /\ scenes = 0 /\ messages = 0 /\ front = 0
EventsIdle ==
  /\ event_handlers = 0 /\ priority = 0 /\ enabled = 0 /\ picking = 0 /\ picking_handler = 0
  /\ hovering = 0 /\ event = 0 /\ called = 0
RedrawIdle ==
  /\ invalidated = 0 /\ recent = 0 /\ redraw_timer_pending = 0 /\ timers = 0
  /\ is_recording = 0 /\ movie_draw_pending = 0 /\ record_button = 0 /\ movie_buffer = 0
  /\ movie_path = 0 /\ undrawn = 0 /\ passed_over = 0 /\ by_program = 0 /\ viewer_crashed = 0
FecIdle ==
  /\ code = 0 /\ session = 0 /\ result = 0 /\ given = 0
TextIdle ==
  /\ parser = 0 /\ outcome = 0 /\ tree = 0 /\ changed = 0
PreferencesIdle ==
  /\ visit = 0 /\ renderers = 0 /\ bookmarks = 0 /\ preferences = 0 /\ left = 0 /\ acts = 0
CameraIdle ==
  /\ view = 0 /\ viewpath = 0 /\ path_timers = 0 /\ marks = 0 /\ target = 0 /\ selected = 0
  /\ follow = 0 /\ smooth = 0 /\ trail = 0 /\ where = 0 /\ approached = 0 /\ moves = 0
TableIdle ==
  /\ shown_commands = 0 /\ table = 0 /\ group_row_references = 0 /\ edits = 0
  /\ repopulated = 0 /\ confused = 0
ModifierIdle ==
  /\ trans = 0 /\ updates_sent = 0 /\ active = 0 /\ shown = 0 /\ sensitive = 0 /\ updating = 0
  /\ crashed = 0 /\ accepted = 0 /\ echoes = 0 /\ changes = 0 /\ others = 0 /\ unheard = 0
SpliceIdle ==
  /\ asked = 0 /\ sources = 0 /\ src_logs = 0 /\ events = 0 /\ first_event = 0
  /\ dst_log = 0 /\ ended = 0
ModelIdle ==
  /\ model = 0 /\ library = 0 /\ unflushed = 0 /\ written = 0 /\ opened = 0 /\ closed = 0
  /\ drawn = 0 /\ model_acts = 0
ProcessesIdle ==
  /\ machine = 0 /\ procs = 0 /\ last_pid = 0 /\ pid = 0 /\ zombie = 0
  /\ descendants_to_kill = 0 /\ doing = 0 /\ killed = 0 /\ runs = 0 /\ forks = 0
  /\ signals = 0 /\ seen = 0 /\ orphans = 0
LinesIdle ==
  /\ managed = 0 /\ variables = 0 /\ environ = 0 /\ procman_crashed = 0 /\ calls = 0

\* What some properties are about without asking for the part has one initial state.
LibrariesInit ==
  /\ part \in { "params", "tunnel", "ring", "config", "hub", "paths", "frames", "discovery",
               "circular", "heap", "drawing", "events", "redraw", "fec", "text",
               "settings", "camera", "table", "modifier", "splice", "model",
               "processes", "lines" }
  /\ Init /\ Tunnel!Init /\ Ring!Init /\ Config!Init
  /\ part # "tunnel" => params = CHOOSE mode \in TwoModes : TRUE
  /\ part # "ring" => buf = [k \in 0 .. RingSize - 1 |-> 0]
  /\ part # "config" => scripts = << >>
  /\ IF part = "hub" THEN Hub!Init ELSE HubIdle
  /\ IF part = "paths" THEN Graphs!Init ELSE GraphsIdle
  /\ IF part = "frames" THEN Frames!Init ELSE FramesIdle
  /\ IF part = "discovery" THEN Discovery!Init ELSE DiscoveryIdle
  /\ IF part = "circular" THEN Circular!Init ELSE CircularIdle
  /\ IF part = "heap" THEN Heap!Init ELSE HeapIdle
  /\ IF part = "drawing" THEN Drawing!Init ELSE DrawingIdle
  /\ IF part = "events" THEN Events!Init ELSE EventsIdle
  /\ IF part = "redraw" THEN Redraw!Init ELSE RedrawIdle
  /\ IF part = "fec" THEN Fec!Init ELSE FecIdle
  /\ IF part = "text" THEN Text!Init ELSE TextIdle
  /\ IF part = "settings" THEN Preferences!Init ELSE PreferencesIdle
  /\ IF part = "camera" THEN Camera!Init ELSE CameraIdle
  /\ IF part = "table" THEN Table!Init ELSE TableIdle
  /\ IF part = "modifier" THEN Modifier!Init ELSE ModifierIdle
  /\ IF part = "splice" THEN Splice!Init ELSE SpliceIdle
  /\ IF part = "model" THEN Models!Init ELSE ModelIdle
  /\ IF part = "processes" THEN Processes!Init ELSE ProcessesIdle
  /\ IF part = "lines" THEN CommandLines!Init ELSE LinesIdle

\* A step of one library leaves the others as they are.
Kept(name, its_variables) == IF part = name THEN TRUE ELSE UNCHANGED its_variables
OthersKept ==
  /\ UNCHANGED part
  /\ Kept("params", vars)
  /\ Kept("tunnel", tunnelVars)
  /\ Kept("hub", hubVars)
  /\ Kept("paths", pathsVars)
  /\ Kept("frames", framesVars)
  /\ Kept("discovery", discoveryVars)
  /\ Kept("ring", ringVars)
  /\ Kept("circular", circularVars)
  /\ Kept("heap", heapVars)
  /\ Kept("drawing", drawingVars)
  /\ Kept("events", eventVars)
  /\ Kept("redraw", redrawVars)
  /\ Kept("fec", fecVars)
  /\ Kept("config", configVars)
  /\ Kept("text", textVars)
  /\ Kept("settings", settingsVars)
  /\ Kept("camera", cameraVars)
  /\ Kept("table", treeVars)
  /\ Kept("modifier", modifierVars)
  /\ Kept("splice", spliceVars)
  /\ Kept("model", modelVars)
  /\ Kept("processes", processVars)
  /\ Kept("lines", lineVars)

LibrariesNext ==
  \/ part = "params" /\ Next /\ OthersKept
  \/ part = "tunnel" /\ Tunnel!Next /\ OthersKept
  \/ part = "hub" /\ Hub!Next /\ OthersKept
  \/ part = "paths" /\ Graphs!Next /\ OthersKept
  \/ part = "frames" /\ Frames!Next /\ OthersKept
  \/ part = "discovery" /\ Discovery!Next /\ OthersKept
  \/ part = "ring" /\ Ring!Next /\ OthersKept
  \/ part = "circular" /\ Circular!Next /\ OthersKept
  \/ part = "heap" /\ Heap!Next /\ OthersKept
  \/ part = "drawing" /\ Drawing!Next /\ OthersKept
  \/ part = "events" /\ Events!Next /\ OthersKept
  \/ part = "redraw" /\ Redraw!Next /\ OthersKept
  \/ part = "fec" /\ Fec!Next /\ OthersKept
  \/ part = "config" /\ Config!Next /\ OthersKept
  \/ part = "text" /\ Text!Next /\ OthersKept
  \/ part = "settings" /\ Preferences!Next /\ OthersKept
  \/ part = "camera" /\ Camera!Next /\ OthersKept
  \/ part = "table" /\ Table!Next /\ OthersKept
  \/ part = "modifier" /\ Modifier!Next /\ OthersKept
  \/ part = "splice" /\ Splice!Next /\ OthersKept
  \/ part = "model" /\ Models!Next /\ OthersKept
  \/ part = "processes" /\ Processes!Next /\ OthersKept
  \/ part = "lines" /\ CommandLines!Next /\ OthersKept

\* As it began, no library has anything that is to happen.
LibrariesSpec ==
  LibrariesInit /\ [][LibrariesNext]_allVars /\ Fairness /\ Tunnel!Fairness

-----------------------------------------------------------------------------
(* Properties, each stated where the library is modelled; those of the parameters  *)
(* are TypeOK, OverridesStick and CopiesOfOneServer of ParamSync, and Libraries has     *)
(* Transparent, OthersHearItOnce, AtMostOneServes, IsAQueue, KeepsTheNewest, PickerGoesFirst,       *)
(* NoRedrawForgotten, ReachesTheBookmark, SplicesInOrder, ControlsMoveTheFrame and KillsItsOwn. *)

\* What is queued in a tunnel is sent, and its send thread ends when it is told to
\* (sendThreadFunc, ~LcmTunnel); clients come to have the parameters of their server
\* (_on_param_update).  They are stated of one library, but the others are at rest.
ComeToRest == <>[](HasCaughtUp /\ Tunnel!NothingIsHeldUp)

\* Paths between frames are shortest paths of the graph as it is (ctrans.c), unless the names of
\* two pairs of frames make the same text or a link was replaced, and the heap of a path search
\* gives the least score (minheap.c).  A transform lies between the updates before
\* and after its time, transforms of one time fit together (bot_ctrans_path_to_trans), all
\* questions agree, the frames are listed in order (bot_frames_new) and subscribers told of each
\* update (_dispatch_update_callbacks).  The links do not depend on the subscribers, so what is
\* asked of them is checked without any.
TransformsAreRight ==
  /\ part = "paths" => Graphs!PathsAreRight
  /\ part = "heap" => Heap!RemovesTheLeast
  /\ part = "frames" =>
       /\ subscribers = << >> =>
            Frames!LookupsAreBracketed /\ Frames!Coherent /\ Frames!AnswersAgree
       /\ Frames!FramesAreListed /\ Frames!SubscribersAreTold

\* A viewer draws what a client queued (lcmgl.c, lcmgl_decode.c), and a model that it read from a
\* file triangle by triangle as the file has them (glmDraw); the table of the sheriff shows the
\* commands as they are (command_model.py).
ShowsWhatIs ==
  /\ part = "drawing" => Drawing!DrawnAsQueued
  /\ part = "model" => Models!DrawnOnce
  /\ part = "table" => Table!ShowsTheCommands

\* Models of files are as the files tell, with normals that fit their faces, whatever is done to
\* them (glmReadOBJ, glmReverseWinding, glmVertexNormals, glmWeld, glmUnitize).  Drawing or
\* writing a model leaves it as it is, so what would become of it is asked before.
ModelsAreWhole ==
  part = "model" =>
    /\ Models!IsWhole /\ Models!FacesOut
    /\ drawn = << >> /\ written = << >> => Models!KeepsNormals /\ Models!StaysInPlace

\* A command is started with the words and the environment that its text asks for
\* (procman_cmd_split_str), and nothing that it leaves behind goes on when it has ended
\* (procman_kill_cmd, procman_check_for_dead_children).
CommandsRunAsAsked ==
  /\ part = "lines" => CommandLines!RunsAsWritten /\ CommandLines!IdsDiffer
  /\ part = "processes" => Processes!NoOrphanIsLeft

\* What was saved comes back when it is loaded (sheriff.py, sheriff_config.py).  A viewer begins
\* with the settings that it ended with, and programs know what its widgets show (viewer.c,
\* param_widget.c).
SavedComesBack ==
  /\ Config!LoadsWhatWasSaved
  /\ [](part = "settings" => Preferences!SettingsComeBack /\ Preferences!ProgramsKnow)

\* What is written answers as before when it is read: a tree of parameters (param_internal.c), a
\* model (glmWriteOBJ), and the symbols of a batch, of which those that were lost come back as far
\* as substitution can tell them (ldpc_fec_iterative_decoding.cpp).
WrittenIsReadBack ==
  /\ part = "text" => Text!WrittenIsReadBack
  /\ part = "model" => Models!WrittenIsReadBack
  /\ part = "fec" => Fec!Recovers
============================================================================
