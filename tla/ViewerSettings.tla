--------------------------- MODULE ViewerSettings ---------------------------
(***************************************************************************)
(* What a viewer keeps from one session to the next (viewer.c, the renderers *)
(* of the grid and of coordinate frames, the main programs): the menus of      *)
(* renderers, their control widgets and the bookmarks, in a preferences file.   *)
(***************************************************************************)
EXTENDS Integers, Sequences, FiniteSets, SequencesExt, TLC

-----------------------------------------------------------------------------
(* The control widget (param_widget.c): rows that programs add, that the user *)
(* and programs change, and that are kept in a file.  A value is a number: of  *)
(* a box 0 or 1, of a menu the place of the option that is chosen, of an entry  *)
(* one of some texts.                                                        *)

\* params has the row of each name; a row knows its own name.
NewWidget == [rows |-> << >>, params |-> << >>]

HaveParameterKey(pw, name) == name \in DOMAIN pw.params

\* The types of the GTK widgets are compared, not those that they are derived from.
RowOf(pw, name, types) ==
  IF HaveParameterKey(pw, name) /\ pw.rows[pw.params[name]].gtk_type \in types
  THEN pw.params[name] ELSE 0
Numbers == {"scale", "spin"}

-----------------------------------------------------------------------------
(* Adding rows *)

Row(name, gtk_type, data_type, value) ==
  [name |-> name, gtk_type |-> gtk_type, data_type |-> data_type, value |-> value,
   lower |-> 0, upper |-> 1, min |-> 0, max |-> 1, options |-> << >>,
   shown |-> TRUE, sensitive |-> TRUE]

\* add_row; the table takes the new row for the name.
AddRow(pw, row) ==
  [rows |-> Append(pw.rows, row), params |-> (row.name :> Len(pw.rows) + 1) @@ pw.params]

\* bot_gtk_param_widget_add_int, _add_double: GTK keeps a value between lower and upper, the
\* row remembers its first range as min and max.
AddNumber(pw, call) ==
  IF \/ HaveParameterKey(pw, call.name) \/ call.min >= call.max
     \/ call.initial \notin call.min .. call.max
  THEN pw
  ELSE AddRow(pw, [Row(call.name, call.gtk_type, call.data_type, call.initial) EXCEPT
                     !.lower = call.min, !.upper = call.max, !.min = call.min, !.max = call.max])

AddTextEntry(pw, call) ==
  IF HaveParameterKey(pw, call.name) THEN pw
  ELSE AddRow(pw, Row(call.name, "entry", "string", call.initial))

\* add_checkboxes, add_togglebuttons, add_buttons: up to the first name that is taken; then
\* those before it are there, but are never shown.
AddBox(pw, call) ==
  LET Added(w, name) == AddRow(w, Row(name, call.gtk_type, call.data_type, call.initial))
      free == { n \in 0 .. Len(call.names) :
                  \A k \in 1..n : /\ ~HaveParameterKey(pw, call.names[k])
                                  /\ \A j \in 1..k - 1 : call.names[j] # call.names[k] }
      count == CHOOSE n \in free : \A m \in free : m <= n
      all == FoldLeft(Added, pw, SubSeq(call.names, 1, count))
  IN  IF count = Len(call.names) THEN all
      ELSE [all EXCEPT !.rows = [k \in DOMAIN @ |->
                                   IF k > Len(pw.rows) THEN [@[k] EXCEPT !.shown = FALSE] ELSE @[k]]]

\* _add_menu does not ask whether the name is taken.
AddMenu(pw, call) ==
  AddRow(pw, [Row(call.name, "combo", "enum",
                  SelectLastInSeq(call.options, LAMBDA v : v = call.initial))
                EXCEPT !.options = call.options])

Add(pw, call) ==
  CASE call.add = "number" -> AddNumber(pw, call)
    [] call.add = "text" -> AddTextEntry(pw, call)
    [] call.add = "boxes" -> AddBox(pw, call)
    [] call.add = "menu" -> AddMenu(pw, call)

-----------------------------------------------------------------------------
(* Values *)

\* bot_gtk_param_widget_get_int, _get_double; _get_bool; _get_enum
GetNumber(pw, name) ==
  LET row == RowOf(pw, name, Numbers) IN IF row = 0 THEN 0 ELSE pw.rows[row].value
GetBool(pw, name) ==
  LET row == RowOf(pw, name, {"check", "toggle"}) IN IF row = 0 THEN 0 ELSE pw.rows[row].value
GetEnum(pw, name) ==
  LET row == RowOf(pw, name, {"combo"})
  IN  IF row = 0 THEN -1 ELSE pw.rows[row].options[pw.rows[row].value]
GetTextEntry(pw, name) ==
  LET row == RowOf(pw, name, {"entry"}) IN IF row = 0 THEN 0 ELSE pw.rows[row].value

Get(pw, name) ==
  LET type == pw.rows[pw.params[name]].data_type
  IN  CASE type \in {"int", "double"} -> GetNumber(pw, name)
        [] type = "boolean" -> GetBool(pw, name)
        [] type = "enum" -> GetEnum(pw, name)
        [] type = "string" -> GetTextEntry(pw, name)
        [] type = "button" -> 0

Clamp(v, low, high) == IF v > high THEN high ELSE IF v < low THEN low ELSE v

PutIn(pw, row, value) ==
  IF row = 0 THEN pw
  ELSE [pw EXCEPT !.rows[row].value =
          IF pw.rows[row].gtk_type \in Numbers
          THEN Clamp(value, pw.rows[row].lower, pw.rows[row].upper) ELSE value]

\* bot_gtk_param_widget_set_int
SetInt(pw, name, val) == PutIn(pw, RowOf(pw, name, Numbers), val)

\* bot_gtk_param_widget_set_double: within the first range, whatever it was modified to
SetDouble(pw, name, val) ==
  LET row == RowOf(pw, name, Numbers)
  IN  IF row # 0 /\ pw.rows[row].data_type = "double"
      THEN PutIn(pw, row, Clamp(val, pw.rows[row].min, pw.rows[row].max)) ELSE pw

\* bot_gtk_param_widget_set_bool: no toggle buttons
SetBool(pw, name, val) == PutIn(pw, RowOf(pw, name, {"check"}), val)

\* bot_gtk_param_widget_set_enum: the first option that has the value, if there is one
SetEnum(pw, name, val) ==
  LET row == RowOf(pw, name, {"combo"})
      place == IF row = 0 THEN 0 ELSE SelectInSeq(pw.rows[row].options, LAMBDA v : v = val)
  IN  IF place = 0 THEN pw ELSE PutIn(pw, row, place)

\* bot_gtk_param_widget_set_enabled
SetEnabled(pw, name, enabled) == [pw EXCEPT !.rows[pw.params[name]].sensitive = enabled]

\* bot_gtk_param_widget_modify_int, _modify_double: min and max stay.
ModifyNumber(pw, name, low, high, value) ==
  LET row == RowOf(pw, name, Numbers)
  IN  IF row = 0 THEN pw
      ELSE PutIn([pw EXCEPT !.rows[row].lower = low, !.rows[row].upper = high], row, value)

\* bot_gtk_param_widget_modify_enum chooses the option that it adds.
ModifyEnum(pw, name, value) ==
  LET row == RowOf(pw, name, {"combo"})
  IN  IF row = 0 THEN pw
      ELSE [pw EXCEPT !.rows[row].options = Append(@, value),
                      !.rows[row].value = Len(pw.rows[row].options) + 1]

\* bot_gtk_param_widget_clear_enum leaves one option, with value 0.
ClearEnum(pw, name) ==
  LET row == RowOf(pw, name, {"combo"})
  IN  IF row = 0 THEN pw ELSE [pw EXCEPT !.rows[row].options = <<0>>, !.rows[row].value = 1]

-----------------------------------------------------------------------------
(* Signals and files *)

\* The signal that tells of a change of a GTK widget, and the one that is connected to
\* generic_widget_changed: an entry has no "value-changed".
Emitted == [spin |-> "value-changed", scale |-> "value-changed", combo |-> "changed",
            check |-> "toggled", toggle |-> "toggled", button |-> "clicked", entry |-> "changed"]
Connected == [Emitted EXCEPT !.entry = "value-changed"]
IsHeard(row) == Emitted[row.gtk_type] = Connected[row.gtk_type]

\* The names that "changed" is emitted with: a menu has changed also if another option has come
\* to the place that is chosen.
Chosen(row) == IF row.gtk_type = "combo" THEN row.options[row.value] ELSE row.value
Changed(old, new) ==
  { new.rows[k].name : k \in { j \in DOMAIN new.rows :
                                 /\ IsHeard(new.rows[j])
                                 /\ \/ new.rows[j].value # old.rows[j].value
                                    \/ Chosen(new.rows[j]) # Chosen(old.rows[j]) } }

Kept(pw) ==
  { n \in DOMAIN pw.params :
      pw.rows[pw.params[n]].data_type \in {"boolean", "double", "int", "enum"} }

\* bot_gtk_param_widget_save_to_key_file
SaveToKeyFile(pw) == [name \in Kept(pw) |-> Get(pw, name)]

\* bot_gtk_param_widget_load_from_key_file: what the file has of its parameters
LoadFromKeyFile(pw, group) ==
  LET Loaded(w, name) ==
        LET type == w.rows[w.params[name]].data_type
        IN  CASE type = "boolean" -> SetBool(w, name, group[name])
              [] type = "double" -> SetDouble(w, name, group[name])
              [] type = "int" -> SetInt(w, name, group[name])
              [] type = "enum" -> SetEnum(w, name, group[name])
  IN  FoldLeft(Loaded, pw, SetToSeq(Kept(pw) \cap DOMAIN group))

-----------------------------------------------------------------------------
CONSTANTS
  Renderers,        \* from the names of renderers to the calls that make their control widgets;
                    \* none, if a renderer has no widget
  Bookmarks,        \* numbers of bookmarks
  Views,            \* what a bookmark can save
  MaxActions        \* bound: what users and programs do, in all sessions

VARIABLES
  session,          \* "off", "started", "running" or "saving", and whether it has loaded what was
                    \* saved into its renderers
  renderers,        \* the state of each renderer
  bookmarks,        \* the views that were saved, or none
  file,             \* what the preferences file has, or Missing
  left,             \* history: the renderers and bookmarks when the file was written, or Missing
  actions           \* how much was done

settingsVars == <<session, renderers, bookmarks, file, left, actions>>

none == << >>
Missing == [renderers |-> << >>, bookmarks |-> << >>]

HasWidget(r) == Renderers[r] # << >>

\* bot_viewer_add_renderer_on_side: the expander is opened, and the flag expanded is not set.
\* A program reads its parameters then, and each one again when it hears that it has changed.
AddRenderer(r) ==
  LET pw == FoldLeft(Add, NewWidget, Renderers[r])
  IN  [enabled |-> TRUE, active |-> TRUE, framed |-> HasWidget(r),
       expanded |-> FALSE, open |-> HasWidget(r), visible |-> HasWidget(r),
       pw |-> pw, known |-> [n \in DOMAIN pw.params |-> Get(pw, n)]]

New == [r \in DOMAIN Renderers |-> AddRenderer(r)]

\* bot_viewer_init
NewBookmarks == [b \in Bookmarks |-> none]

Init ==
  /\ session = [phase |-> "off", loaded |-> FALSE]
  /\ renderers = New /\ bookmarks = NewBookmarks
  /\ file = Missing /\ left = Missing /\ actions = 0

-----------------------------------------------------------------------------
(* Changes and who hears of them *)

\* on_renderer_enabled_toggled, if the menu item changes
SetActive(state, r, active) ==
  IF active = state.active THEN state
  ELSE [state EXCEPT !.active = active, !.enabled = active,
                     !.framed = IF HasWidget(r) THEN active ELSE @]

\* on_renderer_widget_expander_notify, if the expander changes
SetExpanded(state, open) ==
  IF open = state.open THEN state
  ELSE [state EXCEPT !.open = open, !.expanded = open, !.visible = open]

\* generic_widget_changed, on_param_widget_changed
SetWidget(state, pw) ==
  LET changed == Changed(state.pw, pw)
  IN  [state EXCEPT !.pw = pw,
         !.known = [n \in DOMAIN @ |-> IF n \in changed THEN Get(pw, n) ELSE @[n]]]

-----------------------------------------------------------------------------
(* The file *)

\* bot_viewer_save_preferences, on_save_preferences
Saved ==
  [renderers |-> [r \in DOMAIN renderers |->
     [enabled |-> renderers[r].enabled, expanded |-> renderers[r].expanded,
      group |-> SaveToKeyFile(renderers[r].pw)]],
   bookmarks |-> bookmarks]

\* bot_viewer_load_preferences, on_load_preferences
LoadedRenderer(state, r, saved) ==
  LET checked == SetActive(state, r, saved.enabled)
      opened == IF HasWidget(r)
                THEN SetExpanded([checked EXCEPT !.expanded = saved.expanded], saved.expanded)
                ELSE checked
  IN  SetWidget(opened, LoadFromKeyFile(opened.pw, saved.group))

Loaded(states) ==
  [r \in DOMAIN states |->
     IF r \in DOMAIN file.renderers THEN LoadedRenderer(states[r], r, file.renderers[r])
     ELSE states[r]]

-----------------------------------------------------------------------------
(* Sessions *)

Begin(loaded, states) ==
  /\ session.phase = "off" /\ actions < MaxActions
  /\ session' = [phase |-> "started", loaded |-> loaded] /\ renderers' = states
  /\ bookmarks' = IF file = Missing THEN NewBookmarks ELSE file.bookmarks
  /\ UNCHANGED <<file, left, actions>>

\* main of lcmgl-viewer: what is loaded finds the renderers.
StartAndLoad == Begin(TRUE, Loaded(New))

\* main of rwx-viewer and wavefront-viewer: what is loaded finds none.
LoadAndStart == Begin(FALSE, New)

Running ==
  /\ session.phase \in {"started", "running"} /\ actions < MaxActions
  /\ session' = [session EXCEPT !.phase = "running"] /\ actions' = actions + 1
  /\ UNCHANGED <<file, left>>

ChangeRenderer(r, state) ==
  /\ Running /\ renderers' = [renderers EXCEPT ![r] = state] /\ UNCHANGED bookmarks

Toggle(r) == ChangeRenderer(r, SetActive(renderers[r], r, ~renderers[r].active))

Expand(r) == HasWidget(r) /\ ChangeRenderer(r, SetExpanded(renderers[r], ~renderers[r].open))

\* on_select_all_renderers_activate, on_select_no_renderers_activate
SelectAll(active) ==
  /\ Running /\ UNCHANGED bookmarks
  /\ renderers' = [r \in DOMAIN renderers |->
                     SetActive([renderers[r] EXCEPT !.enabled = active], r, active)]

\* The user gives a row another value.
Values(row) == IF row.gtk_type = "combo" THEN DOMAIN row.options ELSE row.lower .. row.upper
Edit(r) ==
  \E k \in DOMAIN renderers[r].pw.rows :
    LET row == renderers[r].pw.rows[k]
    IN  /\ row.shown /\ row.sensitive /\ row.gtk_type # "button"
        /\ \E v \in Values(row) \ {row.value} :
             ChangeRenderer(r, SetWidget(renderers[r], PutIn(renderers[r].pw, k, v)))

\* The program changes its widget; a value may be set from another type's function.
Modified(pw, name) ==
  { SetEnabled(pw, name, FALSE), ModifyNumber(pw, name, 1, 3, 3), ModifyEnum(pw, name, 2),
    ClearEnum(pw, name), SetInt(pw, name, 2), SetDouble(pw, name, 2), SetBool(pw, name, 1),
    SetEnum(pw, name, 2) }

Modify(r) ==
  \E name \in DOMAIN renderers[r].pw.params : \E pw \in Modified(renderers[r].pw, name) :
    /\ pw # renderers[r].pw /\ ChangeRenderer(r, SetWidget(renderers[r], pw))

\* on_select_bookmark_save_view
SaveView(b, view) ==
  /\ Running /\ bookmarks' = [bookmarks EXCEPT ![b] = <<view>>] /\ UNCHANGED renderers

\* The file is emptied when it is opened and written when all have said what to save; it may
\* not be possible to open it.
Quit ==
  /\ session.phase \in {"started", "running"}
  /\ \/ session' = [session EXCEPT !.phase = "saving"] /\ file' = Missing /\ left' = Missing
     \/ session' = [session EXCEPT !.phase = "off"] /\ UNCHANGED <<file, left>>
  /\ UNCHANGED <<renderers, bookmarks, actions>>

Write ==
  /\ session.phase = "saving" /\ session' = [session EXCEPT !.phase = "off"]
  /\ file' = Saved /\ left' = [renderers |-> renderers, bookmarks |-> bookmarks]
  /\ UNCHANGED <<renderers, bookmarks, actions>>

Crash ==
  /\ session.phase # "off" /\ session' = [session EXCEPT !.phase = "off"]
  /\ UNCHANGED <<renderers, bookmarks, file, left, actions>>

Next ==
  \/ StartAndLoad \/ LoadAndStart \/ Quit \/ Write \/ Crash
  \/ \E r \in DOMAIN renderers : Toggle(r) \/ Expand(r) \/ Edit(r) \/ Modify(r)
  \/ \E active \in BOOLEAN : SelectAll(active)
  \/ \E b \in Bookmarks, view \in Views : SaveView(b, view)

Spec == Init /\ [][Next]_settingsVars

-----------------------------------------------------------------------------
(* Properties *)

\* What can be restored: boxes but no toggle buttons, and values that a new widget can have.
CanRestore(r, name, value) ==
  LET row == New[r].pw.rows[New[r].pw.params[name]]
  IN  \/ row.gtk_type = "check"
      \/ row.gtk_type \in Numbers /\ value \in row.lower .. row.upper
      \/ row.gtk_type = "combo" /\ \E k \in DOMAIN row.options : row.options[k] = value

\* A session that loads its settings last begins as the one ended that saved them: the same
\* renderers are drawn, the same controls are open, if they had ever been opened or closed, and
\* parameters and bookmarks have the values they had (bot_viewer_load_preferences).
SettingsComeBack ==
  session.phase = "started" /\ left # Missing =>
    /\ bookmarks = left.bookmarks
    /\ session.loaded =>
         \A r \in DOMAIN renderers :
           LET now == renderers[r]  then == left.renderers[r]
           IN  /\ now.active = then.active
               /\ then.expanded = then.open => now.open = then.open
               /\ \A n \in Kept(now.pw) :
                    CanRestore(r, n, Get(then.pw, n)) => Get(now.pw, n) = Get(then.pw, n)

\* What is drawn is what the menus show and what the controls say: flags and widgets agree, and
\* a program knows the value of every parameter but that of entries, which nobody tells it of
\* (generic_widget_changed).
ProgramsKnow ==
  session.phase # "off" =>
    \A r \in DOMAIN renderers :
      LET state == renderers[r]
      IN  /\ state.enabled = state.active /\ state.framed = (state.active /\ HasWidget(r))
          /\ state.visible = state.open
          /\ \A n \in DOMAIN state.known :
               \/ state.pw.rows[state.pw.params[n]].gtk_type = "entry"
               \/ state.known[n] = Get(state.pw, n)
=============================================================================
