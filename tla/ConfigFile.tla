----------------------------- MODULE ConfigFile -----------------------------
(***************************************************************************)
(* The configuration files of procman (sheriff_config.py): how a list of     *)
(* commands and scripts is written, and how a text is read.  A text is the    *)
(* sequence of its tokens.  A string comes back from it as it was written,     *)
(* with its quotes escaped; but the names of groups are not escaped.          *)
(***************************************************************************)
LOCAL INSTANCE Naturals
LOCAL INSTANCE Sequences
LOCAL INSTANCE SequencesExt
LOCAL INSTANCE TLC

CONSTANTS
  Quoted,           \* names with a quote in them
  Slashed,          \* names with a slash in them
  Blank             \* names that strip() makes empty

Tok(type, val) == [type |-> type, val |-> val]
Word(name) == Tok("Identifier", name)
Text(s) == Tok("String", s)
OpenStruct == Tok("OpenStruct", "{")
CloseStruct == Tok("CloseStruct", "}")
Assign == Tok("Assign", "=")
EndStatement == Tok("EndStatement", ";")

\* A name between quotes that are not escaped: the tokenizer stops at what comes after it.
Unescaped(name) == IF name \in Quoted THEN Tok("Invalid", name) ELSE Text(name)

\* The attributes of a CommandNode.
NewNode ==
  [exec |-> "", host |-> "", group |-> "", nickname |-> "", auto_respawn |-> "",
   stop_signal |-> 0, stop_time_allowed |-> 0]

\* What a ConfigNode holds: the groups as they first came, the commands with the names of
\* the groups that they are in, and the scripts by name.
NewConfig == [groups |-> << >>, commands |-> << >>, scripts |-> << >>]

WithGroup(config, path) ==
  IF path \in ToSet(config.groups) THEN config
  ELSE [config EXCEPT !.groups = Append(@, path)]

WithCommand(config, path, node) ==
  [config EXCEPT !.commands = Append(@, [path |-> path, node |-> node])]

Subgroups(config, path) ==
  SelectSeq(config.groups, LAMBDA g : Len(g) = Len(path) + 1 /\ IsPrefix(path, g))

InGroup(config, path) == SelectSeq(config.commands, LAMBDA c : c.path = path)

-----------------------------------------------------------------------------
(* Writing *)

\* An attribute that has a value.
Attribute(name, val) ==
  IF val = "" THEN << >> ELSE << Word(name), Assign, Text(val), EndStatement >>

\* CommandNode.to_config_string, of a command as the sheriff saves it
CommandText(node) ==
  <<Word("cmd")>> \o (IF node.nickname = "" THEN << >> ELSE <<Text(node.nickname)>>)
    \o <<OpenStruct>> \o Attribute("auto_respawn", node.auto_respawn)
    \o Attribute("exec", node.exec) \o Attribute("host", node.host) \o <<CloseStruct>>

\* GroupNode.to_config_string: the groups in a group go before its commands.
RECURSIVE GroupText(_, _)
GroupText(config, path) ==
  LET subgroups == Subgroups(config, path)
      here == InGroup(config, path)
      members == FlattenSeq([k \in DOMAIN subgroups |-> GroupText(config, subgroups[k])])
                   \o FlattenSeq([k \in DOMAIN here |-> CommandText(here[k].node)])
  IN  IF path = << >> THEN members
      ELSE <<Word("group"), Unescaped(Last(path)), OpenStruct>> \o members \o <<CloseStruct>>

Names(a) ==
  <<Word(a.ident_type)>> \o (IF a.ident_type = "everything" THEN << >> ELSE <<Text(a.ident)>>)

\* The __str__ of the actions.
ActionText(a) ==
  CASE a.action_type = "wait_ms" -> <<Word("wait"), Word("ms"), Tok("Integer", a.delay_ms)>>
    [] a.action_type = "run_script" -> <<Word("run_script"), Text(a.ident)>>
    [] a.action_type = "wait_status" ->
         <<Word("wait")>> \o Names(a) \o <<Word("status"), Text(a.wait_status)>>
    [] OTHER -> <<Word(a.action_type)>> \o Names(a) \o
         (IF a.wait_status = "" THEN << >> ELSE <<Word("wait"), Text(a.wait_status)>>)

\* ScriptNode.__str__
ScriptText(name, actions) ==
  <<Word("script"), Text(name), OpenStruct>>
    \o FlattenSeq([k \in DOMAIN actions |-> Append(ActionText(actions[k]), EndStatement)])
    \o <<CloseStruct>>

\* ConfigNode.__str__.  The scripts are sorted by name; here they come in any fixed order.
ConfigText(config) ==
  LET names == SetToSeq(DOMAIN config.scripts)
  IN  GroupText(config, << >>)
        \o FlattenSeq([k \in DOMAIN names |-> ScriptText(names[k], config.scripts[names[k]])])

-----------------------------------------------------------------------------
(* Reading.  What a rule of the parser makes of the next tokens: a value and the tokens  *)
(* that are left, or a ParseError.                                                     *)

Parsed(rest, val) == [ok |-> TRUE, rest |-> rest, val |-> val]
ParseError == [ok |-> FALSE]

Drop(ts, n) == SubSeq(ts, n + 1, Len(ts))
Begins(ts, types) == Len(ts) >= Len(types) /\ \A k \in DOMAIN types : ts[k].type = types[k]
BeginsWith(ts, words) == Begins(ts, <<"Identifier">>) /\ ts[1].val \in words

Attributes ==
  [exec |-> "String", host |-> "String", auto_respawn |-> "String", group |-> "String",
   stop_signal |-> "Integer", stop_time_allowed |-> "Integer"]

\* _parse_command_param_list
RECURSIVE ParamList(_, _)
ParamList(ts, node) ==
  IF ~Begins(ts, <<"Identifier">>) THEN Parsed(ts, node)
  ELSE IF /\ BeginsWith(ts, DOMAIN Attributes)
          /\ Begins(Tail(ts), <<"Assign", Attributes[ts[1].val], "EndStatement">>)
          /\ ts[3].type = "Integer" => ts[3].val >= 1
  THEN ParamList(Drop(ts, 4), [node EXCEPT ![ts[1].val] = ts[3].val])
  ELSE ParseError

\* _parse_command
ParseCommand(ts) ==
  LET named == Begins(ts, <<"String">>)
      body == IF named THEN Tail(ts) ELSE ts
      params == ParamList(Tail(body), [NewNode EXCEPT !.nickname = IF named THEN ts[1].val ELSE ""])
  IN  IF /\ named => ts[1].val \notin Slashed
         /\ Begins(body, <<"OpenStruct">>)
         /\ params.ok /\ Begins(params.rest, <<"CloseStruct">>) /\ params.val.exec # ""
      THEN Parsed(Tail(params.rest), params.val) ELSE ParseError

\* _parse_group, up to the brace; what is in a group follows.
RECURSIVE Members(_, _, _)
ParseGroup(ts, path, config) ==
  IF Begins(ts, <<"String", "OpenStruct">>) /\ ts[1].val \notin Slashed \cup Blank
  THEN LET inner == Append(path, ts[1].val)
       IN  Members(Drop(ts, 2), inner, WithGroup(config, inner))
  ELSE ParseError

\* A command, which sets its group, or a group; the parser goes on behind it.
Member(ts, path, config) ==
  IF BeginsWith(ts, {"cmd"})
  THEN LET command == ParseCommand(Tail(ts))
       IN  IF command.ok THEN Parsed(command.rest, WithCommand(config, path, command.val))
           ELSE ParseError
  ELSE IF BeginsWith(ts, {"group"}) THEN ParseGroup(Tail(ts), path, config)
  ELSE ParseError

Members(ts, path, config) ==
  IF Begins(ts, <<"CloseStruct">>) THEN Parsed(Tail(ts), config)
  ELSE LET first == Member(ts, path, config)
       IN  IF first.ok THEN Members(first.rest, path, first.val) ELSE ParseError

Action(type, ident_type, ident, status) ==
  [action_type |-> type, ident_type |-> ident_type, ident |-> ident, wait_status |-> status,
   delay_ms |-> 0]
Status(ts, k) == ts[k].type = "String" /\ ts[k].val \in {"running", "stopped"}

\* _parse_start_stop_restart_action: everything, or a command or group by name
StartStopRestart(ts) ==
  LET n == IF BeginsWith(Tail(ts), {"everything"}) THEN 2 ELSE 3
      ident == IF n = 2 THEN "" ELSE ts[3].val
      after == Drop(ts, n)
  IN  IF ~ \/ n = 2
           \/ BeginsWith(Tail(ts), {"cmd", "group"}) /\ Begins(Drop(ts, 2), <<"String">>)
      THEN ParseError
      ELSE IF Begins(after, <<"EndStatement">>)
      THEN Parsed(Tail(after), Action(ts[1].val, ts[2].val, ident, ""))
      ELSE IF BeginsWith(after, {"wait"}) /\ Begins(Tail(after), <<"String", "EndStatement">>)
              /\ Status(after, 2)
      THEN Parsed(Drop(after, 3), Action(ts[1].val, ts[2].val, ident, after[2].val))
      ELSE ParseError

\* _parse_wait_action
WaitAction(ts) ==
  IF BeginsWith(Tail(ts), {"ms"}) /\ Begins(Drop(ts, 2), <<"Integer", "EndStatement">>)
  THEN Parsed(Drop(ts, 4), [Action("wait_ms", "", "", "") EXCEPT !.delay_ms = ts[3].val])
  ELSE IF /\ BeginsWith(Tail(ts), {"cmd", "group"})
          /\ Begins(Drop(ts, 2), <<"String", "Identifier", "String", "EndStatement">>)
          /\ ts[4].val = "status" /\ Status(ts, 5)
  THEN Parsed(Drop(ts, 6), Action("wait_status", ts[2].val, ts[3].val, ts[5].val))
  ELSE ParseError

\* _parse_run_script
RunScript(ts) ==
  IF Begins(Tail(ts), <<"String", "EndStatement">>)
  THEN Parsed(Drop(ts, 3), Action("run_script", "", ts[2].val, "")) ELSE ParseError

\* _parse_script_action_list, from the brace on
RECURSIVE ActionList(_, _)
ActionList(ts, actions) ==
  IF Begins(ts, <<"CloseStruct">>) THEN Parsed(Tail(ts), actions)
  ELSE LET next == CASE BeginsWith(ts, {"start", "stop", "restart"}) -> StartStopRestart(ts)
                     [] BeginsWith(ts, {"wait"}) -> WaitAction(ts)
                     [] BeginsWith(ts, {"run_script"}) -> RunScript(ts)
                     [] OTHER -> ParseError
       IN  IF next.ok THEN ActionList(next.rest, Append(actions, next.val)) ELSE ParseError

\* _parse_script.  Two scripts of one name violate an assertion of add_script.
ParseScript(ts, config) ==
  LET actions == ActionList(Drop(ts, 2), << >>)
  IN  IF Begins(ts, <<"String", "OpenStruct">>) /\ ts[1].val \notin DOMAIN config.scripts
         /\ actions.ok
      THEN Parsed(actions.rest, [config EXCEPT !.scripts = (ts[1].val :> actions.val) @@ @])
      ELSE ParseError

\* _parse_listdecl
RECURSIVE ListDecl(_, _)
ListDecl(ts, config) ==
  IF ts = << >> THEN Parsed(ts, config)
  ELSE LET next == IF BeginsWith(ts, {"script"}) THEN ParseScript(Tail(ts), config)
                   ELSE Member(ts, << >>, config)
       IN  IF next.ok THEN ListDecl(next.rest, next.val) ELSE ParseError

\* Parser.parse; comments are passed over.
Parse(text) == ListDecl(SelectSeq(text, LAMBDA t : t.type # "Comment"), NewConfig)
=============================================================================
