----------------------------- MODULE ParamFile -----------------------------
(***************************************************************************)
(* The parameter files of bot2-param (param_internal.c): what the parser     *)
(* makes of a text that comes character by character, what programs set and   *)
(* override, how a tree is written and what the functions that get values       *)
(* answer.  The written text is what a server publishes and a client parses.     *)
(***************************************************************************)
EXTENDS ParamTree

CONSTANTS
  Include,          \* the name INCLUDE, as the sequence of its characters
  Contents,         \* the files that can be included: a function from their names to texts
  TokenSize,        \* the size of the buffer for a token
  Settings,         \* entries [path, value] that programs set or override
  Arrays,           \* entries [path, values] that programs set as an array
  MaxSize           \* bound: elements, values and characters that a user writes into a file

VARIABLES
  parser,           \* the state of the parser
  outcome,          \* what became of the file: "reading", "loaded", "refused", "aborted", "crashed"
  params,           \* the tree that was loaded
  changed           \* whether a program has set something

fileVars == <<parser, outcome, params, changed>>

Single == [c \in {";", "=", "[", "]", "{", "}", ","} |-> c]
Closing == [String |-> "\"", Cast |-> ")"]
Escape == [String |-> "\\", Cast |-> ""]
IdentifierChars == {"a", "1", "I"}
EndOfText == "EOF"

\* The lexer is in a comment or in a token, with the character before; the parser is in
\* containers and has seen the name of a child; existing are those that were there before.
NewParser ==
  [in_comment |-> FALSE, tok |-> "none", str |-> << >>, prev_ch |-> "",
   expects |-> "statement", cont |-> << >>, child |-> << >>, existing |-> {},
   root |-> NewParam, status |-> "parsing"]

-----------------------------------------------------------------------------
(* The parser: what it makes of a token [type, str] *)

Fail(p) == [p EXCEPT !.status = "failed"]
Expect(p, what) == [p EXCEPT !.expects = what]
AddValue(p, str) == [p EXCEPT !.root = ParseStatement(@, Assign(p.child, <<str>>))]
IsValue(token) == token.type \in {"Identifier", "String"}

\* parse_container: a name, an assignment or a container that begins, or the end of one
Statement(p, token) ==
  LET path == Append(p.cont, token.str)
  IN  CASE p.child = << >> /\ token.type = "Identifier" ->
             [p EXCEPT !.child = path,
                       !.existing = IF path \in DOMAIN p.root THEN @ \cup {path} ELSE @]
        [] p.child # << >> /\ token.type = "=" ->
             [p EXCEPT !.root = ParseStatement(@, Assign(p.child, << >>)), !.expects = "right side"]
        [] p.child # << >> /\ token.type = "{" ->
             [p EXCEPT !.root = ParseStatement(@, Open(p.child)), !.cont = p.child, !.child = << >>]
        [] p.child = << >> /\ token.type = "}" /\ p.cont # << >> ->
             [p EXCEPT !.cont = Front(@), !.existing = @ \ {p.cont}]
        [] p.child = << >> /\ token.type = EndOfText /\ p.cont = << >> ->
             [p EXCEPT !.status = "parsed"]
        [] OTHER -> Fail(p)

\* parse_right_side: a cast is passed over once.
RightSide(p, token) ==
  CASE token.type = "Cast" /\ p.expects = "right side" -> Expect(p, "value")
    [] IsValue(token) -> Expect(AddValue(p, token.str), "semicolon")
    [] token.type = "[" -> Expect(p, "element")
    [] OTHER -> Fail(p)

\* parse_array
Element(p, token) ==
  CASE IsValue(token) -> Expect(AddValue(p, token.str), "separator")
    [] token.type = "]" -> Expect(p, "semicolon")
    [] OTHER -> Fail(p)

Separator(p, token) ==
  CASE token.type = "," -> Expect(p, "element")
    [] token.type = "]" -> Expect(p, "semicolon")
    [] OTHER -> Fail(p)

Semicolon(p, token) ==
  IF token.type # ";" THEN Fail(p)
  ELSE [Expect(p, "statement") EXCEPT !.child = << >>, !.existing = @ \ {p.child}]

Token(p, type, str) ==
  LET token == [type |-> type, str |-> str]
      q == [p EXCEPT !.tok = "none", !.str = << >>, !.prev_ch = ""]
  IN  CASE p.expects = "statement" -> Statement(q, token)
        [] p.expects \in {"right side", "value"} -> RightSide(q, token)
        [] p.expects = "element" -> Element(q, token)
        [] p.expects = "separator" -> Separator(q, token)
        [] p.expects = "semicolon" -> Semicolon(q, token)

-----------------------------------------------------------------------------
(* The lexer: what it makes of a character *)

\* get_token: the first character of a token.  White space is skipped.
FirstChar(p, ch) ==
  CASE ch = " " -> p
    [] ch = EndOfText -> Token(p, EndOfText, << >>)
    [] ch \in DOMAIN Single -> Token(p, ch, <<ch>>)
    [] ch = "\"" -> [p EXCEPT !.tok = "String"]
    [] ch = "(" -> [p EXCEPT !.tok = "Cast"]
    [] ch \in IdentifierChars -> [p EXCEPT !.tok = "Identifier", !.str = <<ch>>]
    [] OTHER -> Fail(p)

\* Defect: the backslash before a quote is not kept.
TakeUnescaped(p, ch) ==
  IF Len(p.str) + 1 >= TokenSize THEN Fail(p)
  ELSE [p EXCEPT !.str = Append(IF ch = "\"" THEN Front(@) ELSE @, ch), !.prev_ch = ch]

Take(p, ch) ==
  IF Len(p.str) + 1 >= TokenSize THEN Fail(p)
  ELSE [p EXCEPT !.str = Append(@, ch), !.prev_ch = ch]

\* The other characters.  What ends an identifier is given back; what ends a string or a
\* cast is its closing character, unless the one before it escapes it.
NextChar(p, ch) ==
  CASE p.tok = "none" -> FirstChar(p, ch)
    [] p.tok = "Identifier" ->
         IF ch \in IdentifierChars THEN Take(p, ch)
         ELSE LET q == Token(p, "Identifier", p.str)
              IN  IF q.status = "parsing" THEN FirstChar(q, ch) ELSE q
    [] OTHER ->
         IF ch = EndOfText THEN Fail(p)
         ELSE IF ch = Closing[p.tok] /\ p.prev_ch # Escape[p.tok] THEN Token(p, p.tok, p.str)
         ELSE Take(p, ch)

\* get_ch_file, get_ch_string: a comment ends with its line, also one within a string.
GetCh(p, ch) ==
  CASE p.status # "parsing" -> p
    [] ch = "\n" -> NextChar([p EXCEPT !.in_comment = FALSE], " ")
    [] ch = EndOfText -> NextChar(p, ch)
    [] p.in_comment -> p
    [] ch = "#" -> [p EXCEPT !.in_comment = TRUE]
    [] OTHER -> NextChar(p, ch)

\* bot_param_new_from_string, of a text that goes on where another one stopped
ParseOn(p, text) == GetCh(FoldLeft(GetCh, p, text), EndOfText)

-----------------------------------------------------------------------------
(* The writer *)

Spelled(value) == <<"\"">> \o value \o <<"\"">>

\* write_array: a single value, or a list of them
Values(values) ==
  IF Len(values) = 1 THEN Spelled(values[1])
  ELSE <<"[">> \o FlattenSeq([k \in DOMAIN values |->
                     Spelled(values[k]) \o (IF k = Len(values) THEN << >> ELSE <<",">>)]) \o <<"]">>

Children(tree, path) == { p \in DOMAIN tree : Front(p) = path }

\* write_container, bot_param_write
WriteToString(tree) ==
  LET inside[path \in DOMAIN tree \cup {<< >>}] ==
        LET children == SetToSeq(Children(tree, path))
            Text(p) == IF tree[p].type = "array"
                       THEN Last(p) \o <<"=">> \o Values(tree[p].values) \o <<";">>
                       ELSE Last(p) \o <<"{">> \o inside[p] \o <<"}">>
        IN  FlattenSeq([k \in DOMAIN children |-> Text(children[k])])
  IN  inside[<< >>]

-----------------------------------------------------------------------------
(* What the functions that get values answer: one thing, or nothing if they fail *)

none == << >>

\* cast_to_int, cast_to_double; cast_to_boolean
IsNumber(value) ==
  \E n \in 0 .. Len(value) - 1 :
    \A k \in DOMAIN value : value[k] = IF k <= n THEN " " ELSE "1"
IsBoolean(value) == value = <<"1">>
Casts(value, type) == IF type = "number" THEN IsNumber(value) ELSE IsBoolean(value)

\* The array that a key finds, also in the containers around its own
ArrayAt(tree, key) ==
  LET found == FindKey(tree, key)
  IN  IF found # << >> /\ tree[found].type = "array" THEN <<tree[found].values>> ELSE none

\* bot_param_get_int_array and its kin: as many as asked for, if each of them can be cast
GetArray(tree, key, len, type) ==
  IF ArrayAt(tree, key) = none THEN none
  ELSE LET values == ArrayAt(tree, key)[1]
           read == IF len < Len(values) THEN SubSeq(values, 1, len) ELSE values
       IN  IF \A k \in DOMAIN read : Casts(read[k], type) THEN <<read>> ELSE none

\* bot_param_get_int and its kin
GetFirst(tree, key, type) ==
  IF ArrayAt(tree, key) = << << >> >> THEN none ELSE GetArray(tree, key, 1, type)

\* bot_param_get_subkeys, bot_param_get_num_subkeys
GetSubkeys(tree, key) ==
  IF key # << >> /\ FindKey(tree, key) = << >> THEN none
  ELSE <<Children(tree, IF key = << >> THEN key ELSE FindKey(tree, key))>>

Keys == { <<n>> : n \in { <<"a">>, Include } } \cup { <<m, n>> : m, n \in { <<"a">>, Include } }

Answers(tree) ==
  [ key \in Keys |->
      [ has_key |-> FindKey(tree, key) # << >>, subkeys |-> GetSubkeys(tree, key),
        ints |-> { GetArray(tree, key, len, "number") : len \in 1..3 },
        booleans |-> GetArray(tree, key, 3, "boolean"),
        firsts |-> <<GetFirst(tree, key, "number"), GetFirst(tree, key, "boolean")>>,
        strings |-> ArrayAt(tree, key) ] ]

-----------------------------------------------------------------------------
(* Files and programs *)

Init ==
  /\ parser = NewParser /\ outcome = "reading" /\ params = NewParam /\ changed = FALSE

\* What a user writes next: only what makes a difference.
Typed(p) ==
  CASE p.in_comment -> {"\n"}
    [] p.expects = "statement" /\ p.tok = "none" ->
           {"=", "{", "}", "#", "!"} \cup (IF Len(p.cont) < 2 THEN {"a", "I"} ELSE {})
    [] p.expects = "statement" -> {"=", "{", " "}
    [] p.tok = "Identifier" -> {"1", ",", ";", "]", "="}
    [] p.tok = "String" -> {"a", "\\", "\"", "#"}
    [] p.tok = "Cast" -> {"a", ")"}
    [] OTHER -> {"a", "1", "\"", "[", "]", ",", ";"} \cup (IF p.cont = << >> THEN {"("} ELSE {})

\* The elements, the values and their characters.
Size(p) ==
  FoldFunction(LAMBDA element, n : n + 1 + Len(element.values) + Len(FlattenSeq(element.values)),
               Len(p.str), p.root)

\* A text that cannot be parsed is given up.  A container or an array that was there before
\* and is being read is freed twice then: with its parent, and by itself.
GiveUp(p) == outcome' \in {"refused"} \cup (IF p.existing = {} THEN {} ELSE {"crashed"})

Type(ch) ==
  LET p == GetCh(parser, ch)
  IN  /\ outcome = "reading" /\ ch \in Typed(parser) /\ Size(p) <= MaxSize
      /\ IF p.status = "failed" THEN parser' = NewParser /\ GiveUp(p)
         ELSE parser' = p /\ UNCHANGED outcome
      /\ UNCHANGED <<params, changed>>

\* bot_param_new_from_file: the files that it includes are put behind it, and all of it is
\* parsed once more; what they include is not.
FileEnds ==
  LET p == GetCh(parser, EndOfText)
      include == ArrayAt(p.root, <<Include>>)
      all == ParseOn(parser, FlattenSeq([k \in DOMAIN include[1] |-> Contents[include[1][k]]]))
  IN  /\ outcome = "reading" /\ parser' = NewParser /\ UNCHANGED changed
      /\ IF p.status = "failed" THEN GiveUp(p) /\ UNCHANGED params
         ELSE IF include = none THEN outcome' = "loaded" /\ params' = p.root
         ELSE IF ~(ToSet(include[1]) \subseteq DOMAIN Contents) \/ all.status = "failed"
         THEN outcome' = "aborted" /\ UNCHANGED params
         ELSE outcome' = "loaded" /\ params' = all.root

Change(tree) ==
  /\ outcome = "loaded" /\ ~changed
  /\ changed' = TRUE /\ params' = tree
  /\ UNCHANGED <<parser, outcome>>

Set(tree, entry) == IF CanSet(tree, entry.path) THEN SetStr(tree, entry.path, entry.value) ELSE tree

\* bot_param_set_str and its kin
SetValue == \E entry \in Settings : Change(Set(params, entry))

\* bot_param_set_int_array and its kin print the values one after the other into a text whose
\* size is one too small each time, so that the comma, or the last character, is cut off.
\* They print the text over itself, which may keep it or lose it.
SetArray ==
  \E entry \in Arrays, keeps \in BOOLEAN :
    LET last == Len(entry.values)
        Piece(k) == entry.values[k] \o (IF k = last THEN << >> ELSE <<",">>)
        Cut(text, size) == SubSeq(text, 1, IF size - 1 < Len(text) THEN size - 1 ELSE Len(text))
        Printed(all, k) ==
          [len |-> all.len + Len(Piece(k)),
           text |-> Cut((IF keeps THEN all.text ELSE << >>) \o Piece(k), all.len + Len(Piece(k)))]
        printed == FoldLeft(Printed, [len |-> 0, text |-> << >>], [k \in 1..last |-> k])
    IN  Change(Set(params, [path |-> entry.path, value |-> printed.text]))

\* bot_param_override_local_params: one after the other, up to one that is malformed or
\* cannot be set
Override ==
  \E first, second \in Settings, malformed \in BOOLEAN :
    Change(IF CanSet(params, first.path) /\ ~malformed
           THEN Set(Set(params, first), second) ELSE Set(params, first))

Next ==
  \/ \E ch \in Typed(parser) : Type(ch)
  \/ FileEnds \/ SetValue \/ SetArray \/ Override

Spec == Init /\ [][Next]_fileVars

-----------------------------------------------------------------------------
(* Properties *)

\* What can be written between quotes.
IsPlain(value) ==
  /\ Len(value) < TokenSize
  /\ value # << >> => Last(value) # "\\"
  /\ \A k \in DOMAIN value :
       /\ value[k] \notin {"#", "\n"}
       /\ value[k] = "\"" => k > 1 /\ value[k - 1] = "\\"

AllPlain == \A path \in DOMAIN params : \A value \in ToSet(params[path].values) : IsPlain(value)
NoneBelowArrays ==
  \A path \in DOMAIN params : \A above \in Ancestors(path) : params[above].type = "container"

\* Whatever the file, its values can be written; and what a server publishes answers every
\* question as its own tree does, if nothing is below an array and no program has set a value
\* that cannot be put between quotes (get_token, write_array).
WrittenIsReadBack ==
  outcome = "loaded" =>
    /\ ~changed => AllPlain
    /\ AllPlain /\ NoneBelowArrays =>
         LET again == ParseOn(NewParser, WriteToString(params))
         IN  again.status = "parsed" /\ Answers(again.root) = Answers(params)
=============================================================================
