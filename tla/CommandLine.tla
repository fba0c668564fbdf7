---------------------------- MODULE CommandLine ----------------------------
(***************************************************************************)
(* How the deputy makes of the text of a command what it runs (procman.c): the  *)
(* commands that it manages, the table of variables of the programs that use    *)
(* procman, and the words and the environment that a child is started with.     *)
(***************************************************************************)
EXTENDS Integers, Sequences, SequencesExt, FiniteSetsExt, TLC

CONSTANTS
  Lines,         \* [words, parses]: the words that g_shell_parse_argv finds, or if it does not
                 \*  parse the text of the command, those between blanks
  Environment,   \* that procman is started in: a value for each of some names
  BinPath,       \* the directory of procman
  Variables, Values,
  MaxCalls       \* bound: how often a program asks procman for something

Letters == {"a", "b", "P"}
Digits == {"1"}
Path == <<"P">>

VARIABLES
  commands,      \* in the order in which they were added
  variables,     \* the table: a value for each name that was set
  environ,       \* the environment of procman
  crashed, calls

vars == <<commands, variables, environ, crashed, calls>>

\* procman_create: programs are first looked for beside procman.
Init ==
  /\ commands = << >> /\ variables = << >> /\ crashed = FALSE /\ calls = 0
  /\ environ = [Environment EXCEPT ![Path] = BinPath \o <<":">> \o @]

-----------------------------------------------------------------------------
(* The words of a command.  A word is a sequence of characters. *)

\* is_valid_variable_char: a digit may only come first.
IsValidVariableChar(char, pos) == char \in Letters \cup (IF pos = 0 THEN Digits ELSE {})

VariableLength(w, first) ==
  Max({ n \in 0 .. Len(w) - first + 1 :
          \A k \in 0 .. n - 1 : IsValidVariableChar(w[first + k], k) })

IsKnown(name, table) == name \in DOMAIN table \cup DOMAIN environ
ValueOf(name, table) == IF name \in DOMAIN table THEN table[name] ELSE environ[name]

\* subst_vars_parse_variable, from what follows the "$": the text that comes out, and how far it
\* was read.
ParseVariable(w, start, table) ==
  IF start > Len(w) THEN [text |-> <<"$">>, next |-> start]
  ELSE LET hasBraces == w[start] = "{"
           first == IF hasBraces THEN start + 1 ELSE start
           end == first + VariableLength(w, first)
           name == SubSeq(w, first, end - 1)
           next == IF hasBraces /\ end <= Len(w) THEN end + 1 ELSE end
           bracesOk == hasBraces => end <= Len(w) /\ w[end] = "}"
       IN  [next |-> next,
            text |-> IF name # << >> /\ bracesOk /\ IsKnown(name, table) THEN ValueOf(name, table)
                     ELSE SubSeq(w, start - 1, next - 1)]

\* subst_vars.  What follows a backslash is lost.
SubstVars(w, table) ==
  LET from[pos \in 1 .. Len(w) + 2] ==
        IF pos > Len(w) THEN << >>
        ELSE CASE w[pos] = "\\" -> <<"\\">> \o from[pos + 2]
               [] w[pos] = "$" -> LET parsed == ParseVariable(w, pos + 1, table)
                                  IN  parsed.text \o from[parsed.next]
               [] OTHER -> <<w[pos]>> \o from[pos + 1]
  IN  from[1]

\* The words at the beginning that have a "=" in them are for the environment.
IsAssignment(w) == Contains(w, "=")

\* Defect: also those that come after the program are.
EnvCountAnywhere(words) == Cardinality({ k \in DOMAIN words : IsAssignment(words[k]) })

EnvCount(words) ==
  Max({ n \in 0 .. Len(words) : \A k \in 1..n : IsAssignment(words[k]) })
Assigned(w) ==
  LET k == SelectInSeq(w, LAMBDA char : char = "=")
  IN  <<SubSeq(w, 1, k - 1), SubSeq(w, k + 1, Len(w))>>

\* strsplit_set_packed
WithoutEmpty(words) == SelectSeq(words, LAMBDA w : w # << >>)

\* procman_cmd_split_str
SplitStr(line, table) ==
  IF ~line.parses
  THEN [envp |-> << >>, argv |-> WithoutEmpty(line.words)]
  ELSE LET envc == EnvCount(line.words)
       IN  [envp |-> [k \in 1..envc |-> Assigned(line.words[k])],
            argv |-> [k \in 1 .. Len(line.words) - envc |->
                        SubstVars(line.words[envc + k], table)]]
\* With no other word, the search for the last of them goes on past the words.
RunsOffTheEnd(line) == line.parses /\ EnvCount(line.words) = Len(line.words)

\* The child's environment: setenv takes no empty name.
SetEnv(env, assigned) ==
  IF assigned[1] = << >> THEN env ELSE (assigned[1] :> assigned[2]) @@ env

-----------------------------------------------------------------------------
(* What programs ask for. *)

Asks == ~crashed /\ calls < MaxCalls /\ calls' = calls + 1

\* procman_add_cmd takes the least number that no command has.
FreeId == Min({ id \in 1 .. Len(commands) + 1 : \A k \in DOMAIN commands : commands[k].id # id })
AddCmd ==
  /\ Asks
  /\ \E line \in Lines :
       commands' = Append(commands, [id |-> FreeId, line |-> line, running |-> FALSE,
                                     argv |-> << >>, env |-> environ, started |-> [none |-> 0]])
  /\ UNCHANGED <<variables, environ, crashed>>

\* procman_remove_cmd refuses to remove one that runs.
RemoveCmd ==
  /\ Asks
  /\ \E k \in DOMAIN commands :
       ~commands[k].running /\ commands' = RemoveAt(commands, k)
  /\ UNCHANGED <<variables, environ, crashed>>

\* procman_cmd_change_str: the command starts as it is written when it starts.
ChangeStr ==
  /\ Asks
  /\ \E k \in DOMAIN commands, line \in Lines : commands' = [commands EXCEPT ![k].line = line]
  /\ UNCHANGED <<variables, environ, crashed>>

SetVariable ==
  /\ Asks
  /\ \E name \in Variables, value \in Values : variables' = (name :> value) @@ variables
  /\ UNCHANGED <<commands, environ, crashed>>

RemoveVariable ==
  /\ Asks
  /\ \E name \in Variables :
       variables' = [other \in DOMAIN variables \ {name} |-> variables[other]]
  /\ UNCHANGED <<commands, environ, crashed>>

RemoveAllVariables ==
  /\ Asks
  /\ variables' = << >>
  /\ UNCHANGED <<commands, environ, crashed>>

\* procman_start_cmd; the line and the table that it is started with are history.
StartCmd ==
  /\ ~crashed
  /\ \E k \in DOMAIN commands :
       /\ ~commands[k].running
       /\ LET line == commands[k].line
              split == SplitStr(line, variables)
          IN  IF RunsOffTheEnd(line) THEN crashed' = TRUE /\ UNCHANGED commands
              ELSE /\ commands' =
                        [commands EXCEPT
                           ![k].running = TRUE, ![k].argv = split.argv,
                           ![k].env = FoldLeft(SetEnv, environ, split.envp),
                           ![k].started = [line |-> line, table |-> variables]]
                   /\ UNCHANGED crashed
  /\ UNCHANGED <<variables, environ, calls>>

\* The child ends, and is reaped.
Exits ==
  /\ ~crashed
  /\ \E k \in DOMAIN commands :
       commands[k].running /\ commands' = [commands EXCEPT ![k].running = FALSE]
  /\ UNCHANGED <<variables, environ, crashed, calls>>

Next ==
  \/ AddCmd \/ RemoveCmd \/ ChangeStr
  \/ SetVariable \/ RemoveVariable \/ RemoveAllVariables
  \/ StartCmd \/ Exits

Spec == Init /\ [][Next]_vars

-----------------------------------------------------------------------------
(* Properties. *)

IsPlain(w) == Range(w) \cap {"$", "\\"} = {}
IsName(w) == w # << >> /\ \A k \in DOMAIN w : IsValidVariableChar(w[k], k - 1)

\* The names that the text r refers to, one or none, in a word that goes on with v.
Referred(r, v) ==
  { name \in { SubSeq(r, 2, Len(r)), SubSeq(r, 3, Len(r) - 1) } :
      /\ IsName(name)
      /\ \/ r = <<"$", "{">> \o name \o <<"}">>
         \/ r = <<"$">> \o name /\ (v = << >> \/ v[1] \notin Letters) }

\* A word without references stays as it is.  In any other the first reference becomes the value
\* that the table has for it, or else the environment, or stays if it has none; and so on
\* ("searches the argument for text of the form $VARNAME and ${VARNAME} [...] If a variable
\* expansion fails, then the corresponding text is left unchanged", procman.c:452).
Expands(w, table, result) ==
  /\ IsPlain(w) => result = w
  /\ \A i \in 1 .. Len(w) : \A j \in i .. Len(w) :
       LET u == SubSeq(w, 1, i - 1)  r == SubSeq(w, i, j)  v == SubSeq(w, j + 1, Len(w))
       IN  IsPlain(u) =>
             \A name \in Referred(r, v) :
               LET value == IF name \in DOMAIN table THEN table[name]
                            ELSE IF name \in DOMAIN environ THEN environ[name] ELSE r
               IN  result = u \o value \o SubstVars(v, table)

\* The words of a running command are those it was started with, expanded, and its environment
\* has what the command assigns, each name its last value (procman_cmd_split_str).
RunsAsWritten ==
  \A k \in DOMAIN commands :
    LET cmd == commands[k]
        words == cmd.started.line.words
        envc == Len(words) - Len(cmd.argv)
    IN  cmd.running =>
          /\ cmd.started.line.parses =>
               /\ \A i \in DOMAIN cmd.argv :
                    Expands(words[envc + i], cmd.started.table, cmd.argv[i])
               /\ cmd.argv # << >> /\ ~IsAssignment(words[envc + 1])
               /\ \A i \in 1..envc :
                    LET name == Assigned(words[i])[1]
                    IN  \/ name = << >>
                        \/ \E j \in i + 1 .. envc : Assigned(words[j])[1] = name
                        \/ name \in DOMAIN cmd.env /\ cmd.env[name] = Assigned(words[i])[2]
          /\ ~cmd.started.line.parses => cmd.argv = words /\ cmd.env = environ

\* No two commands have one number (procman_add_cmd).
IdsDiffer ==
  \A j, k \in DOMAIN commands : commands[j].id = commands[k].id => j = k
=============================================================================
