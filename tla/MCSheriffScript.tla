-------------------------- MODULE MCSheriffScript --------------------------
(* Scripts that show each kind of action, a script that runs others (one of *)
(* them empty, one at its end), and scripts that call each other.           *)
EXTENDS SheriffScript

CONSTANTS c1, c2

Do(type, cmds, wait) == [type |-> type, cmds |-> cmds, wait |-> wait, script |-> "none"]
RunScript(name) == [type |-> "run_script", cmds |-> {}, wait |-> "none", script |-> name]

Delay == Do("wait_ms", {}, "none")

TwoCommands ==
  [ main   |-> << Do("start", {c1}, "running"), RunScript("sub"),
                  Do("stop", {c1, c2}, "stopped") >>,
    sub    |-> << RunScript("empty"), Do("start", {c2}, "none"),
                  Do("wait_status", {c2}, "running"), RunScript("empty") >>,
    again  |-> << Do("restart", {c1}, "none"), Delay, Do("wait_status", {c1}, "stopped") >>,
    empty  |-> << >>,
    looper |-> << Do("start", {c1}, "none"), RunScript("back") >>,
    back   |-> << RunScript("looper") >> ]
====
