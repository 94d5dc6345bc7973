---------------------------- MODULE MCCommandRelay ----------------------------
(***************************************************************************)
(* CommandRelay for TLC: two agents, in a circle or one controlling the    *)
(* other, and what key bindings, the follow-focus router and a user send.  *)
(* One desktop shows a second stream.                                      *)
(***************************************************************************)
EXTENDS CommandRelay

CONSTANTS a, b, c

Streams == [x \in Agents |-> IF x = a THEN {b, c} ELSE {a}]
Cmd(op, w, ok, from, to) ==
    [op |-> op, window |-> w, valid |-> ok, from |-> from, to |-> to]
Case(first, second, ofA, ofB) ==
    [commands |-> <<first, second>>, controllers |-> [x \in Agents |-> IF x = a THEN ofA ELSE ofB]]
Switch == Cmd("switch", Class, TRUE, b, a)
Toggle == Cmd("shortcut", b, TRUE, b, a)
SmallScenarios ==
    {Case(Switch, Toggle, b, a),
     Case(Switch, Toggle, Nobody, a),
     Case(Cmd("shortcut", Active, TRUE, b, a), Cmd("close", Class, TRUE, b, a), Nobody, a),
     Case(Cmd("close", a, TRUE, a, b), Cmd("shortcut", b, FALSE, b, a), Nobody, a)}
SmallDenied == {<<b, a, "close_stream">>}
=============================================================================
