----------------------------- MODULE CommandRelay -----------------------------
(***************************************************************************)
(* A command on its way: sent by a device (crates/omdesky-cli/src/main.rs, *)
(* a key binding or the follow-focus router), checked, relayed and         *)
(* executed by agents (run_command of crates/omdesky-agent/src/lib.rs).    *)
(* An agent that is the remote end of a session passes the command on to   *)
(* its controller, under a new identifier, and answers when that has       *)
(* answered; a command may go round in a circle of such sessions.          *)
(*                                                                         *)
(* Every device may execute commands of every other, or else it is in      *)
(* `Denied'.  A refill is the time that brings every source of requests a  *)
(* token; the time limit of a request allows RATE_LIMIT_PER_SECOND times   *)
(* REQUEST_TIMEOUT of them.                                                *)
(***************************************************************************)
EXTENDS Shortcuts

CONSTANTS Nobody,            \* no session
          Count,             \* how many commands are sent
          Scenarios,         \* [commands, controllers]: what is sent, where from and
                             \* to, and whose remote end each agent is at first
          Denied,            \* <<agent, device, capability>>: not granted
          RequestBurst,             \* RATE_LIMIT_BURST
          MaxRefills,        \* bound: refills
          MaxHops            \* bound: relays, out of reach

VARIABLES command,           \* what is sent
          controller,        \* the session of each agent: the device to relay to
          tokens,            \* what each agent's rate limiter has left for a source
          path,              \* the agents a command went through, the last one has it
          step,              \* what that one does with it
          result,            \* its answer
          told,              \* what the sender was told
          executed,          \* how often the command was carried out
          refills

relayVars == <<command, controller, tokens, path, step, result, told, executed, refills>>
vars == <<relayVars, desktopVars, moves, faults>>

Ids == 1 .. Count
Command == [op : {"shortcut", "close", "switch"}, window : Selectors, valid : BOOLEAN,
            from : Agents, to : Agents]
Capability(op) == IF op = "close" THEN "close_stream" ELSE "send_shortcut"

ASSUME CommandAssumption ==
    /\ Nobody \notin Agents
    /\ Scenarios \subseteq [commands : [Ids -> Command],
                            controllers : [Agents -> Agents \cup {Nobody}]]
    /\ {Count, RequestBurst, MaxRefills, MaxHops} \subseteq Nat

Init ==
    /\ DesktopInit
    /\ \E s \in Scenarios : command = s.commands /\ controller = s.controllers
    /\ tokens = [a \in Agents |-> [s \in Agents |-> RequestBurst]]
    /\ path = [n \in Ids |-> <<>>] /\ step = [n \in Ids |-> "idle"]
    /\ result = [n \in Ids |-> "none"] /\ told = [n \in Ids |-> "none"]
    /\ executed = [n \in Ids |-> 0] /\ refills = 0

Here(n) == Last(path[n])
\* The address the request came from.
Source(n) == IF Len(path[n]) = 1 THEN command[n].from ELSE path[n][Len(path[n]) - 1]
Goto(n, s) == step' = [step EXCEPT ![n] = s]
\* The agent that has the command answers.
Answer(n, r) ==
    /\ Goto(n, "answer")
    /\ result' = [result EXCEPT ![n] = r]

(* remote_command: what is not valid is not sent.                          *)
Send(n) ==
    /\ step[n] = "idle" /\ told[n] = "none"
    /\ IF command[n].valid
       THEN /\ path' = [path EXCEPT ![n] = <<command[n].to>>]
            /\ Goto(n, "sent")
            /\ UNCHANGED told
       ELSE told' = [told EXCEPT ![n] = "failed"] /\ UNCHANGED <<path, step>>
    /\ UNCHANGED <<command, controller, tokens, result, executed, refills,
                   desktopVars, moves, faults>>

BadSpend(a, s) == tokens
Spend(a, s) == [tokens EXCEPT ![a][s] = @ - 1]

(* run_command: the rate limiter, then the capability, then the identifier *)
(* (which is always new here).                                             *)
Admitted(n) == <<Here(n), Source(n), Capability(command[n].op)>> \notin Denied
Gate(n) ==
    /\ step[n] = "sent"
    /\ IF tokens[Here(n)][Source(n)] = 0
       THEN Answer(n, "failed") /\ UNCHANGED tokens
       ELSE /\ tokens' = Spend(Here(n), Source(n))
            /\ IF Admitted(n) THEN Goto(n, "admitted") /\ UNCHANGED result
               ELSE Answer(n, "failed")
    /\ UNCHANGED <<command, controller, path, told, executed, refills, desktopVars,
                   moves, faults>>

BadRelayed(n) ==
    /\ Answer(n, "ok")
    /\ path' = path
Relayed(n) ==
    /\ path' = [path EXCEPT ![n] = Append(@, controller[Here(n)])]
    /\ Goto(n, "sent")
    /\ UNCHANGED result

\* A session at its remote end: to its controller, as a new request.
Relay(n) ==
    /\ step[n] = "admitted" /\ controller[Here(n)] # Nobody
    /\ Len(path[n]) <= MaxHops
    /\ Relayed(n)
    /\ UNCHANGED <<command, controller, tokens, told, executed, refills,
                   desktopVars, moves, faults>>

\* No session here: a display is looked up first.
Stay(n) ==
    /\ step[n] = "admitted" /\ controller[Here(n)] = Nobody
    /\ Goto(n, IF command[n].op = "switch" THEN "resolve" ELSE "execute")
    /\ UNCHANGED <<command, controller, tokens, path, result, told, executed,
                   refills, desktopVars, moves, faults>>

(* The displays of the agent the request came from, which limits its       *)
(* askers too; a display that it does not have is an error.                *)
Resolve(n) ==
    /\ step[n] = "resolve"
    /\ IF tokens[Source(n)][Here(n)] = 0
       THEN Answer(n, "failed") /\ UNCHANGED <<tokens, faults>>
       ELSE /\ tokens' = [tokens EXCEPT ![Source(n)][Here(n)] = @ - 1]
            /\ \/ Goto(n, "execute") /\ UNCHANGED <<result, faults>>
               \/ Fault /\ Answer(n, "failed")
    /\ UNCHANGED <<command, controller, path, told, executed, refills, desktopVars,
                   moves>>

-----------------------------------------------------------------------------
(* CommandExecutor::execute.                                               *)
Chord(n) == IF command[n].op = "switch" THEN "display" ELSE "toggle"
\* resolve_display_switch_shortcut asks for Moonlight's class.
WindowOf(n) == IF command[n].op = "switch" THEN Class ELSE command[n].window
Mine(n) == {x \in scripts : x.by = n /\ x.step = "eval"}

StartShortcut(n) ==
    /\ step[n] = "execute" /\ command[n].op # "close"
    /\ \/ /\ ReadActive(n, Here(n), Chord(n), WindowOf(n))
          /\ Goto(n, "eval")
          /\ UNCHANGED <<result, faults>>
       \/ /\ WindowOf(n) # Active
          /\ Fault /\ Answer(n, "failed")
          /\ UNCHANGED desktopVars
    /\ UNCHANGED <<command, controller, tokens, path, told, executed, refills, moves>>

Done(n) ==
    /\ Answer(n, "ok")
    /\ executed' = [executed EXCEPT ![n] = @ + 1]

(* The script is run, or its window is gone, or hyprctl fails, before or   *)
(* after Hyprland got it.                                                  *)
RunShortcut(n) ==
    /\ step[n] = "eval"
    /\ \E x \in Mine(n) :
          \/ /\ \E w \in Meant(x.on, x.window) : Evaluate(x, w)
             /\ Done(n)
             /\ UNCHANGED faults
          \/ /\ Meant(x.on, x.window) = {}
             /\ Dropped(x)
             /\ Answer(n, "failed")
             /\ UNCHANGED <<executed, faults>>
          \/ /\ Fault /\ Answer(n, "failed")
             /\ \/ Dropped(x) /\ UNCHANGED executed
                \/ /\ \E w \in Meant(x.on, x.window) : Evaluate(x, w)
                   /\ executed' = [executed EXCEPT ![n] = @ + 1]
    /\ UNCHANGED <<command, controller, tokens, path, told, refills, moves>>

CloseWindow(n) ==
    /\ step[n] = "execute" /\ command[n].op = "close"
    /\ \/ /\ \E w \in Meant(Here(n), command[n].window) \ {Desk} : Closed(Here(n), w)
          /\ Done(n)
          /\ UNCHANGED faults
       \/ /\ Meant(Here(n), command[n].window) \ {Desk} = {}
          /\ Answer(n, "failed")
          /\ UNCHANGED <<desktopVars, executed, faults>>
       \/ /\ Fault /\ Answer(n, "failed")
          /\ UNCHANGED <<desktopVars, executed>>
    /\ UNCHANGED <<command, controller, tokens, path, told, refills, moves>>

-----------------------------------------------------------------------------
(* The answer goes back along the path; each agent passes it on.           *)
Return(n) ==
    /\ step[n] = "answer"
    /\ IF Len(path[n]) > 1
       THEN path' = [path EXCEPT ![n] = Front(@)] /\ UNCHANGED <<step, told>>
       ELSE /\ path' = [path EXCEPT ![n] = <<>>]
            /\ Goto(n, "over")
            /\ told' = [told EXCEPT ![n] = IF @ = "none" THEN result[n] ELSE @]
    /\ UNCHANGED <<command, controller, tokens, result, executed, refills,
                   desktopVars, moves, faults>>

\* The sender waits no longer.  What it began goes on for a while ...
TimeOut(n) ==
    /\ step[n] \notin {"idle", "over"} /\ told[n] = "none"
    /\ Fault
    /\ told' = [told EXCEPT ![n] = "failed"]
    /\ UNCHANGED <<command, controller, tokens, path, step, result, executed,
                   refills, desktopVars, moves>>

\* ... until its end of the connection, or an agent on the way, is gone.
Cancel(n) ==
    /\ step[n] \notin {"idle", "over"} /\ told[n] = "failed"
    /\ Goto(n, "over")
    /\ path' = [path EXCEPT ![n] = <<>>]
    /\ scripts' = scripts \ Mine(n)
    /\ UNCHANGED <<command, controller, tokens, result, told, executed, refills,
                   active, streams, held, home, calm, moves, faults>>

\* A session begins or ends at its remote end.
SessionChanges(a, c) ==
    /\ Move /\ c # controller[a]
    /\ controller' = [controller EXCEPT ![a] = c]
    /\ UNCHANGED <<command, tokens, path, step, result, told, executed, refills,
                   desktopVars, faults>>

Refill ==
    /\ refills < MaxRefills /\ refills' = refills + 1
    /\ tokens' = [a \in Agents |-> [s \in Agents |->
                    IF tokens[a][s] < RequestBurst THEN tokens[a][s] + 1 ELSE RequestBurst]]
    /\ UNCHANGED <<command, controller, path, step, result, told, executed,
                   desktopVars, moves, faults>>

Proceed(n) ==
    \/ Gate(n) \/ Relay(n) \/ Stay(n) \/ Resolve(n)
    \/ StartShortcut(n) \/ RunShortcut(n) \/ CloseWindow(n) \/ Return(n)
Desktop ==
    \/ \E x \in scripts : Timer(x) /\ UNCHANGED <<moves, faults>>
    \/ \E a \in Agents, w \in Windows : UserFocuses(a, w) \/ LocalToggle(a, w)

Next ==
    \/ \E n \in Ids : Send(n) \/ Proceed(n) \/ TimeOut(n) \/ Cancel(n)
    \/ \E a \in Agents, c \in Agents \cup {Nobody} : SessionChanges(a, c)
    \/ Refill
    \/ Desktop /\ UNCHANGED relayVars

Spec == Init /\ [][Next]_vars

\* Agents go on with what they have.  Time limits are not relied upon.
Fairness == \A n \in Ids : WF_vars(Proceed(n))
FairSpec == Spec /\ Fairness

-----------------------------------------------------------------------------
(* Correctness.                                                            *)

(* Types; a command that is not over is with an agent.                     *)
TypeOK ==
    /\ active \in [Agents -> Windows] /\ streams \in [Agents -> SUBSET Remotes]
    /\ \A a \in Agents : active[a] \in streams[a] \cup {Desk}
    /\ scripts \subseteq Script
    /\ tokens \in [Agents -> [Agents -> 0 .. RequestBurst]]
    /\ \A n \in Ids : (path[n] = <<>>) <=> (step[n] \in {"idle", "over"})
    /\ moves \in 0 .. MaxMoves /\ faults \in 0 .. MaxFaults

(* The sender's "ok" can be believed, however many agents passed it on: a  *)
(* command that was answered with success was carried out, and no command  *)
(* is carried out twice, timed out or not.                                 *)
SuccessMeansExecuted ==
    \A n \in Ids : executed[n] <= 1 /\ (told[n] = "ok" => executed[n] = 1)

(* Every command is answered, also one that sessions send round in a       *)
(* circle: relaying it costs a token at every agent, so it does not go on  *)
(* for ever, and the error comes back the whole way.                       *)
CommandIsAnswered == \A n \in Ids : step[n] = "sent" ~> told[n] # "none"

(* A shortcut leaves the desktop as it was: once its timers are done, the  *)
(* window that was active is active again and no key is left down, unless  *)
(* another shortcut, a closing window or the user got in between.          *)
FocusRestored ==
    \A a \in Agents : On(a) = {} /\ calm[a] => active[a] = home[a] /\ held[a] = {}
=============================================================================
