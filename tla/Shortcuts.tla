------------------------------- MODULE Shortcuts -------------------------------
(***************************************************************************)
(* What a command does to a desktop: HyprlandCommandExecutor and the       *)
(* session key bindings of crates/omdesky-platform/src/input.rs.  Every    *)
(* agent has a desktop with a window of its user's and one window per      *)
(* stream it shows.  A shortcut is a script that Hyprland runs by timers   *)
(* while other scripts and the user go on: focus the stream, press and     *)
(* release the keys, focus what was active before.  Keys go to the window  *)
(* that is active when they are sent.                                      *)
(***************************************************************************)
EXTENDS Naturals, SequencesExt

CONSTANTS Agents,      \* agents, each with its desktop
          Remotes,     \* devices whose desktops may be streamed
          Desk,        \* the window of a desktop's user
          StreamsAtFirst,  \* the streams a desktop shows: whose windows they are
          Class, Active,   \* WindowSelector::Class, ActiveWindow; a remote is an Address
          MaxMoves,    \* bound: what users do meanwhile
          MaxFaults    \* bound: calls of hyprctl and messages that fail

VARIABLES active,      \* the active window of each desktop
          streams,     \* the stream windows that are open on it
          held,        \* keys that are down: [by, window]
          scripts,     \* shortcuts under way
          home, calm,  \* what was active before them; nothing else happened since
          moves, faults

desktopVars == <<active, streams, held, scripts, home, calm>>

Windows == Remotes \cup {Desk}
Selectors == Remotes \cup {Class, Active}
Chords == {"toggle", "display"}
Action == {"press", "release", "focus"}
\* `left' is what the timers have left to do, each its actions in order.
Script == [by : Nat, on : Agents, chord : Chords, window : Selectors,
           previous : Windows \cup {Active}, step : {"eval", "timers"}, left : Seq(Seq(Action))]

ASSUME WindowAssumption ==
    /\ Agents \subseteq Remotes /\ Desk \notin Remotes
    /\ Class \notin Windows /\ Active \notin Windows /\ Class # Active
    /\ StreamsAtFirst \in [Agents -> SUBSET Remotes]
    /\ MaxMoves \in Nat /\ MaxFaults \in Nat

Fault == faults < MaxFaults /\ faults' = faults + 1
Move == moves < MaxMoves /\ moves' = moves + 1
On(a) == {x \in scripts : x.on = a}

DesktopInit ==
    /\ active = [a \in Agents |-> Desk]
    /\ streams = StreamsAtFirst
    /\ held = [a \in Agents |-> {}]
    /\ scripts = {}
    /\ home = [a \in Agents |-> Desk] /\ calm = [a \in Agents |-> TRUE]
    /\ moves = 0 /\ faults = 0

\* Windows a selector may mean: a class means any of the streams.
Meant(a, w) == IF w = Class THEN streams[a]
               ELSE IF w = Active THEN {active[a]}
               ELSE {w} \cap streams[a]

BadTimers(chord, restore) ==
    LET focus == IF restore THEN <<"focus">> ELSE <<>>
    IN IF chord = "toggle" THEN <<focus \o <<"release">>>>
       ELSE <<<<"press">>, focus, <<"release">>>>
(* timed_shortcut_lua: the rest of the keys, their release, the old focus; *)
(* the capture toggle, with the key Z, has a single timer.                 *)
Timers(chord, restore) ==
    LET focus == IF restore THEN <<"focus">> ELSE <<>>
    IN IF chord = "toggle" THEN <<<<"release">> \o focus>>
       ELSE <<<<"press">>, <<"release">>, focus>>

(* send_shortcut: ask for the active window, unless the keys go there      *)
(* anyway.                                                                 *)
ReadActive(n, a, chord, w) ==
    /\ scripts' = scripts \cup
          {[by |-> n, on |-> a, chord |-> chord, window |-> w, step |-> "eval", left |-> <<>>,
            previous |-> IF w = Active THEN Active ELSE active[a]]}
    /\ home' = IF On(a) = {} THEN [home EXCEPT ![a] = active[a]] ELSE home
    /\ calm' = [calm EXCEPT ![a] = On(a) = {} /\ held[a] = {}]
    /\ UNCHANGED <<active, streams, held>>

(* The script: the focus moves and the first key goes down, and the timers *)
(* take over.                                                              *)
Evaluate(x, w) ==
    /\ active' = [active EXCEPT ![x.on] = w]
    /\ held' = [held EXCEPT ![x.on] = @ \cup {[by |-> x.by, window |-> w]}]
    /\ scripts' = (scripts \ {x}) \cup
          {[x EXCEPT !.step = "timers", !.left = Timers(x.chord, x.previous # Active)]}
    /\ UNCHANGED <<streams, home, calm>>

\* Nothing of it is run.
Dropped(x) == scripts' = scripts \ {x} /\ UNCHANGED <<active, streams, held, home, calm>>

\* One action of x: where the focus is and which keys are down after it.
After(x, st, act) ==
    LET key == [by |-> x.by, window |-> st.active]
    IN CASE act = "press" -> [st EXCEPT !.held = @ \cup {key}]
         [] act = "release" -> [st EXCEPT !.held = @ \ {key}]
         [] act = "focus" -> IF x.previous \in streams[x.on] \cup {Desk}
                             THEN [st EXCEPT !.active = x.previous] ELSE st

\* A timer's actions in order; no timer has more than two.
RunAll(x, st, acts) ==
    IF acts = <<>> THEN st
    ELSE IF Len(acts) = 1 THEN After(x, st, acts[1])
    ELSE After(x, After(x, st, acts[1]), acts[2])

Timer(x) ==
    /\ x.step = "timers"
    /\ LET st == RunAll(x, [active |-> active[x.on], held |-> held[x.on]], Head(x.left))
       IN /\ active' = [active EXCEPT ![x.on] = st.active]
          /\ held' = [held EXCEPT ![x.on] = st.held]
    /\ scripts' = (scripts \ {x}) \cup
          IF Len(x.left) = 1 THEN {} ELSE {[x EXCEPT !.left = Tail(@)]}
    /\ UNCHANGED <<streams, home, calm>>

\* A stream window closes; its keys go with it.
Closed(a, w) ==
    /\ streams' = [streams EXCEPT ![a] = @ \ {w}]
    /\ active' = IF active[a] = w THEN [active EXCEPT ![a] = Desk] ELSE active
    /\ held' = [held EXCEPT ![a] = {k \in @ : k.window # w}]
    /\ calm' = [calm EXCEPT ![a] = FALSE]
    /\ UNCHANGED <<scripts, home>>

\* The user goes to another window.
UserFocuses(a, w) ==
    /\ Move /\ w \in streams[a] \cup {Desk} /\ w # active[a]
    /\ active' = [active EXCEPT ![a] = w]
    /\ calm' = [calm EXCEPT ![a] = FALSE]
    /\ UNCHANGED <<streams, held, scripts, home, faults>>

(* The controller's own SUPER + R, controller_action_lua: no focus is      *)
(* restored.                                                               *)
LocalToggle(a, w) ==
    /\ Move /\ w \in streams[a]
    /\ active' = [active EXCEPT ![a] = w]
    /\ held' = [held EXCEPT ![a] = @ \cup {[by |-> 0, window |-> w]}]
    /\ scripts' = scripts \cup
          {[by |-> 0, on |-> a, chord |-> "toggle", window |-> w, previous |-> Active,
            step |-> "timers", left |-> Timers("toggle", FALSE)]}
    /\ calm' = [calm EXCEPT ![a] = FALSE]
    /\ UNCHANGED <<streams, home, faults>>
=============================================================================
