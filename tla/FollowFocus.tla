----------------------------- MODULE FollowFocus -----------------------------
(***************************************************************************)
(* The stream follows the focus: FollowFocusRouter of                      *)
(* crates/omdesky-application/src/display.rs on every controlled desktop,  *)
(* fed by the focus signals of omdesky-platform/src/display.rs, and the    *)
(* controller's agent that carries a switch out (run_command in            *)
(* omdesky-agent/src/lib.rs): it asks the desktop for its displays, works  *)
(* out which one is meant and sends Moonlight the shortcut with that       *)
(* number.  One controller may watch several desktops, each in a window.   *)
(*                                                                         *)
(* The debounce is a deadline that passes some time after it was set, so   *)
(* `pending' stands for pending and deadline, which the code sets and      *)
(* clears together.  What Sunshine shows is external: one display, until a *)
(* shortcut names another.                                                 *)
(***************************************************************************)
EXTENDS Naturals, Sequences

CONSTANTS Desktops,      \* controlled desktops with a stream to the controller
          Layout,        \* their displays at first, in the order of hyprctl
          NoDisplay,     \* None
          SwitchRange,   \* SUNSHINE_MAX_SWITCH_DISPLAYS
          MaxMoves,      \* bound: changes of the focus
          MaxPlugs,      \* bound: displays removed or added
          MaxFaults      \* bound: requests, calls and sockets that fail

VARIABLES displays,      \* the displays of a desktop, as hyprctl lists them
          focus,         \* the focused one
          shown,         \* the one Sunshine streams
          source,        \* where focus signals come from
          signals,       \* signals sent that the router has not received
          pc,            \* what the router is doing
          streamed,      \* RoutingState.streamed: what it believes is shown
          pending,       \* RoutingState.pending
          requests,      \* switches under way between router and controller
          misled,        \* desktops whose router cannot know what is shown
          unheard,       \* desktops with news the router gets no signal of
          moves, plugs, faults

routerVars == <<pc, streamed, pending>>
bounds == <<moves, plugs>>
vars == <<displays, focus, shown, source, signals, routerVars, requests, misled,
          unheard, bounds, faults>>

Elements(seq) == {seq[i] : i \in 1 .. Len(seq)}
Displays == Elements(Layout)
MaybeDisplay == Displays \cup {NoDisplay}
Sources == {"connecting", "socket", "polling", "closed"}
\* index 0: not resolved yet; tag 0: the router waits for the answer.
Request == [from : Desktops, target : Displays, index : 0 .. SwitchRange,
            tag : 0 .. MaxFaults]

\* hyprctl lists a display once.
Distinct(seq) == \A i, j \in 1 .. Len(seq) : seq[i] = seq[j] => i = j

ASSUME LayoutAssumption ==
    Layout \in Seq(Displays) /\ Layout # <<>> /\ Distinct(Layout) /\ NoDisplay \notin Displays
ASSUME ParameterAssumption ==
    /\ SwitchRange \in Nat /\ MaxMoves \in Nat /\ MaxPlugs \in Nat
    /\ MaxFaults \in Nat

Fault == faults < MaxFaults /\ faults' = faults + 1
Own(d) == {r \in requests : r.from = d}

-----------------------------------------------------------------------------
Init ==
    /\ displays = [d \in Desktops |-> Layout]
    /\ focus \in [Desktops -> Displays]
    /\ shown = focus
    /\ source = [d \in Desktops |-> "connecting"]
    /\ signals = [d \in Desktops |-> 0]
    /\ pc = [d \in Desktops |-> "start"]
    /\ streamed = [d \in Desktops |-> NoDisplay]
    /\ pending = [d \in Desktops |-> NoDisplay]
    /\ requests = {}
    /\ misled = {} /\ unheard = {}
    /\ moves = 0 /\ plugs = 0 /\ faults = 0

-----------------------------------------------------------------------------
(* The desktop.  Hyprland writes an event that forward_socket_events turns *)
(* into a signal; the socket and the channel keep what is not yet read,    *)
(* and what happens before the socket is connected is not reported.        *)
Emit(d) ==
    IF source[d] = "socket"
    THEN signals' = [signals EXCEPT ![d] = @ + 1] /\ unheard' = unheard \ {d}
    ELSE unheard' = unheard \cup {d} /\ UNCHANGED signals

Move(d, x) ==
    /\ moves < MaxMoves
    /\ x \in Elements(displays[d]) \ {focus[d]}
    /\ focus' = [focus EXCEPT ![d] = x]
    /\ moves' = moves + 1
    /\ Emit(d)
    /\ UNCHANGED <<displays, shown, source, routerVars, requests, misled, plugs, faults>>

\* The list without its i-th display.
Without(seq, i) == [j \in 1 .. Len(seq) - 1 |-> IF j < i THEN seq[j] ELSE seq[j + 1]]

\* Focus and stream move on from a display that is unplugged.
Unplug(d, x, next, fallback) ==
    /\ plugs < MaxPlugs
    /\ {next, fallback} \subseteq Elements(displays[d]) \ {x}
    /\ \E i \in 1 .. Len(displays[d]) :
          displays[d][i] = x /\ displays' = [displays EXCEPT ![d] = Without(@, i)]
    /\ focus' = [focus EXCEPT ![d] = IF @ = x THEN next ELSE @]
    /\ shown' = [shown EXCEPT ![d] = IF @ = x THEN fallback ELSE @]
    /\ plugs' = plugs + 1
    /\ Emit(d)
    /\ UNCHANGED <<source, routerVars, requests, misled, moves, faults>>

Plug(d, x) ==
    /\ plugs < MaxPlugs
    /\ x \in Displays \ Elements(displays[d])
    /\ displays' = [displays EXCEPT ![d] = Append(@, x)]
    /\ plugs' = plugs + 1
    /\ misled' = IF streamed[d] = x THEN misled \cup {d} ELSE misled
    /\ Emit(d)
    /\ UNCHANGED <<focus, shown, source, routerVars, requests, moves, faults>>

\* spawn_focus_signals: the event socket, or polling without one.
Connect(d) ==
    /\ source[d] = "connecting"
    /\ \E s \in {"socket", "polling"} : source' = [source EXCEPT ![d] = s]
    /\ UNCHANGED <<displays, focus, shown, signals, routerVars, requests, misled,
                   unheard, bounds, faults>>

\* The socket fails, and polling takes over; or it ends, and nothing does.
SocketLost(d) ==
    /\ source[d] = "socket"
    /\ Fault
    /\ \E s \in {"polling", "closed"} : source' = [source EXCEPT ![d] = s]
    /\ UNCHANGED <<displays, focus, shown, signals, routerVars, requests, misled,
                   unheard, bounds>>

\* poll_focus; a second signal before the first is read changes nothing.
Poll(d) ==
    /\ source[d] = "polling" /\ signals[d] = 0
    /\ signals' = [signals EXCEPT ![d] = 1]
    /\ UNCHANGED <<displays, focus, shown, source, routerVars, requests, misled,
                   unheard, bounds, faults>>

-----------------------------------------------------------------------------
(* The router.  It takes the focused display for the one that is streamed  *)
(* when it has no better idea.                                             *)
Assumes(d) == misled' = IF focus[d] # shown[d] THEN misled \cup {d} ELSE misled

\* run, up to the loop: current_display answers or fails.
Start(d) ==
    /\ pc[d] = "start"
    /\ pc' = [pc EXCEPT ![d] = "wait"]
    /\ \/ /\ streamed' = [streamed EXCEPT ![d] = focus[d]]
          /\ Assumes(d)
          /\ UNCHANGED faults
       \/ Fault /\ UNCHANGED <<streamed, misled>>
    /\ UNCHANGED <<displays, focus, shown, source, signals, pending, requests, unheard,
                   bounds>>

Signal(d) ==
    /\ pc[d] = "wait" /\ signals[d] > 0
    /\ signals' = [signals EXCEPT ![d] = @ - 1]
    /\ pc' = [pc EXCEPT ![d] = "reading"]
    /\ UNCHANGED <<displays, focus, shown, source, streamed, pending, requests, misled,
                   unheard, bounds, faults>>

\* The channel is closed and empty.
Over(d) ==
    /\ pc[d] = "wait" /\ signals[d] = 0 /\ source[d] = "closed"
    /\ pc' = [pc EXCEPT ![d] = "over"]
    /\ UNCHANGED <<displays, focus, shown, source, signals, streamed, pending, requests,
                   misled, unheard, bounds, faults>>

BadTarget(d, current) ==
    IF focus[d] = current THEN pending[d] ELSE focus[d]
\* follow_focus_target, for the preferred display.
Target(d, current) ==
    IF focus[d] = current THEN NoDisplay ELSE focus[d]

\* reevaluate: the topology is read or not.
Reevaluate(d) ==
    /\ pc[d] = "reading"
    /\ pc' = [pc EXCEPT ![d] = "wait"]
    /\ \/ LET current == IF streamed[d] = NoDisplay THEN focus[d] ELSE streamed[d]
          IN /\ streamed' = [streamed EXCEPT ![d] = current]
             /\ pending' = [pending EXCEPT ![d] = Target(d, current)]
             /\ IF streamed[d] = NoDisplay THEN Assumes(d) ELSE UNCHANGED misled
             /\ UNCHANGED <<unheard, faults>>
       \/ /\ Fault
          /\ unheard' = unheard \cup {d}
          /\ UNCHANGED <<streamed, pending, misled>>
    /\ UNCHANGED <<displays, focus, shown, source, signals, requests, bounds>>

\* commit_pending: the deadline passes and the controller is asked.
Commit(d) ==
    /\ pc[d] = "wait" /\ pending[d] # NoDisplay
    /\ requests' = requests \cup
          {[from |-> d, target |-> pending[d], index |-> 0, tag |-> 0]}
    /\ pending' = [pending EXCEPT ![d] = NoDisplay]
    /\ pc' = [pc EXCEPT ![d] = "switching"]
    /\ UNCHANGED <<displays, focus, shown, source, signals, streamed, misled, unheard,
                   bounds, faults>>

\* The answer to r reaches the router, if it still waits for it.
Succeeds(r) ==
    IF r.tag = 0
    THEN /\ pc' = [pc EXCEPT ![r.from] = "wait"]
         /\ streamed' = [streamed EXCEPT ![r.from] = r.target]
    ELSE UNCHANGED <<pc, streamed>>
BadFails(r) ==
    IF r.tag = 0
    THEN /\ pc' = [pc EXCEPT ![r.from] = "wait"]
         /\ streamed' = [streamed EXCEPT ![r.from] = r.target]
         /\ unheard' = unheard \cup {r.from}
    ELSE UNCHANGED <<pc, streamed, unheard>>
\* The pending switch is gone; the next signal may bring it back.
Fails(r) ==
    IF r.tag = 0
    THEN /\ pc' = [pc EXCEPT ![r.from] = "wait"]
         /\ unheard' = unheard \cup {r.from}
         /\ UNCHANGED streamed
    ELSE UNCHANGED <<pc, streamed, unheard>>

\* send_command's time limit: the switch may still happen.
GiveUp(d) ==
    /\ pc[d] = "switching"
    /\ Fault
    /\ requests' = {IF r \in Own(d) /\ r.tag = 0
                    THEN [r EXCEPT !.tag = faults + 1] ELSE r : r \in requests}
    /\ pc' = [pc EXCEPT ![d] = "wait"]
    /\ misled' = misled \cup {d} /\ unheard' = unheard \cup {d}
    /\ UNCHANGED <<displays, focus, shown, source, signals, streamed, pending, bounds>>

Lost(r) ==
    /\ r.tag # 0
    /\ requests' = requests \ {r}
    /\ UNCHANGED <<displays, focus, shown, source, signals, routerVars, misled, unheard,
                   bounds, faults>>

-----------------------------------------------------------------------------
(* The controller's agent.                                                 *)

\* display_switch_index, counted from 1, and 0 for None.
Position(seq, x) ==
    IF x \in Elements(seq) THEN CHOOSE i \in 1 .. Len(seq) : seq[i] = x ELSE 0
InRange(i) == i > 0 /\ i <= SwitchRange

\* The displays of the desktop are read, and the shortcut chosen; or not.
Resolve(r) ==
    /\ r.index = 0
    /\ LET i == Position(displays[r.from], r.target)
       IN \/ /\ InRange(i)
             /\ requests' = (requests \ {r}) \cup {[r EXCEPT !.index = i]}
             /\ UNCHANGED <<pc, streamed, unheard, faults>>
          \/ /\ ~InRange(i)
             /\ requests' = requests \ {r}
             /\ Fails(r)
             /\ UNCHANGED faults
          \/ /\ Fault
             /\ requests' = requests \ {r}
             /\ Fails(r)
    /\ UNCHANGED <<displays, focus, shown, source, signals, pending, misled, bounds>>

\* Moonlight window w gets the shortcut.
ShownAfter(w, i) ==
    [shown EXCEPT ![w] = IF i <= Len(displays[w]) THEN displays[w][i] ELSE @]
\* Who is left in error by it: the router that asked for something else to
\* be shown, or the one that did not ask.
MisledBy(r, w) ==
    {d \in {w, r.from} : d # r.from \/ ShownAfter(w, r.index)[d] # r.target}

(* The shortcut goes to a window of Moonlight's class, which every stream  *)
(* has.  A call that fails may have taken effect.                          *)
SendShortcut(r, w) ==
    /\ r.index # 0
    /\ requests' = requests \ {r}
    /\ \/ /\ shown' = ShownAfter(w, r.index)
          /\ misled' = misled \cup MisledBy(r, w)
          /\ Succeeds(r)
          /\ UNCHANGED <<unheard, faults>>
       \/ /\ Fault
          /\ Fails(r)
          /\ \/ UNCHANGED <<shown, misled>>
             \/ shown' = ShownAfter(w, r.index) /\ misled' = misled \cup {w, r.from}
    /\ UNCHANGED <<displays, focus, source, signals, pending, bounds>>

-----------------------------------------------------------------------------
Carry(r) == Resolve(r) \/ \E w \in Desktops : SendShortcut(r, w)

Next ==
    \/ \E d \in Desktops :
          \/ \E x \in Displays :
                Move(d, x) \/ Plug(d, x) \/ \E y, z \in Displays : Unplug(d, x, y, z)
          \/ Connect(d) \/ SocketLost(d) \/ Poll(d)
          \/ Start(d) \/ Signal(d) \/ Over(d) \/ Reevaluate(d) \/ Commit(d)
          \/ GiveUp(d)
    \/ \E r \in requests : Carry(r) \/ Lost(r)

Spec == Init /\ [][Next]_vars

(* The tasks run, polling goes on, the controller answers.  A deadline     *)
(* passes although signals keep coming: the debounce (50 ms) is shorter    *)
(* than the polling interval (750 ms), and select! takes either branch.    *)
Fairness ==
    \A d \in Desktops :
        /\ WF_vars(Connect(d)) /\ WF_vars(Poll(d))
        /\ WF_vars(Start(d) \/ Signal(d) \/ Over(d) \/ Reevaluate(d))
        /\ SF_vars(Commit(d))
        /\ WF_vars(\E r \in Own(d) : r.tag = 0 /\ Carry(r))

FairSpec == Spec /\ Fairness

-----------------------------------------------------------------------------
(* Correctness.                                                            *)

(* Types; the controller never sends a shortcut beyond Sunshine's range.   *)
TypeOK ==
    /\ displays \in [Desktops -> Seq(Displays)]
    /\ \A d \in Desktops : {focus[d], shown[d]} \subseteq Elements(displays[d])
    /\ source \in [Desktops -> Sources]
    /\ signals \in [Desktops -> Nat]
    /\ pc \in [Desktops -> {"start", "wait", "reading", "switching", "over"}]
    /\ streamed \in [Desktops -> MaybeDisplay]
    /\ pending \in [Desktops -> MaybeDisplay]
    /\ requests \subseteq Request
    /\ misled \subseteq Desktops /\ unheard \subseteq Desktops
    /\ moves \in 0 .. MaxMoves /\ plugs \in 0 .. MaxPlugs /\ faults \in 0 .. MaxFaults

(* A router that was not misled knows what is streamed, whenever it has    *)
(* asked for nothing else: through switches that fail, signals that come   *)
(* while it waits, and displays that come and go.                          *)
BeliefMatchesStream ==
    \A d \in Desktops :
        d \notin misled /\ Own(d) = {} /\ streamed[d] \in Elements(displays[d]) =>
            streamed[d] = shown[d]

(* Once the focus stays, the stream is on it: if the router was not misled *)
(* and is told of changes, by polling or by a signal it has yet to get     *)
(* for every change and every failed switch.                               *)
Told(d) == source[d] = "polling" \/ (source[d] = "socket" /\ d \notin unheard)
Reachable(d) == InRange(Position(displays[d], focus[d]))
SettlesOnFocus ==
    \A d \in Desktops :
        <>[](d \notin misled /\ Told(d) /\ Reachable(d) => shown[d] = focus[d])
=============================================================================
