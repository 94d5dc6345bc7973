-------------------------------- MODULE Tui --------------------------------
(***************************************************************************)
(* The terminal user interface: crates/omdesky-tui/src/lib.rs.  One loop   *)
(* owns AppState: it applies what the background tasks sent it, starts a   *)
(* stream the user is waiting for, draws, and handles one key.  Whatever   *)
(* takes time runs in a task that reports through a channel.               *)
(*                                                                         *)
(* Left out: what is only drawn (notices, errors, the theme, the expanded  *)
(* details) and with it the focus command, which reports nothing else; the *)
(* stream settings, which the loop reads and saves by itself.  What a      *)
(* report says is chosen when it is applied, since nobody sees it before;  *)
(* the list of allowed devices is the exception, as it ages on its way.    *)
(***************************************************************************)
EXTENDS Naturals, Sequences, FiniteSets

CONSTANTS Devices,          \* the devices of the tailnet
          NoDevice,         \* None
          Listings,         \* results of discovery: sequences of Node
          AllowedAtFirst,   \* the access file when the program starts
          ChannelCapacity,  \* mpsc::channel(16)
          MaxTasks,         \* bound: keys pressed that start a task
          MaxFaults         \* bound: tasks and calls that fail

VARIABLES pc,               \* where run_loop is
          nodes, selected,  \* the list and the selected place in it, 0 for none
          loading,          \* discovery has been asked for
          activity,         \* Activity
          active,           \* active_node_id
          pid,              \* active_moonlight_pid: a stream's number, 0 for None
          pending,          \* pending_node
          generation,       \* session_generation
          readiness,        \* LocalReadiness
          overlay,          \* Overlay
          entries,          \* access_entries
          tasks,            \* how many tasks of a kind have yet to report
          streams,          \* the tasks of start_connect
          edits,            \* the tasks that change and list the allowed devices
          channel,          \* reports the loop has not applied
          allowed,          \* the file of the access store
          crowded,          \* two tasks were at the access store at once
          started,          \* tasks started by keys so far
          faults

listVars == <<nodes, selected, loading>>
sessionVars == <<activity, active, pid, pending, generation>>
accessVars == <<entries, edits, allowed, crowded>>
bounds == <<started, faults>>
vars == <<pc, listVars, sessionVars, readiness, overlay, accessVars, tasks,
          streams, channel, bounds>>

Kinds == {"discovery", "readiness", "status", "stored"}
Node == [id : Devices, connectable : BOOLEAN]
Stream == [number : 1 .. MaxTasks, node : Devices,
           step : {"checking", "running", "closing"}]
Edit == [tag : 1 .. MaxTasks, op : {"allow", "revoke", "list"}, node : Devices \cup {NoDevice},
         step : {"change", "read", "report"}, found : SUBSET Devices]
Report == [kind : Kinds \cup {"started", "ended", "access", "denied"},
           number : 0 .. MaxTasks, node : Devices \cup {NoDevice}, found : SUBSET Devices]

ASSUME DeviceAssumption ==
    NoDevice \notin Devices /\ AllowedAtFirst \subseteq Devices /\ Listings \subseteq Seq(Node)
ASSUME ParameterAssumption ==
    ChannelCapacity \in Nat \ {0} /\ MaxTasks \in Nat /\ MaxFaults \in Nat

Fault == faults < MaxFaults /\ faults' = faults + 1
\* A key that starts a task.
Key == started < MaxTasks /\ started' = started + 1
Spawn(kinds) == tasks' = [k \in Kinds |-> IF k \in kinds THEN tasks[k] + 1 ELSE tasks[k]]

-----------------------------------------------------------------------------
(* AppState::new and run_loop up to its loop.                              *)
Init ==
    /\ pc = "drain"
    /\ nodes = <<>> /\ selected = 0 /\ loading = TRUE
    /\ activity = "idle" /\ active = NoDevice /\ pid = 0
    /\ pending = NoDevice /\ generation = 0
    /\ readiness = "checking" /\ overlay = "none"
    /\ entries = {} /\ edits = {} /\ allowed = AllowedAtFirst /\ crowded = FALSE
    /\ tasks = [k \in Kinds |-> IF k = "stored" THEN 0 ELSE 1]
    /\ streams = {} /\ channel = <<>>
    /\ started = 0 /\ faults = 0

-----------------------------------------------------------------------------
(* The tasks.  A sender waits while the channel is full.                   *)
Send(kind, number, node, found) ==
    /\ Len(channel) < ChannelCapacity
    /\ channel' = Append(channel, [kind |-> kind, number |-> number, node |-> node,
                                   found |-> found])

Running == pc # "quit"

TaskReports(k) ==
    /\ Running /\ tasks[k] > 0
    /\ tasks' = [tasks EXCEPT ![k] = @ - 1]
    /\ Send(k, 0, NoDevice, {})
    /\ UNCHANGED <<pc, listVars, sessionVars, readiness, overlay, accessVars, streams,
                   bounds>>

\* start_connect: the checks, Moonlight and attach; then on_started.
StreamStarts(s) ==
    /\ Running /\ s.step = "checking"
    /\ Send("started", s.number, s.node, {})
    /\ streams' = (streams \ {s}) \cup {[s EXCEPT !.step = "running"]}
    /\ UNCHANGED <<pc, listVars, sessionVars, readiness, overlay, accessVars, tasks,
                   bounds>>

\* A check fails, Moonlight ends by itself, or its window was closed.
StreamEnds(s) ==
    /\ Running
    /\ s.step = "checking" => Fault
    /\ s.step # "checking" => UNCHANGED faults
    /\ Send("ended", s.number, s.node, {})
    /\ streams' = streams \ {s}
    /\ UNCHANGED <<pc, listVars, sessionVars, readiness, overlay, accessVars, tasks,
                   started>>

BadAfterChange == "report"
\* start_access_allow and start_access_revoke go on to list.
AfterChange == "read"

Step(e, step, found) ==
    edits' = (edits \ {e}) \cup {[e EXCEPT !.step = step, !.found = found]}

Changed(e) == IF e.op = "allow" THEN allowed \cup {e.node} ELSE allowed \ {e.node}

(* FileAccessStore::allow, revoke: one task at a time, under the lock.  An *)
(* error may come after the file has been replaced.                        *)
Change(e) ==
    /\ Running /\ e.step = "change"
    /\ \/ /\ allowed' = Changed(e)
          /\ Step(e, AfterChange, {})
          /\ UNCHANGED <<channel, faults>>
       \/ /\ Fault
          /\ Send("denied", 0, NoDevice, {})
          /\ edits' = edits \ {e}
          /\ allowed' \in {allowed, Changed(e)}
    /\ UNCHANGED <<pc, listVars, sessionVars, readiness, overlay, entries, crowded, tasks,
                   streams, started>>

\* FileAccessStore::list.
Read(e) ==
    /\ Running /\ e.step = "read"
    /\ \/ Step(e, "report", allowed) /\ UNCHANGED <<channel, faults>>
       \/ Fault /\ Send("denied", 0, NoDevice, {}) /\ edits' = edits \ {e}
    /\ UNCHANGED <<pc, listVars, sessionVars, readiness, overlay, entries, allowed,
                   crowded, tasks, streams, started>>

EditReports(e) ==
    /\ Running /\ e.step = "report"
    /\ Send("access", 0, NoDevice, e.found)
    /\ edits' = edits \ {e}
    /\ UNCHANGED <<pc, listVars, sessionVars, readiness, overlay, entries, allowed,
                   crowded, tasks, streams, bounds>>

-----------------------------------------------------------------------------
(* run_loop: apply_message for everything in the channel.                  *)
Take(kind) ==
    /\ pc = "drain" /\ channel # <<>> /\ Head(channel).kind = kind
    /\ channel' = Tail(channel)

SelectFirst(list) == IF list = <<>> THEN 0 ELSE 1

\* apply_refresh; an error leaves no devices.
ApplyDiscovery(list) ==
    /\ Take("discovery")
    /\ loading' = FALSE
    /\ nodes' = list /\ selected' = SelectFirst(list)
    /\ UNCHANGED <<pc, sessionVars, readiness, overlay, accessVars, tasks, streams, bounds>>

ApplyReadiness ==
    /\ Take("readiness")
    /\ \/ readiness' = "ready" /\ UNCHANGED faults
       \/ readiness' = "blocked" /\ Fault
    /\ UNCHANGED <<pc, listVars, sessionVars, overlay, accessVars, tasks, streams, started>>

ApplyStatus ==
    /\ Take("status")
    /\ \/ UNCHANGED <<readiness, faults>>
       \/ readiness' = "blocked" /\ Fault
    /\ UNCHANGED <<pc, listVars, sessionVars, overlay, accessVars, tasks, streams, started>>

BadRecheck == UNCHANGED tasks
\* requires_local_readiness_refresh.
Recheck == Spawn({"readiness"})
ApplyStored ==
    /\ Take("stored")
    /\ \/ readiness' = "checking" /\ Recheck /\ UNCHANGED faults
       \/ Fault /\ UNCHANGED <<readiness, tasks>>
    /\ UNCHANGED <<pc, listVars, sessionVars, overlay, accessVars, streams, started>>

ApplyStarted ==
    /\ Take("started")
    /\ IF Head(channel).number = generation
       THEN /\ activity' = "idle"
            /\ active' = Head(channel).node
            /\ pid' \in {0, generation}
       ELSE UNCHANGED <<activity, active, pid>>
    /\ UNCHANGED <<pc, listVars, pending, generation, readiness, overlay, accessVars,
                   tasks, streams, bounds>>

\* local_failure blocks until the next check.
ApplyEnded ==
    /\ Take("ended")
    /\ IF Head(channel).number = generation
       THEN /\ activity' = "idle"
            /\ active' = NoDevice
            /\ pid' = 0
            /\ \/ UNCHANGED <<readiness, faults>>
               \/ readiness' = "blocked" /\ Fault
       ELSE UNCHANGED <<activity, active, pid, readiness, faults>>
    /\ UNCHANGED <<pc, listVars, pending, generation, overlay, accessVars, tasks, streams,
                   started>>

ApplyAccess ==
    /\ \/ Take("access") /\ entries' = Head(channel).found
       \/ Take("denied") /\ UNCHANGED entries
    /\ UNCHANGED <<pc, listVars, sessionVars, readiness, overlay, edits, allowed, crowded,
                   tasks, streams, bounds>>

\* start_preflight and the task it starts.
StartPreflight(node) ==
    /\ generation' = generation + 1
    /\ activity' = "connecting"
    /\ active' = NoDevice
    /\ streams' = streams \cup {[number |-> generation + 1, node |-> node, step |-> "checking"]}
    /\ UNCHANGED pid

BadMayStart == activity = "idle"
MayStart == activity = "idle" /\ active = NoDevice
BadItsTurn == MayStart /\ pending # NoDevice /\ readiness = "ready"
ItsTurn == MayStart /\ pending # NoDevice

\* The channel is empty: a waiting device gets its stream, and the loop draws.
Drained ==
    /\ pc = "drain" /\ channel = <<>>
    /\ pc' = "event"
    /\ IF ItsTurn
       THEN StartPreflight(pending) /\ pending' = NoDevice
       ELSE UNCHANGED <<sessionVars, streams>>
    /\ UNCHANGED <<listVars, readiness, overlay, accessVars, tasks, channel, bounds>>

\* No key within 80 ms, or one without a meaning here.
NoEvent ==
    /\ pc = "event"
    /\ pc' = "drain"
    /\ UNCHANGED <<listVars, sessionVars, readiness, overlay, accessVars, tasks, streams,
                   channel, bounds>>

-----------------------------------------------------------------------------
(* handle_key.                                                             *)
Pressed(o) == pc = "event" /\ overlay = o

\* The program ends, and with it its tasks wherever they are.
Quit ==
    /\ Pressed("none")
    /\ pc' = "quit"
    /\ nodes' = <<>> /\ selected' = 0 /\ loading' = FALSE
    /\ activity' = "idle" /\ active' = NoDevice /\ pid' = 0
    /\ pending' = NoDevice /\ generation' = 0 /\ readiness' = "checking"
    /\ tasks' = [k \in Kinds |-> 0] /\ streams' = {} /\ edits' = {} /\ channel' = <<>>
    /\ entries' = {}
    /\ UNCHANGED <<overlay, allowed, crowded, bounds>>

\* select_next and select_previous, around the end of the list.
Cycle(direction) ==
    IF selected = 0 THEN 1
    ELSE IF direction = "next" THEN (selected % Len(nodes)) + 1
    ELSE ((selected + Len(nodes) - 2) % Len(nodes)) + 1
Select(direction) ==
    /\ Pressed("none") /\ nodes # <<>>
    /\ selected' = Cycle(direction)
    /\ pc' = "drain"
    /\ UNCHANGED <<nodes, loading, sessionVars, readiness, overlay, accessVars, tasks,
                   streams, channel, bounds>>

Refresh ==
    /\ Pressed("none") /\ ~loading
    /\ Key
    /\ loading' = TRUE
    /\ readiness' = "checking"
    /\ Spawn({"discovery", "readiness"})
    /\ pc' = "drain"
    /\ UNCHANGED <<nodes, selected, sessionVars, overlay, accessVars, streams, channel,
                   faults>>

Chosen == IF selected = 0 THEN [id |-> NoDevice, connectable |-> FALSE] ELSE nodes[selected]

\* unavailable_reason, selected_remote and session_action let a stream start.
EnterStart ==
    /\ Pressed("none") /\ readiness = "ready" /\ Chosen.connectable
    /\ MayStart
    /\ Key
    /\ StartPreflight(Chosen.id)
    /\ pc' = "drain"
    /\ UNCHANGED <<listVars, pending, readiness, overlay, accessVars, tasks, channel, faults>>

\* Another device than the active one: its window has to close first.
EnterSwitch ==
    /\ Pressed("none") /\ readiness = "ready" /\ Chosen.connectable
    /\ active \notin {NoDevice, Chosen.id}
    /\ Key
    /\ pending' = Chosen.id
    /\ pc' = "closing"
    /\ UNCHANGED <<listVars, activity, active, pid, generation, readiness, overlay,
                   accessVars, tasks, streams, channel, faults>>

(* stream_window: the stream's own window; or, when it has no known        *)
(* process or its window is not found, a window of Moonlight's class,      *)
(* which may be another program's.                                         *)
Close(C) == streams' = (streams \ C) \cup {[s EXCEPT !.step = "closing"] : s \in C}
Windows == {s \in streams : s.step = "running"}

WindowClosed ==
    /\ pc = "closing"
    /\ pc' = "drain"
    /\ \/ /\ pid # 0
          /\ Close({s \in Windows : s.number = pid})
          /\ UNCHANGED faults
       \/ /\ IF pid = 0 THEN UNCHANGED faults ELSE Fault
          /\ \E C \in {{}} \cup {{s} : s \in Windows} : Close(C)
    /\ UNCHANGED <<listVars, sessionVars, readiness, overlay, accessVars, tasks, channel,
                   started>>

CloseFailed ==
    /\ pc = "closing"
    /\ Fault
    /\ pc' = "drain"
    /\ pending' = NoDevice
    /\ UNCHANGED <<listVars, activity, active, pid, generation, readiness, overlay,
                   accessVars, tasks, streams, channel, started>>

-----------------------------------------------------------------------------
(* The settings: handle_key opens them, handle_overlay_key does the rest.  *)
OpenMenu ==
    /\ Pressed("none")
    /\ Key
    /\ Spawn({"status"})
    /\ overlay' = "menu"
    /\ pc' = "drain"
    /\ UNCHANGED <<listVars, sessionVars, readiness, accessVars, streams, channel, faults>>

Overlays == {"none", "menu", "user", "password", "access"}
\* Keys that only lead from one overlay to another; both names are typed in.
Leads == {<<"menu", "none">>, <<"menu", "user">>, <<"user", "menu">>,
          <<"user", "password">>, <<"password", "menu">>, <<"access", "menu">>}
Navigate(next) ==
    /\ pc = "event" /\ <<overlay, next>> \in Leads
    /\ overlay' = next
    /\ pc' = "drain"
    /\ UNCHANGED <<listVars, sessionVars, readiness, accessVars, tasks, streams, channel,
                   bounds>>

StoreCredentials ==
    /\ Pressed("password")
    /\ Key
    /\ Spawn({"stored"})
    /\ overlay' = "menu"
    /\ pc' = "drain"
    /\ UNCHANGED <<listVars, sessionVars, readiness, accessVars, streams, channel, faults>>

StartEdit(op, node, step) ==
    /\ Key
    /\ edits' = edits \cup {[tag |-> started + 1, op |-> op, node |-> node, step |-> step,
                            found |-> {}]}
    /\ crowded' = (crowded \/ edits # {})
    /\ overlay' = "access"
    /\ pc' = "drain"
    /\ UNCHANGED <<listVars, sessionVars, readiness, entries, allowed, tasks, streams,
                   channel, faults>>

OpenAccess == Pressed("menu") /\ StartEdit("list", NoDevice, "read")
\* Only a device one could connect to is let in; any selected one is put out.
Allow == Pressed("access") /\ Chosen.connectable /\ StartEdit("allow", Chosen.id, "change")
Revoke == Pressed("access") /\ selected # 0 /\ StartEdit("revoke", Chosen.id, "change")

-----------------------------------------------------------------------------
Apply ==
    \/ \E list \in Listings \cup {<<>>} : ApplyDiscovery(list)
    \/ ApplyReadiness \/ ApplyStatus \/ ApplyStored
    \/ ApplyStarted \/ ApplyEnded \/ ApplyAccess
Loop == Apply \/ Drained \/ NoEvent \/ WindowClosed \/ CloseFailed
HandleKey ==
    \/ Quit \/ \E direction \in {"next", "previous"} : Select(direction)
    \/ Refresh \/ EnterStart \/ EnterSwitch
    \/ OpenMenu \/ \E next \in Overlays : Navigate(next)
    \/ StoreCredentials \/ OpenAccess \/ Allow \/ Revoke
Background(e) == Change(e) \/ Read(e) \/ EditReports(e)

Next ==
    \/ Loop \/ HandleKey
    \/ \E k \in Kinds : TaskReports(k)
    \/ \E s \in streams : StreamStarts(s) \/ StreamEnds(s)
    \/ \E e \in edits : Background(e)

Spec == Init /\ [][Next]_vars

(* The loop goes round every 80 ms; tasks are carried out and their time   *)
(* limits end what hangs; Moonlight ends once its window is closed.  A     *)
(* stream may run for ever.                                                *)
Fairness ==
    /\ WF_vars(Loop)
    /\ \A k \in Kinds : WF_vars(TaskReports(k))
    /\ WF_vars(\E s \in streams : StreamStarts(s) \/ (s.step # "running" /\ StreamEnds(s)))
    /\ WF_vars(\E e \in edits : Background(e))

FairSpec == Spec /\ Fairness

-----------------------------------------------------------------------------
(* Correctness.                                                            *)

Reports(kind) == {i \in 1 .. Len(channel) : channel[i].kind = kind}
UnderWay(kind) == tasks[kind] + Cardinality(Reports(kind))

(* Types; the selection is a place of the list, also when the list has     *)
(* been replaced, and the channel keeps to its capacity.                   *)
TypeOK ==
    /\ pc \in {"drain", "event", "closing", "quit"}
    /\ nodes \in Listings \cup {<<>>} /\ selected \in 0 .. Len(nodes)
    /\ loading \in BOOLEAN /\ activity \in {"idle", "connecting"}
    /\ {active, pending} \subseteq Devices \cup {NoDevice}
    /\ {pid, generation} \subseteq 0 .. MaxTasks
    /\ readiness \in {"checking", "ready", "blocked"} /\ overlay \in Overlays
    /\ {entries, allowed} \subseteq SUBSET Devices /\ crowded \in BOOLEAN
    /\ tasks \in [Kinds -> Nat]
    /\ streams \subseteq Stream /\ edits \subseteq Edit
    /\ channel \in Seq(Report) /\ Len(channel) <= ChannelCapacity
    /\ started \in 0 .. MaxTasks /\ faults \in 0 .. MaxFaults

(* What the user is told to wait for is under way: a list that loads, one  *)
(* discovery; "Checking local connection requirements", a check; a         *)
(* connection that is being made, its task.  Otherwise the interface would *)
(* refuse keys for good.                                                   *)
WaitIsWarranted ==
    Running =>
        /\ UnderWay("discovery") = IF loading THEN 1 ELSE 0
        /\ readiness = "checking" => UnderWay("readiness") > 0
        /\ activity = "connecting" =>
              \/ \E s \in streams : s.number = generation
              \/ \E i \in Reports("started") \cup Reports("ended") :
                    channel[i].number = generation

(* One stream at a time, through switches, failures and streams that end   *)
(* while their successor is being chosen: no second task is started before *)
(* the first has ended, so no report is stale when it is applied, and the  *)
(* device shown as active is the one that is streamed or has just ended.   *)
OneStreamAtATime ==
    /\ Cardinality(streams) <= 1
    /\ \A s \in streams : s.number = generation
    /\ \A i \in Reports("started") \cup Reports("ended") : channel[i].number = generation
    /\ pid \in {0, generation}
    /\ active # NoDevice /\ Running =>
          \/ \E s \in streams : s.node = active
          \/ \E i \in Reports("ended") : channel[i].node = active

(* The list of allowed devices that is shown is the file's, once the       *)
(* changes made here have been carried out: as long as nothing failed and  *)
(* no two changes overlapped, whose lists may arrive out of order.         *)
AccessShownIsCurrent ==
    /\ faults = 0 /\ ~crowded /\ overlay = "access"
    /\ edits = {} /\ Reports("access") = {} /\ Running
    => entries = allowed

(* A device the user switched to gets its turn once the stream before it   *)
(* ends, whatever else happened meanwhile.                                 *)
PendingGetsItsTurn ==
    (pending # NoDevice /\ \A s \in streams : s.step = "closing")
        ~> (pending = NoDevice \/ pc = "quit")
=============================================================================
