--------------------------- MODULE ConnectSession ---------------------------
(***************************************************************************)
(* A controller's side of a session, over a network, against the agent it  *)
(* controls: ConnectNode, SessionHeartbeat and the health monitor of       *)
(* crates/omdesky-application/src/services.rs.                             *)
(*                                                                         *)
(* The remote agent is reduced to what SessionCoordinator shows of itself: *)
(* one session, its lease, attach, renew, detach, expiry and restart.      *)
(* ImplementsLease below ties this reduction to the same specification the *)
(* coordinator implements.                                                 *)
(*                                                                         *)
(* A request waits in `net' until the agent serves it.  Its sender waits   *)
(* at most RequestTimeout and then gives up; what was sent may still be    *)
(* served later (tag # 0 tells such requests apart from the awaited one).  *)
(* Everything that goes wrong, on the network, in hyprctl, in a process,   *)
(* is counted in `faults'.                                                 *)
(***************************************************************************)
EXTENDS Integers

CONSTANTS Controllers,     \* devices, each running at most one connect
          NoSession,       \* the remote agent has no session
          Lease,           \* DEFAULT_LEASE
          MinRenewal,      \* MIN_RENEWAL_INTERVAL
          RequestTimeout,  \* REQUEST_TIMEOUT of the agent client
          HealthLimit,     \* AGENT_HEALTH_FAILURE_LIMIT
          MaxLaunches,     \* bound: connects
          MaxFaults        \* bound: things that go wrong

VARIABLES pc,              \* where each connect is
          local,           \* session key bindings on the controller's desktop
          grant,           \* the session granted to it, 0 for None
          age,             \* how long the awaited request has been out
          beating,         \* the session the heartbeat renews, 0 without one
          beat,            \* time to the heartbeat's next tick
          renewing,        \* how long the heartbeat has awaited a renewal, or Quiet
          failures,        \* consecutive failed health checks of the two agents
          net,             \* messages under way
          up,              \* the remote agent runs
          remote,          \* its published session
          timer,           \* what is left of the lease
          granted,         \* sessions it ever published
          launches, faults,
          spoiled          \* devices where hyprctl failed or connect was killed

connectVars == <<pc, local, grant, age, beating, beat, renewing, failures, spoiled>>
agentVars == <<up, remote, timer, granted>>
vars == <<connectVars, net, agentVars, launches, faults>>

None == 0
Quiet == -1
NoFailures == [local |-> 0, remote |-> 0]
Ids == 1 .. MaxLaunches
Phases == {"idle", "launched", "attaching", "undoing", "streaming", "ending",
           "detaching"}
Session == [id : Ids, owner : Controllers]
Message ==
    [kind : {"attach", "renew", "detach", "granted", "refused"},
     from : Controllers, id : 0 .. MaxLaunches, tag : 0 .. MaxFaults + MaxLaunches]

BadRenewalInterval == Lease
RenewalInterval == IF Lease \div 3 > MinRenewal THEN Lease \div 3 ELSE MinRenewal

ASSUME NoSessionAssumption == NoSession \notin Session
ASSUME ParameterAssumption ==
    /\ Lease \in Nat \ {0} /\ MinRenewal \in Nat \ {0} /\ RequestTimeout \in Nat
    /\ HealthLimit \in Nat \ {0} /\ MaxLaunches \in Nat /\ MaxFaults \in Nat
\* 10 s < 15 s: a renewal is over before the next is due.
ASSUME TimingAssumption ==
    RequestTimeout < Lease \div 3 /\ MinRenewal <= Lease \div 3

Msg(kind, c, id) == [kind |-> kind, from |-> c, id |-> id, tag |-> 0]
\* Nobody waits for m any more, but it may still arrive.
LateAs(m, tag) == [kind |-> m.kind, from |-> m.from, id |-> m.id, tag |-> tag]
Late(m) == LateAs(m, faults + 1)

Fault == faults < MaxFaults /\ faults' = faults + 1
Awaited(c) == {m \in net : m.from = c /\ m.tag = 0}
MainCall(c) == {m \in Awaited(c) : m.kind # "renew"}
RenewCall(c) == {m \in Awaited(c) : m.kind = "renew"}
Requests(M) == {m \in M : m.kind \in {"attach", "renew", "detach"}}
Live == remote # NoSession /\ timer > 0
BadHeldByOther(c) == remote # NoSession /\ timer > 1 /\ remote.owner # c
HeldByOther(c) == Live /\ remote.owner # c

-----------------------------------------------------------------------------
Init ==
    /\ pc = [c \in Controllers |-> "idle"]
    /\ local = [c \in Controllers |-> FALSE]
    /\ grant = [c \in Controllers |-> None]
    /\ age = [c \in Controllers |-> 0]
    /\ beating = [c \in Controllers |-> None]
    /\ beat = [c \in Controllers |-> 0]
    /\ renewing = [c \in Controllers |-> Quiet]
    /\ failures = [c \in Controllers |-> NoFailures]
    /\ net = {}
    /\ up = TRUE
    /\ remote = NoSession
    /\ timer = 0
    /\ granted = {}
    /\ launches = 0
    /\ faults = 0
    /\ spoiled = {}

(* execute_with_started up to the launch of Moonlight.  A check that fails *)
(* before it returns early and changes nothing here.  With local input     *)
(* there is no session to attach.                                          *)
Launch(c, remoteInput) ==
    /\ pc[c] = "idle"
    /\ launches < MaxLaunches
    /\ launches' = launches + 1
    /\ pc' = [pc EXCEPT ![c] = IF remoteInput THEN "launched" ELSE "streaming"]
    /\ UNCHANGED <<local, grant, age, beating, beat, renewing, failures, net, agentVars,
                   faults, spoiled>>

(* attach_session: the local bindings come first; if they cannot be        *)
(* installed (hyprctl may have run the script all the same) nothing is     *)
(* sent and nothing undone.                                                *)
InstallLocal(c) ==
    /\ pc[c] = "launched"
    /\ \/ /\ local' = [local EXCEPT ![c] = TRUE]
          /\ pc' = [pc EXCEPT ![c] = "attaching"]
          /\ age' = [age EXCEPT ![c] = 0]
          /\ net' = net \cup {Msg("attach", c, None)}
          /\ UNCHANGED <<faults, spoiled>>
       \/ /\ Fault /\ spoiled' = spoiled \cup {c}
          /\ \E b \in BOOLEAN : local' = [local EXCEPT ![c] = b]
          /\ pc' = [pc EXCEPT ![c] = "streaming"]
          /\ UNCHANGED <<age, net>>
    /\ UNCHANGED <<grant, beating, beat, renewing, failures, agentVars, launches>>

(* The grant arrives: the heartbeat starts, its first tick one interval    *)
(* from now.                                                               *)
GrantReceived(c) ==
    /\ pc[c] = "attaching"
    /\ \E m \in MainCall(c) :
          /\ m.kind = "granted"
          /\ grant' = [grant EXCEPT ![c] = m.id]
          /\ beating' = [beating EXCEPT ![c] = m.id]
          /\ net' = net \ {m}
    /\ beat' = [beat EXCEPT ![c] = RenewalInterval]
    /\ pc' = [pc EXCEPT ![c] = "streaming"]
    /\ UNCHANGED <<local, age, renewing, failures, agentVars, launches, faults,
                   spoiled>>

BadAttachKeepsBinds(c) ==
    /\ pc[c] = "attaching"
    /\ \/ /\ \E m \in MainCall(c) : m.kind = "refused" /\ net' = net \ {m}
          /\ UNCHANGED faults
       \/ /\ Fault
          /\ net' = (net \ MainCall(c)) \cup {Late(m) : m \in Requests(MainCall(c))}
    /\ pc' = [pc EXCEPT ![c] = "streaming"]
    /\ UNCHANGED <<local, grant, age, beating, beat, renewing, failures, agentVars,
                   launches, spoiled>>

\* The attach is refused, or its answer does not come in time.
AttachFailed(c) ==
    /\ pc[c] = "attaching"
    /\ \/ /\ \E m \in MainCall(c) : m.kind = "refused" /\ net' = net \ {m}
          /\ UNCHANGED faults
       \/ /\ Fault
          /\ net' = (net \ MainCall(c)) \cup {Late(m) : m \in Requests(MainCall(c))}
    /\ pc' = [pc EXCEPT ![c] = "undoing"]
    /\ UNCHANGED <<local, grant, age, beating, beat, renewing, failures, agentVars,
                   launches, spoiled>>

\* keybinds.clear: when it fails, Hyprland may have run it all the same.
ClearLocal(c) ==
    \/ local' = [local EXCEPT ![c] = FALSE] /\ UNCHANGED <<faults, spoiled>>
    \/ /\ Fault /\ spoiled' = spoiled \cup {c}
       /\ local' \in {local, [local EXCEPT ![c] = FALSE]}

\* The stream goes on without a session.
LocalUndone(c) ==
    /\ pc[c] = "undoing"
    /\ ClearLocal(c)
    /\ pc' = [pc EXCEPT ![c] = "streaming"]
    /\ UNCHANGED <<grant, age, beating, beat, renewing, failures, net, agentVars,
                   launches>>

\* SessionHeartbeat: a tick is due and the previous renewal is over.
Heartbeat(c) ==
    /\ beating[c] # None
    /\ beat[c] = 0 /\ renewing[c] = Quiet
    /\ net' = net \cup {Msg("renew", c, beating[c])}
    /\ renewing' = [renewing EXCEPT ![c] = 0]
    /\ beat' = [beat EXCEPT ![c] = RenewalInterval]
    /\ UNCHANGED <<pc, local, grant, age, beating, failures, agentVars, launches,
                   faults, spoiled>>

\* A renewal that is lost or not answered in time is only logged.
RenewalGivenUp(c) ==
    /\ renewing[c] # Quiet
    /\ Fault
    /\ net' = (net \ RenewCall(c)) \cup {Late(m) : m \in RenewCall(c)}
    /\ renewing' = [renewing EXCEPT ![c] = Quiet]
    /\ UNCHANGED <<pc, local, grant, age, beating, beat, failures, agentVars, launches,
                   spoiled>>

(* wait_for_process_or_monitor returns: Moonlight ended, or the monitor    *)
(* terminated it.  The heartbeat is dropped, in the middle of a renewal    *)
(* perhaps, and with it the monitor and its counts.                        *)
BadHeartbeatOutlives(c) ==
    pc' = [pc EXCEPT ![c] = IF grant[c] = None THEN "idle" ELSE "ending"]
        /\ UNCHANGED <<beating, beat, renewing, failures, net>>
StreamOver(c) ==
    /\ pc' = [pc EXCEPT ![c] = IF grant[c] = None THEN "idle" ELSE "ending"]
    /\ beating' = [beating EXCEPT ![c] = None]
    /\ beat' = [beat EXCEPT ![c] = 0]
    /\ renewing' = [renewing EXCEPT ![c] = Quiet]
    /\ failures' = [failures EXCEPT ![c] = NoFailures]
    /\ net' \in {net \ RenewCall(c),
                 (net \ RenewCall(c)) \cup
                     {LateAs(m, MaxFaults + m.id) : m \in RenewCall(c)}}

MoonlightExits(c) ==
    /\ pc[c] = "streaming"
    /\ StreamOver(c)
    /\ UNCHANGED <<local, grant, age, agentVars, launches, faults, spoiled>>

BadCount(n, ok) == IF ok THEN 0 ELSE 1
Count(n, ok) == IF ok THEN 0 ELSE n + 1

(* One round of monitor_agents.  The remote agent answers only if it runs; *)
(* any other failed check is a fault.                                      *)
HealthChecked(c, localOk, remoteOk) ==
    /\ pc[c] = "streaming"
    /\ remoteOk => up
    /\ IF localOk /\ (remoteOk \/ ~up) THEN UNCHANGED faults ELSE Fault
    /\ LET count == [local |-> Count(failures[c].local, localOk),
                     remote |-> Count(failures[c].remote, remoteOk)]
       IN IF count.local >= HealthLimit \/ count.remote >= HealthLimit
          THEN StreamOver(c)
          ELSE /\ failures' = [failures EXCEPT ![c] = count]
               /\ UNCHANGED <<pc, beating, beat, renewing, net>>
    /\ UNCHANGED <<local, grant, age, agentVars, launches, spoiled>>

(* detach_session: the local bindings first, then the request, whatever    *)
(* came of them.                                                           *)
DetachSent(c) ==
    /\ pc[c] = "ending"
    /\ ClearLocal(c)
    /\ net' = net \cup {Msg("detach", c, grant[c])}
    /\ age' = [age EXCEPT ![c] = 0]
    /\ pc' = [pc EXCEPT ![c] = "detaching"]
    /\ UNCHANGED <<grant, beating, beat, renewing, failures, agentVars, launches>>

Finished(c) ==
    /\ pc' = [pc EXCEPT ![c] = "idle"]
    /\ grant' = [grant EXCEPT ![c] = None]

DetachGivenUp(c) ==
    /\ pc[c] = "detaching"
    /\ Fault
    /\ net' = (net \ MainCall(c)) \cup {Late(m) : m \in MainCall(c)}
    /\ Finished(c)
    /\ UNCHANGED <<local, age, beating, beat, renewing, failures, agentVars, launches,
                   spoiled>>

(* The controller's process is killed.  Its bindings stay; what it sent    *)
(* may still arrive.                                                       *)
Killed(c) ==
    /\ pc[c] # "idle"
    /\ Fault /\ spoiled' = spoiled \cup {c}
    /\ net' = (net \ Awaited(c)) \cup {Late(m) : m \in Requests(Awaited(c))}
    /\ Finished(c)
    /\ beating' = [beating EXCEPT ![c] = None]
    /\ beat' = [beat EXCEPT ![c] = 0]
    /\ renewing' = [renewing EXCEPT ![c] = Quiet]
    /\ failures' = [failures EXCEPT ![c] = NoFailures]
    /\ UNCHANGED <<local, age, agentVars, launches>>

-----------------------------------------------------------------------------
(* The remote agent.  Only an awaited request is answered.                 *)

Answer(m, kind, id) ==
    (net \ {m}) \cup IF m.tag = 0 THEN {Msg(kind, m.from, id)} ELSE {}

NewId == IF granted = {} THEN 1
         ELSE 1 + CHOOSE i \in granted : \A j \in granted : j <= i

(* run_command and SessionCoordinator::attach: refused because another     *)
(* device holds the session; granted; given up because the key bindings    *)
(* cannot be installed; or refused before the coordinator is reached       *)
(* (authorization, replay guard, callback access).                         *)
ServeAttach(m) ==
    /\ up /\ m.kind = "attach"
    /\ \/ /\ HeldByOther(m.from)
          /\ net' = Answer(m, "refused", None)
          /\ UNCHANGED <<remote, timer, granted, faults>>
       \/ /\ ~HeldByOther(m.from)
          /\ remote' = [id |-> NewId, owner |-> m.from]
          /\ timer' = Lease
          /\ granted' = granted \cup {NewId}
          /\ net' = Answer(m, "granted", NewId)
          /\ UNCHANGED faults
       \/ /\ ~HeldByOther(m.from)
          /\ Fault
          /\ remote' = NoSession /\ timer' = 0
          /\ net' = Answer(m, "refused", None)
          /\ UNCHANGED granted
       \/ /\ Fault
          /\ net' = Answer(m, "refused", None)
          /\ UNCHANGED <<remote, timer, granted>>
    /\ UNCHANGED <<connectVars, up, launches>>

BadNames(m) == remote # NoSession /\ remote.owner = m.from
Names(m) == remote # NoSession /\ remote.owner = m.from /\ remote.id = m.id

Renewed == Lease

\* SessionCoordinator::renew.  The heartbeat is answered either way.
ServeRenew(m) ==
    /\ up /\ m.kind = "renew"
    /\ timer' = IF Names(m) /\ timer > 0 THEN Renewed ELSE timer
    /\ net' = net \ {m}
    /\ renewing' = IF m.tag = 0 THEN [renewing EXCEPT ![m.from] = Quiet]
                                ELSE renewing
    /\ UNCHANGED <<pc, local, grant, age, beating, beat, failures, up, remote, granted,
                   launches, faults, spoiled>>

\* SessionCoordinator::detach.
ServeDetach(m) ==
    /\ up /\ m.kind = "detach"
    /\ \/ /\ Names(m)
          /\ remote' = NoSession /\ timer' = 0
          /\ UNCHANGED faults
       \/ /\ ~Names(m)
          /\ UNCHANGED <<remote, timer, faults>>
       \/ /\ Names(m) /\ Fault
          /\ UNCHANGED <<remote, timer>>
    /\ net' = net \ {m}
    /\ IF m.tag = 0 THEN Finished(m.from) ELSE UNCHANGED <<pc, grant>>
    /\ UNCHANGED <<local, age, beating, beat, renewing, failures, up, granted, launches,
                   spoiled>>

(* The agent is down: a connection is refused at once, a late request is   *)
(* lost.                                                                   *)
NoAgent(m) ==
    /\ ~up /\ m.kind \in {"attach", "renew", "detach"}
    /\ net' = IF m.kind = "attach" THEN Answer(m, "refused", None) ELSE net \ {m}
    /\ IF m.tag = 0 /\ m.kind = "detach" THEN Finished(m.from)
                                         ELSE UNCHANGED <<pc, grant>>
    /\ renewing' = IF m.tag = 0 /\ m.kind = "renew"
                   THEN [renewing EXCEPT ![m.from] = Quiet] ELSE renewing
    /\ UNCHANGED <<local, age, beating, beat, failures, agentVars, launches, faults,
                   spoiled>>

Serve(m) == ServeAttach(m) \/ ServeRenew(m) \/ ServeDetach(m) \/ NoAgent(m)

\* expire_due.
Expire ==
    /\ up /\ remote # NoSession /\ timer = 0
    /\ remote' = NoSession
    /\ UNCHANGED <<connectVars, net, up, timer, granted, launches, faults>>

\* The agent stops or dies, and systemd restarts it.
AgentDies ==
    /\ up /\ Fault
    /\ up' = FALSE /\ remote' = NoSession /\ timer' = 0
    /\ UNCHANGED <<connectVars, net, granted, launches>>

AgentRestarts ==
    /\ ~up
    /\ up' = TRUE
    /\ UNCHANGED <<connectVars, net, remote, timer, granted, launches, faults>>

-----------------------------------------------------------------------------
Minus1(n) == IF n = 0 THEN 0 ELSE n - 1

(* Time passes; no awaited request outlives its time limit, and a          *)
(* heartbeat that is due is sent first.                                    *)
Tick ==
    /\ \A c \in Controllers :
          /\ MainCall(c) # {} => age[c] < RequestTimeout
          /\ renewing[c] < RequestTimeout
          /\ beating[c] # None => beat[c] > 0
    /\ timer' = Minus1(timer)
    /\ age' = [c \in Controllers |-> IF MainCall(c) = {} THEN 0 ELSE age[c] + 1]
    /\ beat' = [c \in Controllers |-> Minus1(beat[c])]
    /\ renewing' = [c \in Controllers |->
          IF renewing[c] = Quiet THEN Quiet ELSE renewing[c] + 1]
    /\ UNCHANGED <<pc, local, grant, beating, failures, net, up, remote, granted,
                   launches, faults, spoiled>>

\* What a connect does by itself once it is under way.
Proceed(c) ==
    \/ InstallLocal(c) \/ GrantReceived(c) \/ AttachFailed(c) \/ LocalUndone(c)
    \/ Heartbeat(c) \/ DetachSent(c)

Next ==
    \/ \E c \in Controllers :
          \/ \E b \in BOOLEAN : Launch(c, b)
          \/ Proceed(c)
          \/ RenewalGivenUp(c) \/ DetachGivenUp(c)
          \/ MoonlightExits(c) \/ Killed(c)
          \/ \E l, r \in BOOLEAN : HealthChecked(c, l, r)
    \/ \E m \in net : Serve(m)
    \/ Expire \/ AgentDies \/ AgentRestarts
    \/ Tick

Spec == Init /\ [][Next]_vars

(* Time passes, connects carry on, the agent serves what is awaited or the *)
(* connection is refused, the expiry task and the monitor have their turn. *)
(* Nobody owes a launch, an exit, a restart or a fault, and a late request *)
(* may never arrive.                                                       *)
Fairness ==
    /\ WF_vars(Tick)
    /\ WF_vars(Expire)
    /\ \A c \in Controllers :
          /\ WF_vars(Proceed(c))
          /\ WF_vars(\E m \in Awaited(c) : Serve(m))
          /\ WF_vars(\E l, r \in BOOLEAN : HealthChecked(c, l, r))

FairSpec == Spec /\ Fairness

-----------------------------------------------------------------------------
(* Correctness.                                                            *)

(* Types; leases, renewals and failure counts stay within their limits.    *)
TypeOK ==
    /\ pc \in [Controllers -> Phases]
    /\ local \in [Controllers -> BOOLEAN]
    /\ grant \in [Controllers -> 0 .. MaxLaunches]
    /\ age \in [Controllers -> 0 .. RequestTimeout]
    /\ beating \in [Controllers -> 0 .. MaxLaunches]
    /\ beat \in [Controllers -> 0 .. RenewalInterval]
    /\ renewing \in [Controllers -> Quiet .. RequestTimeout]
    /\ failures \in [Controllers -> [local : 0 .. HealthLimit, remote : 0 .. HealthLimit]]
    /\ net \subseteq Message
    /\ up \in BOOLEAN
    /\ remote \in Session \cup {NoSession}
    /\ timer \in 0 .. Lease
    /\ granted \subseteq Ids
    /\ launches \in 0 .. MaxLaunches
    /\ faults \in 0 .. MaxFaults
    /\ spoiled \subseteq Controllers

(* renewal_interval is short enough: as long as nothing goes wrong, a      *)
(* stream with a grant has its session on the remote desktop, though the   *)
(* grant and every renewal may take as long as a request may take.         *)
LeaseKept ==
    faults = 0 =>
        \A c \in Controllers :
            pc[c] = "streaming" /\ grant[c] # None =>
                Live /\ remote = [id |-> grant[c], owner |-> c]

(* The controller's own shortcuts are restored: unless its hyprctl fails   *)
(* or it is killed, its bindings are there exactly for a stream that has a *)
(* grant, whatever the network and the agents do (attach_session undoes    *)
(* the bindings, detach_session clears them before it sends anything).     *)
LocalInputRestored ==
    \A c \in Controllers : c \notin spoiled =>
        /\ pc[c] = "idle" => ~local[c]
        /\ pc[c] = "streaming" => (local[c] <=> grant[c] # None)

(* "a late message from a finished session cannot end a newer one": the    *)
(* session a running stream was granted ends by that stream's detach, with *)
(* the agent, or by another attach of the same device, and by no late      *)
(* renewal or detach of an earlier stream.                                 *)
HeldSessionStands ==
    [][\A c \in Controllers :
          Live /\ remote.id = grant[c] /\ remote' # remote =>
              \/ pc[c] = "detaching"
              \/ ~up'
              \/ \E m \in net \ net' : m.kind = "attach" /\ m.from = c]_vars

(* The agent of this module keeps the promise of SessionLease too, as      *)
(* SessionCoordinator does.                                                *)
Promise == INSTANCE SessionLease WITH
               Owners <- Controllers, NoHolder <- NoSession,
               holder <- IF Live THEN remote ELSE NoSession
ImplementsLease == Promise!Spec

(* "If the controller crashes, is killed, or loses the network, the lease  *)
(* expires": a session whose stream is gone does not stay, even if its     *)
(* detach was lost and some renewals are still under way.                  *)
Holds(c, i) == grant[c] = i \/ Msg("granted", c, i) \in net
AbandonedSessionEnds ==
    \A i \in Ids :
        (remote # NoSession /\ remote.id = i /\ \A c \in Controllers : ~Holds(c, i))
            ~> ~(remote # NoSession /\ remote.id = i)

(* A remote agent that stays away ends the stream: its failures add up     *)
(* whatever the local agent's checks say.                                  *)
DeadAgentEndsStream ==
    \A c \in Controllers :
        (pc[c] = "streaming" /\ ~up) ~> (pc[c] # "streaming" \/ up)
=============================================================================
