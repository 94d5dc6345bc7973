------------------------------- MODULE Access -------------------------------
(***************************************************************************)
(* Who may do what between this computer and the others, seen from here:   *)
(* the allowlist and the processes that edit it                            *)
(* (crates/omdesky-platform/src/access.rs, `omdesky access', the access    *)
(* screen of the terminal interface), discovery, which tells what stands   *)
(* in the way of a connection (application/src/discovery.rs, target.rs),   *)
(* and the checks made before a stream starts (readiness.rs, access.rs and *)
(* services.rs there).                                                     *)
(*                                                                         *)
(* The file has an entry per device.  A process reads it whole, changes    *)
(* its copy and writes it back, under a mutex of its own.  An entry is     *)
(* full, or lacks the capabilities that matter to a connection.  Names     *)
(* do not change.  Pairing and Sunshine, its credentials on this computer  *)
(* too, are taken to be in order.                                          *)
(***************************************************************************)
EXTENDS Naturals, FiniteSets

CONSTANTS Devices,     \* the other computers of the tailnet
          Here,        \* this computer
          NamesOf,     \* their host names and MagicDNS names
          ShownAs,     \* the one that is shown
          Nobody,      \* no device; also no scan, no attempt and no edit
          TuiTasks,    \* tasks of the terminal interface that edit the file
          CliRuns,     \* runs of `omdesky access'
          AllowedAtFirst, \* devices the file grants everything when we look
          MaxChanges,  \* bound: edits, and changes on the other computers
          MaxFaults    \* bound: reads, writes and requests that fail

VARIABLES granted,     \* the allowlist file
          hosts,       \* what the other computers' allowlists grant this one
          agent,       \* the agents of the computers, this one's too
          edit,        \* what each editor is doing
          scan,        \* the discovery under way
          shown,       \* what the last one found
          attempt,     \* the connection being started
          outcome,     \* how the last one ended, if nothing has changed since
          stable,      \* nothing has changed, and nothing failed in the scan
                       \* that found it, since that scan began
          intended,    \* what an entry may be, by what its edits reported
          wanted,      \* the same of the device the user had in mind
          asked,       \* all the users ever asked for that device
          crossed,     \* edits of two processes have overlapped
          changes, faults

expected == <<intended, wanted, asked>>
file == <<granted, expected, crossed>>
others == <<hosts, agent>>
bounds == <<changes, faults>>
vars == <<file, others, edit, scan, shown, attempt, outcome, stable, bounds>>

Computers == Devices \cup {Here}
Grants == {"none", "partial", "full"}
Editors == TuiTasks \cup CliRuns
\* The agent's release against ours, if it answers at all.
Agents == {"offline", "down", "older", "same", "newer"}
Codes == {"incompatible", "denied", "needs_access"}
Blocker == [code : Codes, side : {"local", "remote"}]
Listed == [status : {"ready", "blocked", "offline", "unavailable"},
           blockers : SUBSET Blocker]
Results == {"launched", "unreachable", "incompatible", "denied", "needs_access",
            "local_down", "local_incompatible"}

ASSUME DevicesAssumption == IsFiniteSet(Devices)
ASSUME HereAssumption == Here \notin Devices \cup {Nobody}
ASSUME NamesAssumption == \A d \in Devices : ShownAs[d] \in NamesOf[d]
ASSUME BoundsAssumption == MaxChanges \in Nat /\ MaxFaults \in Nat
ASSUME EditorsAssumption == TuiTasks \cap CliRuns = {} /\ Nobody \notin Devices

Fault == faults < MaxFaults /\ faults' = faults + 1

(* Something that a scan or an attempt may have read is changed.           *)
Disturb ==
    /\ stable' = FALSE
    /\ outcome' = Nobody
    /\ attempt' = IF attempt = Nobody THEN Nobody ELSE [attempt EXCEPT !.clean = FALSE]
    /\ scan' = IF scan = Nobody THEN Nobody ELSE [scan EXCEPT !.clean = FALSE]

-----------------------------------------------------------------------------
Init ==
    /\ granted = [d \in Devices |-> IF d \in AllowedAtFirst THEN "full" ELSE "none"]
    /\ intended = [d \in Devices |-> {granted[d]}]
    /\ wanted = intended /\ asked = intended /\ crossed = FALSE
    /\ hosts \in {[d \in Devices |-> grant] : grant \in {"none", "full"}}
    /\ agent = [d \in Computers |-> "same"]
    /\ edit = [e \in Editors |-> Nobody]
    /\ scan = Nobody /\ shown = Nobody
    /\ attempt = Nobody /\ outcome = Nobody /\ stable = FALSE
    /\ changes = 0 /\ faults = 0

-----------------------------------------------------------------------------
(* Names: find_peer takes the only device that has the name.               *)
Named(name) == {d \in Devices : name \in NamesOf[d]}
BadResolved(name) == Named(name)
Resolved(name) == IF Cardinality(Named(name)) = 1 THEN Named(name) ELSE {}

-----------------------------------------------------------------------------
(* The editors.  meant is the device the user has in mind.                 *)
Edit(e, grant, node, meant) ==
    /\ edit[e] = Nobody
    /\ changes < MaxChanges
    /\ changes' = changes + 1
    /\ edit' = [edit EXCEPT ![e] = [step |-> "begun", grant |-> grant, node |-> node,
                                    meant |-> meant, copy |-> Nobody]]
    /\ UNCHANGED <<file, others, scan, shown, attempt, outcome, stable, faults>>

\* `omdesky access allow': an unknown or shared name is an error.
CliAllow(e, meant, name, grant) ==
    /\ e \in CliRuns /\ grant # "none" /\ name \in NamesOf[meant]
    /\ \E node \in Resolved(name) : Edit(e, grant, node, meant)

(* `omdesky access revoke': such a name is taken for an identity, which    *)
(* has no entry: the file is written as it was, for no device.             *)
CliRevoke(e, meant, name) ==
    /\ e \in CliRuns /\ name \in NamesOf[meant]
    /\ \/ \E node \in Resolved(name) : Edit(e, "none", node, meant)
       \/ Resolved(name) = {} /\ Edit(e, "none", Nobody, Nobody)

\* The interface allows a device it can connect to, and revokes any.
Connectable(d) == shown # Nobody /\ shown[d].status = "ready"
TuiAllow(e, d) == e \in TuiTasks /\ Connectable(d) /\ Edit(e, "full", d, d)
TuiRevoke(e, d) == e \in TuiTasks /\ shown # Nobody /\ Edit(e, "none", d, d)

InStore(e) == edit[e] # Nobody /\ edit[e].step = "store"
SameProcess(e, f) == e = f \/ {e, f} \subseteq TuiTasks
BadLocked(e) == InStore(e)
Locked(e) == \E f \in Editors : SameProcess(e, f) /\ InStore(f)

\* allow and revoke take the mutex and read the file.
EditRead(e) ==
    /\ edit[e] # Nobody /\ edit[e].step = "begun"
    /\ ~ Locked(e)
    /\ edit' = [edit EXCEPT ![e].step = "store", ![e].copy = granted]
    /\ crossed' = (crossed \/ \E f \in Editors : ~ SameProcess(e, f) /\ InStore(f))
    /\ UNCHANGED <<granted, expected, others, scan, shown, attempt, outcome, stable, bounds>>

\* An entry replaces the one there was.
Written(e, list) ==
    [d \in Devices |-> IF d = edit[e].node THEN edit[e].grant ELSE list[d]]

(* What to expect of an entry after an edit: that it was done, or that it  *)
(* may have been.                                                          *)
Expected(e, before, d, done) == (IF done THEN {} ELSE before[d]) \cup {edit[e].grant}
Expect(e, done) ==
    /\ intended' = [d \in Devices |->
          IF d = edit[e].node THEN Expected(e, intended, d, done)
          ELSE intended[d]]
    /\ wanted' = [d \in Devices |->
          IF d = edit[e].meant THEN Expected(e, wanted, d, done) ELSE wanted[d]]
    /\ asked' = [d \in Devices |->
          IF d = edit[e].meant THEN Expected(e, asked, d, FALSE) ELSE asked[d]]

EditWrite(e) ==
    /\ InStore(e)
    /\ granted' = Written(e, edit[e].copy)
    /\ Expect(e, TRUE)
    /\ edit' = [edit EXCEPT ![e] = Nobody]
    /\ Disturb
    /\ UNCHANGED <<crossed, others, shown, bounds>>

\* The file cannot be read.
ReadFails(e) ==
    /\ edit[e] # Nobody /\ edit[e].step = "begun"
    /\ Fault
    /\ edit' = [edit EXCEPT ![e] = Nobody]
    /\ UNCHANGED <<file, others, scan, shown, attempt, outcome, stable, changes>>

(* The new file cannot be written; or it has replaced the old one, and     *)
(* only then does sync_directory fail.  Either way the edit is an error.   *)
WriteFails(e) ==
    /\ InStore(e) /\ Fault
    /\ \/ UNCHANGED <<granted, scan, attempt, outcome, stable>>
       \/ granted' = Written(e, edit[e].copy) /\ Disturb
    /\ Expect(e, FALSE)
    /\ edit' = [edit EXCEPT ![e] = Nobody]
    /\ UNCHANGED <<crossed, others, shown, changes>>

-----------------------------------------------------------------------------
(* The other computers, and the agent of this one.                         *)
HostChanges(d, grant) ==
    /\ changes < MaxChanges /\ grant # hosts[d]
    /\ hosts' = [hosts EXCEPT ![d] = grant]
    /\ changes' = changes + 1
    /\ Disturb
    /\ UNCHANGED <<file, agent, edit, shown, faults>>

AgentChanges(d, state) ==
    /\ changes < MaxChanges /\ state # agent[d]
    /\ d = Here => state # "offline"
    /\ agent' = [agent EXCEPT ![d] = state]
    /\ changes' = changes + 1
    /\ Disturb
    /\ UNCHANGED <<file, hosts, edit, shown, faults>>

-----------------------------------------------------------------------------
(* DiscoverNodes::execute.  The allowlist is read first; one that cannot   *)
(* be read counts as empty.                                                *)
Scanning(list, clean) == [list |-> list, found |-> [d \in {} |-> 0], clean |-> clean]
ScanBegin ==
    /\ scan = Nobody
    /\ \/ scan' = Scanning(granted, TRUE) /\ UNCHANGED faults
       \/ scan' = Scanning([d \in Devices |-> "none"], FALSE) /\ Fault
    /\ UNCHANGED <<file, others, edit, shown, attempt, outcome, stable, changes>>

\* missing_callback_capabilities.
CallbackMissing(grant) == grant # "full"

BadDenied(d, answered) == {}
Denied(d, answered) ==
    IF answered /\ hosts[d] # "full" THEN {[code |-> "denied", side |-> "remote"]} ELSE {}
NeedsAccess(d, list) ==
    IF CallbackMissing(list[d]) THEN {[code |-> "needs_access", side |-> "local"]} ELSE {}
\* incompatible_blocker: the older release is the one to replace; the agent
\* of this computer is to be restarted.
Incompatible(d) ==
    {[code |-> "incompatible",
      side |-> IF d = Here \/ agent[d] = "newer" THEN "local" ELSE "remote"]}

(* What probe makes of a device.  A request for its description that fails *)
(* otherwise than by a refusal says nothing about access.  This computer   *)
(* is probed like the others, but needs no access to itself.               *)
Blockers(d, list, answered) ==
    IF agent[d] # "same" THEN Incompatible(d)
    ELSE IF d = Here THEN {}
    ELSE Denied(d, answered) \cup NeedsAccess(d, list)
Probed(d, list, answered) ==
    CASE agent[d] = "offline" -> [status |-> "offline", blockers |-> {}]
      [] agent[d] = "down" -> [status |-> "unavailable", blockers |-> {}]
      [] OTHER -> LET blockers == Blockers(d, list, answered)
                  IN [status |-> IF blockers = {} THEN "ready" ELSE "blocked",
                      blockers |-> blockers]

\* This computer is probed first, then the others concurrently.
Probe(d) ==
    /\ scan # Nobody /\ d \notin DOMAIN scan.found
    /\ d = Here \/ Here \in DOMAIN scan.found
    /\ \E answered \in BOOLEAN :
          /\ IF answered THEN UNCHANGED faults ELSE Fault
          /\ scan' = [scan EXCEPT
                !.found = [x \in DOMAIN scan.found \cup {d} |->
                    IF x = d THEN Probed(d, scan.list, answered) ELSE scan.found[x]],
                !.clean = @ /\ answered]
    /\ UNCHANGED <<file, others, edit, shown, attempt, outcome, stable, changes>>

ScanEnd ==
    /\ scan # Nobody /\ DOMAIN scan.found = Computers
    /\ shown' = scan.found /\ stable' = scan.clean
    /\ scan' = Nobody
    /\ UNCHANGED <<file, others, edit, attempt, outcome, bounds>>

-----------------------------------------------------------------------------
(* A connection: ensure_controller_ready, then CallbackAccess::verify,     *)
(* sunshine_status and verify_agents of execute_with_started.              *)
ConnectBegin(d) ==
    /\ attempt = Nobody
    /\ attempt' = [node |-> d, step |-> "ready", clean |-> TRUE]
    /\ outcome' = Nobody
    /\ UNCHANGED <<file, others, edit, scan, shown, stable, bounds>>

Doing(step) == attempt # Nobody /\ attempt.step = step
ConnectEnds(result) ==
    /\ outcome' = IF attempt.clean THEN [node |-> attempt.node, result |-> result]
                                   ELSE Nobody
    /\ attempt' = Nobody
ConnectGoes(step) == attempt' = [attempt EXCEPT !.step = step] /\ UNCHANGED outcome

(* An answer is lost, or the allowlist cannot be read.                     *)
ConnectFails ==
    /\ attempt # Nobody /\ Fault
    /\ attempt' = Nobody /\ outcome' = Nobody
    /\ UNCHANGED <<file, others, edit, scan, shown, stable, changes>>

CheckReady ==
    /\ Doing("ready")
    /\ CASE agent[Here] = "down" -> ConnectEnds("local_down")
         [] agent[Here] \in {"older", "newer"} -> ConnectEnds("local_incompatible")
         [] OTHER -> ConnectGoes("callbacks")
    /\ UNCHANGED <<file, others, edit, scan, shown, stable, bounds>>

CheckCallbacks ==
    /\ Doing("callbacks")
    /\ IF CallbackMissing(granted[attempt.node]) THEN ConnectEnds("needs_access")
                                                 ELSE ConnectGoes("status")
    /\ UNCHANGED <<file, others, edit, scan, shown, stable, bounds>>

\* The agent refuses another release before it looks at who asks.
CheckStatus ==
    /\ Doing("status")
    /\ LET d == attempt.node
       IN CASE agent[d] \in {"offline", "down"} -> ConnectEnds("unreachable")
            [] agent[d] \in {"older", "newer"} -> ConnectEnds("incompatible")
            [] agent[d] = "same" /\ hosts[d] # "full" -> ConnectEnds("denied")
            [] OTHER -> ConnectGoes("agents")
    /\ UNCHANGED <<file, others, edit, scan, shown, stable, bounds>>

(* Both agents' health is asked for at once; the local one's is looked at  *)
(* first.  An agent of any release answers.                                *)
CheckAgents ==
    /\ Doing("agents")
    /\ CASE agent[Here] = "down" -> ConnectEnds("local_down")
         [] agent[Here] # "down" /\ agent[attempt.node] \in {"offline", "down"} ->
               ConnectEnds("unreachable")
         [] OTHER -> ConnectEnds("launched")
    /\ UNCHANGED <<file, others, edit, scan, shown, stable, bounds>>

-----------------------------------------------------------------------------
Editing(e) ==
    \/ EditRead(e) \/ EditWrite(e) \/ ReadFails(e) \/ WriteFails(e)
    \/ \E d \in Devices :
          \/ TuiAllow(e, d) \/ TuiRevoke(e, d)
          \/ \E name \in NamesOf[d] :
                CliRevoke(e, d, name) \/ \E grant \in Grants : CliAllow(e, d, name, grant)

Elsewhere ==
    \/ \E d \in Devices, grant \in {"none", "full"} : HostChanges(d, grant)
    \/ \E d \in Computers, state \in Agents : AgentChanges(d, state)

Next ==
    \/ \E e \in Editors : Editing(e)
    \/ Elsewhere
    \/ ScanBegin \/ ScanEnd \/ \E d \in Computers : Probe(d)
    \/ \E d \in Devices : ConnectBegin(d)
    \/ ConnectFails
    \/ CheckReady \/ CheckCallbacks \/ CheckStatus \/ CheckAgents

Spec == Init /\ [][Next]_vars

-----------------------------------------------------------------------------
(***************************************************************************)
(* Properties                                                              *)
(***************************************************************************)

(* Types.                                                                  *)
TypeOK ==
    /\ {granted, hosts} \subseteq [Devices -> Grants]
    /\ {intended, wanted, asked} \subseteq [Devices -> SUBSET Grants]
    /\ agent \in [Computers -> Agents]
    /\ shown \in [Computers -> Listed] \cup {Nobody}
    /\ outcome \in [node : Devices, result : Results] \cup {Nobody}
    /\ {crossed, stable} \subseteq BOOLEAN

(* allow and revoke read, change and write the file.  As long as no edits  *)
(* of two processes overlap, an edit that reported success has been done   *)
(* and stays done until its device is edited again, and one that reported  *)
(* an error has been done, too, or not at all: no other edit undoes it,    *)
(* redoes it or takes its change along, however the tasks of a process are *)
(* interleaved.                                                            *)
ChangesAreKept == ~ crossed => \A d \in Devices : granted[d] \in intended[d]

(* "A command-line target must name a device exactly": a device has in the *)
(* allowlist only what some edit meant for it asked for, also when devices *)
(* share a name, and `omdesky devices' shows the shared one in the command *)
(* it tells the user to run.  This holds even of edits of two processes    *)
(* that overlap, though one of them may put back what was revoked          *)
(* meanwhile; unless they do, a device has only what was asked for it      *)
(* last.                                                                   *)
OnlyMeantIsGranted ==
    \A d \in Devices : granted[d] # "none" =>
        granted[d] \in asked[d] /\ (~ crossed => granted[d] \in wanted[d])

(* "A connection is refused until both entries exist, and `omdesky         *)
(* devices' shows which side is missing": discovery asks for a device's    *)
(* description and reads the allowlist early, a connection asks for its    *)
(* Sunshine's state and reads it late, and both judge the agent of this    *)
(* computer.  Yet they agree.  If nothing has changed or failed since the  *)
(* scan began, a device is let through exactly if it and this computer are *)
(* shown ready; it is refused on account of this computer exactly if that  *)
(* is not; and otherwise the reason is among those shown with the device,  *)
(* or its release is.                                                      *)
ListingExplainsOutcome ==
    (stable /\ shown # Nobody /\ outcome # Nobody) =>
        LET seen == shown[outcome.node]
            codes == {b.code : b \in seen.blockers}
            here == shown[Here].status
        IN /\ outcome.result = "launched" <=> seen.status = "ready" /\ here = "ready"
           /\ outcome.result = "local_down" <=> here = "unavailable"
           /\ outcome.result = "local_incompatible" <=> here = "blocked"
           /\ outcome.result \in Codes /\ seen.status = "blocked" =>
                 outcome.result \in codes \/ "incompatible" \in codes
=============================================================================
