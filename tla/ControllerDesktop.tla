--------------------------- MODULE ControllerDesktop ---------------------------
(***************************************************************************)
(* What the programs of one desktop share while it controls others: the    *)
(* record of the current session (crates/omdesky-platform/src/             *)
(* session_record.rs), the table of session key bindings in Hyprland       *)
(* (input.rs) and the process table.  `omdesky connect', the terminal user *)
(* interface, `omdesky disconnect' (crates/omdesky-cli/src/main.rs) and    *)
(* the desktop's own agent run side by side and none locks anything.       *)
(*                                                                         *)
(* A connect runs once; the remote agent is reduced to the answer of the   *)
(* attach (ConnectSession has the rest).  A process is told apart from     *)
(* another of the same pid by its birth, as by its start time in the code. *)
(***************************************************************************)
EXTENDS Naturals, FiniteSets

CONSTANTS Connects,        \* runs of connect
          Launches,        \* how they are started: functions to Kinds
          Pids,            \* process numbers
          NoPid, NoRecord, NoBinds, Free, Stranger, Agent, Disconnecting,
          MaxBirths,       \* bound: processes that start
          MaxOthers,       \* bound: runs of disconnect, sessions and restarts of
                           \* the agent here
          MaxFaults        \* bound: writes, commands and processes that fail

VARIABLES pc,              \* where each connect is
          kind,            \* how it was started: [cli, remote]
          granted,         \* connects whose attach was granted
          pidOf,           \* the pid of its Moonlight
          table,           \* pid -> process
          births,          \* processes started so far
          record,          \* the session file
          binds,           \* whose key bindings Hyprland has
          hosted,          \* this desktop's agent has a session of its own
          alone,           \* the session no other one has overlapped, as a set
          disc,            \* the run of disconnect
          stale,           \* removers whose last look at the file is out of date
          others, faults,
          spoiled          \* connects that were killed or whose hyprctl failed

fileVars == <<record, stale>>
bindVars == <<binds, hosted, alone>>
procVars == <<table, births, pidOf>>
bounds == <<others, faults>>
vars == <<pc, kind, granted, procVars, fileVars, bindVars, disc, bounds, spoiled>>

Kinds == [cli : BOOLEAN, remote : BOOLEAN]
Process == [birth : 1 .. MaxBirths, owner : Connects \cup {Stranger},
            state : {"runs", "signalled", "zombie"}]
Supervised == [pid : Pids, birth : 1 .. MaxBirths]
Record == [id : Connects, moonlight : Supervised \cup {NoPid}]
NoRun == [step |-> "idle", seen |-> NoRecord, at |-> 0]
Phases == {"idle", "checking", "launched", "attaching", "undoing", "started", "waiting",
           "detaching", "finishing", "removing", "done", "dead"}

ASSUME ParameterAssumption ==
    /\ IsFiniteSet(Connects) /\ IsFiniteSet(Pids) /\ Launches \subseteq [Connects -> Kinds]
    /\ NoPid \notin Pids \cup Supervised /\ NoRecord \notin Record
    /\ Free \notin Process /\ Stranger \notin Connects
    /\ {Agent, NoBinds, Disconnecting} \cap Connects = {} /\ Agent # NoBinds
    /\ {MaxBirths, MaxOthers, MaxFaults} \subseteq Nat

Fault == faults < MaxFaults /\ faults' = faults + 1
Goto(c, phase) == pc' = [pc EXCEPT ![c] = phase]
\* A connect that has, or asks for, the shortcuts of a session.
InSession(c) == pc[c] \in {"attaching", "undoing"} \/
                (c \in granted /\ pc[c] \in {"started", "waiting", "detaching"})

-----------------------------------------------------------------------------
Init ==
    /\ pc = [c \in Connects |-> "idle"]
    /\ kind \in Launches
    /\ granted = {} /\ pidOf = [c \in Connects |-> NoPid]
    /\ table = [p \in Pids |-> Free] /\ births = 0
    /\ record = NoRecord /\ stale = {}
    /\ binds = NoBinds /\ hosted = FALSE /\ alone = {}
    /\ disc = NoRun
    /\ others = 0 /\ faults = 0 /\ spoiled = {}

(* The session file.  atomic_write_json renames a finished file into       *)
(* place; it fails before that, or after it, when the directory cannot be  *)
(* synced: nobody acts on the error.  Whoever looked at the file before    *)
(* has an outdated view from then on.                                      *)
Removers == {c \in Connects : pc[c] = "removing"} \cup
            IF disc.step = "removing" THEN {Disconnecting} ELSE {}
Write(c, moonlight) ==
    \/ /\ record' = [id |-> c, moonlight |-> moonlight]
       /\ stale' = stale \cup Removers
       /\ UNCHANGED faults \/ Fault
    \/ Fault /\ UNCHANGED fileVars
\* remove_if_owned looks first ...
Owned(id) == record # NoRecord /\ record.id = id
\* ... and then removes what is there.
Remove(who) ==
    /\ record' = NoRecord
    /\ stale' = (stale \cup Removers) \ {who}

-----------------------------------------------------------------------------
(* connect: the first record; the terminal user interface keeps none.      *)
Begin(c) ==
    /\ pc[c] = "idle"
    /\ Goto(c, "checking")
    /\ IF kind[c].cli THEN Write(c, NoPid) ELSE UNCHANGED <<fileVars, faults>>
    /\ UNCHANGED <<kind, granted, procVars, bindVars, disc, others, spoiled>>

AfterStream(c) == IF kind[c].cli THEN "finishing" ELSE "done"

BadCheckFails(c) ==
    /\ pc[c] = "checking"
    /\ Fault
    /\ Goto(c, "done")
    /\ UNCHANGED <<kind, granted, procVars, fileVars, bindVars, disc, others,
                   spoiled>>

\* execute_with_started returns before it launches anything.
CheckFails(c) ==
    /\ pc[c] = "checking"
    /\ Fault
    /\ Goto(c, AfterStream(c))
    /\ UNCHANGED <<kind, granted, procVars, fileVars, bindVars, disc, others,
                   spoiled>>

Born(p, owner) ==
    /\ births < MaxBirths /\ table[p] = Free
    /\ births' = births + 1
    /\ table' = [table EXCEPT ![p] =
                    [birth |-> births + 1, owner |-> owner, state |-> "runs"]]

\* StreamClient::launch.
Launch(c, p) ==
    /\ pc[c] = "checking"
    /\ Born(p, c)
    /\ pidOf' = [pidOf EXCEPT ![c] = p]
    /\ Goto(c, IF kind[c].remote THEN "launched" ELSE "started")
    /\ UNCHANGED <<kind, granted, fileVars, bindVars, disc, bounds, spoiled>>

Overlaps(c) == hosted \/ \E o \in Connects \ {c} : InSession(o)

(* attach_session: the bindings of this desktop, whoever had set some      *)
(* before; when hyprctl fails it may have run the script all the same, and *)
(* nothing is undone.                                                      *)
InstallLocal(c) ==
    /\ pc[c] = "launched"
    /\ \/ /\ binds' = c
          /\ alone' = IF Overlaps(c) THEN {} ELSE {c}
          /\ Goto(c, "attaching")
          /\ UNCHANGED <<faults, spoiled>>
       \/ /\ Fault /\ spoiled' = spoiled \cup {c}
          /\ binds' \in {binds, c}
          /\ alone' = {}
          /\ Goto(c, "started")
    /\ UNCHANGED <<kind, granted, procVars, fileVars, hosted, disc, others>>

\* The remote agent's answer.
Attached(c) ==
    /\ pc[c] = "attaching"
    /\ granted' = granted \cup {c}
    /\ Goto(c, "started")
    /\ UNCHANGED <<kind, procVars, fileVars, bindVars, disc, bounds, spoiled>>

BadAttachRefused(c) ==
    /\ pc[c] = "attaching"
    /\ Goto(c, "started")
    /\ UNCHANGED <<kind, granted, procVars, fileVars, bindVars, disc, bounds,
                   spoiled>>

AttachRefused(c) ==
    /\ pc[c] = "attaching"
    /\ Goto(c, "undoing")
    /\ UNCHANGED <<kind, granted, procVars, fileVars, bindVars, disc, bounds,
                   spoiled>>

\* HyprlandSessionKeybinds::clear removes every session binding.
Clear(c) ==
    \/ binds' = NoBinds /\ UNCHANGED <<faults, spoiled>>
    \/ Fault /\ spoiled' = spoiled \cup {c} /\ binds' \in {binds, NoBinds}

Undo(c) ==
    /\ pc[c] = "undoing"
    /\ Clear(c)
    /\ alone' = {}
    /\ Goto(c, "started")
    /\ UNCHANGED <<kind, granted, procVars, fileVars, hosted, disc, others>>

BadObserved(p) == [pid |-> p, birth |-> births]
\* SupervisedProcess::observe: the process cannot have been reaped yet.
Observed(p) == [pid |-> p, birth |-> table[p].birth]

\* on_started.
Started(c) ==
    /\ pc[c] = "started"
    /\ Goto(c, "waiting")
    /\ IF kind[c].cli THEN Write(c, Observed(pidOf[c])) ELSE UNCHANGED <<fileVars, faults>>
    /\ UNCHANGED <<kind, granted, procVars, bindVars, disc, others, spoiled>>

(* wait_for_process_or_monitor: Moonlight has ended, or the monitor gave   *)
(* up on an agent and kills it.  Either way it is reaped.                  *)
StreamOver(c) ==
    /\ pc[c] = "waiting"
    /\ table' = [table EXCEPT ![pidOf[c]] = Free]
    /\ pidOf' = [pidOf EXCEPT ![c] = NoPid]
    /\ Goto(c, IF c \in granted THEN "detaching" ELSE AfterStream(c))
    /\ UNCHANGED <<kind, granted, births, fileVars, bindVars, disc, others, spoiled>>

MoonlightExited(c) ==
    /\ pidOf[c] # NoPid /\ table[pidOf[c]].state = "zombie"
    /\ StreamOver(c)
    /\ UNCHANGED faults
MonitorGaveUp(c) == StreamOver(c) /\ Fault

\* detach_session.
Detach(c) ==
    /\ pc[c] = "detaching"
    /\ Clear(c)
    /\ alone' = {}
    /\ granted' = granted \ {c}
    /\ Goto(c, AfterStream(c))
    /\ UNCHANGED <<kind, procVars, fileVars, hosted, disc, others>>

BadLooksOwn(c) == record # NoRecord
LooksOwn(c) == Owned(c)

\* remove_if_owned, its first half.
Look(c) ==
    /\ pc[c] = "finishing"
    /\ Goto(c, IF LooksOwn(c) THEN "removing" ELSE "done")
    /\ stale' = stale \ {c}
    /\ UNCHANGED <<kind, granted, procVars, record, bindVars, disc, bounds, spoiled>>

RemoveOwn(c) ==
    /\ pc[c] = "removing"
    /\ Remove(c)
    /\ Goto(c, "done")
    /\ UNCHANGED <<kind, granted, procVars, bindVars, disc, bounds, spoiled>>

(* The connect is killed.  What it started and set up stays; an ended      *)
(* Moonlight is reaped by init.                                            *)
Killed(c) ==
    /\ pc[c] \notin {"idle", "done", "dead"}
    /\ Fault
    /\ Goto(c, "dead")
    /\ spoiled' = spoiled \cup {c}
    /\ table' = [p \in Pids |->
                    IF table[p] # Free /\ table[p].owner = c /\ table[p].state = "zombie"
                    THEN Free ELSE table[p]]
    /\ alone' = {}
    /\ granted' = granted \ {c}
    /\ pidOf' = [pidOf EXCEPT ![c] = NoPid]
    /\ UNCHANGED <<kind, births, fileVars, binds, hosted, disc, others>>

-----------------------------------------------------------------------------
(* disconnect.  `at' is how many processes had started when it made sure   *)
(* of the one it is about to signal.                                       *)
DiscRead ==
    /\ disc.step = "idle" /\ others < MaxOthers /\ record # NoRecord
    /\ others' = others + 1
    /\ disc' = [step |-> "judging", seen |-> record, at |-> 0]
    /\ UNCHANGED <<pc, kind, granted, procVars, fileVars, bindVars, faults, spoiled>>

BadStillRunning(m) == table[m.pid] # Free
\* SupervisedProcess::is_still_running.
StillRunning(m) == table[m.pid] # Free /\ table[m.pid].birth = m.birth

\* From then on only the identifier matters.
Judged == [step |-> "looking", seen |-> [disc.seen EXCEPT !.moonlight = NoPid], at |-> 0]

DiscJudge ==
    /\ disc.step = "judging"
    /\ LET m == disc.seen.moonlight IN
       disc' = IF m # NoPid /\ StillRunning(m)
               THEN [disc EXCEPT !.step = "killing", !.at = births]
               ELSE Judged
    /\ UNCHANGED <<pc, kind, granted, procVars, fileVars, bindVars, bounds, spoiled>>

\* terminate_process: kill goes to whatever has the pid by now.
Target == table[disc.seen.moonlight.pid]
DiscKill ==
    /\ disc.step = "killing"
    /\ disc' = Judged
    /\ table' = IF Target # Free /\ Target.state = "runs"
                THEN [table EXCEPT ![disc.seen.moonlight.pid].state = "signalled"]
                ELSE table
    /\ UNCHANGED <<pc, kind, granted, births, pidOf, fileVars, bindVars, bounds,
                   spoiled>>

DiscLook ==
    /\ disc.step = "looking"
    /\ disc' = IF Owned(disc.seen.id) THEN [disc EXCEPT !.step = "removing"] ELSE NoRun
    /\ stale' = stale \ {Disconnecting}
    /\ UNCHANGED <<pc, kind, granted, procVars, record, bindVars, bounds, spoiled>>

DiscRemove ==
    /\ disc.step = "removing"
    /\ Remove(Disconnecting)
    /\ disc' = NoRun
    /\ UNCHANGED <<pc, kind, granted, procVars, bindVars, bounds, spoiled>>

-----------------------------------------------------------------------------
(* Processes end, by themselves or on a signal.  A child waits for its     *)
(* parent; others are gone.                                                *)
ProcessEnds(p) ==
    /\ table[p] # Free /\ table[p].state # "zombie"
    /\ LET o == table[p].owner IN
       table' = [table EXCEPT ![p] =
                    IF o \in Connects /\ pc[o] # "dead" THEN [@ EXCEPT !.state = "zombie"]
                    ELSE Free]
    /\ UNCHANGED <<pc, kind, granted, births, pidOf, fileVars, bindVars, disc,
                   bounds, spoiled>>

(* Some other program starts.  It matters here only where somebody still   *)
(* takes the pid for a Moonlight's.                                        *)
Believed == {r.moonlight.pid : r \in {q \in {record, disc.seen} \ {NoRecord} :
                                         q.moonlight # NoPid}}
StrangerStarts(p) ==
    /\ p \in Believed
    /\ Born(p, Stranger)
    /\ UNCHANGED <<pc, kind, granted, pidOf, fileVars, bindVars, disc, bounds,
                   spoiled>>

(* The agent of this desktop: another device attaches, its session ends,   *)
(* or the agent restarts and clears what it may have left behind.          *)
AgentMove(session, b) ==
    /\ others < MaxOthers /\ others' = others + 1
    /\ hosted' = session
    /\ binds' = b
    /\ alone' = {}
    /\ UNCHANGED <<pc, kind, granted, procVars, fileVars, disc, faults, spoiled>>

AgentAttach == ~hosted /\ AgentMove(TRUE, Agent)
AgentClears == AgentMove(FALSE, NoBinds)

Proceed(c) ==
    \/ \E p \in Pids : Launch(c, p)
    \/ InstallLocal(c) \/ Attached(c) \/ AttachRefused(c) \/ Undo(c) \/ Started(c)
    \/ MoonlightExited(c) \/ Detach(c) \/ Look(c) \/ RemoveOwn(c)
Disconnect == DiscJudge \/ DiscKill \/ DiscLook \/ DiscRemove

Next ==
    \/ \E c \in Connects :
          Begin(c) \/ CheckFails(c) \/ Proceed(c) \/ MonitorGaveUp(c) \/ Killed(c)
    \/ DiscRead \/ Disconnect
    \/ \E p \in Pids : ProcessEnds(p) \/ StrangerStarts(p)
    \/ AgentAttach \/ AgentClears

Spec == Init /\ [][Next]_vars

(* Programs go on once they are under way; a process that has been         *)
(* signalled to stop does.  Nobody owes a start, a fault or an ordinary    *)
(* end of a stream.                                                        *)
Fairness ==
    /\ \A c \in Connects : WF_vars(Proceed(c))
    /\ WF_vars(Disconnect)
    /\ \A p \in Pids : WF_vars(table[p] # Free /\ table[p].state = "signalled"
                               /\ ProcessEnds(p))

FairSpec == Spec /\ Fairness

-----------------------------------------------------------------------------
(* Correctness.                                                            *)

(* Types; a connect that waits for its Moonlight still has the process of  *)
(* that pid, so what on_started observes is its own.                       *)
TypeOK ==
    /\ pc \in [Connects -> Phases] /\ kind \in [Connects -> Kinds]
    /\ granted \subseteq Connects /\ spoiled \subseteq Connects
    /\ pidOf \in [Connects -> Pids \cup {NoPid}]
    /\ table \in [Pids -> Process \cup {Free}] /\ births \in 0 .. MaxBirths
    /\ record \in Record \cup {NoRecord} /\ stale \subseteq Connects \cup {Disconnecting}
    /\ binds \in Connects \cup {Agent, NoBinds} /\ hosted \in BOOLEAN
    /\ alone \subseteq Connects
    /\ disc \in [step : {"idle", "judging", "killing", "looking", "removing"},
                 seen : Record \cup {NoRecord}, at : 0 .. MaxBirths]
    /\ \A c \in Connects : pc[c] \in {"launched", "attaching", "undoing", "started", "waiting"}
          => table[pidOf[c]] # Free /\ table[pidOf[c]].owner = c

(* No record outlives its session: a connect that has finished, with an    *)
(* error or without, has no record left behind, whatever other connects    *)
(* and disconnects did to the file meanwhile.                              *)
NoStaleRecord == record # NoRecord => pc[record.id] \notin {"idle", "done"}

(* A session's record is removed on purpose only: by the connect that      *)
(* wrote it or by a disconnect that read it, except by one that had looked *)
(* before the record was written and removes it without looking again.     *)
RemovedByOwner ==
    [][\A c \in Connects :
          record # NoRecord /\ record.id = c /\ record' = NoRecord =>
              \/ pc[c] = "removing" /\ pc'[c] = "done"
              \/ disc.step = "removing" /\ disc' = NoRun /\ disc.seen.id = c
              \/ \E who \in stale : who \notin stale']_vars

(* disconnect signals no stranger: a process that is not the session's own *)
(* Moonlight is signalled only if it got the pid after disconnect had made *)
(* sure of it, however old the record is.                                  *)
SparesStrangers ==
    [][\A p \in Pids :
          table[p] # Free /\ table[p].state = "runs"
              /\ table'[p] # Free /\ table'[p].state = "signalled" =>
              \/ table[p].owner = disc.seen.id
              \/ table[p].birth > disc.at]_vars

(* The desktop's shortcuts: bindings belong to a session that goes on,     *)
(* unless hyprctl failed or their connect was killed; and a session that   *)
(* no other session or restart of the agent here overlapped has its own.   *)
BindingsMatchSessions ==
    /\ binds \in Connects \ spoiled => InSession(binds)
    /\ binds = Agent => hosted
    /\ \A c \in alone : InSession(c) => binds = c

(* disconnect ends the stream it finds recorded: the connect restores the  *)
(* shortcuts and finishes.                                                 *)
DisconnectEndsStream ==
    \A c \in Connects :
        (disc.step = "judging" /\ disc.seen.id = c /\ disc.seen.moonlight # NoPid)
            ~> pc[c] \in {"done", "dead"}
=============================================================================
