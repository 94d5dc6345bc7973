----------------------------- MODULE PairStream -----------------------------
(***************************************************************************)
(* Pairing a stream, from the controller's side:                           *)
(* crates/omdesky-application/src/services.rs (PairStream::execute) with   *)
(* the Moonlight adapter's begin_pairing and complete, the Sunshine        *)
(* adapter's submit_pairing_pin, and the agent's handlers and challenges   *)
(* of PairingChallenges.                                                   *)
(*                                                                         *)
(* Every device runs one attempt at a time: it asks Moonlight whether the  *)
(* host is paired, asks the agent for Sunshine's status and a challenge,   *)
(* starts `moonlight pair', waits for it to print its PIN, has the agent   *)
(* submit the PIN, waits for Moonlight to exit and asks it again.  Every   *)
(* wait has its own limit.  The attempts of the other devices are, to the  *)
(* agent, requests at its two routes.                                      *)
(***************************************************************************)
EXTENDS PairingChallenges

CONSTANTS Pairing,            \* the devices whose attempts are followed
          RequestTimeout,     \* REQUEST_TIMEOUT of the agent client
          PinTimeout,         \* PAIRING_TIMEOUT
          CompletionTimeout   \* PAIRING_COMPLETION_TIMEOUT

VARIABLES attempt,   \* the attempt of each device
          child,     \* its `moonlight pair' process
          trusted,   \* devices Sunshine streams to
          doubled    \* a history: the identifiers that their own devices
                     \* presented outside the attempt they were issued for

pairVars == <<attempt, child, trusted, doubled>>
vars == <<challengeVars, pairVars>>

ASSUME TimeoutAssumption ==
    /\ Pairing \subseteq Owners
    /\ RequestTimeout \in Nat /\ PinTimeout \in Nat /\ CompletionTimeout \in Nat
\* 20 s and two short waits are less than 120 s.
ASSUME LifeAssumption == PinTimeout + 2 * MaxDelay < Ttl

Stages == {"idle", "status", "challenge", "spawn", "pin", "pair", "complete",
           "check", "paired", "failed"}
\* handler: the agent's handler that answers the attempt's request.
Attempt == [stage : Stages, since : Times, id : Ids \cup {NoCall},
            handler : Handlers \cup {NoCall}]
\* A process that runs, has printed its PIN, or is gone.
ChildStates == {"none", "running", "prompting", "exited"}

InStage(o, stage) == attempt[o].stage = stage
Ended(o) == attempt[o].stage \in {"idle", "paired", "failed"}
Attempting(stage) == [stage |-> stage, since |-> clock, id |-> NoCall, handler |-> NoCall]
Go(o, stage) == attempt' = [attempt EXCEPT ![o] = Attempting(stage)]
\* An attempt that is over keeps nothing but its result.
Over(result) == [stage |-> result, since |-> 0, id |-> NoCall, handler |-> NoCall]
End(o, result) == attempt' = [attempt EXCEPT ![o] = Over(result)]
\* It goes on with the challenge it has, and h answers what it asks, if anything.
GoingOn(o, stage, h) == [stage |-> stage, since |-> clock, id |-> attempt[o].id, handler |-> h]
Elapsed(o) == clock - attempt[o].since

-----------------------------------------------------------------------------
Init ==
    /\ ChallengesInit
    /\ attempt = [o \in Pairing |-> Over("idle")]
    /\ child = [o \in Pairing |-> "none"]
    /\ trusted = {}
    /\ doubled = {}

\* `moonlight list': it answers for a host that is paired, and may be missing.
PairingState(o) == o \in trusted

AskPaired(o) ==
    /\ Ended(o)
    /\ \/ PairingState(o) /\ End(o, "paired")
       \/ ~ PairingState(o) /\ Go(o, "status")
       \/ End(o, "failed")
    /\ UNCHANGED <<challengeVars, child, trusted, doubled>>

\* The agent is out of reach, or Sunshine or its credentials are missing.
StatusRefuses(o) ==
    /\ InStage(o, "status")
    /\ End(o, "failed")
    /\ UNCHANGED <<challengeVars, child, trusted, doubled>>

\* The handler that takes the request of an attempt.
Ask(o, h, stage) == attempt' = [attempt EXCEPT ![o] = GoingOn(o, stage, h)]

AskChallenge(o, h) ==
    /\ InStage(o, "status")
    /\ IssueBegin(h, o)
    /\ Ask(o, h, "challenge")
    /\ UNCHANGED <<child, trusted, doubled>>

\* kill_on_drop, or reap: start_kill and a wait.
Reap(o) == child' = [child EXCEPT ![o] = "none"]

(***************************************************************************)
(* What the attempt served by h makes of its answer.  An answer may be     *)
(* lost, and then the attempt waits for REQUEST_TIMEOUT.  A refusal        *)
(* returns from execute with `?', which drops the pending pairing and so   *)
(* kills its process.                                                      *)
(***************************************************************************)
Served(h) == {o \in Pairing : attempt[o].handler = h}

Accepted(o, stage, id) ==
    /\ attempt' = [attempt EXCEPT ![o] =
          [stage |-> stage, since |-> clock, id |-> id, handler |-> NoCall]]
    /\ UNCHANGED child

Refused(o) == End(o, "failed") /\ Reap(o)

\* The attempt goes on waiting, for a handler that no longer exists.
Lost(o) ==
    /\ attempt' = [attempt EXCEPT ![o] =
          [stage |-> @.stage, since |-> @.since, id |-> @.id, handler |-> NoCall]]
    /\ UNCHANGED child

\* A handler that has not ended, or serves no attempt, tells nobody.
Silent(h) == Served(h) = {} \/ call'[h] # NoCall

AgentAdmits(h) ==
    /\ AdmitIssue(h)
    /\ \/ Silent(h) /\ UNCHANGED <<attempt, child>>
       \/ ~ Silent(h) /\ \E o \in Served(h) : Refused(o) \/ Lost(o)
    /\ UNCHANGED <<trusted, doubled>>

AgentIssues(h) ==
    /\ InsertChallenge(h)
    /\ LET new == DOMAIN drawn' \ DOMAIN drawn
       IN \/ Silent(h) /\ UNCHANGED <<attempt, child>>
          \/ \E o \in Served(h) :
                \/ \E i \in new : Accepted(o, "spawn", i)
                \/ new = {} /\ Refused(o)
                \/ Lost(o)
    /\ UNCHANGED <<trusted, doubled>>

\* begin_pairing starts the process, or does not find the program.
Spawn(o) ==
    /\ InStage(o, "spawn")
    /\ \/ /\ attempt' = [attempt EXCEPT ![o] = GoingOn(o, "pin", NoCall)]
          /\ child' = [child EXCEPT ![o] = "running"]
       \/ End(o, "failed") /\ UNCHANGED child
    /\ UNCHANGED <<challengeVars, trusted, doubled>>

(* read_pin finds the PIN in a line, and the agent is asked to submit it.  *)
ReadPin(o, h) ==
    /\ InStage(o, "pin")
    /\ child[o] = "running"
    /\ child' = [child EXCEPT ![o] = "prompting"]
    /\ ConsumeBegin(h, o, attempt[o].id)
    /\ Ask(o, h, "pair")
    /\ UNCHANGED <<trusted, doubled>>

BadNoPin(o) ==
    /\ InStage(o, "pin")
    /\ child[o] = "exited" \/ Elapsed(o) >= PinTimeout
    /\ End(o, "failed")
    /\ UNCHANGED <<challengeVars, child, trusted, doubled>>

(* The output ends without a PIN, or PAIRING_TIMEOUT passes first.         *)
NoPin(o) ==
    /\ InStage(o, "pin")
    /\ child[o] = "exited" \/ Elapsed(o) >= PinTimeout
    /\ End(o, "failed") /\ Reap(o)
    /\ UNCHANGED <<challengeVars, trusted, doubled>>

AgentConsumes(h) ==
    /\ Consume(h)
    /\ \/ Silent(h) /\ UNCHANGED <<attempt, child>>
       \/ ~ Silent(h) /\ \E o \in Served(h) : Refused(o) \/ Lost(o)
    /\ UNCHANGED <<trusted, doubled>>

(* Sunshine accepts the PIN.  It trusts the device from then on if the     *)
(* Moonlight that shows the PIN is still there to finish the exchange.  An *)
(* attempt submits the PIN of its own child; the PIN of another request is *)
(* that of a Moonlight which may be there or not.                          *)
SunshinePairs(h) ==
    \/ trusted' = trusted \cup {o \in Served(h) : child[o] = "prompting"}
    \/ Served(h) = {} /\ trusted' = trusted \cup ({call[h].owner} \cap Pairing)

AgentSubmits(h) ==
    /\ SubmitPin(h)
    /\ SunshinePairs(h)
    /\ UNCHANGED doubled
    /\ \/ Silent(h) /\ UNCHANGED <<attempt, child>>
       \/ \E o \in Served(h) :
             Accepted(o, "complete", attempt[o].id) \/ Lost(o)

AgentAbandons(h) ==
    /\ Abandon(h)
    /\ \/ Silent(h) /\ UNCHANGED <<attempt, child>>
       \/ \E o \in Served(h) : Refused(o) \/ Lost(o)
    /\ UNCHANGED <<trusted, doubled>>

\* The agent client gives up on an answer.
AnswerTimesOut(o) ==
    /\ attempt[o].stage \in {"challenge", "pair"}
    /\ Elapsed(o) >= RequestTimeout
    /\ Refused(o)
    /\ UNCHANGED <<challengeVars, trusted, doubled>>

\* Moonlight ends: paired, or closed by its user, or failed.
ChildExits(o) ==
    /\ child[o] \in {"running", "prompting"}
    /\ child' = [child EXCEPT ![o] = "exited"]
    /\ UNCHANGED <<challengeVars, attempt, trusted, doubled>>

BadComplete(o) ==
    /\ InStage(o, "complete")
    /\ child[o] = "exited" \/ Elapsed(o) >= CompletionTimeout
    /\ End(o, "paired") /\ Reap(o)
    /\ UNCHANGED <<challengeVars, trusted, doubled>>

(* complete: the exit status is not looked at; a process that outlives     *)
(* the limit is killed.                                                    *)
Complete(o) ==
    /\ InStage(o, "complete")
    /\ \/ child[o] = "exited" /\ Go(o, "check")
       \/ Elapsed(o) >= CompletionTimeout /\ End(o, "failed")
    /\ Reap(o)
    /\ UNCHANGED <<challengeVars, trusted, doubled>>

CheckPaired(o) ==
    /\ InStage(o, "check")
    /\ \/ PairingState(o) /\ End(o, "paired")
       \/ End(o, "failed")
    /\ UNCHANGED <<challengeVars, child, trusted, doubled>>

(* Requests outside an attempt: any device may ask for a challenge, and    *)
(* may present any that was drawn, its own too, again and while another    *)
(* handler has the same one.                                               *)
OtherIssue(h, o) == IssueBegin(h, o) /\ UNCHANGED pairVars
OtherConsume(h, o, i) ==
    /\ ConsumeBegin(h, o, i)
    /\ doubled' = IF drawn[i].owner = o THEN doubled \cup {i} ELSE doubled
    /\ UNCHANGED <<attempt, child, trusted>>

\* An attempt works through its own steps at once and never past a limit.
Limit(o) ==
    CASE attempt[o].stage \in {"challenge", "pair"} -> RequestTimeout
      [] InStage(o, "pin") -> PinTimeout
      [] InStage(o, "complete") -> CompletionTimeout
      [] OTHER -> 0
Patient(o) == Ended(o) \/ Elapsed(o) < Limit(o)

Tick ==
    /\ \A o \in Pairing : Patient(o)
    /\ ChallengesTick
    /\ UNCHANGED pairVars

Client(o) ==
    \/ AskPaired(o) \/ StatusRefuses(o) \/ Spawn(o) \/ NoPin(o)
    \/ AnswerTimesOut(o) \/ ChildExits(o) \/ Complete(o) \/ CheckPaired(o)
    \/ \E h \in Handlers : AskChallenge(o, h) \/ ReadPin(o, h)

Agent(h) ==
    AgentAdmits(h) \/ AgentIssues(h) \/ AgentConsumes(h) \/ AgentSubmits(h)
        \/ AgentAbandons(h)

Next ==
    \/ \E o \in Pairing : Client(o)
    \/ \E h \in Handlers : Agent(h)
    \/ \E h \in Handlers, o \in Owners :
          OtherIssue(h, o) \/ \E i \in Ids : OtherConsume(h, o, i)
    \/ Tick

Spec == Init /\ [][Next]_vars

-----------------------------------------------------------------------------
(***************************************************************************)
(* Properties                                                              *)
(***************************************************************************)

(* The state is well typed, that of the challenges included.               *)
TypeOK ==
    /\ ChallengesTypeOK
    /\ attempt \in [Pairing -> Attempt]
    /\ child \in [Pairing -> ChildStates]
    /\ trusted \subseteq Pairing
    /\ doubled \subseteq DOMAIN drawn

(* The process that begin_pairing starts never outlives the attempt, on    *)
(* whichever of its ten returns it ends: a Moonlight that goes on showing  *)
(* a PIN would have the next attempt's PIN refused.                        *)
ChildReaped ==
    \A o \in Pairing :
        attempt[o].stage \notin {"pin", "pair", "complete"} => child[o] = "none"

(* The challenge is taken before Moonlight is asked for its PIN, so its    *)
(* life runs while a process starts and a person watches.  A PIN that is   *)
(* printed within PAIRING_TIMEOUT is submitted while its challenge has     *)
(* time left, and finds it valid when consume looks it up, whatever        *)
(* others' requests pruned meanwhile and however old the instants they     *)
(* pruned by; unless the device itself presented it in another request,    *)
(* which may have used it up.                                              *)
ChallengeOutlivesPin ==
    \A o \in Pairing : \A h \in Handlers :
        attempt[o].handler = h /\ At(h, "consume") =>
            /\ drawn[attempt[o].id].expires > call[h].now
            /\ \/ attempt[o].id \in doubled
               \/ Valid(o, attempt[o].id, Unexpired(call[h].now))

(* An attempt that reports success ends in a device Sunshine does trust,   *)
(* and it trusts it by an approval with that device's own challenge,       *)
(* although complete does not look at Moonlight's exit status.             *)
PairedIsApproved ==
    \A o \in Pairing : InStage(o, "paired") =>
        /\ o \in trusted
        /\ \E i \in DOMAIN drawn : drawn[i].owner = o /\ approvals[i] = <<o>>
=============================================================================
