-------------------------------- MODULE Gate --------------------------------
(***************************************************************************)
(* What a command passes before the agent carries it out: the token bucket *)
(* of its source address and, once the source is identified and found in   *)
(* the allowlist, the memory of request identifiers                        *)
(* (crates/omdesky-agent/src/lib.rs, authorize and run_command; RateLimiter *)
(* and ReplayGuard).  The two keep their own clocks, which go together.    *)
(*                                                                         *)
(* Requests are told apart by where they come from.  A request may arrive  *)
(* any number of times, and every arrival costs its source a token.        *)
(***************************************************************************)
EXTENDS RateLimiter, ReplayGuard, Functions

CONSTANTS From,      \* the address a request comes from
          MaxCheck,  \* bound: time from the bucket to the memory
          MaxPasses  \* bound: arrivals with a token

VARIABLE passing     \* requests that have a token and are being authorized

gateVars == <<limiterVars, guardVars, passing>>

ASSUME FromAssumption == From \in [Requests -> Sources] /\ {MaxCheck, MaxPasses} \subseteq Nat
ASSUME HandlersAssumption == IsFiniteSet(Handlers)
ASSUME HorizonAssumption == Horizon = MaxTime

GateInit == LimiterInit /\ GuardInit /\ passing = [h \in Handlers |-> NoArrival]

\* since counts from the beginning.
Passes == SumFunction([s \in Sources |-> since[s][0]])
Idle(h) == ~ Waiting(h) /\ passing[h] = NoArrival

\* The sender's clock is right here; ReplayGuard is about clocks that are not.
NewRequest(r) == Issue(r, 0) /\ UNCHANGED <<limiterVars, passing>>

BadPass(h, r) ==
    /\ Idle(h) /\ r \in sent
    /\ passing' = [passing EXCEPT ![h] = [req |-> r, now |-> instant]]
    /\ UNCHANGED <<limiterVars, guardVars>>

\* authorize: the bucket has a token.
Pass(h, r) ==
    /\ Idle(h) /\ r \in sent /\ Passes < MaxPasses
    /\ Admit(From[r])
    /\ passing' = [passing EXCEPT ![h] = [req |-> r, now |-> instant]]
    /\ UNCHANGED guardVars

\* RATE_LIMITED: the request goes no further.
Turned(h, r) ==
    /\ Idle(h) /\ r \in sent
    /\ Refuse(From[r])
    /\ UNCHANGED <<guardVars, passing>>

\* The command is recent, and looked up.
Enter(h) ==
    /\ passing[h] # NoArrival
    /\ Arrive(h, passing[h].req)
    /\ passing' = [passing EXCEPT ![h] = NoArrival]
    /\ UNCHANGED limiterVars

\* The source is not allowed, the request is stale or its client is gone.
Leave(h) ==
    /\ passing[h] # NoArrival
    /\ passing' = [passing EXCEPT ![h] = NoArrival]
    /\ UNCHANGED <<limiterVars, guardVars>>

Saturated(h) == AdmitSaturated(h) /\ UNCHANGED <<limiterVars, passing>>
Recorded(h) == AdmitRecorded(h) /\ UNCHANGED <<limiterVars, passing>>

Tick ==
    /\ \A h \in Handlers : passing[h] # NoArrival => clock - passing[h].now < MaxCheck
    /\ LimiterTick /\ GuardTick
    /\ UNCHANGED passing

GateNext ==
    \/ \E r \in Requests : NewRequest(r)
    \/ \E h \in Handlers, r \in Requests : Pass(h, r) \/ Turned(h, r)
    \/ \E h \in Handlers : Enter(h) \/ Leave(h) \/ Saturated(h) \/ Recorded(h)
    \/ Tick

GateSpec == GateInit /\ [][GateNext]_gateVars

-----------------------------------------------------------------------------
(***************************************************************************)
(* Properties                                                              *)
(***************************************************************************)

(* The types of both.                                                      *)
GateTypeOK ==
    /\ LimiterTypeOK /\ GuardTypeOK
    /\ passing \in [Handlers -> Arrival \cup {NoArrival}]
    /\ instant = clock

(* One device cannot fill the memory of identifiers and so have the        *)
(* commands of all others refused: it records at most what its bucket lets *)
(* through in the window and the time a command takes from its token to    *)
(* its instant, although identifiers are only forgotten when another is    *)
(* looked up, with an instant read before the wait for the mutex.          *)
Longest == IF MaxDelay < Window - 1 THEN Window - 1 ELSE MaxDelay
Flood == Burst + Refills(Longest + MaxCheck)
OneSourceCannotFill ==
    \A s \in Sources : Cardinality({r \in DOMAIN seen : From[r] = s}) <= Flood
=============================================================================
