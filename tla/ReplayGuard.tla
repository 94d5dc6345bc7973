----------------------------- MODULE ReplayGuard -----------------------------
(***************************************************************************)
(* The agent's memory of request identifiers:                              *)
(* crates/omdesky-agent/src/replay.rs.  A request carries an identifier    *)
(* and the wall-clock time its sender says it was issued; it may arrive    *)
(* any number of times, at any time.  Each arrival is a handler that reads *)
(* the clocks, waits for the mutex, and then looks the identifier up with  *)
(* the instant it read before it waited.                                   *)
(*                                                                         *)
(* clock is both the agent's wall clock and its monotonic clock: the wall  *)
(* clock is not stepped.  The sender's clock may be ahead or behind.       *)
(***************************************************************************)
EXTENDS Integers, FiniteSets

CONSTANTS Requests,    \* request identifiers
          Handlers,    \* concurrent runs of admit
          NoArrival,   \* a handler that is free
          Window,      \* REQUEST_WINDOW
          Skew,        \* MAX_CLOCK_SKEW
          Capacity,    \* MAX_TRACKED_REQUESTS
          MaxDelay,    \* bound: wait for the mutex
          MaxLead,     \* bound: how far a sender's clock is ahead or behind
          MaxTime      \* bound: time

VARIABLES clock,       \* now
          sent,        \* requests that exist
          issuedAt,    \* issued_at of each request, by its sender's clock
          seen,        \* the map from identifier to the instant it was recorded
          handler,     \* what each handler read before it waits for the mutex
          applied,     \* how often each request was admitted
          appliedAt    \* when it was admitted last

guardVars == <<clock, sent, issuedAt, seen, handler, applied, appliedAt>>

Arrival == [req : Requests, now : Nat]

ASSUME NoArrivalAssumption == NoArrival \notin Arrival
ASSUME GuardAssumption ==
    /\ IsFiniteSet(Requests)
    /\ Window \in Nat /\ Skew \in Nat /\ Capacity \in Nat
    /\ MaxDelay \in Nat /\ MaxLead \in Nat /\ MaxTime \in Nat

Abs(i) == IF i < 0 THEN -i ELSE i
Waiting(h) == handler[h] # NoArrival

-----------------------------------------------------------------------------
GuardInit ==
    /\ clock = 0
    /\ sent = {}
    /\ issuedAt = [r \in Requests |-> 0]
    /\ seen = [r \in {} |-> 0]
    /\ handler = [h \in Handlers |-> NoArrival]
    /\ applied = [r \in Requests |-> 0]
    /\ appliedAt = [r \in Requests |-> 0]

\* CommandRequest::new: a new identifier and the sender's time.
Issue(r, lead) ==
    /\ r \notin sent
    /\ sent' = sent \cup {r}
    /\ issuedAt' = [issuedAt EXCEPT ![r] = clock + lead]
    /\ UNCHANGED <<clock, seen, handler, applied, appliedAt>>

\* MAX_CLOCK_SKEW, in both directions.
Recent(r) == Abs(clock - issuedAt[r]) <= Skew

(* admit up to the mutex.  A stale request is refused here and changes     *)
(* nothing.                                                                *)
Arrive(h, r) ==
    /\ ~Waiting(h)
    /\ r \in sent
    /\ Recent(r)
    /\ handler' = [handler EXCEPT ![h] = [req |-> r, now |-> clock]]
    /\ UNCHANGED <<clock, sent, issuedAt, seen, applied, appliedAt>>

BadRetainedShort(now) == {r \in DOMAIN seen : now - seen[r] < Window - 1}
Retained(now) == {r \in DOMAIN seen : now - seen[r] < Window}
IsFull(S) == Cardinality(S) >= Capacity

\* Too many identifiers are remembered; the ones that are too old are gone.
AdmitSaturated(h) ==
    /\ Waiting(h)
    /\ LET kept == Retained(handler[h].now) IN
          /\ IsFull(kept)
          /\ seen' = [r \in kept |-> seen[r]]
    /\ handler' = [handler EXCEPT ![h] = NoArrival]
    /\ UNCHANGED <<clock, sent, issuedAt, applied, appliedAt>>

(* The identifier is recorded, again if it was there; it is admitted if it *)
(* was not.                                                                *)
AdmitRecorded(h) ==
    /\ Waiting(h)
    /\ LET q == handler[h].req
           now == handler[h].now
           kept == Retained(now)
       IN /\ ~IsFull(kept)
          /\ seen' = [r \in kept \cup {q} |-> IF r = q THEN now ELSE seen[r]]
          /\ IF q \in kept
             THEN UNCHANGED <<applied, appliedAt>>
             ELSE /\ applied' = [applied EXCEPT ![q] = applied[q] + 1]
                  /\ appliedAt' = [appliedAt EXCEPT ![q] = clock]
    /\ handler' = [handler EXCEPT ![h] = NoArrival]
    /\ UNCHANGED <<clock, sent, issuedAt>>

\* Handlers do not wait for the mutex longer than MaxDelay.
GuardTick ==
    /\ clock < MaxTime
    /\ \A h \in Handlers : Waiting(h) => clock - handler[h].now < MaxDelay
    /\ clock' = clock + 1
    /\ UNCHANGED <<sent, issuedAt, seen, handler, applied, appliedAt>>

GuardNext ==
    \/ \E r \in Requests, lead \in -MaxLead .. MaxLead : Issue(r, lead)
    \/ \E h \in Handlers, r \in Requests : Arrive(h, r)
    \/ \E h \in Handlers : AdmitSaturated(h) \/ AdmitRecorded(h)
    \/ GuardTick

GuardSpec == GuardInit /\ [][GuardNext]_guardVars

-----------------------------------------------------------------------------
(* Correctness.                                                            *)

(* Types; no identifier is remembered from the future, so that the age     *)
(* retain computes is never negative.                                      *)
GuardTypeOK ==
    /\ clock \in Nat
    /\ sent \subseteq Requests
    /\ issuedAt \in [Requests -> Int]
    /\ DOMAIN seen \subseteq Requests
    /\ \A r \in DOMAIN seen : seen[r] \in 0 .. clock
    /\ handler \in [Handlers -> Arrival \cup {NoArrival}]
    /\ applied \in [Requests -> Nat]
    /\ appliedAt \in [Requests -> Nat]

(* The map never holds more than MAX_TRACKED_REQUESTS identifiers, whoever *)
(* inserts concurrently and however old the instants are they prune with.  *)
CapacityRespected == Cardinality(DOMAIN seen) <= Capacity

(* A duplicate that arrives within the window after a request was applied  *)
(* is not applied: two applications of one identifier are at least a       *)
(* window apart, less the time handlers waited for the mutex.              *)
ApplicationsAreApart ==
    [][\A r \in Requests :
          applied[r] > 0 /\ applied'[r] # applied[r] =>
              clock - appliedAt[r] >= Window - MaxDelay]_guardVars

(* A request is applied again only if it claims to be issued after its     *)
(* last application, by the difference of the window and the skew, less    *)
(* two waits for the mutex.  In the code the two are equal: a request that *)
(* is applied more than two waits after its time stamp is not applied      *)
(* again, so that only a sender whose clock is ahead sees one applied      *)
(* twice, or one whose request was applied as quickly as that.             *)
RepeatedOnlyIfStampedLate ==
    [][\A r \in Requests :
          applied[r] > 0 /\ applied'[r] # applied[r] =>
              issuedAt[r] - appliedAt[r] >= Window - Skew - 2 * MaxDelay]_guardVars

(* "Commands carry a single-use request identifier": no request is applied *)
(* twice.                                                                  *)
SingleUse == \A r \in Requests : applied[r] <= 1
=============================================================================
