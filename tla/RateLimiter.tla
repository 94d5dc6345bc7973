------------------------------ MODULE RateLimiter ------------------------------
(***************************************************************************)
(* The token buckets that bound what one source address may ask of the     *)
(* agent: RateLimiter of crates/omdesky-agent/src/authorize.rs.  admit     *)
(* runs under a mutex and reads the clock once it holds it, so it is one   *)
(* step.  A tick is the time that brings a whole token or more.            *)
(***************************************************************************)
EXTENDS Integers, FiniteSets

CONSTANTS Sources,   \* addresses
          Burst,     \* RATE_LIMIT_BURST
          Rate,      \* RATE_LIMIT_PER_SECOND, per tick
          TableSize, \* RATE_LIMIT_TRACKED_SOURCES
          Horizon    \* bound: time

VARIABLES instant,
          buckets,   \* address -> [tokens, updated]
          since      \* how many requests of an address were admitted from a time on

limiterVars == <<instant, buckets, since>>

Times == 0 .. Horizon

ASSUME LimiterAssumption ==
    /\ IsFiniteSet(Sources)
    /\ Burst \in Nat \ {0} /\ Rate \in Nat /\ TableSize \in Nat /\ Horizon \in Nat

Tracked == DOMAIN buckets
\* What an elapsed time refills.
Refills(elapsed) == elapsed * Rate
Refilled(s) == buckets[s].tokens + Refills(instant - buckets[s].updated)
Capped(n) == IF n < Burst THEN n ELSE Burst

\* prune drops the buckets that are full again, and nothing else.
BadIsRefilled(s) == Refilled(s) >= Burst - 1
IsRefilled(s) == Refilled(s) >= Burst
\* Pruning waits until an address finds no room.
MustPrune(s) == Cardinality(Tracked) >= TableSize /\ s \notin Tracked
Kept(s) == IF MustPrune(s) THEN {p \in Tracked : ~IsRefilled(p)} ELSE Tracked
NoRoom(s) == Cardinality(Kept(s)) >= TableSize /\ s \notin Kept(s)

Tokens(s) == IF s \in Kept(s) THEN Capped(Refilled(s)) ELSE Burst

LimiterInit ==
    /\ instant = 0
    /\ buckets = [s \in {} |-> 0]
    /\ since = [s \in Sources |-> [t \in Times |-> 0]]

Put(s, tokens) ==
    buckets' = [p \in Kept(s) \cup {s} |->
                   IF p = s THEN [tokens |-> tokens, updated |-> instant] ELSE buckets[p]]

\* RateLimiter::admit returns true.
Admit(s) ==
    /\ ~NoRoom(s)
    /\ Tokens(s) >= 1
    /\ Put(s, Tokens(s) - 1)
    /\ since' = [since EXCEPT ![s] =
                    [t \in Times |-> IF t <= instant THEN since[s][t] + 1
                                                   ELSE since[s][t]]]
    /\ UNCHANGED instant

\* It returns false: the bucket is empty, or the table is full.
Refuse(s) ==
    /\ \/ ~NoRoom(s) /\ Tokens(s) < 1 /\ Put(s, Tokens(s))
       \/ NoRoom(s) /\ buckets' = [p \in Kept(s) |-> buckets[p]]
    /\ UNCHANGED <<instant, since>>

LimiterTick ==
    /\ instant < Horizon
    /\ instant' = instant + 1
    /\ UNCHANGED <<buckets, since>>

LimiterNext ==
    \/ \E s \in Sources : Admit(s) \/ Refuse(s)
    \/ LimiterTick

LimiterSpec == LimiterInit /\ [][LimiterNext]_limiterVars

-----------------------------------------------------------------------------
(* Correctness.                                                            *)

(* Types; no bucket holds more than a burst or was updated in the future.  *)
LimiterTypeOK ==
    /\ instant \in Times
    /\ Tracked \subseteq Sources
    /\ \A s \in Tracked : buckets[s] \in [tokens : 0 .. Burst, updated : 0 .. instant]
    /\ since \in [Sources -> [Times -> Nat]]

(* The table of buckets stays within RATE_LIMIT_TRACKED_SOURCES.           *)
TableBounded == Cardinality(Tracked) <= TableSize

(* No address is admitted more often, over any stretch of time up to now,  *)
(* than a burst and what the stretch refills, although its bucket may have *)
(* been pruned to make room for other addresses and started over as full.  *)
RateBounded ==
    \A s \in Sources : \A t \in 0 .. instant :
        since[s][t] <= Burst + Refills(instant - t)
=============================================================================
