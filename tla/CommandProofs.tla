---------------------------- MODULE CommandProofs ----------------------------
(***************************************************************************)
(* Safety of a command: of what it passes at an agent, RateLimiter for every *)
(* burst, rate, table size and set of addresses, ReplayGuard for every     *)
(* window, clock skew, capacity and wait for the mutex, and the two in a   *)
(* row (Gate); and of its way through agents and of what it does to a      *)
(* desktop, for every number of agents, commands and failures              *)
(* (CommandRelay).  The two specifications share no variable.              *)
(***************************************************************************)
EXTENDS Gate, CommandRelay, FiniteSetTheorems, TLAPS

-----------------------------------------------------------------------------
(***************************************************************************)
(* The rate limiter.                                                       *)
(***************************************************************************)

(* What an address could spend at once; one without a bucket a full burst. *)
Credit(s) == IF s \in Tracked THEN Capped(Refilled(s)) ELSE Burst

(* What was admitted since t and what could be spent at once were all      *)
(* there at t, or have been refilled since.                                *)
CreditInv ==
    \A s \in Sources :
        /\ \A t \in 0 .. instant : since[s][t] + Credit(s) <= Burst + Refills(instant - t)
        /\ \A t \in Times : instant < t => since[s][t] = 0

(* A tick more refills Rate more.                                          *)
LEMMA Refilling ==
    ASSUME NEW d \in Int
    PROVE  /\ Refills(d) \in Int
           /\ Refills(d + 1) = Refills(d) + Rate
           /\ d \in Nat => Refills(d) \in Nat
           /\ d = 0 => Refills(d) = 0
BY LimiterAssumption DEF Refills

(* The types of what admit works with.                                     *)
LEMMA LimiterTyping ==
    ASSUME LimiterTypeOK, NEW s \in Sources
    PROVE  /\ s \in Tracked => Refilled(s) \in Nat
           /\ Tokens(s) \in 0 .. Burst
           /\ Credit(s) \in 0 .. Burst
           /\ Kept(s) \subseteq Tracked
           /\ s \in Kept(s) <=> s \in Tracked
<1> USE LimiterAssumption
<1>1. s \in Tracked => Refilled(s) \in Nat
  <2> SUFFICES ASSUME s \in Tracked PROVE Refilled(s) \in Nat
    OBVIOUS
  <2>1. /\ buckets[s].tokens \in Nat
        /\ instant - buckets[s].updated \in Nat
    BY DEF LimiterTypeOK, Times
  <2>2. Refills(instant - buckets[s].updated) \in Nat
    BY <2>1, Refilling
  <2> QED
    BY <2>1, <2>2 DEF Refilled
<1>2. Kept(s) \subseteq Tracked /\ (s \in Kept(s) <=> s \in Tracked)
  BY DEF Kept, MustPrune
<1> QED
  BY <1>1, <1>2 DEF Tokens, Credit, Capped

(* Tokens are what the address could spend, bucket or not.                 *)
LEMMA TokensAreCredit ==
    ASSUME LimiterTypeOK, NEW s \in Sources
    PROVE  Tokens(s) = Credit(s)
BY LimiterTyping DEF Tokens, Credit

(* A bucket that is pruned was worth as much as none.                      *)
LEMMA PruningIsFree ==
    ASSUME LimiterTypeOK, NEW s \in Sources, NEW p \in Tracked, p \notin Kept(s)
    PROVE  Credit(p) = Burst
<1>1. p \in Sources
  BY DEF LimiterTypeOK
<1>2. IsRefilled(p)
  BY DEF Kept
<1> QED
  BY <1>1, <1>2, LimiterTyping, LimiterAssumption DEF Credit, Capped, IsRefilled

(* After admit every other address has the credit it had.                  *)
LEMMA OthersKeepCredit ==
    ASSUME LimiterTypeOK, NEW s \in Sources, NEW p \in Sources, p # s,
           instant' = instant,
           Tracked' \in {Kept(s), Kept(s) \cup {s}},
           \A q \in Kept(s) : q # s => buckets'[q] = buckets[q]
    PROVE  Credit(p)' = Credit(p)
<1>1. CASE p \in Kept(s)
  <2>1. p \in Tracked /\ p \in Tracked' /\ buckets'[p] = buckets[p]
    BY <1>1, LimiterTyping
  <2> QED
    BY <2>1 DEF Credit, Refilled, Capped
<1>2. CASE p \notin Kept(s)
  <2>1. p \notin Tracked'
    BY <1>2
  <2>2. Credit(p)' = Burst
    BY <2>1 DEF Credit
  <2>3. Credit(p) = Burst
    BY <1>2, PruningIsFree DEF Credit
  <2> QED
    BY <2>2, <2>3
<1> QED
  BY <1>1, <1>2

(* What Put leaves behind.                                                 *)
LEMMA Putting ==
    ASSUME LimiterTypeOK, NEW s \in Sources, NEW n \in 0 .. Burst, Put(s, n),
           instant' = instant
    PROVE  /\ Tracked' = Kept(s) \cup {s}
           /\ \A q \in Kept(s) : q # s => buckets'[q] = buckets[q]
           /\ buckets'[s] = [tokens |-> n, updated |-> instant]
           /\ Credit(s)' = n
           /\ \A p \in Tracked' :
                 buckets'[p] \in [tokens : 0 .. Burst, updated : 0 .. instant]
<1> USE LimiterAssumption
<1>1. /\ Tracked' = Kept(s) \cup {s}
      /\ \A q \in Kept(s) : q # s => buckets'[q] = buckets[q]
      /\ buckets'[s] = [tokens |-> n, updated |-> instant]
  BY DEF Put, Tracked
<1>2. instant \in Nat
  BY DEF LimiterTypeOK, Times
<1>3. Refilled(s)' = n
  <2>1. Refills(instant - instant) = 0
    BY Refilling, <1>2
  <2> QED
    BY <1>1, <1>2, <2>1 DEF Refilled
<1>4. Credit(s)' = n
  BY <1>1, <1>3 DEF Credit, Capped
<1>5. \A p \in Tracked' :
         buckets'[p] \in [tokens : 0 .. Burst, updated : 0 .. instant]
  BY <1>1, <1>2, LimiterTyping DEF LimiterTypeOK
<1> QED
  BY <1>1, <1>4, <1>5

-----------------------------------------------------------------------------
(* Each way admit can go, and the passing of time, keep the types.         *)
LEMMA LimiterTypeStep == LimiterTypeOK /\ [LimiterNext]_limiterVars => LimiterTypeOK'
<1> SUFFICES ASSUME LimiterTypeOK, [LimiterNext]_limiterVars PROVE LimiterTypeOK'
  OBVIOUS
<1> USE LimiterAssumption
<1>1. ASSUME NEW s \in Sources, Admit(s) PROVE LimiterTypeOK'
  <2>1. /\ instant' = instant
        /\ Tokens(s) - 1 \in 0 .. Burst
        /\ Put(s, Tokens(s) - 1)
    BY <1>1, LimiterTyping DEF Admit
  <2>2. since' \in [Sources -> [Times -> Nat]]
    BY <1>1 DEF Admit, LimiterTypeOK
  <2> QED
    BY <2>1, <2>2, Putting, LimiterTyping DEF LimiterTypeOK
<1>2. ASSUME NEW s \in Sources, Refuse(s) PROVE LimiterTypeOK'
  <2>1. instant' = instant /\ since' = since
    BY <1>2 DEF Refuse
  <2>2. CASE Put(s, Tokens(s))
    BY <2>1, <2>2, Putting, LimiterTyping DEF LimiterTypeOK
  <2>3. CASE buckets' = [p \in Kept(s) |-> buckets[p]]
    BY <2>1, <2>3, LimiterTyping DEF LimiterTypeOK, Tracked
  <2> QED
    BY <1>2, <2>2, <2>3 DEF Refuse
<1>3. CASE LimiterTick
  BY <1>3 DEF LimiterTick, LimiterTypeOK, Tracked, Times
<1>4. CASE UNCHANGED limiterVars
  BY <1>4 DEF limiterVars, LimiterTypeOK, Tracked
<1> QED
  BY <1>1, <1>2, <1>3, <1>4 DEF LimiterNext

(* The types hold at first.                                                *)
LEMMA InitLimiterType == LimiterInit => LimiterTypeOK
BY LimiterAssumption DEF LimiterInit, LimiterTypeOK, Tracked, Times

(* Types, and no bucket holds more than a burst.                           *)
THEOREM LimiterTypeCorrectness == LimiterSpec => []LimiterTypeOK
BY InitLimiterType, LimiterTypeStep, PTL DEF LimiterSpec

-----------------------------------------------------------------------------
(* Each step accounts for what it spends or refills.                       *)
LEMMA CreditStep == LimiterTypeOK /\ CreditInv /\ [LimiterNext]_limiterVars => CreditInv'
<1> SUFFICES ASSUME LimiterTypeOK, CreditInv, [LimiterNext]_limiterVars PROVE CreditInv'
  OBVIOUS
<1> USE LimiterAssumption
<1>0. instant \in Nat /\ instant \in Times
  BY DEF LimiterTypeOK, Times
<1>1. ASSUME NEW s \in Sources, Admit(s) PROVE CreditInv'
  <2>1. /\ instant' = instant
        /\ Tokens(s) - 1 \in 0 .. Burst
        /\ Put(s, Tokens(s) - 1)
        /\ Tokens(s) = Credit(s)
    BY <1>1, LimiterTyping, TokensAreCredit DEF Admit
  <2>2. Credit(s)' = Credit(s) - 1
    BY <2>1, Putting
  <2>3. \A p \in Sources : p # s => Credit(p)' = Credit(p)
    BY <2>1, Putting, OthersKeepCredit
  <2>4. \A p \in Sources, t \in Times :
           since'[p][t] = IF p = s /\ t <= instant THEN since[p][t] + 1
                                                 ELSE since[p][t]
    BY <1>1 DEF Admit, LimiterTypeOK
  <2>5. \A p \in Sources, t \in Times : since[p][t] \in Nat /\ Credit(p) \in Nat
    BY LimiterTyping DEF LimiterTypeOK
  <2>6. \A t \in 0 .. instant : t \in Times
    BY <1>0 DEF Times
  <2>7. ASSUME NEW p \in Sources, NEW t \in 0 .. instant
        PROVE  since'[p][t] + Credit(p)' <= Burst + Refills(instant - t)
    <3>1. since[p][t] + Credit(p) <= Burst + Refills(instant - t)
      BY DEF CreditInv
    <3>2. since'[p][t] + Credit(p)' = since[p][t] + Credit(p)
      <4>1. CASE p = s
        BY <4>1, <2>2, <2>4, <2>5, <2>6
      <4>2. CASE p # s
        BY <4>2, <2>3, <2>4, <2>5, <2>6
      <4> QED
        BY <4>1, <4>2
    <3> QED
      BY <3>1, <3>2
  <2>8. \A p \in Sources, t \in Times : instant < t => since'[p][t] = 0
    BY <2>4, <1>0 DEF CreditInv, Times
  <2> QED
    BY <2>1, <2>7, <2>8 DEF CreditInv
<1>2. ASSUME NEW s \in Sources, Refuse(s) PROVE CreditInv'
  <2>1. instant' = instant /\ since' = since
    BY <1>2 DEF Refuse
  <2>2. \A p \in Sources : Credit(p)' = Credit(p)
    <3>1. CASE Put(s, Tokens(s))
      BY <3>1, <2>1, LimiterTyping, TokensAreCredit, Putting, OthersKeepCredit
    <3>2. CASE NoRoom(s) /\ buckets' = [p \in Kept(s) |-> buckets[p]]
      <4>1. /\ Tracked' = Kept(s)
            /\ \A q \in Kept(s) : q # s => buckets'[q] = buckets[q]
        BY <3>2 DEF Tracked
      <4>2. s \notin Kept(s)
        BY <3>2 DEF NoRoom
      <4>3. Credit(s)' = Credit(s)
        BY <4>1, <4>2, LimiterTyping DEF Credit
      <4> QED
        BY <2>1, <4>1, <4>3, OthersKeepCredit
    <3> QED
      BY <1>2, <3>1, <3>2 DEF Refuse
  <2> QED
    BY <2>1, <2>2 DEF CreditInv
<1>3. CASE LimiterTick
  <2>1. /\ instant' = instant + 1 /\ instant < Horizon
        /\ buckets' = buckets /\ since' = since /\ Tracked' = Tracked
    BY <1>3 DEF LimiterTick, Tracked
  <2>2. \A s \in Sources : Credit(s)' \in Int /\ Credit(s)' <= Credit(s) + Rate
                              /\ Credit(s)' <= Burst
    <3> SUFFICES ASSUME NEW s \in Sources
                 PROVE  Credit(s)' \in Int /\ Credit(s)' <= Credit(s) + Rate
                            /\ Credit(s)' <= Burst
      OBVIOUS
    <3>1. CASE s \in Tracked
      <4>1. buckets[s].updated \in Nat /\ buckets[s].tokens \in Nat
        BY <3>1, <1>0 DEF LimiterTypeOK
      <4>2. /\ instant - buckets[s].updated \in Int
            /\ instant + 1 - buckets[s].updated = (instant - buckets[s].updated) + 1
        BY <4>1, <1>0
      <4>3. /\ Refills(instant - buckets[s].updated) \in Int
            /\ Refills(instant + 1 - buckets[s].updated)
                  = Refills(instant - buckets[s].updated) + Rate
        BY <4>2, Refilling
      <4>4. Refilled(s)' = Refilled(s) + Rate /\ Refilled(s) \in Int
        <5> DEFINE heldOf == buckets[s].tokens
                   old == Refills(instant - buckets[s].updated)
                   new == Refills(instant + 1 - buckets[s].updated)
        <5>1. Refilled(s) = heldOf + old
          BY DEF Refilled
        <5>2. Refilled(s)' = heldOf + new
          <6>1. instant' - buckets'[s].updated = instant + 1 - buckets[s].updated
            BY <2>1, <1>0, <4>1
          <6> QED
            BY <2>1, <6>1 DEF Refilled
        <5>3. heldOf \in Int /\ old \in Int /\ new = old + Rate
          BY <4>1, <4>2, <4>3
        <5> HIDE DEF heldOf, old, new
        <5> QED
          BY <5>1, <5>2, <5>3
      <4> QED
        BY <3>1, <2>1, <4>4 DEF Credit, Capped
    <3>2. CASE s \notin Tracked
      BY <3>2, <2>1 DEF Credit
    <3> QED
      BY <3>1, <3>2
  <2>3. \A s \in Sources, t \in Times : since[s][t] \in Nat /\ Credit(s) \in Nat
    BY LimiterTyping DEF LimiterTypeOK
  <2>4. ASSUME NEW s \in Sources, NEW t \in 0 .. instant + 1
        PROVE  since'[s][t] + Credit(s)' <= Burst + Refills(instant + 1 - t)
    <3>0. t \in Times
      BY <2>1, <1>0 DEF Times
    <3>1. CASE t \in 0 .. instant
      <4>1. since[s][t] + Credit(s) <= Burst + Refills(instant - t)
        BY <3>1 DEF CreditInv
      <4>2. /\ Refills(instant + 1 - t) = Refills(instant - t) + Rate
            /\ Refills(instant - t) \in Int
        BY Refilling, <3>1, <1>0
      <4> QED
        BY <2>1, <2>2, <2>3, <3>0, <4>1, <4>2
    <3>2. CASE t = instant + 1
      <4>1. since'[s][t] = 0
        BY <3>2, <3>0, <2>1, <1>0 DEF CreditInv
      <4>2. Refills(instant + 1 - t) = 0
        BY Refilling, <3>2, <1>0
      <4> QED
        BY <2>2, <4>1, <4>2
    <3> QED
      BY <3>1, <3>2, <1>0
  <2>5. \A s \in Sources, t \in Times : instant + 1 < t => since'[s][t] = 0
    BY <2>1, <1>0 DEF CreditInv, Times
  <2>6. \A s \in Sources : \A t \in 0 .. instant' :
           (since[s][t] + Credit(s))' <= (Burst + Refills(instant - t))'
    <3>1. instant' = instant + 1
      BY <2>1
    <3> SUFFICES ASSUME NEW s \in Sources, NEW t \in 0 .. instant'
                 PROVE  since'[s][t] + Credit(s)' <= Burst + Refills(instant' - t)
      OBVIOUS
    <3>2. t \in 0 .. instant + 1
      BY <3>1, Zenon
    <3>3. since'[s][t] + Credit(s)' <= Burst + Refills(instant + 1 - t)
      BY <2>4, <3>2
    <3>4. instant' - t = instant + 1 - t
      BY <3>1, <1>0
    <3> QED
      BY <3>3, <3>4
  <2>7. \A s \in Sources : \A t \in Times' : (instant < t => since[s][t] = 0)'
    BY <2>1, <2>5 DEF Times
  <2> QED
    BY <2>6, <2>7 DEF CreditInv
<1>4. CASE UNCHANGED limiterVars
  BY <1>4 DEF limiterVars, CreditInv, Credit, Capped, Refilled, Tracked
<1> QED
  BY <1>1, <1>2, <1>3, <1>4 DEF LimiterNext

(* What could be spent at once is never negative, so the account bounds    *)
(* what was admitted.                                                      *)
LEMMA CreditBounds == LimiterTypeOK /\ CreditInv => RateBounded
<1> SUFFICES ASSUME LimiterTypeOK, CreditInv, NEW s \in Sources, NEW t \in 0 .. instant
             PROVE  since[s][t] <= Burst + Refills(instant - t)
  BY DEF RateBounded
<1>1. since[s][t] + Credit(s) <= Burst + Refills(instant - t)
  BY DEF CreditInv
<1>2. instant \in Times /\ t \in Times /\ instant - t \in Nat
  BY LimiterAssumption DEF LimiterTypeOK, Times
<1>3. since[s][t] \in Nat /\ Credit(s) \in Nat /\ Refills(instant - t) \in Nat
  BY Refilling, <1>2, LimiterTyping, LimiterAssumption DEF LimiterTypeOK
<1> QED
  BY <1>1, <1>3, LimiterAssumption

(* At first everything can be spent, and nothing has been.                 *)
LEMMA InitCredit == LimiterInit => CreditInv
<1> SUFFICES ASSUME LimiterInit, NEW s \in Sources PROVE
        /\ \A t \in 0 .. instant : since[s][t] + Credit(s) <= Burst + Refills(instant - t)
        /\ \A t \in Times : instant < t => since[s][t] = 0
  BY DEF CreditInv
<1>1. instant = 0 /\ Credit(s) = Burst /\ \A t \in Times : since[s][t] = 0
  BY DEF LimiterInit, Credit, Tracked
<1>2. 0 \in Times /\ Refills(0 - 0) = 0
  BY Refilling, LimiterAssumption DEF Times
<1> QED
  BY <1>1, <1>2, LimiterAssumption

(* No address gets more than a burst and the refill of any stretch of time *)
(* that ends now, whatever is pruned in between.                           *)
THEOREM RateSafety == LimiterSpec => []RateBounded
BY InitCredit, CreditBounds, CreditStep, LimiterTypeCorrectness, PTL DEF LimiterSpec

-----------------------------------------------------------------------------
(* A bucket is added only where there is room.                             *)
LEMMA TableStep == LimiterTypeOK /\ TableBounded /\ [LimiterNext]_limiterVars => TableBounded'
<1> SUFFICES ASSUME LimiterTypeOK, TableBounded, [LimiterNext]_limiterVars PROVE TableBounded'
  OBVIOUS
<1> USE LimiterAssumption DEF TableBounded
<1>1. IsFiniteSet(Tracked) /\ Cardinality(Tracked) \in Nat
  BY FS_Subset, FS_CardinalityType DEF LimiterTypeOK
<1>2. ASSUME NEW s \in Sources
      PROVE  /\ IsFiniteSet(Kept(s)) /\ Cardinality(Kept(s)) \in Nat
             /\ Cardinality(Kept(s)) <= TableSize
  <2>1. /\ IsFiniteSet(Kept(s))
        /\ Cardinality(Kept(s)) <= Cardinality(Tracked)
    BY <1>1, LimiterTyping, FS_Subset
  <2> QED
    BY <1>1, <2>1, FS_CardinalityType
<1>3. ASSUME NEW s \in Sources, NEW n, Put(s, n), ~NoRoom(s)
      PROVE  TableBounded'
  <2>1. Tracked' = Kept(s) \cup {s}
    BY <1>3 DEF Put, Tracked
  <2>2. s \in Kept(s) \/ Cardinality(Kept(s)) < TableSize
    BY <1>2, <1>3 DEF NoRoom
  <2>3. Cardinality(Kept(s) \cup {s}) =
           IF s \in Kept(s) THEN Cardinality(Kept(s)) ELSE Cardinality(Kept(s)) + 1
    BY <1>2, FS_AddElement
  <2> QED
    BY <1>2, <2>1, <2>2, <2>3
<1>4. ASSUME NEW s \in Sources, buckets' = [p \in Kept(s) |-> buckets[p]]
      PROVE  TableBounded'
  BY <1>2, <1>4 DEF Tracked
<1>5. CASE UNCHANGED buckets
  BY <1>5 DEF Tracked
<1> QED
  BY <1>3, <1>4, <1>5 DEF LimiterNext, Admit, Refuse, LimiterTick, limiterVars

(* The table never outgrows its limit.                                     *)
THEOREM TableSafety == LimiterSpec => []TableBounded
<1>1. LimiterInit => TableBounded
  BY FS_EmptySet, LimiterAssumption DEF LimiterInit, TableBounded, Tracked
<1> QED
  BY <1>1, TableStep, LimiterTypeCorrectness, PTL DEF LimiterSpec

-----------------------------------------------------------------------------
(***************************************************************************)
(* The memory of request identifiers.                                      *)
(***************************************************************************)

(* What a handler read before it waited is recent and passed the check of  *)
(* the clock skew.                                                         *)
WaitInv ==
    \A h \in Handlers : Waiting(h) =>
        /\ handler[h].now <= clock
        /\ clock - handler[h].now <= MaxDelay
        /\ handler[h].now - issuedAt[handler[h].req] <= Skew
        /\ issuedAt[handler[h].req] - handler[h].now <= Skew
        /\ handler[h].req \in sent

GuardInv == GuardTypeOK /\ WaitInv

-----------------------------------------------------------------------------
(* Every arrival keeps the types and what handlers know about the clock.   *)
LEMMA GuardStep == GuardInv /\ [GuardNext]_guardVars => GuardInv'
<1> SUFFICES ASSUME GuardInv, [GuardNext]_guardVars PROVE GuardInv'
  OBVIOUS
<1> USE NoArrivalAssumption, GuardAssumption
    DEF GuardInv, GuardTypeOK, WaitInv, Waiting, Arrival, Recent, Abs
<1>1. ASSUME NEW r \in Requests, NEW lead \in -MaxLead .. MaxLead,
             Issue(r, lead)
      PROVE  GuardInv'
  BY <1>1 DEF Issue
<1>2. ASSUME NEW h \in Handlers, NEW r \in Requests, Arrive(h, r)
      PROVE  GuardInv'
  BY <1>2 DEF Arrive
<1>3. ASSUME NEW h \in Handlers, AdmitSaturated(h)
      PROVE  GuardInv'
  BY <1>3 DEF AdmitSaturated, Retained
<1>4. ASSUME NEW h \in Handlers, AdmitRecorded(h)
      PROVE  GuardInv'
  BY <1>4 DEF AdmitRecorded, Retained
<1>5. CASE GuardTick
  BY <1>5 DEF GuardTick
<1>6. CASE UNCHANGED guardVars
  BY <1>6 DEF guardVars
<1> QED
  BY <1>1, <1>2, <1>3, <1>4, <1>5, <1>6 DEF GuardNext

(* No handler waits at first.                                              *)
LEMMA InitGuard == GuardInit => GuardInv
BY NoArrivalAssumption, GuardAssumption
DEF GuardInit, GuardInv, GuardTypeOK, WaitInv, Waiting, Arrival

(* Types, and handlers that know the clock.                                *)
THEOREM GuardInvariance == GuardSpec => []GuardInv
BY InitGuard, GuardStep, PTL DEF GuardSpec

(* Type correctness, with recorded instants that lie in the past.          *)
THEOREM GuardTypeCorrectness == GuardSpec => []GuardTypeOK
<1>1. GuardInv => GuardTypeOK
  BY DEF GuardInv
<1> QED
  BY <1>1, GuardInvariance, PTL

-----------------------------------------------------------------------------
(* Pruning and inserting keep the map within its capacity.                 *)
LEMMA CapacityStep ==
    GuardInv /\ CapacityRespected /\ [GuardNext]_guardVars => CapacityRespected'
<1> SUFFICES ASSUME GuardInv, CapacityRespected, [GuardNext]_guardVars
             PROVE  CapacityRespected'
  OBVIOUS
<1> USE GuardAssumption DEF CapacityRespected
<1>1. IsFiniteSet(DOMAIN seen)
  BY FS_Subset DEF GuardInv, GuardTypeOK
<1>2. ASSUME NEW now
      PROVE  /\ IsFiniteSet(Retained(now))
             /\ Cardinality(Retained(now)) <= Capacity
             /\ Cardinality(Retained(now)) \in Nat
  <2>1. Retained(now) \subseteq DOMAIN seen
    BY DEF Retained
  <2>2. /\ IsFiniteSet(Retained(now))
        /\ Cardinality(Retained(now)) <= Cardinality(DOMAIN seen)
    BY <1>1, <2>1, FS_Subset
  <2>3. /\ Cardinality(DOMAIN seen) \in Nat
        /\ Cardinality(Retained(now)) \in Nat
    BY <1>1, <2>2, FS_CardinalityType
  <2> QED
    BY <2>2, <2>3
<1>3. ASSUME NEW h \in Handlers, AdmitSaturated(h)
      PROVE  CapacityRespected'
  <2>1. DOMAIN seen' = Retained(handler[h].now)
    BY <1>3 DEF AdmitSaturated
  <2> QED
    BY <1>2, <2>1
<1>4. ASSUME NEW h \in Handlers, AdmitRecorded(h)
      PROVE  CapacityRespected'
  <2> DEFINE kept == Retained(handler[h].now)
             q == handler[h].req
  <2>1. DOMAIN seen' = kept \cup {q}
    BY <1>4 DEF AdmitRecorded
  <2>2. ~(Cardinality(kept) >= Capacity)
    BY <1>4 DEF AdmitRecorded, IsFull
  <2>3. IsFiniteSet(kept) /\ Cardinality(kept) \in Nat
    BY <1>2
  <2> HIDE DEF kept, q
  <2>4. Cardinality(kept \cup {q}) \in {Cardinality(kept), Cardinality(kept) + 1}
    BY <2>3, FS_AddElement
  <2> QED
    BY <2>1, <2>2, <2>3, <2>4
<1>5. CASE UNCHANGED seen
  BY <1>5
<1> QED
  BY <1>3, <1>4, <1>5 DEF GuardNext, Issue, Arrive, GuardTick, guardVars

(* However many handlers insert, at most Capacity identifiers are kept.    *)
THEOREM CapacitySafety == GuardSpec => []CapacityRespected
<1>1. GuardInit => CapacityRespected
  <2>1. GuardInit => DOMAIN seen = {}
    BY DEF GuardInit
  <2> QED
    BY <2>1, FS_EmptySet, GuardAssumption DEF CapacityRespected
<1> QED
  BY <1>1, CapacityStep, GuardInvariance, PTL DEF GuardSpec

-----------------------------------------------------------------------------
(* A request that was applied is remembered, with an instant not older     *)
(* than its application less the wait for the mutex, until a window has    *)
(* passed.                                                                 *)
ApartInv ==
    \A r \in Requests : applied[r] > 0 =>
        /\ appliedAt[r] <= clock
        /\ \/ r \in DOMAIN seen /\ seen[r] >= appliedAt[r] - MaxDelay
           \/ clock >= appliedAt[r] + Window - MaxDelay

(* Every step keeps that.                                                  *)
LEMMA ApartStep == GuardInv /\ ApartInv /\ [GuardNext]_guardVars => ApartInv'
<1> SUFFICES ASSUME GuardInv, ApartInv, [GuardNext]_guardVars PROVE ApartInv'
  OBVIOUS
<1> USE NoArrivalAssumption, GuardAssumption
    DEF GuardInv, GuardTypeOK, WaitInv, Waiting, Arrival, ApartInv
<1>1. ASSUME NEW h \in Handlers, AdmitSaturated(h)
      PROVE  ApartInv'
  BY <1>1 DEF AdmitSaturated, Retained
<1>2. ASSUME NEW h \in Handlers, AdmitRecorded(h)
      PROVE  ApartInv'
  BY <1>2 DEF AdmitRecorded, Retained
<1>3. CASE GuardTick
  BY <1>3 DEF GuardTick
<1>4. CASE UNCHANGED <<clock, seen, applied, appliedAt>>
  BY <1>4
<1> QED
  BY <1>1, <1>2, <1>3, <1>4 DEF GuardNext, Issue, Arrive, guardVars

(* A request that is applied again was applied a window ago, less a wait.  *)
LEMMA AppliedLater ==
    ASSUME GuardInv, ApartInv, NEW r \in Requests, NEW h \in Handlers, AdmitRecorded(h),
           applied[r] > 0, applied'[r] # applied[r]
    PROVE  clock - appliedAt[r] >= Window - MaxDelay
<1>1. r = handler[h].req /\ r \notin Retained(handler[h].now)
  BY DEF AdmitRecorded, GuardInv, GuardTypeOK
<1> QED
  BY <1>1, GuardAssumption, NoArrivalAssumption
  DEF AdmitRecorded, Retained, ApartInv, GuardInv, GuardTypeOK, WaitInv, Waiting, Arrival

(* Two applications of one identifier are a window apart, less the wait.   *)
THEOREM ApartSafety == GuardSpec => ApplicationsAreApart
<1> DEFINE Apart == \A r \in Requests :
              applied[r] > 0 /\ applied'[r] # applied[r] =>
                  clock - appliedAt[r] >= Window - MaxDelay
<1>1. GuardInit => ApartInv
  BY DEF GuardInit, ApartInv
<1>2. GuardInv /\ ApartInv /\ [GuardNext]_guardVars => [Apart]_guardVars
  <2> SUFFICES ASSUME GuardInv, ApartInv, GuardNext, NEW r \in Requests,
                      applied[r] > 0, applied'[r] # applied[r]
               PROVE  clock - appliedAt[r] >= Window - MaxDelay
    OBVIOUS
  <2>1. PICK h \in Handlers : AdmitRecorded(h)
    BY DEF GuardNext, Issue, Arrive, AdmitSaturated, GuardTick
  <2> QED
    BY <2>1, AppliedLater
<1> QED
  BY <1>1, <1>2, ApartStep, GuardInvariance, PTL DEF GuardSpec, ApplicationsAreApart

-----------------------------------------------------------------------------
(* A request that is applied again is fresh to a handler that has waited,  *)
(* when a window has passed since it was applied, less a wait: it was      *)
(* issued that late, by its sender's clock.  With the window and the skew  *)
(* equal, as in the code, a request that is applied more than two waits    *)
(* after its time stamp is not applied again.                              *)
THEOREM RepeatSafety == GuardSpec => RepeatedOnlyIfStampedLate
<1> DEFINE Late == \A r \in Requests :
              applied[r] > 0 /\ applied'[r] # applied[r] =>
                  issuedAt[r] - appliedAt[r] >= Window - Skew - 2 * MaxDelay
<1>1. GuardInit => ApartInv
  BY DEF GuardInit, ApartInv
<1>2. GuardInv /\ ApartInv /\ [GuardNext]_guardVars => [Late]_guardVars
  <2> SUFFICES ASSUME GuardInv, ApartInv, GuardNext, NEW r \in Requests,
                      applied[r] > 0, applied'[r] # applied[r]
               PROVE  issuedAt[r] - appliedAt[r] >= Window - Skew - 2 * MaxDelay
    OBVIOUS
  <2>1. PICK h \in Handlers : AdmitRecorded(h)
    BY DEF GuardNext, Issue, Arrive, AdmitSaturated, GuardTick
  <2>2. r = handler[h].req /\ Waiting(h) /\ handler[h].now \in Nat
    BY <2>1, NoArrivalAssumption DEF AdmitRecorded, GuardInv, GuardTypeOK, Waiting, Arrival
  <2>3. clock - appliedAt[r] >= Window - MaxDelay
    BY <2>1, AppliedLater
  <2>4. clock - handler[h].now <= MaxDelay /\ handler[h].now - issuedAt[r] <= Skew
    BY <2>2 DEF GuardInv, WaitInv
  <2>5. clock \in Nat /\ appliedAt[r] \in Nat /\ issuedAt[r] \in Int
    BY DEF GuardInv, GuardTypeOK
  <2> QED
    BY <2>2, <2>3, <2>4, <2>5, GuardAssumption
<1> QED
  BY <1>1, <1>2, ApartStep, GuardInvariance, PTL DEF GuardSpec, RepeatedOnlyIfStampedLate

-----------------------------------------------------------------------------
(***************************************************************************)
(* Both in a row.                                                          *)
(***************************************************************************)

(* The requests of an address that were admitted from a to b.              *)
Beyond(s, b) == IF b + 1 \in Times THEN since[s][b + 1] ELSE 0
Between(s, a, b) == since[s][a] - Beyond(s, b)

(* The bucket bounds every stretch of time, also one that ended long ago.  *)
StretchInv ==
    \A s \in Sources : \A b \in 0 .. instant : \A a \in 0 .. b :
        Between(s, a, b) <= Burst + Refills(b - a)

(* A handler is authorizing a request or waiting for the mutex, not both,  *)
(* and it has not had its token for long.                                  *)
PassInv ==
    \A h \in Handlers : passing[h] # NoArrival =>
        /\ ~ Waiting(h)
        /\ passing[h].now <= clock /\ clock - passing[h].now <= MaxCheck

(* What is remembered lies in a stretch: what is recorded last drops what  *)
(* is older by a window, and is itself no older than its wait.             *)
SpreadInv ==
    \E a \in 0 .. clock : \A r \in DOMAIN seen : seen[r] \in a .. a + Longest

(* Everything remembered with an instant from a to b, and everything on    *)
(* its way there, has had a token of its own, at most MaxCheck earlier.    *)
Start(a) == IF a < MaxCheck THEN 0 ELSE a - MaxCheck
InMemory(s, a, b) == {r \in DOMAIN seen : From[r] = s /\ seen[r] \in a .. b}
Pending(s, a, b) ==
    {h \in Handlers :
        \/ Waiting(h) /\ From[handler[h].req] = s /\ handler[h].now \in a .. b
        \/ passing[h] # NoArrival /\ From[passing[h].req] = s
                                  /\ passing[h].now \in Start(a) .. b}
TokenInv ==
    \A s \in Sources : \A b \in Times : \A a \in 0 .. b :
        Cardinality(InMemory(s, a, b)) + Cardinality(Pending(s, a, b))
            <= Between(s, Start(a), b)

GateInv ==
    GateTypeOK /\ CreditInv /\ WaitInv /\ PassInv /\ StretchInv /\ SpreadInv /\ TokenInv

(* Each step of the gate is a step, or none, of each part.                 *)
LEMMA GateSteps ==
    ASSUME GateTypeOK, [GateNext]_gateVars
    PROVE  [LimiterNext]_limiterVars /\ [GuardNext]_guardVars
<1>1. ASSUME NEW r \in Requests, NewRequest(r)
      PROVE  UNCHANGED limiterVars /\ GuardNext
  <2>1. 0 \in -MaxLead .. MaxLead
    BY GuardAssumption
  <2> QED
    BY <1>1, <2>1 DEF NewRequest, GuardNext
<1>2. ASSUME NEW h \in Handlers, NEW r \in Requests, Pass(h, r) \/ Turned(h, r)
      PROVE  LimiterNext /\ UNCHANGED guardVars
  <2>1. From[r] \in Sources
    BY FromAssumption
  <2> QED
    BY <1>2, <2>1 DEF Pass, Turned, LimiterNext
<1>3. ASSUME NEW h \in Handlers, Enter(h)
      PROVE  UNCHANGED limiterVars /\ GuardNext
  <2>1. passing[h].req \in Requests
    BY <1>3 DEF Enter, GateTypeOK, Arrival
  <2> QED
    BY <1>3, <2>1 DEF Enter, GuardNext
<1>4. ASSUME NEW h \in Handlers, Leave(h)
      PROVE  UNCHANGED <<limiterVars, guardVars>>
  BY <1>4 DEF Leave
<1>5. ASSUME NEW h \in Handlers, Saturated(h) \/ Recorded(h)
      PROVE  UNCHANGED limiterVars /\ GuardNext
  BY <1>5 DEF Saturated, Recorded, GuardNext
<1>6. CASE Tick
  BY <1>6 DEF Tick, LimiterNext, GuardNext
<1>7. CASE UNCHANGED gateVars
  BY <1>7 DEF gateVars
<1> QED
  BY <1>1, <1>2, <1>3, <1>4, <1>5, <1>6, <1>7 DEF GateNext

(* What each action does to the handlers that are being authorized.        *)
LEMMA PassingStep ==
    ASSUME GateTypeOK, WaitInv, PassInv, [GateNext]_gateVars
    PROVE  (GateTypeOK /\ WaitInv /\ PassInv)'
<1>1. LimiterTypeOK' /\ GuardInv'
  BY GateSteps, LimiterTypeStep, GuardStep DEF GateTypeOK, GuardInv
<1>2. instant \in Nat /\ clock \in Nat /\ instant = clock /\ MaxCheck \in Nat
  BY LimiterAssumption, FromAssumption DEF GateTypeOK, LimiterTypeOK, GuardTypeOK, Times
<1>3. instant' = clock' /\ passing' \in [Handlers -> Arrival \cup {NoArrival}] /\ PassInv'
  <2>1. ASSUME NEW h \in Handlers, NEW r \in Requests, Pass(h, r)
        PROVE  instant' = clock' /\ passing' \in [Handlers -> Arrival \cup {NoArrival}] /\ PassInv'
    <3>1. /\ instant' = instant /\ clock' = clock /\ handler' = handler
          /\ passing' = [passing EXCEPT ![h] = [req |-> r, now |-> instant]]
          /\ ~ Waiting(h)
      BY <2>1 DEF Pass, Admit, guardVars, Idle
    <3>2. [req |-> r, now |-> instant] \in Arrival
      BY <1>2 DEF Arrival
    <3>3. passing' \in [Handlers -> Arrival \cup {NoArrival}]
      BY <3>1, <3>2 DEF GateTypeOK
    <3>4. PassInv'
      BY <1>2, <3>1 DEF GateTypeOK, PassInv, Waiting
    <3> QED
      BY <1>2, <3>1, <3>3, <3>4
  <2>2. ASSUME NEW h \in Handlers, passing' = [passing EXCEPT ![h] = NoArrival],
               instant' = instant, clock' = clock,
               \A g \in Handlers : g # h => handler'[g] = handler[g]
        PROVE  instant' = clock' /\ passing' \in [Handlers -> Arrival \cup {NoArrival}] /\ PassInv'
    BY <1>2, <2>2 DEF GateTypeOK, PassInv, Waiting
  <2>3. ASSUME NEW h \in Handlers, Enter(h)
        PROVE  instant' = clock' /\ passing' \in [Handlers -> Arrival \cup {NoArrival}] /\ PassInv'
    BY <2>2, <2>3 DEF Enter, Arrive, limiterVars, GateTypeOK, GuardTypeOK
  <2>4. ASSUME NEW h \in Handlers, Leave(h)
        PROVE  instant' = clock' /\ passing' \in [Handlers -> Arrival \cup {NoArrival}] /\ PassInv'
    BY <2>2, <2>4 DEF Leave, limiterVars, guardVars
  <2>5. ASSUME passing' = passing, instant' = instant, clock' = clock,
               \A g \in Handlers : handler'[g] \in {handler[g], NoArrival}
        PROVE  instant' = clock' /\ passing' \in [Handlers -> Arrival \cup {NoArrival}] /\ PassInv'
    BY <1>2, <2>5 DEF GateTypeOK, PassInv, Waiting
  <2>6. ASSUME NEW h \in Handlers, Saturated(h) \/ Recorded(h)
        PROVE  instant' = clock' /\ passing' \in [Handlers -> Arrival \cup {NoArrival}] /\ PassInv'
    <3>1. /\ passing' = passing /\ instant' = instant /\ clock' = clock
          /\ handler' = [handler EXCEPT ![h] = NoArrival]
      BY <2>6 DEF Saturated, Recorded, AdmitSaturated, AdmitRecorded, limiterVars
    <3> QED
      BY <2>5, <3>1 DEF GateTypeOK, GuardTypeOK
  <2>7. ASSUME NEW r \in Requests, NewRequest(r)
        PROVE  instant' = clock' /\ passing' \in [Handlers -> Arrival \cup {NoArrival}] /\ PassInv'
    BY <2>5, <2>7 DEF NewRequest, Issue, limiterVars
  <2>8. ASSUME NEW h \in Handlers, NEW r \in Requests, Turned(h, r)
        PROVE  instant' = clock' /\ passing' \in [Handlers -> Arrival \cup {NoArrival}] /\ PassInv'
    BY <2>5, <2>8 DEF Turned, Refuse, guardVars
  <2>9. CASE Tick
    <3>1. /\ passing' = passing /\ instant' = instant + 1 /\ clock' = clock + 1
          /\ handler' = handler
          /\ \A h \in Handlers : passing[h] # NoArrival => clock - passing[h].now < MaxCheck
      BY <2>9 DEF Tick, LimiterTick, GuardTick
    <3>2. \A h \in Handlers : passing[h] # NoArrival => passing[h].now \in Nat
      BY DEF GateTypeOK, Arrival
    <3>3. PassInv'
      BY <1>2, <3>1, <3>2 DEF PassInv, Waiting
    <3> QED
      BY <1>2, <3>1, <3>3 DEF GateTypeOK
  <2>10. CASE UNCHANGED gateVars
    BY <2>5, <2>10 DEF gateVars, limiterVars, guardVars
  <2> QED
    BY <2>1, <2>3, <2>4, <2>6, <2>7, <2>8, <2>9, <2>10 DEF GateNext
<1> QED
  BY <1>1, <1>3 DEF GateTypeOK, GuardInv

(* The stretch that ends now is bounded by the account; the ones that have *)
(* ended do not change.                                                    *)
LEMMA StretchStep ==
    ASSUME LimiterTypeOK, CreditInv, StretchInv, [LimiterNext]_limiterVars
    PROVE  StretchInv'
<1>1. LimiterTypeOK' /\ CreditInv'
  BY LimiterTypeStep, CreditStep
<1>2. (LimiterTypeOK /\ CreditInv => RateBounded)'
  BY CreditBounds, PTL
<1>3. RateBounded'
  BY <1>1, <1>2
<1>4. /\ instant \in Nat /\ instant' \in {instant, instant + 1}
      /\ instant' \in Nat /\ instant \in Times /\ instant' \in Times
  <2>1. instant' \in {instant, instant + 1}
    BY DEF LimiterNext, Admit, Refuse, LimiterTick, limiterVars
  <2> QED
    BY <1>1, <2>1, LimiterAssumption DEF LimiterTypeOK, Times
<1>5. SUFFICES ASSUME NEW s \in Sources, NEW b \in 0 .. instant', NEW a \in 0 .. b
               PROVE  Between(s, a, b)' <= Burst + Refills(b - a)
  BY DEF StretchInv, Refills
<1>6. /\ a \in Times /\ b \in Nat /\ a \in Nat /\ a <= b
      /\ \A t \in Times : since[s][t] \in Nat /\ since'[s][t] \in Nat
  <2>1. a \in Times /\ b \in Nat /\ a \in Nat /\ a <= b
    BY <1>4, LimiterAssumption DEF Times
  <2>2. since \in [Sources -> [Times -> Nat]] /\ since' \in [Sources -> [Times -> Nat]]
    BY <1>1 DEF LimiterTypeOK, Times
  <2> QED
    BY <2>1, <2>2
<1>7. CASE b = instant'
  <2>1. Beyond(s, b)' = 0
    <3>1. b < b + 1
      BY <1>6
    <3>2. b + 1 \in Times => since'[s][b + 1] = 0
      BY <1>1, <1>7, <3>1 DEF CreditInv
    <3> QED
      BY <3>2 DEF Beyond
  <2>2. since'[s][a] <= Burst + Refills(b - a)
    BY <1>3, <1>6, <1>7 DEF RateBounded, Refills
  <2> QED
    BY <1>6, <2>1, <2>2 DEF Between
<1>8. CASE b < instant'
  <2>1. b \in 0 .. instant /\ b + 1 \in Times
    BY <1>4, <1>6, <1>8, LimiterAssumption DEF Times
  <2>2. Between(s, a, b) <= Burst + Refills(b - a)
    BY <2>1 DEF StretchInv
  <2>3. Between(s, a, b)' = Between(s, a, b)
    <3>1. CASE since' = since
      BY <3>1 DEF Between, Beyond, Times
    <3>2. CASE \E p \in Sources : Admit(p)
      <4>1. PICK p \in Sources : Admit(p)
        BY <3>2
      <4>2. \A t \in Times : since'[s][t] = IF p = s /\ t <= instant THEN since[s][t] + 1
                                                                     ELSE since[s][t]
        BY <4>1 DEF Admit, LimiterTypeOK
      <4>3. instant' = instant
        BY <4>1 DEF Admit
      <4>4. a <= instant /\ b + 1 <= instant
        BY <1>4, <1>6, <1>8, <4>3
      <4>5. since'[s][a] - since'[s][b + 1] = since[s][a] - since[s][b + 1]
        BY <1>6, <2>1, <4>2, <4>4
      <4> QED
        BY <2>1, <4>5 DEF Between, Beyond, Times
    <3> QED
      BY <3>1, <3>2 DEF LimiterNext, Refuse, LimiterTick, limiterVars
  <2> QED
    BY <2>2, <2>3
<1> QED
  BY <1>4, <1>6, <1>7, <1>8

(* What is recorded is at most a wait older than what it finds, and at     *)
(* most a window younger than what it leaves.                              *)
LEMMA SpreadStep ==
    ASSUME GuardInv, SpreadInv, [GuardNext]_guardVars
    PROVE  SpreadInv'
<1>1. PICK a \in 0 .. clock : \A r \in DOMAIN seen : seen[r] \in a .. a + Longest
  BY DEF SpreadInv
<1>2. /\ clock \in Nat /\ Longest \in Nat /\ MaxDelay <= Longest /\ Window - 1 <= Longest
      /\ a \in Nat /\ a <= clock
  <2>1. clock \in Nat
    BY DEF GuardInv, GuardTypeOK
  <2>2. Longest \in Nat /\ MaxDelay <= Longest /\ Window - 1 <= Longest
    BY GuardAssumption DEF Longest
  <2> QED
    BY <2>1, <2>2
<1> HIDE DEF Longest
<1>3. ASSUME NEW h \in Handlers, AdmitSaturated(h)
      PROVE  SpreadInv'
  <2>1. /\ clock' = clock /\ DOMAIN seen' \subseteq DOMAIN seen
        /\ \A r \in DOMAIN seen' : seen'[r] = seen[r]
    BY <1>3 DEF AdmitSaturated, Retained
  <2> QED
    BY <1>1, <2>1 DEF SpreadInv
<1>4. ASSUME NEW h \in Handlers, AdmitRecorded(h)
      PROVE  SpreadInv'
  <2> DEFINE q == handler[h].req
             n == handler[h].now
  <2>1. n \in Nat /\ n <= clock /\ clock - n <= MaxDelay
    BY <1>4 DEF AdmitRecorded, GuardInv, GuardTypeOK, WaitInv, Waiting, Arrival
  <2>2. /\ clock' = clock
        /\ DOMAIN seen' = Retained(n) \cup {q}
        /\ \A r \in DOMAIN seen' : seen'[r] = IF r = q THEN n ELSE seen[r]
    BY <1>4 DEF AdmitRecorded
  <2>3. \A r \in Retained(n) : /\ seen[r] \in a .. a + Longest
                               /\ seen[r] \in 0 .. clock
                               /\ n - seen[r] < Window
    BY <1>1 DEF Retained, GuardInv, GuardTypeOK
  <2> HIDE DEF q, n
  <2>4. PICK low \in 0 .. clock :
            /\ n \in low .. low + Longest
            /\ \A r \in Retained(n) : seen[r] \in low .. low + Longest
    <3>1. CASE n < a
      <4>1. n \in 0 .. clock /\ n \in n .. n + Longest
        BY <1>2, <2>1
      <4>2. \A r \in Retained(n) : seen[r] \in n .. n + Longest
        BY <1>2, <2>1, <2>3, <3>1, GuardAssumption
      <4> QED
        BY <4>1, <4>2
    <3>2. CASE n \in a .. a + Longest
      BY <1>2, <2>3, <3>2
    <3>3. CASE n > a + Longest
      <4>1. n - Longest \in 0 .. clock /\ n \in (n - Longest) .. ((n - Longest) + Longest)
        BY <1>2, <2>1, <3>3
      <4>2. \A r \in Retained(n) : seen[r] \in (n - Longest) .. ((n - Longest) + Longest)
        BY <1>2, <2>1, <2>3, <3>3, GuardAssumption
      <4> QED
        BY <4>1, <4>2
    <3> QED
      BY <1>2, <2>1, <3>1, <3>2, <3>3
  <2>5. \A r \in DOMAIN seen' : seen'[r] \in low .. low + Longest
    BY <2>2, <2>4
  <2> QED
    BY <2>2, <2>5 DEF SpreadInv, Longest
<1>5. CASE GuardTick
  <2>1. seen' = seen /\ clock' = clock + 1
    BY <1>5 DEF GuardTick
  <2>2. a \in 0 .. clock'
    BY <1>2, <2>1
  <2> QED
    BY <1>1, <2>1, <2>2 DEF SpreadInv, Longest
<1>6. CASE UNCHANGED <<seen, clock>>
  BY <1>1, <1>6 DEF SpreadInv, Longest
<1> QED
  BY <1>3, <1>4, <1>5, <1>6 DEF GuardNext, Issue, Arrive, guardVars

-----------------------------------------------------------------------------
(* The sets that are counted are finite.                                   *)
LEMMA Counted ==
    ASSUME GateTypeOK, NEW s, NEW a, NEW b
    PROVE  /\ IsFiniteSet(InMemory(s, a, b)) /\ Cardinality(InMemory(s, a, b)) \in Nat
           /\ IsFiniteSet(Pending(s, a, b)) /\ Cardinality(Pending(s, a, b)) \in Nat
<1>1. InMemory(s, a, b) \subseteq Requests /\ Pending(s, a, b) \subseteq Handlers
  BY DEF InMemory, Pending, GateTypeOK, GuardTypeOK
<1> QED
  BY <1>1, GuardAssumption, HandlersAssumption, FS_Subset, FS_CardinalityType

(* Fewer on their way and as many recorded more, at the most.              *)
LEMMA CountMoves ==
    ASSUME NEW R, NEW P, NEW RR, NEW PP, NEW q, NEW h,
           IsFiniteSet(R), IsFiniteSet(P), h \in P,
           RR \subseteq R \cup {q}, PP \subseteq P \ {h}
    PROVE  Cardinality(RR) + Cardinality(PP) <= Cardinality(R) + Cardinality(P)
<1>1. /\ IsFiniteSet(R \cup {q}) /\ Cardinality(R \cup {q}) <= Cardinality(R) + 1
      /\ Cardinality(R) \in Nat
  <2>1. IsFiniteSet(R \cup {q}) /\ Cardinality(R) \in Nat
    BY FS_AddElement, FS_CardinalityType
  <2>2. Cardinality(R \cup {q}) \in {Cardinality(R), Cardinality(R) + 1}
    BY FS_AddElement
  <2> QED
    BY <2>1, <2>2
<1>2. IsFiniteSet(P \ {h}) /\ Cardinality(P \ {h}) = Cardinality(P) - 1 /\ Cardinality(P) \in Nat
  BY FS_RemoveElement, FS_CardinalityType
<1>3. /\ IsFiniteSet(RR) /\ Cardinality(RR) <= Cardinality(R \cup {q})
      /\ IsFiniteSet(PP) /\ Cardinality(PP) <= Cardinality(P \ {h})
  BY <1>1, <1>2, FS_Subset
<1>4. /\ Cardinality(RR) \in Nat /\ Cardinality(PP) \in Nat
      /\ Cardinality(R \cup {q}) \in Nat
  BY <1>1, <1>3, FS_CardinalityType
<1> QED
  BY <1>1, <1>2, <1>3, <1>4

(* Fewer of both.                                                          *)
LEMMA CountShrinks ==
    ASSUME NEW R, NEW P, NEW RR, NEW PP,
           IsFiniteSet(R), IsFiniteSet(P), RR \subseteq R, PP \subseteq P
    PROVE  Cardinality(RR) + Cardinality(PP) <= Cardinality(R) + Cardinality(P)
<1>1. /\ IsFiniteSet(RR) /\ Cardinality(RR) <= Cardinality(R)
      /\ IsFiniteSet(PP) /\ Cardinality(PP) <= Cardinality(P)
  BY FS_Subset
<1>2. /\ Cardinality(RR) \in Nat /\ Cardinality(PP) \in Nat
      /\ Cardinality(R) \in Nat /\ Cardinality(P) \in Nat
  BY <1>1, FS_CardinalityType
<1> QED
  BY <1>1, <1>2

(* A token spent within the stretch counts for it, and no other token does *)
(* anything to it.                                                         *)
LEMMA BetweenStep ==
    ASSUME LimiterTypeOK, NEW s \in Sources, NEW p \in Sources, Admit(p),
           NEW b \in Times, NEW a \in 0 .. b
    PROVE  /\ Between(s, a, b) \in Int /\ Between(s, a, b)' \in Int
           /\ p = s /\ instant \in a .. b => Between(s, a, b)' = Between(s, a, b) + 1
           /\ ~ (p = s /\ instant \in a .. b) => Between(s, a, b)' = Between(s, a, b)
<1>1. /\ instant \in Nat /\ instant \in Times /\ a \in Nat /\ b \in Nat /\ a <= b
      /\ a \in Times
  BY LimiterAssumption DEF LimiterTypeOK, Times
<1>2. \A t \in Times : /\ since'[s][t] = IF p = s /\ t <= instant THEN since[s][t] + 1
                                                                  ELSE since[s][t]
                       /\ since[s][t] \in Nat
  BY DEF Admit, LimiterTypeOK
<1>3. /\ Between(s, a, b) = since[s][a] - Beyond(s, b)
      /\ Between(s, a, b)' = since'[s][a] - Beyond(s, b)'
  BY DEF Between
<1>4. /\ Beyond(s, b) \in Nat
      /\ Beyond(s, b)' = IF p = s /\ b + 1 <= instant THEN Beyond(s, b) + 1 ELSE Beyond(s, b)
  <2>1. CASE b + 1 \in Times
    BY <1>2, <2>1 DEF Beyond, Times
  <2>2. CASE b + 1 \notin Times
    <3>1. ~ (b + 1 <= instant)
      BY <1>1, <2>2, LimiterAssumption DEF Times
    <3> QED
      BY <2>2, <3>1 DEF Beyond, Times
  <2> QED
    BY <2>1, <2>2
<1>5. /\ since[s][a] \in Nat
      /\ since'[s][a] = IF p = s /\ a <= instant THEN since[s][a] + 1 ELSE since[s][a]
  BY <1>1, <1>2
<1> HIDE DEF Between, Beyond
<1> QED
  BY <1>1, <1>3, <1>4, <1>5

(* Every token is counted once, wherever its request has got to.           *)
LEMMA TokenStep ==
    ASSUME GateTypeOK, WaitInv, PassInv, TokenInv, [GateNext]_gateVars
    PROVE  TokenInv'
<1>1. SUFFICES ASSUME NEW s \in Sources, NEW b \in Times, NEW a \in 0 .. b
               PROVE  Cardinality(InMemory(s, a, b)') + Cardinality(Pending(s, a, b)')
                          <= Between(s, Start(a), b)'
  BY DEF TokenInv, Times, InMemory, Pending
<1> DEFINE R == InMemory(s, a, b)
           P == Pending(s, a, b)
           RR == InMemory(s, a, b)'
           PP == Pending(s, a, b)'
           Counts == Cardinality(RR) + Cardinality(PP) <= Between(s, Start(a), b)'
<1>2. /\ IsFiniteSet(R) /\ Cardinality(R) \in Nat
      /\ IsFiniteSet(P) /\ Cardinality(P) \in Nat
  BY Counted
<1>3. Cardinality(R) + Cardinality(P) <= Between(s, Start(a), b)
  BY DEF TokenInv
<1>4. Start(a) \in 0 .. b /\ Start(a) \in 0 .. a /\ a \in Nat /\ b \in Nat /\ MaxCheck \in Nat
  BY LimiterAssumption, FromAssumption DEF Start, Times
<1>5. /\ clock \in Nat /\ instant = clock
      /\ handler \in [Handlers -> Arrival \cup {NoArrival}]
      /\ passing \in [Handlers -> Arrival \cup {NoArrival}]
  BY DEF GateTypeOK, GuardTypeOK
<1>6. Between(s, Start(a), b) \in Int
  <2>1. \A t \in Times : since[s][t] \in Nat
    BY DEF GateTypeOK, LimiterTypeOK
  <2>2. Start(a) \in Times
    BY <1>4, LimiterAssumption DEF Times
  <2>3. Beyond(s, b) \in Nat /\ since[s][Start(a)] \in Nat
    BY <2>1, <2>2 DEF Beyond
  <2> HIDE DEF Beyond
  <2> QED
    BY <2>3 DEF Between
<1>7. ASSUME since' = since, RR \subseteq R, PP \subseteq P
      PROVE  Counts
  <2>1. Between(s, Start(a), b)' = Between(s, Start(a), b)
    BY <1>7 DEF Between, Beyond, Times, Start
  <2>2. Cardinality(RR) + Cardinality(PP) <= Cardinality(R) + Cardinality(P)
    <3> HIDE DEF R, P, RR, PP
    <3> QED
      BY <1>2, <1>7, CountShrinks
  <2>3. Cardinality(RR) \in Nat /\ Cardinality(PP) \in Nat
    <3> HIDE DEF R, P, RR, PP
    <3> QED
      BY <1>2, <1>7, FS_Subset, FS_CardinalityType
  <2> HIDE DEF R, P, RR, PP
  <2> QED
    BY <1>2, <1>3, <1>6, <2>1, <2>2, <2>3
<1>8. ASSUME NEW r \in Requests, NewRequest(r)
      PROVE  Counts
  <2>1. since' = since /\ seen' = seen /\ handler' = handler /\ passing' = passing
    BY <1>8 DEF NewRequest, Issue, limiterVars
  <2>2. RR = R /\ PP = P
    BY <2>1 DEF InMemory, Pending, Waiting
  <2> QED
    BY <1>7, <2>1, <2>2
<1>9. ASSUME NEW h \in Handlers, NEW r \in Requests, Pass(h, r)
      PROVE  Counts
  <2>1. /\ Admit(From[r]) /\ seen' = seen /\ handler' = handler
        /\ passing' = [passing EXCEPT ![h] = [req |-> r, now |-> instant]]
        /\ From[r] \in Sources /\ LimiterTypeOK
    BY <1>9, FromAssumption DEF Pass, guardVars, GateTypeOK
  <2>2. RR = R
    BY <2>1 DEF InMemory
  <2>3. \A g \in Handlers : passing'[g] = IF g = h THEN [req |-> r, now |-> instant]
                                                   ELSE passing[g]
    BY <1>5, <2>1
  <2>4. ~ Waiting(h) /\ passing[h] = NoArrival
    BY <1>9 DEF Pass, Idle
  <2>5. /\ PP \subseteq P \cup {h}
        /\ h \in PP => From[r] = s /\ instant \in Start(a) .. b
    BY <2>1, <2>3, <2>4 DEF Pending, Waiting, Start
  <2>6. /\ Between(s, Start(a), b)' \in Int
        /\ From[r] = s /\ instant \in Start(a) .. b =>
               Between(s, Start(a), b)' = Between(s, Start(a), b) + 1
        /\ ~ (From[r] = s /\ instant \in Start(a) .. b) =>
               Between(s, Start(a), b)' = Between(s, Start(a), b)
    <3> DEFINE low == Start(a)
    <3>1. low \in 0 .. b
      BY <1>4
    <3>2. low' = low
      BY DEF Start
    <3> HIDE DEF low
    <3>3. /\ Between(s, low, b)' \in Int
          /\ From[r] = s /\ instant \in low .. b => Between(s, low, b)' = Between(s, low, b) + 1
          /\ ~ (From[r] = s /\ instant \in low .. b) => Between(s, low, b)' = Between(s, low, b)
      BY <2>1, <3>1, BetweenStep
    <3> QED
      BY <3>3 DEF low
  <2>7. CASE h \in PP
    <3>1. Cardinality(P \cup {h}) <= Cardinality(P) + 1 /\ IsFiniteSet(P \cup {h})
      <4>1. Cardinality(P \cup {h}) \in {Cardinality(P), Cardinality(P) + 1}
        BY <1>2, FS_AddElement
      <4>2. IsFiniteSet(P \cup {h})
        BY <1>2, FS_AddElement
      <4> HIDE DEF P
      <4> QED
        BY <1>2, <4>1, <4>2
    <3>2. /\ Cardinality(PP) <= Cardinality(P \cup {h})
          /\ Cardinality(PP) \in Nat /\ Cardinality(P \cup {h}) \in Nat
      <4> HIDE DEF P, PP
      <4> QED
        BY <2>5, <3>1, FS_Subset, FS_CardinalityType
    <3>3. Between(s, Start(a), b)' = Between(s, Start(a), b) + 1
      BY <2>5, <2>6, <2>7
    <3> HIDE DEF R, P, RR, PP
    <3> QED
      BY <1>2, <1>3, <1>6, <2>2, <3>1, <3>2, <3>3
  <2>8. CASE h \notin PP
    <3>1. PP \subseteq P
      BY <2>5, <2>8
    <3>2. /\ Cardinality(PP) <= Cardinality(P) /\ Cardinality(PP) \in Nat
      <4> HIDE DEF P, PP
      <4> QED
        BY <1>2, <3>1, FS_Subset, FS_CardinalityType
    <3>3. Between(s, Start(a), b)' >= Between(s, Start(a), b)
      BY <1>6, <2>6
    <3> HIDE DEF R, P, RR, PP
    <3> QED
      BY <1>2, <1>3, <1>6, <2>2, <2>6, <3>2, <3>3
  <2> QED
    BY <2>7, <2>8
<1>10. ASSUME NEW h \in Handlers, NEW r \in Requests, Turned(h, r)
      PROVE  Counts
  <2>1. since' = since /\ seen' = seen /\ handler' = handler /\ passing' = passing
    BY <1>10 DEF Turned, Refuse, guardVars
  <2>2. RR = R /\ PP = P
    BY <2>1 DEF InMemory, Pending, Waiting
  <2> QED
    BY <1>7, <2>1, <2>2
<1>11. ASSUME NEW h \in Handlers, Enter(h)
       PROVE  Counts
  <2>1. /\ since' = since /\ seen' = seen
        /\ passing[h] # NoArrival
        /\ passing' = [passing EXCEPT ![h] = NoArrival]
        /\ handler' = [handler EXCEPT ![h] = [req |-> passing[h].req, now |-> clock]]
    BY <1>11 DEF Enter, Arrive, limiterVars
  <2>2. /\ passing[h].now \in Nat /\ passing[h].now <= clock
        /\ clock - passing[h].now <= MaxCheck
    BY <1>5, <2>1 DEF PassInv, Arrival
  <2>3. clock \in a .. b => passing[h].now \in Start(a) .. b
    BY <1>4, <1>5, <2>2 DEF Start
  <2>4. \A g \in Handlers :
           /\ passing'[g] = IF g = h THEN NoArrival ELSE passing[g]
           /\ handler'[g] = IF g = h THEN [req |-> passing[h].req, now |-> clock]
                                     ELSE handler[g]
    BY <1>5, <2>1
  <2>5. PP \subseteq P
    BY <2>1, <2>3, <2>4 DEF Pending, Waiting, Start
  <2>6. RR = R
    BY <2>1 DEF InMemory
  <2> QED
    BY <1>7, <2>1, <2>5, <2>6
<1>12. ASSUME NEW h \in Handlers, Leave(h)
       PROVE  Counts
  <2>1. /\ since' = since /\ seen' = seen /\ handler' = handler
        /\ passing' = [passing EXCEPT ![h] = NoArrival]
    BY <1>12 DEF Leave, limiterVars, guardVars
  <2>2. \A g \in Handlers : passing'[g] \in {passing[g], NoArrival}
    BY <1>5, <2>1
  <2>3. RR = R /\ PP \subseteq P
    BY <2>1, <2>2 DEF InMemory, Pending, Waiting, Start
  <2> QED
    BY <1>7, <2>1, <2>3
<1>13. ASSUME NEW h \in Handlers, Saturated(h)
       PROVE  Counts
  <2>1. /\ since' = since /\ passing' = passing
        /\ handler' = [handler EXCEPT ![h] = NoArrival]
        /\ DOMAIN seen' \subseteq DOMAIN seen /\ \A r \in DOMAIN seen' : seen'[r] = seen[r]
    BY <1>13 DEF Saturated, AdmitSaturated, Retained, limiterVars
  <2>2. \A g \in Handlers : handler'[g] \in {handler[g], NoArrival}
    BY <1>5, <2>1
  <2>3. RR \subseteq R
    BY <2>1 DEF InMemory
  <2>4. PP \subseteq P
    BY <2>1, <2>2 DEF Pending, Waiting, Start
  <2> QED
    BY <1>7, <2>1, <2>3, <2>4
<1>14. ASSUME NEW h \in Handlers, Recorded(h)
       PROVE  Counts
  <2> DEFINE q == handler[h].req
             n == handler[h].now
  <2>1. /\ since' = since /\ passing' = passing /\ Waiting(h)
        /\ handler' = [handler EXCEPT ![h] = NoArrival]
        /\ DOMAIN seen' = Retained(n) \cup {q}
        /\ \A r \in DOMAIN seen' : seen'[r] = IF r = q THEN n ELSE seen[r]
    BY <1>14 DEF Recorded, AdmitRecorded, limiterVars
  <2>2. \A g \in Handlers : handler'[g] = IF g = h THEN NoArrival ELSE handler[g]
    BY <1>5, <2>1
  <2>3. Retained(n) \subseteq DOMAIN seen
    BY DEF Retained
  <2>4. PP \subseteq P \ {h}
    <3>1. h \notin PP
      BY <2>1, <2>2 DEF Pending, Waiting, PassInv
    <3> QED
      BY <2>1, <2>2, <3>1 DEF Pending, Waiting, Start
  <2>5. CASE From[q] = s /\ n \in a .. b
    <3>1. h \in P
      BY <2>1, <2>5 DEF Pending
    <3>2. RR \subseteq R \cup {q}
      BY <2>1, <2>3 DEF InMemory
    <3>3. Cardinality(RR) + Cardinality(PP) <= Cardinality(R) + Cardinality(P)
      <4> HIDE DEF R, P, RR, PP, q
      <4> QED
        BY <1>2, <2>4, <3>1, <3>2, CountMoves
    <3>4. Between(s, Start(a), b)' = Between(s, Start(a), b)
      BY <2>1 DEF Between, Beyond, Times, Start
    <3>5. Cardinality(RR) \in Nat /\ Cardinality(PP) \in Nat
      <4> HIDE DEF R, P, RR, PP, q
      <4>1. IsFiniteSet(R \cup {q})
        BY <1>2, FS_AddElement
      <4>2. IsFiniteSet(RR) /\ IsFiniteSet(PP)
        BY <1>2, <2>4, <3>2, <4>1, FS_Subset
      <4> QED
        BY <4>2, FS_CardinalityType
    <3> HIDE DEF R, P, RR, PP
    <3> QED
      BY <1>2, <1>3, <1>6, <3>3, <3>4, <3>5
  <2>6. CASE ~ (From[q] = s /\ n \in a .. b)
    <3>1. RR \subseteq R
      BY <2>1, <2>3, <2>6 DEF InMemory
    <3>2. PP \subseteq P
      BY <2>4
    <3> QED
      BY <1>7, <2>1, <3>1, <3>2
  <2> QED
    BY <2>5, <2>6
<1>15. ASSUME Tick \/ UNCHANGED gateVars
       PROVE  Counts
  <2>1. since' = since /\ seen' = seen /\ handler' = handler /\ passing' = passing
    BY <1>15 DEF Tick, LimiterTick, GuardTick, gateVars, limiterVars, guardVars
  <2>2. RR = R /\ PP = P
    BY <2>1 DEF InMemory, Pending, Waiting, Start
  <2> QED
    BY <1>7, <2>1, <2>2
<1> HIDE DEF Counts
<1>16. Counts
  BY <1>8, <1>9, <1>10, <1>11, <1>12, <1>13, <1>14, <1>15 DEF GateNext
<1> QED
  BY <1>16 DEF Counts

-----------------------------------------------------------------------------
(* The initial state.                                                      *)
LEMMA InitGate == GateInit => GateInv
<1>1. SUFFICES ASSUME GateInit PROVE GateInv
  OBVIOUS
<1>2. LimiterTypeOK /\ CreditInv
  BY <1>1, InitLimiterType, InitCredit DEF GateInit
<1>3. GuardInv
  BY <1>1, InitGuard DEF GateInit
<1>4. /\ instant = 0 /\ clock = 0 /\ DOMAIN seen = {}
      /\ \A h \in Handlers : handler[h] = NoArrival /\ passing[h] = NoArrival
      /\ \A s \in Sources, t \in Times : since[s][t] = 0
      /\ passing \in [Handlers -> Arrival \cup {NoArrival}]
  BY <1>1 DEF GateInit, LimiterInit, GuardInit
<1>5. GateTypeOK /\ WaitInv /\ PassInv
  BY <1>2, <1>3, <1>4 DEF GateTypeOK, GuardInv, PassInv
<1>6. 0 \in Times /\ Refills(0) = 0
  BY LimiterAssumption, Refilling DEF Times
<1>7. ASSUME NEW s \in Sources, NEW b \in Times, NEW a \in Times
      PROVE  Between(s, a, b) = 0
  BY <1>4, <1>7 DEF Between, Beyond
<1>8. StretchInv
  <2>1. SUFFICES ASSUME NEW s \in Sources, NEW b \in 0 .. instant, NEW a \in 0 .. b
                 PROVE  Between(s, a, b) <= Burst + Refills(b - a)
    BY DEF StretchInv
  <2>2. a = 0 /\ b = 0
    BY <1>4
  <2>3. Between(s, a, b) = 0 /\ Refills(b - a) = 0
    BY <1>6, <1>7, <2>2
  <2> QED
    BY <2>3, LimiterAssumption
<1>9. SpreadInv
  BY <1>4 DEF SpreadInv
<1>10. TokenInv
  <2>1. SUFFICES ASSUME NEW s \in Sources, NEW b \in Times, NEW a \in 0 .. b
                 PROVE  Cardinality(InMemory(s, a, b)) + Cardinality(Pending(s, a, b))
                            <= Between(s, Start(a), b)
    BY DEF TokenInv
  <2>2. InMemory(s, a, b) = {} /\ Pending(s, a, b) = {}
    BY <1>4 DEF InMemory, Pending, Waiting
  <2>3. Start(a) \in Times
    BY LimiterAssumption, FromAssumption DEF Start, Times
  <2> QED
    BY <1>7, <2>2, <2>3, FS_EmptySet
<1> QED
  BY <1>2, <1>5, <1>8, <1>9, <1>10 DEF GateInv

(* GateInv is inductive.                                                   *)
LEMMA NextGate == GateInv /\ [GateNext]_gateVars => GateInv'
<1>1. SUFFICES ASSUME GateInv, [GateNext]_gateVars PROVE GateInv'
  OBVIOUS
<1>2. [LimiterNext]_limiterVars /\ [GuardNext]_guardVars
  BY <1>1, GateSteps DEF GateInv
<1>3. (GateTypeOK /\ WaitInv /\ PassInv)'
  BY <1>1, PassingStep DEF GateInv
<1>4. CreditInv' /\ StretchInv'
  BY <1>1, <1>2, CreditStep, StretchStep DEF GateInv, GateTypeOK
<1>5. SpreadInv'
  BY <1>1, <1>2, SpreadStep DEF GateInv, GateTypeOK, GuardInv
<1>6. TokenInv'
  BY <1>1, TokenStep DEF GateInv
<1> QED
  BY <1>3, <1>4, <1>5, <1>6 DEF GateInv

(* The invariant of the gate.                                              *)
THEOREM GateInvariance == GateSpec => []GateInv
BY InitGate, NextGate, PTL DEF GateSpec

(* The gate is made of its parts: each of them, behind or before the       *)
(* other, does what its own specification allows, so that everything       *)
(* proved of it alone holds in the agent.                                  *)
THEOREM GateIsBoth == GateSpec => LimiterSpec /\ GuardSpec
<1>1. GateInit => LimiterInit /\ GuardInit
  BY DEF GateInit
<1>2. GateInv /\ [GateNext]_gateVars => [LimiterNext]_limiterVars /\ [GuardNext]_guardVars
  BY GateSteps DEF GateInv
<1> QED
  BY <1>1, <1>2, GateInvariance, PTL DEF GateSpec, LimiterSpec, GuardSpec

(* The rate limit holds at the gate.                                       *)
THEOREM GateRateSafety == GateSpec => []RateBounded
BY GateIsBoth, RateSafety, PTL

(* So does the distance between two applications of an identifier.         *)
THEOREM GateApartSafety == GateSpec => ApplicationsAreApart
BY GateIsBoth, ApartSafety, PTL

(* More time refills more.                                                 *)
LEMMA RefillGrows ==
    ASSUME NEW x \in Nat, NEW y \in Nat, x <= y
    PROVE  Refills(x) \in Nat /\ Refills(y) \in Nat /\ Refills(x) <= Refills(y)
<1>1. y - x \in Nat /\ Rate \in Nat
  BY LimiterAssumption
<1>2. (y - x) * Rate \in Nat /\ x * Rate \in Nat /\ y * Rate \in Nat
  BY <1>1
<1>3. y * Rate = x * Rate + (y - x) * Rate
  BY <1>1
<1> QED
  BY <1>2, <1>3 DEF Refills

(* For any number of addresses, requests and handlers, and any limits: no  *)
(* address fills the memory of identifiers beyond what its bucket let      *)
(* through in the time the memory spans, however its requests overtake     *)
(* each other on the way from the bucket to the mutex.                     *)
THEOREM FloodSafety == GateSpec => []OneSourceCannotFill
<1>1. GateInv => OneSourceCannotFill
  <2>1. SUFFICES ASSUME GateInv, NEW s \in Sources
                 PROVE  Cardinality({r \in DOMAIN seen : From[r] = s}) <= Flood
    BY DEF OneSourceCannotFill
  <2>2. PICK a \in 0 .. clock : \A r \in DOMAIN seen : seen[r] \in a .. a + Longest
    BY <2>1 DEF GateInv, SpreadInv
  <2>3. /\ clock \in Nat /\ instant = clock /\ clock \in Times /\ a \in Nat /\ a <= clock
        /\ Longest \in Nat /\ MaxCheck \in Nat
        /\ \A r \in DOMAIN seen : seen[r] \in 0 .. clock
    <3>1. clock \in Nat /\ instant = clock /\ clock \in Times
      BY <2>1 DEF GateInv, GateTypeOK, GuardTypeOK, LimiterTypeOK
    <3>2. Longest \in Nat /\ MaxCheck \in Nat
      BY GuardAssumption, FromAssumption DEF Longest
    <3>3. \A r \in DOMAIN seen : seen[r] \in 0 .. clock
      BY <2>1 DEF GateInv, GateTypeOK, GuardTypeOK
    <3> QED
      BY <3>1, <3>2, <3>3
  <2> HIDE DEF Longest
  <2> DEFINE b == IF a + Longest < clock THEN a + Longest ELSE clock
             low == Start(a)
  <2>4. b \in Times /\ b \in 0 .. instant /\ a \in 0 .. b
    BY <2>3, LimiterAssumption DEF Times
  <2>5. low \in 0 .. b /\ b - low \in Nat /\ b - low <= Longest + MaxCheck
    BY <2>3 DEF Start
  <2>6. {r \in DOMAIN seen : From[r] = s} = InMemory(s, a, b)
    <3>1. \A r \in DOMAIN seen : seen[r] \in a .. b
      BY <2>2, <2>3
    <3> HIDE DEF b
    <3> QED
      BY <3>1 DEF InMemory
  <2> HIDE DEF b
  <2>7. Cardinality(InMemory(s, a, b)) + Cardinality(Pending(s, a, b)) <= Between(s, low, b)
    BY <2>1, <2>4 DEF GateInv, TokenInv
  <2> HIDE DEF low
  <2>8. Between(s, low, b) <= Burst + Refills(b - low)
    BY <2>1, <2>4, <2>5 DEF GateInv, StretchInv
  <2>9. /\ Refills(b - low) \in Nat /\ Refills(Longest + MaxCheck) \in Nat
        /\ Refills(b - low) <= Refills(Longest + MaxCheck)
    BY <2>3, <2>5, RefillGrows
  <2>10. Cardinality(InMemory(s, a, b)) \in Nat /\ Cardinality(Pending(s, a, b)) \in Nat
    BY <2>1, Counted DEF GateInv
  <2>11. Between(s, low, b) \in Int
    <3>1. \A t \in Times : since[s][t] \in Nat
      BY <2>1 DEF GateInv, GateTypeOK, LimiterTypeOK
    <3>2. low \in Times
      BY <2>4, <2>5, LimiterAssumption DEF Times
    <3>3. Beyond(s, b) \in Nat /\ since[s][low] \in Nat
      BY <3>1, <3>2 DEF Beyond
    <3> HIDE DEF Beyond
    <3> QED
      BY <3>3 DEF Between
  <2> DEFINE count == Cardinality(InMemory(s, a, b))
             pending == Cardinality(Pending(s, a, b))
             spent == Between(s, low, b)
             part == Refills(b - low)
             whole == Refills(Longest + MaxCheck)
  <2>12. /\ count \in Nat /\ pending \in Nat /\ spent \in Int /\ part \in Nat
         /\ whole \in Nat /\ count + pending <= spent /\ spent <= Burst + part
         /\ part <= whole
    BY <2>7, <2>8, <2>9, <2>10, <2>11
  <2> HIDE DEF count, pending, spent, part
  <2>13. count <= Burst + whole
    <3> HIDE DEF whole
    <3> QED
      BY <2>12, LimiterAssumption
  <2> QED
    BY <2>6, <2>13 DEF count, Flood
<1> QED
  BY <1>1, GateInvariance, PTL

-----------------------------------------------------------------------------
(***************************************************************************)
(* The way of a command, and the desktops.                                 *)
(***************************************************************************)

(* The invariant.                                                          *)
Steps == {"idle", "sent", "admitted", "resolve", "execute", "eval", "answer", "over"}
Answers == {"none", "ok", "failed"}
KeyDown == [by : Nat, window : Windows]

RelayType ==
    /\ command \in [Ids -> Command] /\ controller \in [Agents -> Agents \cup {Nobody}]
    /\ tokens \in [Agents -> [Agents -> 0 .. RequestBurst]]
    /\ path \in [Ids -> Seq(Agents)] /\ step \in [Ids -> Steps]
    /\ \A n \in Ids : (path[n] = <<>>) <=> (step[n] \in {"idle", "over"})
    /\ result \in [Ids -> Answers] /\ told \in [Ids -> Answers]
    /\ executed \in [Ids -> Nat]
    /\ moves \in 0 .. MaxMoves /\ faults \in 0 .. MaxFaults

\* A script in its timers has one left.
DesktopType ==
    /\ active \in [Agents -> Windows] /\ streams \in [Agents -> SUBSET Remotes]
    /\ \A a \in Agents : active[a] \in streams[a] \cup {Desk}
    /\ held \in [Agents -> SUBSET KeyDown] /\ home \in [Agents -> Windows]
    /\ calm \in [Agents -> BOOLEAN]
    /\ scripts \subseteq Script
    /\ \A x \in scripts : x.step = "timers" => x.left # <<>>

Carried(n) == step[n] \notin {"idle", "over"}
OnceAt(n) ==
    /\ executed[n] = 0 \/ executed[n] = 1
    /\ step[n] \notin {"answer", "over"} => executed[n] = 0
    /\ step[n] = "answer" /\ result[n] = "ok" => executed[n] = 1
    /\ told[n] = "ok" => executed[n] = 1
OnceInv == \A n \in Ids : OnceAt(n)

Focus(r) == IF r THEN <<"focus">> ELSE <<>>
Restores(x) == x.previous # Active
\* The release is still to come.
Pressed(x) ==
    \/ x.left = Timers(x.chord, Restores(x))
    \/ x.chord = "display" /\ x.left = <<<<"release">>, Focus(Restores(x))>>
\* What x, alone on the desktop of a, has done to it so far.
Alone(a, x) ==
    /\ x.previous \in {Active, home[a]}
    /\ ~Restores(x) => active[a] = home[a]
    /\ x.step = "eval" => /\ active[a] = home[a] /\ held[a] = {}
                          /\ x.window = Active <=> ~Restores(x)
    /\ x.step = "timers" =>
          \/ Pressed(x) /\ held[a] = {[by |-> x.by, window |-> active[a]]}
          \/ x.left = <<Focus(Restores(x))>> /\ held[a] = {}
CalmAt(a) ==
    calm[a] =>
        /\ home[a] \in streams[a] \cup {Desk}
        /\ \/ On(a) = {} /\ active[a] = home[a] /\ held[a] = {}
           \/ \E x \in On(a) : On(a) = {x} /\ Alone(a, x)
CalmInv == \A a \in Agents : CalmAt(a)

RelayInv == RelayType /\ DesktopType /\ OnceInv /\ CalmInv

-----------------------------------------------------------------------------
(* The timers of a script, and what they do.                               *)

(* timed_shortcut_lua, by the kind of the keys.                            *)
LEMMA TimersOf ==
    ASSUME NEW r \in BOOLEAN
    PROVE  /\ Timers("toggle", r) = <<<<"release">> \o Focus(r)>>
           /\ Timers("display", r) = <<<<"press">>, <<"release">>, Focus(r)>>
  BY DEF Timers, Focus

(* The old focus is the last action of a script, if it is one at all.      *)
LEMMA FocusType == ASSUME NEW r \in BOOLEAN PROVE Focus(r) \in Seq(Action)
<1>1. <<"focus">> \in Seq({"press", "release", "focus"})
  OBVIOUS
<1>2. <<>> \in Seq(Action)
  OBVIOUS
<1> QED
  BY <1>1, <1>2 DEF Focus, Action

(* The timers of every script are at least one.                            *)
LEMMA TimersType ==
    ASSUME NEW chord \in Chords, NEW r \in BOOLEAN
    PROVE  Timers(chord, r) \in Seq(Seq(Action)) /\ Timers(chord, r) # <<>>
<1>1. <<"release">> \in Seq(Action) /\ <<"press">> \in Seq(Action) /\ Focus(r) \in Seq(Action)
  BY FocusType DEF Action
<1>2. <<"release">> \o Focus(r) \in Seq(Action)
  BY <1>1
<1>3. CASE chord = "toggle"
  <2>1. PICK s \in Seq(Action) : s = <<"release">> \o Focus(r)
    BY <1>2
  <2>2. Timers(chord, r) = <<s>>
    BY <1>3, <2>1, TimersOf
  <2> QED
    BY <2>2
<1>4. CASE chord = "display"
  <2>1. PICK p \in Seq(Action), q \in Seq(Action), s \in Seq(Action) :
            p = <<"press">> /\ q = <<"release">> /\ s = Focus(r)
    BY <1>1
  <2>2. Timers(chord, r) = <<p, q, s>>
    BY <1>4, <2>1, TimersOf
  <2> QED
    BY <2>2
<1> QED
  BY <1>3, <1>4 DEF Chords

\* Where the focus is on the desktop of a, and what is held.
Desktops(a) == [active : streams[a] \cup {Desk}, held : SUBSET KeyDown]

(* An action leaves the focus on a window that is open.                    *)
LEMMA AfterType ==
    ASSUME DesktopType, NEW x \in Script, NEW st \in Desktops(x.on), NEW act \in Action
    PROVE  After(x, st, act) \in Desktops(x.on)
<1>1. x.on \in Agents /\ x.by \in Nat /\ st.active \in Windows
  BY DEF Script, Desktops, DesktopType, Windows
<1>2. [by |-> x.by, window |-> st.active] \in KeyDown
  BY <1>1 DEF KeyDown
<1>3. CASE act = "press"
  BY <1>2, <1>3 DEF After, Desktops
<1>4. CASE act = "release"
  BY <1>4 DEF After, Desktops
<1>5. CASE act = "focus"
  BY <1>5 DEF After, Desktops
<1> QED
  BY <1>3, <1>4, <1>5 DEF Action

(* So do the actions of a timer.                                           *)
LEMMA RunAllType ==
    ASSUME DesktopType, NEW x \in Script, NEW st \in Desktops(x.on), NEW acts \in Seq(Action)
    PROVE  RunAll(x, st, acts) \in Desktops(x.on)
<1>1. CASE acts = <<>>
  BY <1>1 DEF RunAll
<1>2. CASE Len(acts) = 1
  <2>1. acts[1] \in Action /\ acts # <<>>
    BY <1>2
  <2> QED
    BY <1>2, <2>1, AfterType DEF RunAll
<1>3. CASE Len(acts) > 1
  <2>1. acts[1] \in Action /\ acts[2] \in Action /\ acts # <<>> /\ Len(acts) # 1
    BY <1>3
  <2>2. After(x, st, acts[1]) \in Desktops(x.on)
    BY <2>1, AfterType
  <2>3. After(x, After(x, st, acts[1]), acts[2]) \in Desktops(x.on)
    BY <2>1, <2>2, AfterType
  <2> QED
    BY <2>1, <2>3 DEF RunAll
<1>4. acts = <<>> \/ Len(acts) \in Nat \ {0}
  OBVIOUS
<1>5. \A k \in Nat \ {0} : k = 1 \/ k > 1
  OBVIOUS
<1> QED
  BY <1>1, <1>2, <1>3, <1>4, <1>5, Zenon

(* What the timers that exist do.                                          *)
LEMMA RunAllOf ==
    ASSUME NEW x, NEW st, NEW r \in BOOLEAN
    PROVE  /\ RunAll(x, st, <<"press">>) = After(x, st, "press")
           /\ RunAll(x, st, <<"release">>) = After(x, st, "release")
           /\ RunAll(x, st, Focus(r)) = IF r THEN After(x, st, "focus") ELSE st
           /\ RunAll(x, st, <<"release">> \o Focus(r)) =
                IF r THEN After(x, After(x, st, "release"), "focus")
                ELSE After(x, st, "release")
<1>1. CASE r
  <2>1. Focus(r) = <<"focus">>
    BY <1>1, SMT DEF Focus
  <2> DEFINE both == <<"release">> \o <<"focus">>
  <2>2. Len(both) = 2 /\ both # <<>> /\ both[1] = "release" /\ both[2] = "focus"
    OBVIOUS
  <2> HIDE DEF both
  <2>3. RunAll(x, st, both) = After(x, After(x, st, "release"), "focus")
    BY <2>2 DEF RunAll
  <2>4. RunAll(x, st, <<"focus">>) = After(x, st, "focus")
    BY DEF RunAll
  <2>5. /\ RunAll(x, st, <<"press">>) = After(x, st, "press")
        /\ RunAll(x, st, <<"release">>) = After(x, st, "release")
    BY DEF RunAll
  <2> QED
    BY <1>1, <2>1, <2>3, <2>4, <2>5 DEF both
<1>2. CASE ~r
  <2>1. Focus(r) = <<>> /\ <<"release">> \o Focus(r) = <<"release">>
    BY <1>2 DEF Focus
  <2> QED
    BY <1>2, <2>1 DEF RunAll
<1> QED
  BY <1>1, <1>2

-----------------------------------------------------------------------------
(* A desktop nothing happens on stays as it is.                            *)
LEMMA DesktopKeeps ==
    ASSUME NEW a, CalmAt(a), On(a)' = On(a), calm'[a] => calm[a],
           home'[a] = home[a], streams'[a] = streams[a],
           active'[a] = active[a], held'[a] = held[a]
    PROVE  CalmAt(a)'
<1>1. \A x : Alone(a, x)' <=> Alone(a, x)
  BY DEF Alone
<1> QED
  BY <1>1 DEF CalmAt

(* A desktop that something else got in between owes nothing.              *)
LEMMA NotCalm == ASSUME NEW a, ~calm'[a] PROVE CalmAt(a)'
  BY DEF CalmAt

(* A step that leaves every desktop alone.                                 *)
LEMMA DesktopsKeep ==
    ASSUME DesktopType, CalmInv, UNCHANGED desktopVars
    PROVE  DesktopType' /\ CalmInv'
<1>1. DesktopType'
  BY DEF DesktopType, desktopVars
<1>2. ASSUME NEW a \in Agents PROVE CalmAt(a)'
  <2>1. CalmAt(a)
    BY DEF CalmInv
  <2>2. On(a)' = On(a)
    BY DEF On, desktopVars
  <2> QED
    BY <2>1, <2>2, DesktopKeeps DEF desktopVars
<1> QED
  BY <1>1, <1>2 DEF CalmInv

(* A shortcut begins: alone, or the desktop is no longer calm.             *)
LEMMA ReadActiveKeeps ==
    ASSUME DesktopType, CalmInv, NEW n \in Nat, NEW a \in Agents, NEW chord \in Chords,
           NEW w \in Selectors, ReadActive(n, a, chord, w)
    PROVE  DesktopType' /\ CalmInv'
<1> DEFINE new == [by |-> n, on |-> a, chord |-> chord, window |-> w, step |-> "eval",
                   left |-> <<>>, previous |-> IF w = Active THEN Active ELSE active[a]]
<1>2. <<>> \in Seq(Seq(Action))
  OBVIOUS
<1>3. active[a] \in Windows /\ active[a] \in streams[a] \cup {Desk}
  BY DEF DesktopType
<1>4. PICK x \in Script :
          /\ x = new /\ x.on = a /\ x.step = "eval" /\ x.window = w
          /\ x.previous = IF w = Active THEN Active ELSE active[a]
  <2>1. new \in Script
    BY <1>2, <1>3 DEF Script
  <2> QED
    BY <2>1
<1>1. /\ scripts' = scripts \cup {x}
      /\ home' = IF On(a) = {} THEN [home EXCEPT ![a] = active[a]] ELSE home
      /\ calm' = [calm EXCEPT ![a] = On(a) = {} /\ held[a] = {}]
      /\ UNCHANGED <<active, streams, held>>
  BY <1>4 DEF ReadActive
<1> HIDE DEF new
<1>5. DesktopType'
  <2>1. home' \in [Agents -> Windows] /\ calm' \in [Agents -> BOOLEAN]
    BY <1>1, <1>3 DEF DesktopType
  <2>2. scripts' \subseteq Script /\ \A y \in scripts' : y.step = "timers" => y.left # <<>>
    BY <1>1, <1>4 DEF DesktopType
  <2> QED
    BY <1>1, <2>1, <2>2 DEF DesktopType
<1>6. ASSUME NEW b \in Agents, b # a PROVE CalmAt(b)'
  <2>1. CalmAt(b)
    BY DEF CalmInv
  <2>2. On(b)' = On(b)
    BY <1>1, <1>4, <1>6 DEF On
  <2>3. calm'[b] = calm[b] /\ home'[b] = home[b]
    BY <1>1, <1>6 DEF DesktopType
  <2> QED
    BY <1>1, <2>1, <2>2, <2>3, DesktopKeeps
<1>7. CalmAt(a)'
  <2>1. CASE On(a) = {} /\ held[a] = {}
    <3>1. On(a)' = {x}
      BY <1>1, <1>4, <2>1 DEF On
    <3>2. home'[a] = active[a]
      BY <1>1, <2>1 DEF DesktopType
    <3>3. active[a] # Active
      BY <1>3, WindowAssumption
    <3>4. Alone(a, x)'
      BY <1>1, <1>4, <2>1, <3>2, <3>3 DEF Alone, Restores
    <3> QED
      BY <1>1, <1>3, <3>1, <3>2, <3>4 DEF CalmAt
  <2>2. CASE ~(On(a) = {} /\ held[a] = {})
    <3>1. ~calm'[a]
      BY <1>1, <2>2 DEF DesktopType
    <3> QED
      BY <3>1, NotCalm
  <2> QED
    BY <2>1, <2>2
<1> QED
  BY <1>5, <1>6, <1>7 DEF CalmInv

(* The script is run: it moves the focus, and its first key is down there. *)
LEMMA EvaluateKeeps ==
    ASSUME DesktopType, CalmInv, NEW x \in scripts, x.step = "eval",
           NEW w \in Meant(x.on, x.window), Evaluate(x, w)
    PROVE  DesktopType' /\ CalmInv'
<1> DEFINE a == x.on
           left == Timers(x.chord, Restores(x))
           y == [x EXCEPT !.step = "timers", !.left = left]
<1>1. /\ active' = [active EXCEPT ![a] = w]
      /\ held' = [held EXCEPT ![a] = @ \cup {[by |-> x.by, window |-> w]}]
      /\ scripts' = (scripts \ {x}) \cup {y}
      /\ UNCHANGED <<streams, home, calm>>
  BY DEF Evaluate, Restores
<1>2. x \in Script /\ a \in Agents /\ x.by \in Nat /\ x.chord \in Chords /\ Restores(x) \in BOOLEAN
  BY DEF DesktopType, Script, Restores
<1>3. left \in Seq(Seq(Action)) /\ left # <<>>
  BY <1>2, TimersType
<1> HIDE DEF left
<1>4. /\ y \in Script /\ y.on = a /\ y.step = "timers" /\ y.left = left
      /\ y.previous = x.previous /\ y.chord = x.chord /\ y.by = x.by
  BY <1>2, <1>3 DEF Script
<1>5. w \in streams[a] \cup {Desk} /\ w \in Windows /\ (x.window = Active => w = active[a])
  BY <1>2, WindowAssumption DEF Meant, DesktopType, Windows
<1> HIDE DEF y
<1>6. DesktopType'
  <2>1. [by |-> x.by, window |-> w] \in KeyDown
    BY <1>2, <1>5 DEF KeyDown
  <2>2. active' \in [Agents -> Windows] /\ held' \in [Agents -> SUBSET KeyDown]
    BY <1>1, <1>2, <1>5, <2>1 DEF DesktopType
  <2>3. \A b \in Agents : active'[b] \in streams'[b] \cup {Desk}
    BY <1>1, <1>2, <1>5 DEF DesktopType
  <2>4. scripts' \subseteq Script /\ \A z \in scripts' : z.step = "timers" => z.left # <<>>
    BY <1>1, <1>3, <1>4 DEF DesktopType
  <2> QED
    BY <1>1, <2>2, <2>3, <2>4 DEF DesktopType
<1>7. ASSUME NEW b \in Agents, b # a PROVE CalmAt(b)'
  <2>1. CalmAt(b)
    BY DEF CalmInv
  <2>2. On(b)' = On(b)
    BY <1>1, <1>4, <1>7 DEF On
  <2>3. active'[b] = active[b] /\ held'[b] = held[b]
    BY <1>1, <1>7 DEF DesktopType
  <2> QED
    BY <1>1, <2>1, <2>2, <2>3, DesktopKeeps
<1>8. ASSUME calm[a] PROVE CalmAt(a)'
  <2>1. x \in On(a) /\ CalmAt(a)
    BY <1>2 DEF On, CalmInv
  <2>2. On(a) = {x} /\ Alone(a, x) /\ home[a] \in streams[a] \cup {Desk}
    BY <1>8, <2>1 DEF CalmAt
  <2>3. On(a)' = {y}
    BY <1>1, <1>4, <2>2 DEF On
  <2>4. active'[a] = w /\ held'[a] = {[by |-> x.by, window |-> w]}
    BY <1>1, <1>2, <2>2 DEF Alone, DesktopType
  <2>5. Pressed(y) /\ (Restores(y) <=> Restores(x))
    BY <1>4 DEF Pressed, Restores, left
  <2>6. ~Restores(x) => w = home[a]
    BY <1>5, <2>2 DEF Alone
  <2>7. Alone(a, y)'
    BY <1>1, <1>4, <2>2, <2>4, <2>5, <2>6 DEF Alone
  <2> QED
    BY <1>1, <2>2, <2>3, <2>7 DEF CalmAt
<1>9. ASSUME ~calm[a] PROVE CalmAt(a)'
  BY <1>1, <1>9, NotCalm
<1> QED
  BY <1>6, <1>7, <1>8, <1>9 DEF CalmInv

(* Scripts that were not run yet go: they have changed nothing.            *)
LEMMA DropKeeps ==
    ASSUME DesktopType, CalmInv, NEW gone \in SUBSET scripts,
           \A x \in gone : x.step = "eval", scripts' = scripts \ gone,
           UNCHANGED <<active, streams, held, home, calm>>
    PROVE  DesktopType' /\ CalmInv'
<1>1. DesktopType'
  BY DEF DesktopType
<1>2. ASSUME NEW a \in Agents PROVE CalmAt(a)'
  <2>1. CalmAt(a)
    BY DEF CalmInv
  <2>2. On(a)' = On(a) \ gone
    BY DEF On
  <2>3. CASE On(a) \cap gone = {}
    <3>1. On(a)' = On(a)
      BY <2>2, <2>3
    <3> QED
      BY <2>1, <3>1, DesktopKeeps
  <2>4. ASSUME NEW x \in On(a) \cap gone PROVE CalmAt(a)'
    <3>1. SUFFICES ASSUME calm[a] PROVE CalmAt(a)'
      BY DEF CalmAt
    <3>2. On(a) = {x} /\ Alone(a, x) /\ home[a] \in streams[a] \cup {Desk}
      BY <2>1, <3>1 DEF CalmAt
    <3>3. x.step = "eval"
      OBVIOUS
    <3>4. On(a)' = {}
      BY <2>2, <3>2
    <3> QED
      BY <3>2, <3>3, <3>4 DEF CalmAt, Alone
  <2> QED
    BY <2>3, <2>4
<1> QED
  BY <1>1, <1>2 DEF CalmInv

(* First and rest of the lists that timers are.                            *)
LEMMA Lists ==
    ASSUME NEW p, NEW q, NEW s
    PROVE  /\ Len(<<s>>) = 1 /\ Head(<<s>>) = s
           /\ Len(<<q, s>>) = 2 /\ Head(<<q, s>>) = q /\ Tail(<<q, s>>) = <<s>>
           /\ Len(<<p, q, s>>) = 3 /\ Head(<<p, q, s>>) = p
           /\ Tail(<<p, q, s>>) = <<q, s>>
  OBVIOUS

(* There is a next timer, or this was the last.                            *)
LEMMA Rest ==
    ASSUME NEW S, NEW s \in Seq(S), s # <<>>
    PROVE  Tail(s) \in Seq(S) /\ (Len(s) # 1 => Tail(s) # <<>>)
<1>1. Tail(s) \in Seq(S) /\ Len(Tail(s)) = Len(s) - 1 /\ Len(s) \in Nat
  OBVIOUS
<1>2. ASSUME Tail(s) = <<>> PROVE Len(s) = 1
  <2>1. \A k \in Nat : 0 = k - 1 => k = 1
    OBVIOUS
  <2>2. Len(<<>>) = 0
    OBVIOUS
  <2>3. 0 = Len(s) - 1
    BY <1>1, <1>2, <2>2, Zenon
  <2> QED
    BY <1>1, <2>1, <2>3, Zenon
<1> QED
  BY <1>1, <1>2

\* What the next timer of x makes of its desktop.
NextState(x) ==
    RunAll(x, [active |-> active[x.on], held |-> held[x.on]], Head(x.left))

(* What the keys and the focus are, when the next timer is through, and    *)
(* what is then still to do.                                               *)
LEMMA NextTimer ==
    ASSUME DesktopType, NEW x \in scripts, x.step = "timers", Alone(x.on, x),
           home[x.on] \in streams[x.on] \cup {Desk}
    PROVE  /\ Len(x.left) = 1 => /\ NextState(x).active = home[x.on]
                                 /\ NextState(x).held = {}
           /\ Len(x.left) # 1 =>
                /\ NextState(x).active = active[x.on]
                /\ \/ /\ x.chord = "display"
                      /\ Tail(x.left) = <<<<"release">>, Focus(Restores(x))>>
                      /\ NextState(x).held = {[by |-> x.by, window |-> active[x.on]]}
                   \/ /\ Tail(x.left) = <<Focus(Restores(x))>>
                      /\ NextState(x).held = {}
<1> DEFINE a == x.on
           r == Restores(x)
           key == [by |-> x.by, window |-> active[a]]
           st == [active |-> active[a], held |-> held[a]]
<1>1. /\ x.chord \in Chords /\ r \in BOOLEAN
      /\ r => x.previous = home[a]
      /\ ~r => active[a] = home[a]
      /\ st.active = active[a] /\ st.held = held[a]
  BY DEF DesktopType, Script, Alone, Restores
<1>2. NextState(x) = RunAll(x, st, Head(x.left))
  BY DEF NextState
<1>3. ASSUME Pressed(x), held[a] = {key}
      PROVE  /\ After(x, st, "release").active = active[a]
             /\ After(x, st, "release").held = {}
             /\ After(x, st, "press").active = active[a]
             /\ After(x, st, "press").held = {key}
  BY <1>3 DEF After
<1>4. ASSUME NEW now \in {st, After(x, st, "release")}, r
      PROVE  /\ After(x, now, "focus").active = home[a]
             /\ After(x, now, "focus").held = now.held
  BY <1>1, <1>4 DEF After
<1> HIDE DEF st, key, r
<1>5. CASE held[a] = {key} /\ x.left = Timers(x.chord, r) /\ x.chord = "toggle"
  <2>1. x.left = <<<<"release">> \o Focus(r)>>
    BY <1>1, <1>5, TimersOf
  <2>2. Len(x.left) = 1 /\ NextState(x) = RunAll(x, st, <<"release">> \o Focus(r))
    BY <1>2, <2>1, Lists
  <2>3. Pressed(x)
    BY <1>5 DEF Pressed, r
  <2>4. NextState(x) = IF r THEN After(x, After(x, st, "release"), "focus")
                       ELSE After(x, st, "release")
    BY <1>1, <2>2, RunAllOf
  <2> QED
    BY <1>1, <1>3, <1>4, <1>5, <2>2, <2>3, <2>4
<1>6. CASE held[a] = {key} /\ x.left = Timers(x.chord, r) /\ x.chord = "display"
  <2>1. x.left = <<<<"press">>, <<"release">>, Focus(r)>>
    BY <1>1, <1>6, TimersOf
  <2>2. /\ Len(x.left) = 3 /\ NextState(x) = RunAll(x, st, <<"press">>)
        /\ Tail(x.left) = <<<<"release">>, Focus(r)>>
    BY <1>2, <2>1, Lists
  <2>3. Pressed(x)
    BY <1>6 DEF Pressed, r
  <2>4. NextState(x) = After(x, st, "press")
    BY <1>1, <2>2, RunAllOf
  <2> QED
    BY <1>3, <1>6, <2>2, <2>3, <2>4 DEF r, key
<1>7. CASE held[a] = {key} /\ x.chord = "display" /\ x.left = <<<<"release">>, Focus(r)>>
  <2>1. /\ Len(x.left) = 2 /\ NextState(x) = RunAll(x, st, <<"release">>)
        /\ Tail(x.left) = <<Focus(r)>>
    BY <1>2, <1>7, Lists
  <2>2. Pressed(x)
    BY <1>7 DEF Pressed, r
  <2>3. NextState(x) = After(x, st, "release")
    BY <1>1, <2>1, RunAllOf
  <2> QED
    BY <1>3, <1>7, <2>1, <2>2, <2>3 DEF r
<1>8. CASE held[a] = {} /\ x.left = <<Focus(r)>>
  <2>1. Len(x.left) = 1 /\ NextState(x) = RunAll(x, st, Focus(r))
    BY <1>2, <1>8, Lists
  <2>2. NextState(x) = IF r THEN After(x, st, "focus") ELSE st
    BY <1>1, <2>1, RunAllOf
  <2> QED
    BY <1>1, <1>4, <1>8, <2>1, <2>2
<1>9. \/ held[a] = {key} /\ x.left = Timers(x.chord, r)
      \/ held[a] = {key} /\ x.chord = "display" /\ x.left = <<<<"release">>, Focus(r)>>
      \/ held[a] = {} /\ x.left = <<Focus(r)>>
  BY DEF Alone, Pressed, r, key
<1>10. x.chord = "toggle" \/ x.chord = "display"
  BY <1>1 DEF Chords
<1> QED
  BY <1>5, <1>6, <1>7, <1>8, <1>9, <1>10

(* A timer: when a lone script is through, its window is active again and  *)
(* its keys are up.                                                        *)
LEMMA TimerKeeps ==
    ASSUME DesktopType, CalmInv, NEW x \in scripts, Timer(x)
    PROVE  DesktopType' /\ CalmInv'
<1> DEFINE a == x.on
           st == NextState(x)
           y == [x EXCEPT !.left = Tail(x.left)]
           rest == IF Len(x.left) = 1 THEN {} ELSE {y}
<1>1. /\ x.step = "timers"
      /\ active' = [active EXCEPT ![a] = st.active]
      /\ held' = [held EXCEPT ![a] = st.held]
      /\ scripts' = (scripts \ {x}) \cup rest
      /\ UNCHANGED <<streams, home, calm>>
  BY DEF Timer, NextState
<1>2. x \in Script /\ a \in Agents /\ x.left \in Seq(Seq(Action)) /\ x.left # <<>>
  BY <1>1 DEF DesktopType, Script
<1>3. st \in Desktops(a)
  <2>1. Head(x.left) \in Seq(Action)
    BY <1>2
  <2>2. [active |-> active[a], held |-> held[a]] \in Desktops(a)
    BY <1>2 DEF DesktopType, Desktops
  <2> QED
    BY <1>2, <2>1, <2>2, RunAllType DEF NextState
<1>4. /\ Tail(x.left) \in Seq(Seq(Action))
      /\ Len(x.left) # 1 => Tail(x.left) # <<>>
  BY <1>2, Rest
<1>5. /\ y \in Script /\ y.on = a /\ y.step = "timers" /\ y.left = Tail(x.left)
      /\ y.previous = x.previous /\ y.chord = x.chord /\ y.by = x.by
  BY <1>1, <1>2, <1>4 DEF Script
<1> HIDE DEF y, st
<1>6. DesktopType'
  <2>1. st.active \in streams[a] \cup {Desk} /\ st.held \in SUBSET KeyDown
    BY <1>3 DEF Desktops
  <2>2. st.active \in Windows
    BY <1>2, <2>1 DEF DesktopType, Windows
  <2>3. active' \in [Agents -> Windows] /\ held' \in [Agents -> SUBSET KeyDown]
    BY <1>1, <1>2, <2>1, <2>2 DEF DesktopType
  <2>4. \A b \in Agents : active'[b] \in streams'[b] \cup {Desk}
    BY <1>1, <1>2, <2>1 DEF DesktopType
  <2>5. scripts' \subseteq Script /\ \A z \in scripts' : z.step = "timers" => z.left # <<>>
    BY <1>1, <1>4, <1>5 DEF DesktopType
  <2> QED
    BY <1>1, <2>3, <2>4, <2>5 DEF DesktopType
<1>7. ASSUME NEW b \in Agents, b # a PROVE CalmAt(b)'
  <2>1. CalmAt(b)
    BY DEF CalmInv
  <2>2. On(b)' = On(b)
    BY <1>1, <1>5, <1>7 DEF On
  <2>3. active'[b] = active[b] /\ held'[b] = held[b]
    BY <1>1, <1>7 DEF DesktopType
  <2> QED
    BY <1>1, <2>1, <2>2, <2>3, DesktopKeeps
<1>8. ASSUME calm[a] PROVE CalmAt(a)'
  <2>1. x \in On(a) /\ CalmAt(a)
    BY <1>2 DEF On, CalmInv
  <2>2. On(a) = {x} /\ Alone(a, x) /\ home[a] \in streams[a] \cup {Desk}
    BY <1>8, <2>1 DEF CalmAt
  <2>3. active'[a] = st.active /\ held'[a] = st.held
    BY <1>1, <1>2 DEF DesktopType
  <2>4. CASE Len(x.left) = 1
    <3>1. On(a)' = {}
      BY <1>1, <2>2, <2>4 DEF On
    <3>2. st.active = home[a] /\ st.held = {}
      BY <1>1, <2>2, <2>4, NextTimer DEF st
    <3> QED
      BY <1>1, <2>2, <2>3, <3>1, <3>2 DEF CalmAt
  <2>5. CASE Len(x.left) # 1
    <3>1. On(a)' = {y}
      BY <1>1, <1>5, <2>2, <2>5 DEF On
    <3>2. Restores(y) <=> Restores(x)
      BY <1>5 DEF Restores
    <3>3. /\ st.active = active[a]
          /\ \/ /\ x.chord = "display"
                /\ Tail(x.left) = <<<<"release">>, Focus(Restores(x))>>
                /\ st.held = {[by |-> x.by, window |-> active[a]]}
             \/ /\ Tail(x.left) = <<Focus(Restores(x))>>
                /\ st.held = {}
      BY <1>1, <2>2, <2>5, NextTimer DEF st
    <3>4. \/ Pressed(y) /\ st.held = {[by |-> y.by, window |-> active[a]]}
          \/ y.left = <<Focus(Restores(y))>> /\ st.held = {}
      BY <1>5, <3>2, <3>3 DEF Pressed, Restores
    <3>5. Alone(a, y)'
      BY <1>1, <1>5, <2>2, <2>3, <3>2, <3>3, <3>4 DEF Alone
    <3> QED
      BY <1>1, <2>2, <3>1, <3>5 DEF CalmAt
  <2> QED
    BY <2>4, <2>5
<1>9. ASSUME ~calm[a] PROVE CalmAt(a)'
  BY <1>1, <1>9, NotCalm
<1> QED
  BY <1>6, <1>7, <1>8, <1>9 DEF CalmInv

(* A window closes: its keys go, and the focus, if it was there.           *)
LEMMA ClosedKeeps ==
    ASSUME DesktopType, CalmInv, NEW a \in Agents, NEW w, w # Desk, Closed(a, w)
    PROVE  DesktopType' /\ CalmInv'
<1>1. /\ streams' = [streams EXCEPT ![a] = @ \ {w}]
      /\ active' = IF active[a] = w THEN [active EXCEPT ![a] = Desk] ELSE active
      /\ held' = [held EXCEPT ![a] = {k \in @ : k.window # w}]
      /\ calm' = [calm EXCEPT ![a] = FALSE]
      /\ UNCHANGED <<scripts, home>>
  BY DEF Closed
<1>2. DesktopType'
  <2>1. streams' \in [Agents -> SUBSET Remotes] /\ held' \in [Agents -> SUBSET KeyDown]
    BY <1>1 DEF DesktopType
  <2>2. active' \in [Agents -> Windows] /\ calm' \in [Agents -> BOOLEAN]
    BY <1>1 DEF DesktopType, Windows
  <2>3. \A b \in Agents : active'[b] \in streams'[b] \cup {Desk}
    BY <1>1 DEF DesktopType
  <2> QED
    BY <1>1, <2>1, <2>2, <2>3 DEF DesktopType
<1>3. ASSUME NEW b \in Agents, b # a PROVE CalmAt(b)'
  <2>1. CalmAt(b)
    BY DEF CalmInv
  <2>2. On(b)' = On(b)
    BY <1>1 DEF On
  <2>3. /\ active'[b] = active[b] /\ held'[b] = held[b]
        /\ streams'[b] = streams[b] /\ calm'[b] = calm[b]
    BY <1>1, <1>3 DEF DesktopType
  <2> QED
    BY <1>1, <2>1, <2>2, <2>3, DesktopKeeps
<1>4. CalmAt(a)'
  <2>1. ~calm'[a]
    BY <1>1 DEF DesktopType
  <2> QED
    BY <2>1, NotCalm
<1> QED
  BY <1>2, <1>3, <1>4 DEF CalmInv

(* The user goes to another window.                                        *)
LEMMA UserFocusesKeeps ==
    ASSUME DesktopType, CalmInv, NEW a \in Agents, NEW w, UserFocuses(a, w)
    PROVE  DesktopType' /\ CalmInv'
<1>1. /\ w \in streams[a] \cup {Desk}
      /\ active' = [active EXCEPT ![a] = w]
      /\ calm' = [calm EXCEPT ![a] = FALSE]
      /\ UNCHANGED <<streams, held, scripts, home>>
  BY DEF UserFocuses
<1>2. DesktopType'
  <2>1. active' \in [Agents -> Windows] /\ calm' \in [Agents -> BOOLEAN]
    BY <1>1 DEF DesktopType, Windows
  <2>2. \A b \in Agents : active'[b] \in streams'[b] \cup {Desk}
    BY <1>1 DEF DesktopType
  <2> QED
    BY <1>1, <2>1, <2>2 DEF DesktopType
<1>3. ASSUME NEW b \in Agents, b # a PROVE CalmAt(b)'
  <2>1. CalmAt(b)
    BY DEF CalmInv
  <2>2. On(b)' = On(b)
    BY <1>1 DEF On
  <2>3. active'[b] = active[b] /\ calm'[b] = calm[b]
    BY <1>1, <1>3 DEF DesktopType
  <2> QED
    BY <1>1, <2>1, <2>2, <2>3, DesktopKeeps
<1>4. CalmAt(a)'
  <2>1. ~calm'[a]
    BY <1>1 DEF DesktopType
  <2> QED
    BY <2>1, NotCalm
<1> QED
  BY <1>2, <1>3, <1>4 DEF CalmInv

(* The user of the controller toggles the capture of a stream.             *)
LEMMA LocalToggleKeeps ==
    ASSUME DesktopType, CalmInv, NEW a \in Agents, NEW w, LocalToggle(a, w)
    PROVE  DesktopType' /\ CalmInv'
<1> DEFINE x == [by |-> 0, on |-> a, chord |-> "toggle", window |-> w, previous |-> Active,
                 step |-> "timers", left |-> Timers("toggle", FALSE)]
           key == [by |-> 0, window |-> w]
<1>1. /\ w \in streams[a]
      /\ active' = [active EXCEPT ![a] = w]
      /\ held' = [held EXCEPT ![a] = @ \cup {key}]
      /\ scripts' = scripts \cup {x}
      /\ calm' = [calm EXCEPT ![a] = FALSE]
      /\ UNCHANGED <<streams, home>>
  BY DEF LocalToggle
<1>2. w \in Remotes
  BY <1>1 DEF DesktopType
<1>3. Timers("toggle", FALSE) \in Seq(Seq(Action)) /\ Timers("toggle", FALSE) # <<>>
  BY TimersType DEF Chords
<1>4. /\ x \in Script /\ x.on = a /\ x.left # <<>>
      /\ key \in KeyDown
  BY <1>2, <1>3 DEF Script, KeyDown, Windows, Selectors, Chords
<1> HIDE DEF x, key
<1>5. DesktopType'
  <2>1. active' \in [Agents -> Windows] /\ calm' \in [Agents -> BOOLEAN]
    BY <1>1, <1>2 DEF DesktopType, Windows
  <2>2. held' \in [Agents -> SUBSET KeyDown]
    BY <1>1, <1>4 DEF DesktopType
  <2>3. \A b \in Agents : active'[b] \in streams'[b] \cup {Desk}
    BY <1>1 DEF DesktopType
  <2>4. scripts' \subseteq Script /\ \A z \in scripts' : z.step = "timers" => z.left # <<>>
    BY <1>1, <1>4 DEF DesktopType
  <2> QED
    BY <1>1, <2>1, <2>2, <2>3, <2>4 DEF DesktopType
<1>6. ASSUME NEW b \in Agents, b # a PROVE CalmAt(b)'
  <2>1. CalmAt(b)
    BY DEF CalmInv
  <2>2. On(b)' = On(b)
    BY <1>1, <1>4, <1>6 DEF On
  <2>3. active'[b] = active[b] /\ held'[b] = held[b] /\ calm'[b] = calm[b]
    BY <1>1, <1>6 DEF DesktopType
  <2> QED
    BY <1>1, <2>1, <2>2, <2>3, DesktopKeeps
<1>7. CalmAt(a)'
  <2>1. ~calm'[a]
    BY <1>1 DEF DesktopType
  <2> QED
    BY <2>1, NotCalm
<1> QED
  BY <1>5, <1>6, <1>7 DEF CalmInv

-----------------------------------------------------------------------------
(* The way of a command.                                                   *)

(* The way to an agent, and back to the one before.                        *)
LEMMA Ways ==
    ASSUME NEW S, NEW s \in Seq(S), s # <<>>
    PROVE  /\ Last(s) \in S
           /\ Len(s) \in Nat /\ Len(s) >= 1
           /\ Len(s) # 1 => s[Len(s) - 1] \in S
           /\ Len(s) > 1 => Front(s) \in Seq(S) /\ Front(s) # <<>>
           /\ \A e \in S : Append(s, e) \in Seq(S) /\ Append(s, e) # <<>>
<1>1. Len(s) \in Nat /\ Len(s) # 0
  OBVIOUS
<1>2. Len(s) >= 1 /\ Len(s) \in 1 .. Len(s)
  BY <1>1
<1>3. Last(s) \in S
  BY <1>2 DEF Last
<1>4. ASSUME Len(s) # 1 PROVE s[Len(s) - 1] \in S
  <2>1. Len(s) - 1 \in 1 .. Len(s)
    BY <1>1, <1>4
  <2> QED
    BY <2>1
<1>5. ASSUME Len(s) > 1 PROVE Front(s) \in Seq(S) /\ Front(s) # <<>>
  <2>1. 1 <= Len(s) - 1 /\ Len(s) - 1 <= Len(s) /\ Len(s) - 1 \in Nat
    BY <1>1, <1>5
  <2>2. SubSeq(s, 1, Len(s) - 1) \in Seq(S) /\ Len(SubSeq(s, 1, Len(s) - 1)) = Len(s) - 1
    BY <1>1, <2>1
  <2>3. Len(SubSeq(s, 1, Len(s) - 1)) # 0
    BY <2>1, <2>2
  <2>4. Len(<<>>) = 0
    OBVIOUS
  <2> QED
    BY <2>2, <2>3, <2>4, Zenon DEF Front
<1>6. \A e \in S : Append(s, e) \in Seq(S) /\ Append(s, e) # <<>>
  OBVIOUS
<1> QED
  BY <1>1, <1>2, <1>3, <1>4, <1>5, <1>6

(* A command that is not over is with an agent and came from one.          *)
LEMMA HereType ==
    ASSUME RelayType, NEW n \in Ids, Carried(n)
    PROVE  /\ path[n] \in Seq(Agents) /\ path[n] # <<>>
           /\ Here(n) \in Agents /\ Source(n) \in Agents
           /\ command[n].window \in Selectors
<1>1. path[n] \in Seq(Agents) /\ path[n] # <<>> /\ command[n] \in Command
  BY DEF RelayType, Carried
<1>2. Here(n) \in Agents /\ Source(n) \in Agents
  BY <1>1, Ways DEF Here, Source, Command
<1> QED
  BY <1>1, <1>2 DEF Command

(* The command goes on where it is.                                        *)
LEMMA GotoKeeps ==
    ASSUME RelayType, NEW n \in Ids, Carried(n),
           NEW s \in Steps \ {"idle", "over"}, Goto(n, s), path' = path
    PROVE  /\ step' \in [Ids -> Steps] /\ step'[n] = s
           /\ \A m \in Ids : (path'[m] = <<>>) <=> (step'[m] \in {"idle", "over"})
           /\ \A m \in Ids \ {n} : step'[m] = step[m]
  BY DEF RelayType, Carried, Goto

(* It is answered there.                                                   *)
LEMMA AnswerKeeps ==
    ASSUME RelayType, NEW n \in Ids, Carried(n), NEW r \in {"ok", "failed"},
           Answer(n, r), path' = path
    PROVE  /\ step' \in [Ids -> Steps] /\ step'[n] = "answer"
           /\ \A m \in Ids : (path'[m] = <<>>) <=> (step'[m] \in {"idle", "over"})
           /\ result' \in [Ids -> Answers] /\ result'[n] = r
           /\ \A m \in Ids \ {n} : step'[m] = step[m] /\ result'[m] = result[m]
<1>1. Goto(n, "answer") /\ result' = [result EXCEPT ![n] = r]
  BY DEF Answer
<1>2. "answer" \in Steps \ {"idle", "over"}
  BY DEF Steps
<1>3. /\ step' \in [Ids -> Steps] /\ step'[n] = "answer"
      /\ \A m \in Ids : (path'[m] = <<>>) <=> (step'[m] \in {"idle", "over"})
      /\ \A m \in Ids \ {n} : step'[m] = step[m]
  BY <1>1, <1>2, GotoKeeps
<1>4. result' \in [Ids -> Answers] /\ result'[n] = r
  BY <1>1 DEF RelayType, Answers
<1>5. \A m \in Ids \ {n} : result'[m] = result[m]
  BY <1>1 DEF RelayType
<1> QED
  BY <1>3, <1>4, <1>5

(* The other commands are not concerned.                                   *)
LEMMA OnceKeeps ==
    ASSUME OnceInv, NEW n \in Ids, OnceAt(n)',
           \A m \in Ids \ {n} : /\ step'[m] = step[m] /\ result'[m] = result[m]
                                /\ told'[m] = told[m] /\ executed'[m] = executed[m]
    PROVE  OnceInv'
<1>1. ASSUME NEW m \in Ids \ {n} PROVE OnceAt(m)'
  <2>1. OnceAt(m)
    BY DEF OnceInv
  <2> QED
    BY <2>1 DEF OnceAt
<1> QED
  BY <1>1 DEF OnceInv

(* A token is spent where there is one.                                    *)
LEMMA SpendType ==
    ASSUME RelayType, NEW a \in Agents, NEW s \in Agents, tokens[a][s] # 0
    PROVE  [tokens EXCEPT ![a][s] = @ - 1] \in [Agents -> [Agents -> 0 .. RequestBurst]]
<1>1. tokens[a][s] - 1 \in 0 .. RequestBurst
  BY CommandAssumption DEF RelayType
<1>2. [tokens[a] EXCEPT ![s] = @ - 1] \in [Agents -> 0 .. RequestBurst]
  BY <1>1 DEF RelayType
<1> QED
  BY <1>2 DEF RelayType

(* A fault is counted.                                                     *)
LEMMA FaultType == ASSUME RelayType, Fault PROVE faults' \in 0 .. MaxFaults
  BY WindowAssumption DEF RelayType, Fault

(* A user's move is counted.                                               *)
LEMMA MoveType == ASSUME RelayType, Move PROVE moves' \in 0 .. MaxMoves
  BY WindowAssumption DEF RelayType, Move

-----------------------------------------------------------------------------
(* The steps.                                                              *)

(* The sender sends, or refuses to.                                        *)
LEMMA SendKeeps == ASSUME RelayInv, NEW n \in Ids, Send(n) PROVE RelayInv'
<1>1. /\ RelayType /\ DesktopType /\ OnceInv /\ CalmInv
      /\ step[n] = "idle" /\ told[n] = "none" /\ UNCHANGED desktopVars
      /\ UNCHANGED <<command, controller, tokens, result, executed, moves, faults>>
  BY DEF RelayInv, Send
<1>2. DesktopType' /\ CalmInv'
  BY <1>1, DesktopsKeep
<1>3. OnceAt(n) /\ OnceInv
  BY <1>1 DEF OnceInv
<1>4. CASE command[n].valid
  <2>1. /\ path' = [path EXCEPT ![n] = <<command[n].to>>]
        /\ step' = [step EXCEPT ![n] = "sent"] /\ told' = told
    BY <1>4 DEF Send, Goto
  <2>2. command[n].to \in Agents
    BY <1>1 DEF RelayType, Command
  <2>3. <<command[n].to>> \in Seq(Agents) /\ <<command[n].to>> # <<>>
    BY <2>2
  <2>4. path' \in [Ids -> Seq(Agents)] /\ step' \in [Ids -> Steps]
    BY <1>1, <2>1, <2>3 DEF RelayType, Steps
  <2>5. \A m \in Ids : (path'[m] = <<>>) <=> (step'[m] \in {"idle", "over"})
    BY <1>1, <2>1, <2>3 DEF RelayType
  <2>6. RelayType'
    BY <1>1, <2>1, <2>4, <2>5 DEF RelayType
  <2>7. step'[n] = "sent" /\ \A m \in Ids \ {n} : step'[m] = step[m]
    BY <1>1, <2>1 DEF RelayType
  <2>8. OnceAt(n)'
    BY <1>1, <1>3, <2>1, <2>7 DEF OnceAt
  <2>9. OnceInv'
    BY <1>1, <2>1, <2>7, <2>8, OnceKeeps
  <2> QED
    BY <1>2, <2>6, <2>9 DEF RelayInv
<1>5. CASE ~command[n].valid
  <2>1. told' = [told EXCEPT ![n] = "failed"] /\ path' = path /\ step' = step
    BY <1>5 DEF Send
  <2>2. RelayType'
    BY <1>1, <2>1 DEF RelayType, Answers
  <2>3. told'[n] = "failed" /\ \A m \in Ids \ {n} : told'[m] = told[m]
    BY <1>1, <2>1 DEF RelayType
  <2>4. OnceAt(n)'
    BY <1>1, <1>3, <2>1, <2>3 DEF OnceAt
  <2>5. OnceInv'
    BY <1>1, <2>1, <2>3, <2>4, OnceKeeps
  <2> QED
    BY <1>2, <2>2, <2>5 DEF RelayInv
<1> QED
  BY <1>4, <1>5

(* A step that sends a command on where it is, or answers that it failed:  *)
(* nothing was carried out.                                                *)
LEMMA Onwards ==
    ASSUME RelayType, OnceInv, NEW n \in Ids, Carried(n), step[n] # "answer",
           \/ /\ \E s \in Steps \ {"idle", "over", "answer"} : Goto(n, s)
              /\ result' = result
           \/ Answer(n, "failed"),
           UNCHANGED <<command, controller, path, told, executed, moves>>,
           tokens' \in [Agents -> [Agents -> 0 .. RequestBurst]], faults' \in 0 .. MaxFaults
    PROVE  RelayType' /\ OnceInv'
<1>1. OnceAt(n) /\ executed[n] = 0
  BY DEF OnceInv, OnceAt, Carried
<1>2. ASSUME NEW s \in Steps \ {"idle", "over", "answer"}, Goto(n, s), result' = result
      PROVE  RelayType' /\ OnceInv'
  <2>1. /\ step' \in [Ids -> Steps] /\ step'[n] = s
        /\ \A m \in Ids : (path'[m] = <<>>) <=> (step'[m] \in {"idle", "over"})
        /\ \A m \in Ids \ {n} : step'[m] = step[m]
    BY <1>2, GotoKeeps
  <2>2. RelayType'
    BY <1>2, <2>1 DEF RelayType
  <2>3. OnceAt(n)'
    BY <1>1, <1>2, <2>1 DEF OnceAt
  <2> QED
    BY <1>2, <2>1, <2>2, <2>3, OnceKeeps
<1>3. ASSUME Answer(n, "failed") PROVE RelayType' /\ OnceInv'
  <2>1. /\ step' \in [Ids -> Steps] /\ step'[n] = "answer"
        /\ \A m \in Ids : (path'[m] = <<>>) <=> (step'[m] \in {"idle", "over"})
        /\ result' \in [Ids -> Answers] /\ result'[n] = "failed"
        /\ \A m \in Ids \ {n} : step'[m] = step[m] /\ result'[m] = result[m]
    BY <1>3, AnswerKeeps
  <2>2. RelayType'
    BY <2>1 DEF RelayType
  <2>3. OnceAt(n)'
    BY <1>1, <2>1 DEF OnceAt
  <2> QED
    BY <2>1, <2>2, <2>3, OnceKeeps
<1> QED
  BY <1>2, <1>3

(* run_command's checks cost a token and may refuse.                       *)
LEMMA GateKeeps == ASSUME RelayInv, NEW n \in Ids, Gate(n) PROVE RelayInv'
<1>1. /\ RelayType /\ DesktopType /\ OnceInv /\ CalmInv /\ step[n] = "sent"
      /\ UNCHANGED desktopVars
      /\ UNCHANGED <<command, controller, path, told, executed, moves, faults>>
  BY DEF RelayInv, Gate
<1>2. DesktopType' /\ CalmInv'
  BY <1>1, DesktopsKeep
<1>3. Carried(n) /\ Here(n) \in Agents /\ Source(n) \in Agents
  BY <1>1, HereType DEF Carried
<1>4. tokens' \in [Agents -> [Agents -> 0 .. RequestBurst]]
  <2>1. CASE tokens[Here(n)][Source(n)] = 0
    BY <1>1, <2>1 DEF Gate, RelayType
  <2>2. CASE tokens[Here(n)][Source(n)] # 0
    BY <1>1, <1>3, <2>2, SpendType DEF Gate, Spend
  <2> QED
    BY <2>1, <2>2
<1>5. "admitted" \in Steps \ {"idle", "over", "answer"}
  BY DEF Steps
<1>6. \/ /\ \E s \in Steps \ {"idle", "over", "answer"} : Goto(n, s)
         /\ result' = result
      \/ Answer(n, "failed")
  BY <1>5 DEF Gate
<1>7. RelayType' /\ OnceInv'
  BY <1>1, <1>3, <1>4, <1>6, Onwards DEF RelayType
<1> QED
  BY <1>2, <1>7 DEF RelayInv

(* The session's remote end passes the command on.                         *)
LEMMA RelayKeeps == ASSUME RelayInv, NEW n \in Ids, Relay(n) PROVE RelayInv'
<1>1. /\ RelayType /\ DesktopType /\ OnceInv /\ CalmInv /\ step[n] = "admitted"
      /\ controller[Here(n)] # Nobody
      /\ path' = [path EXCEPT ![n] = Append(@, controller[Here(n)])]
      /\ step' = [step EXCEPT ![n] = "sent"] /\ UNCHANGED desktopVars
      /\ UNCHANGED <<command, controller, tokens, result, told, executed, moves, faults>>
  BY DEF RelayInv, Relay, Relayed, Goto
<1>2. DesktopType' /\ CalmInv'
  BY <1>1, DesktopsKeep
<1>3. path[n] \in Seq(Agents) /\ path[n] # <<>> /\ Here(n) \in Agents
  BY <1>1, HereType DEF Carried
<1>4. controller[Here(n)] \in Agents
  BY <1>1, <1>3 DEF RelayType
<1> DEFINE way == Append(path[n], controller[Here(n)])
<1>5. way \in Seq(Agents) /\ way # <<>>
  BY <1>3, <1>4, Ways
<1>6. path' = [path EXCEPT ![n] = way]
  BY <1>1 DEF RelayType
<1> HIDE DEF way
<1>7. path' \in [Ids -> Seq(Agents)] /\ step' \in [Ids -> Steps]
  BY <1>1, <1>5, <1>6 DEF RelayType, Steps
<1>8. \A m \in Ids : (path'[m] = <<>>) <=> (step'[m] \in {"idle", "over"})
  BY <1>1, <1>5, <1>6 DEF RelayType
<1>9. RelayType'
  BY <1>1, <1>7, <1>8 DEF RelayType
<1>10. step'[n] = "sent" /\ \A m \in Ids \ {n} : step'[m] = step[m]
  BY <1>1 DEF RelayType
<1>11. OnceAt(n)'
  BY <1>1, <1>10 DEF OnceInv, OnceAt
<1>12. OnceInv'
  BY <1>1, <1>10, <1>11, OnceKeeps
<1> QED
  BY <1>2, <1>9, <1>12 DEF RelayInv

(* Without a session the agent carries it out itself.                      *)
LEMMA StayKeeps == ASSUME RelayInv, NEW n \in Ids, Stay(n) PROVE RelayInv'
<1>1. /\ RelayType /\ DesktopType /\ OnceInv /\ CalmInv /\ step[n] = "admitted"
      /\ UNCHANGED desktopVars
      /\ UNCHANGED <<command, controller, tokens, path, result, told, executed, moves, faults>>
  BY DEF RelayInv, Stay
<1>2. DesktopType' /\ CalmInv'
  BY <1>1, DesktopsKeep
<1>3. \E s \in Steps \ {"idle", "over", "answer"} : Goto(n, s)
  BY DEF Stay, Steps
<1>4. RelayType' /\ OnceInv'
  BY <1>1, <1>3, Onwards DEF RelayType, Carried
<1> QED
  BY <1>2, <1>4 DEF RelayInv

(* The displays are asked for, with a token of that agent.                 *)
LEMMA ResolveKeeps == ASSUME RelayInv, NEW n \in Ids, Resolve(n) PROVE RelayInv'
<1>1. /\ RelayType /\ DesktopType /\ OnceInv /\ CalmInv /\ step[n] = "resolve"
      /\ UNCHANGED desktopVars
      /\ UNCHANGED <<command, controller, path, told, executed, moves>>
  BY DEF RelayInv, Resolve
<1>2. DesktopType' /\ CalmInv'
  BY <1>1, DesktopsKeep
<1>3. Carried(n) /\ Here(n) \in Agents /\ Source(n) \in Agents
  BY <1>1, HereType DEF Carried
<1>4. tokens' \in [Agents -> [Agents -> 0 .. RequestBurst]] /\ faults' \in 0 .. MaxFaults
  <2>1. CASE tokens[Source(n)][Here(n)] = 0
    BY <1>1, <2>1 DEF Resolve, RelayType
  <2>2. CASE tokens[Source(n)][Here(n)] # 0
    <3>1. tokens' = [tokens EXCEPT ![Source(n)][Here(n)] = @ - 1]
      BY <2>2 DEF Resolve
    <3>2. faults' = faults \/ Fault
      BY <2>2 DEF Resolve
    <3> QED
      BY <1>1, <1>3, <2>2, <3>1, <3>2, SpendType, FaultType DEF RelayType
  <2> QED
    BY <2>1, <2>2
<1>5. "execute" \in Steps \ {"idle", "over", "answer"}
  BY DEF Steps
<1>6. \/ /\ \E s \in Steps \ {"idle", "over", "answer"} : Goto(n, s)
         /\ result' = result
      \/ Answer(n, "failed")
  BY <1>5 DEF Resolve
<1>7. RelayType' /\ OnceInv'
  BY <1>1, <1>3, <1>4, <1>6, Onwards
<1> QED
  BY <1>2, <1>7 DEF RelayInv

(* A shortcut asks for the active window, or cannot.                       *)
LEMMA StartShortcutKeeps == ASSUME RelayInv, NEW n \in Ids, StartShortcut(n) PROVE RelayInv'
<1>1. /\ RelayType /\ DesktopType /\ OnceInv /\ CalmInv /\ step[n] = "execute"
      /\ UNCHANGED <<command, controller, tokens, path, told, executed, moves>>
  BY DEF RelayInv, StartShortcut
<1>2. Carried(n) /\ Here(n) \in Agents /\ n \in Nat /\ tokens' = tokens
  BY <1>1, HereType, CommandAssumption DEF Carried, Ids
<1>3. Chord(n) \in Chords /\ WindowOf(n) \in Selectors
  BY <1>1, <1>2, HereType DEF Chord, WindowOf, Chords, Selectors
<1>4. CASE /\ ReadActive(n, Here(n), Chord(n), WindowOf(n)) /\ Goto(n, "eval")
           /\ UNCHANGED <<result, faults>>
  <2>1. DesktopType' /\ CalmInv'
    BY <1>1, <1>2, <1>3, <1>4, ReadActiveKeeps
  <2>2. "eval" \in Steps \ {"idle", "over", "answer"}
    BY DEF Steps
  <2>3. RelayType' /\ OnceInv'
    BY <1>1, <1>2, <1>4, <2>2, Onwards DEF RelayType
  <2> QED
    BY <2>1, <2>3 DEF RelayInv
<1>5. CASE Fault /\ Answer(n, "failed") /\ UNCHANGED desktopVars
  <2>1. DesktopType' /\ CalmInv'
    BY <1>1, <1>5, DesktopsKeep
  <2>2. faults' \in 0 .. MaxFaults
    BY <1>1, <1>5, FaultType
  <2>3. RelayType' /\ OnceInv'
    BY <1>1, <1>2, <1>5, <2>2, Onwards DEF RelayType
  <2> QED
    BY <2>1, <2>3 DEF RelayInv
<1> QED
  BY <1>4, <1>5 DEF StartShortcut

(* A command is carried out, and answered at once, well or not.            *)
LEMMA Executing ==
    ASSUME RelayType, OnceInv, NEW n \in Ids, Carried(n), step[n] # "answer",
           NEW r \in {"ok", "failed"}, Answer(n, r),
           executed' = [executed EXCEPT ![n] = @ + 1],
           UNCHANGED <<command, controller, tokens, path, told, moves>>,
           faults' \in 0 .. MaxFaults
    PROVE  RelayType' /\ OnceInv'
<1>1. OnceAt(n) /\ executed[n] = 0
  BY DEF OnceInv, OnceAt, Carried
<1>2. /\ step' \in [Ids -> Steps] /\ step'[n] = "answer"
      /\ \A m \in Ids : (path'[m] = <<>>) <=> (step'[m] \in {"idle", "over"})
      /\ result' \in [Ids -> Answers] /\ result'[n] = r
      /\ \A m \in Ids \ {n} : step'[m] = step[m] /\ result'[m] = result[m]
  BY AnswerKeeps
<1>3. /\ executed' \in [Ids -> Nat] /\ executed'[n] = 1
      /\ \A m \in Ids \ {n} : executed'[m] = executed[m]
  BY <1>1 DEF RelayType
<1>4. RelayType'
  BY <1>2, <1>3 DEF RelayType
<1>5. OnceAt(n)'
  BY <1>1, <1>2, <1>3 DEF OnceAt
<1> QED
  BY <1>2, <1>3, <1>4, <1>5, OnceKeeps

(* hyprctl eval: the script is run or not, and the answer tells, or hyprctl *)
(* failed.                                                                 *)
LEMMA RunShortcutKeeps == ASSUME RelayInv, NEW n \in Ids, RunShortcut(n) PROVE RelayInv'
<1>1. /\ RelayType /\ DesktopType /\ OnceInv /\ CalmInv /\ step[n] = "eval"
      /\ UNCHANGED <<command, controller, tokens, path, told, moves>>
  BY DEF RelayInv, RunShortcut
<1>2. Carried(n) /\ tokens' \in [Agents -> [Agents -> 0 .. RequestBurst]]
  BY <1>1 DEF Carried, RelayType
<1>3. PICK x \in Mine(n) :
          \/ /\ \E w \in Meant(x.on, x.window) : Evaluate(x, w)
             /\ Done(n) /\ UNCHANGED faults
          \/ Dropped(x) /\ Answer(n, "failed") /\ UNCHANGED <<executed, faults>>
          \/ /\ Fault /\ Answer(n, "failed")
             /\ \/ Dropped(x) /\ UNCHANGED executed
                \/ /\ \E w \in Meant(x.on, x.window) : Evaluate(x, w)
                   /\ executed' = [executed EXCEPT ![n] = @ + 1]
  BY DEF RunShortcut
<1>4. x \in scripts /\ x.step = "eval"
  BY DEF Mine
<1>5. (\E w \in Meant(x.on, x.window) : Evaluate(x, w)) => DesktopType' /\ CalmInv'
  BY <1>1, <1>4, EvaluateKeeps
<1>6. Dropped(x) => DesktopType' /\ CalmInv'
  <2>1. {x} \in SUBSET scripts /\ \A y \in {x} : y.step = "eval"
    BY <1>4
  <2> QED
    BY <1>1, <2>1, DropKeeps DEF Dropped
<1>7. DesktopType' /\ CalmInv'
  BY <1>3, <1>5, <1>6
<1>8. faults' \in 0 .. MaxFaults
  <2>1. faults' = faults \/ Fault
    BY <1>3
  <2> QED
    BY <1>1, <2>1, FaultType DEF RelayType
<1>9. RelayType' /\ OnceInv'
  <2>1. CASE Done(n)
    BY <1>1, <1>2, <1>8, <2>1, Executing DEF Done
  <2>2. CASE Answer(n, "failed") /\ UNCHANGED executed
    BY <1>1, <1>2, <1>8, <2>2, Onwards
  <2>3. CASE Answer(n, "failed") /\ executed' = [executed EXCEPT ![n] = @ + 1]
    BY <1>1, <1>2, <1>8, <2>3, Executing
  <2> QED
    BY <1>3, <2>1, <2>2, <2>3
<1> QED
  BY <1>7, <1>9 DEF RelayInv

(* A stream window is closed, or there is none.                            *)
LEMMA CloseWindowKeeps == ASSUME RelayInv, NEW n \in Ids, CloseWindow(n) PROVE RelayInv'
<1>1. /\ RelayType /\ DesktopType /\ OnceInv /\ CalmInv /\ step[n] = "execute"
      /\ UNCHANGED <<command, controller, tokens, path, told, moves>>
  BY DEF RelayInv, CloseWindow
<1>2. /\ Carried(n) /\ tokens' \in [Agents -> [Agents -> 0 .. RequestBurst]]
      /\ Here(n) \in Agents
  BY <1>1, HereType DEF Carried, RelayType
<1>3. DesktopType' /\ CalmInv'
  <2>1. CASE \E w \in Meant(Here(n), command[n].window) \ {Desk} : Closed(Here(n), w)
    BY <1>1, <1>2, <2>1, ClosedKeeps
  <2>2. CASE UNCHANGED desktopVars
    BY <1>1, <2>2, DesktopsKeep
  <2> QED
    BY <2>1, <2>2 DEF CloseWindow
<1>4. faults' \in 0 .. MaxFaults
  <2>1. faults' = faults \/ Fault
    BY DEF CloseWindow
  <2> QED
    BY <1>1, <2>1, FaultType DEF RelayType
<1>5. RelayType' /\ OnceInv'
  <2>1. CASE Done(n)
    BY <1>1, <1>2, <1>4, <2>1, Executing DEF Done
  <2>2. CASE Answer(n, "failed") /\ UNCHANGED executed
    BY <1>1, <1>2, <1>4, <2>2, Onwards
  <2> QED
    BY <2>1, <2>2 DEF CloseWindow
<1> QED
  BY <1>3, <1>5 DEF RelayInv

(* The answer goes one agent back, or reaches the sender.                  *)
LEMMA ReturnKeeps == ASSUME RelayInv, NEW n \in Ids, Return(n) PROVE RelayInv'
<1>1. /\ RelayType /\ DesktopType /\ OnceInv /\ CalmInv /\ step[n] = "answer"
      /\ UNCHANGED desktopVars
      /\ UNCHANGED <<command, controller, tokens, result, executed, moves, faults>>
  BY DEF RelayInv, Return
<1>2. DesktopType' /\ CalmInv'
  BY <1>1, DesktopsKeep
<1>3. path[n] \in Seq(Agents) /\ path[n] # <<>> /\ OnceAt(n)
  BY <1>1, HereType DEF Carried, OnceInv
<1>4. CASE Len(path[n]) > 1
  <2>1. UNCHANGED <<step, told>> /\ path' = [path EXCEPT ![n] = Front(path[n])]
    BY <1>4 DEF Return
  <2>2. Front(path[n]) \in Seq(Agents) /\ Front(path[n]) # <<>>
    BY <1>3, <1>4, Ways
  <2>3. path' \in [Ids -> Seq(Agents)]
    BY <1>1, <2>1, <2>2 DEF RelayType
  <2>4. \A m \in Ids : (path'[m] = <<>>) <=> (step'[m] \in {"idle", "over"})
    BY <1>1, <2>1, <2>2 DEF RelayType
  <2>5. RelayType'
    BY <1>1, <2>1, <2>3, <2>4 DEF RelayType
  <2>6. OnceInv'
    BY <1>1, <2>1 DEF OnceInv, OnceAt
  <2> QED
    BY <1>2, <2>5, <2>6 DEF RelayInv
<1>5. CASE ~(Len(path[n]) > 1)
  <2>1. /\ path' = [path EXCEPT ![n] = <<>>] /\ step' = [step EXCEPT ![n] = "over"]
        /\ told' = [told EXCEPT ![n] = IF @ = "none" THEN result[n] ELSE @]
    BY <1>5 DEF Return, Goto
  <2>2. <<>> \in Seq(Agents)
    OBVIOUS
  <2>3. path' \in [Ids -> Seq(Agents)] /\ step' \in [Ids -> Steps]
    BY <1>1, <2>1, <2>2 DEF RelayType, Steps
  <2>4. told' \in [Ids -> Answers]
    BY <1>1, <2>1 DEF RelayType
  <2>5. \A m \in Ids : (path'[m] = <<>>) <=> (step'[m] \in {"idle", "over"})
    BY <1>1, <2>1 DEF RelayType
  <2>6. RelayType'
    BY <1>1, <2>3, <2>4, <2>5 DEF RelayType
  <2>7. /\ step'[n] = "over" /\ told'[n] = IF told[n] = "none" THEN result[n] ELSE told[n]
        /\ \A m \in Ids \ {n} : step'[m] = step[m] /\ told'[m] = told[m]
    BY <1>1, <2>1 DEF RelayType
  <2>8. OnceAt(n)'
    BY <1>1, <1>3, <2>7 DEF OnceAt
  <2>9. OnceInv'
    BY <1>1, <2>7, <2>8, OnceKeeps
  <2> QED
    BY <1>2, <2>6, <2>9 DEF RelayInv
<1> QED
  BY <1>4, <1>5

(* The sender waits no longer; nothing else changes.                       *)
LEMMA TimeOutKeeps == ASSUME RelayInv, NEW n \in Ids, TimeOut(n) PROVE RelayInv'
<1>1. /\ RelayType /\ DesktopType /\ OnceInv /\ CalmInv /\ Fault
      /\ told' = [told EXCEPT ![n] = "failed"] /\ UNCHANGED desktopVars
      /\ UNCHANGED <<command, controller, tokens, path, step, result, executed, moves>>
  BY DEF RelayInv, TimeOut
<1>2. DesktopType' /\ CalmInv'
  BY <1>1, DesktopsKeep
<1>3. faults' \in 0 .. MaxFaults
  BY <1>1, FaultType
<1>4. told' \in [Ids -> Answers]
  BY <1>1 DEF RelayType, Answers
<1>5. RelayType'
  BY <1>1, <1>3, <1>4 DEF RelayType
<1>6. told'[n] = "failed" /\ \A m \in Ids \ {n} : told'[m] = told[m]
  BY <1>1 DEF RelayType
<1>7. OnceAt(n)'
  BY <1>1, <1>6 DEF OnceInv, OnceAt
<1>8. OnceInv'
  BY <1>1, <1>6, <1>7, OnceKeeps
<1> QED
  BY <1>2, <1>5, <1>8 DEF RelayInv

(* The request is dropped where it is; what was not run yet is not run.    *)
LEMMA CancelKeeps == ASSUME RelayInv, NEW n \in Ids, Cancel(n) PROVE RelayInv'
<1>1. /\ RelayType /\ DesktopType /\ OnceInv /\ CalmInv /\ told[n] = "failed"
      /\ step' = [step EXCEPT ![n] = "over"] /\ path' = [path EXCEPT ![n] = <<>>]
      /\ scripts' = scripts \ Mine(n)
      /\ UNCHANGED <<active, streams, held, home, calm>>
      /\ UNCHANGED <<command, controller, tokens, result, told, executed, moves, faults>>
  BY DEF RelayInv, Cancel, Goto
<1>2. Mine(n) \in SUBSET scripts /\ \A x \in Mine(n) : x.step = "eval"
  BY DEF Mine
<1>3. DesktopType' /\ CalmInv'
  BY <1>1, <1>2, DropKeeps
<1>4. <<>> \in Seq(Agents)
  OBVIOUS
<1>5. path' \in [Ids -> Seq(Agents)] /\ step' \in [Ids -> Steps]
  BY <1>1, <1>4 DEF RelayType, Steps
<1>6. \A m \in Ids : (path'[m] = <<>>) <=> (step'[m] \in {"idle", "over"})
  BY <1>1 DEF RelayType
<1>7. RelayType'
  BY <1>1, <1>5, <1>6 DEF RelayType
<1>8. step'[n] = "over" /\ \A m \in Ids \ {n} : step'[m] = step[m]
  BY <1>1 DEF RelayType
<1>9. OnceAt(n)'
  BY <1>1, <1>8 DEF OnceInv, OnceAt
<1>10. OnceInv'
  BY <1>1, <1>8, <1>9, OnceKeeps
<1> QED
  BY <1>3, <1>7, <1>10 DEF RelayInv

(* Sessions come and go.                                                   *)
LEMMA SessionChangesKeeps ==
    ASSUME RelayInv, NEW a \in Agents, NEW c \in Agents \cup {Nobody}, SessionChanges(a, c)
    PROVE  RelayInv'
<1>1. /\ RelayType /\ DesktopType /\ OnceInv /\ CalmInv /\ Move
      /\ controller' = [controller EXCEPT ![a] = c] /\ UNCHANGED desktopVars
      /\ UNCHANGED <<command, tokens, path, step, result, told, executed, faults>>
  BY DEF RelayInv, SessionChanges
<1>2. DesktopType' /\ CalmInv'
  BY <1>1, DesktopsKeep
<1>3. controller' \in [Agents -> Agents \cup {Nobody}] /\ moves' \in 0 .. MaxMoves
  BY <1>1, MoveType DEF RelayType
<1>4. RelayType' /\ OnceInv'
  BY <1>1, <1>3 DEF RelayType, OnceInv, OnceAt
<1> QED
  BY <1>2, <1>4 DEF RelayInv

(* Time goes by.                                                           *)
LEMMA RefillKeeps == ASSUME RelayInv, Refill PROVE RelayInv'
<1>1. /\ RelayType /\ DesktopType /\ OnceInv /\ CalmInv /\ UNCHANGED desktopVars
      /\ tokens' = [a \in Agents |-> [s \in Agents |->
                      IF tokens[a][s] < RequestBurst THEN tokens[a][s] + 1 ELSE RequestBurst]]
      /\ UNCHANGED <<command, controller, path, step, result, told, executed, moves, faults>>
  BY DEF RelayInv, Refill
<1>2. DesktopType' /\ CalmInv'
  BY <1>1, DesktopsKeep
<1>3. ASSUME NEW a \in Agents, NEW s \in Agents
      PROVE  (IF tokens[a][s] < RequestBurst THEN tokens[a][s] + 1 ELSE RequestBurst)
                \in 0 .. RequestBurst
  BY <1>1, CommandAssumption DEF RelayType
<1>4. tokens' \in [Agents -> [Agents -> 0 .. RequestBurst]]
  BY <1>1, <1>3
<1>5. RelayType' /\ OnceInv'
  BY <1>1, <1>4 DEF RelayType, OnceInv, OnceAt
<1> QED
  BY <1>2, <1>5 DEF RelayInv

(* Timers and users, while the commands stay where they are.               *)
LEMMA DesktopStep == ASSUME RelayInv, Desktop, UNCHANGED relayVars PROVE RelayInv'
<1>1. RelayType /\ DesktopType /\ OnceInv /\ CalmInv
  BY DEF RelayInv
<1>2. OnceInv'
  BY <1>1 DEF relayVars, OnceInv, OnceAt
<1>3. ASSUME moves' \in 0 .. MaxMoves, faults' = faults PROVE RelayType'
  BY <1>1, <1>3 DEF relayVars, RelayType
<1>4. ASSUME NEW x \in scripts, Timer(x), UNCHANGED <<moves, faults>> PROVE RelayInv'
  <2>1. moves' \in 0 .. MaxMoves /\ faults' = faults
    BY <1>1, <1>4 DEF RelayType
  <2> QED
    BY <1>1, <1>2, <1>3, <1>4, <2>1, TimerKeeps DEF RelayInv
<1>5. ASSUME NEW a \in Agents, NEW w \in Windows, UserFocuses(a, w) PROVE RelayInv'
  <2>1. moves' \in 0 .. MaxMoves /\ faults' = faults
    BY <1>1, <1>5, MoveType DEF UserFocuses
  <2> QED
    BY <1>1, <1>2, <1>3, <1>5, <2>1, UserFocusesKeeps DEF RelayInv
<1>6. ASSUME NEW a \in Agents, NEW w \in Windows, LocalToggle(a, w) PROVE RelayInv'
  <2>1. moves' \in 0 .. MaxMoves /\ faults' = faults
    BY <1>1, <1>6, MoveType DEF LocalToggle
  <2> QED
    BY <1>1, <1>2, <1>3, <1>6, <2>1, LocalToggleKeeps DEF RelayInv
<1> QED
  BY <1>4, <1>5, <1>6 DEF Desktop

-----------------------------------------------------------------------------
(* At first nothing is sent and every desktop is its user's.               *)
LEMMA InitRelayInv == Init => RelayInv
<1> SUFFICES ASSUME Init PROVE RelayInv
  OBVIOUS
<1>1. /\ active = [a \in Agents |-> Desk] /\ streams = StreamsAtFirst
      /\ held = [a \in Agents |-> {}] /\ scripts = {}
      /\ home = [a \in Agents |-> Desk] /\ calm = [a \in Agents |-> TRUE]
      /\ moves = 0 /\ faults = 0
      /\ tokens = [a \in Agents |-> [s \in Agents |-> RequestBurst]]
      /\ path = [n \in Ids |-> <<>>] /\ step = [n \in Ids |-> "idle"]
      /\ result = [n \in Ids |-> "none"] /\ told = [n \in Ids |-> "none"]
      /\ executed = [n \in Ids |-> 0]
  BY DEF Init, DesktopInit
<1>2. DesktopType
  BY <1>1, WindowAssumption DEF DesktopType, Windows
<1>3. CalmInv
  BY <1>1 DEF CalmInv, CalmAt, On
<1>4. OnceInv
  BY <1>1 DEF OnceInv, OnceAt
<1>5. RelayType
  <2>1. command \in [Ids -> Command] /\ controller \in [Agents -> Agents \cup {Nobody}]
    BY CommandAssumption DEF Init
  <2>2. <<>> \in Seq(Agents)
    OBVIOUS
  <2>3. /\ path \in [Ids -> Seq(Agents)] /\ step \in [Ids -> Steps]
        /\ result \in [Ids -> Answers] /\ told \in [Ids -> Answers]
        /\ executed \in [Ids -> Nat]
    BY <1>1, <2>2 DEF Steps, Answers
  <2>4. \A n \in Ids : (path[n] = <<>>) <=> (step[n] \in {"idle", "over"})
    BY <1>1
  <2>5. 0 \in 0 .. MaxMoves /\ 0 \in 0 .. MaxFaults /\ RequestBurst \in 0 .. RequestBurst
    BY WindowAssumption, CommandAssumption
  <2>6. tokens \in [Agents -> [Agents -> 0 .. RequestBurst]]
    BY <1>1, <2>5
  <2> QED
    BY <1>1, <2>1, <2>3, <2>4, <2>5, <2>6 DEF RelayType
<1> QED
  BY <1>2, <1>3, <1>4, <1>5 DEF RelayInv

(* Every step keeps the invariant.                                         *)
LEMMA NextRelayInv == RelayInv /\ [Next]_vars => RelayInv'
<1> SUFFICES ASSUME RelayInv, [Next]_vars PROVE RelayInv'
  OBVIOUS
<1>1. ASSUME NEW n \in Ids, Send(n) \/ Proceed(n) \/ TimeOut(n) \/ Cancel(n) PROVE RelayInv'
  <2>1. CASE Send(n)
    BY <2>1, SendKeeps
  <2>2. CASE Gate(n)
    BY <2>2, GateKeeps
  <2>3. CASE Relay(n)
    BY <2>3, RelayKeeps
  <2>4. CASE Stay(n)
    BY <2>4, StayKeeps
  <2>5. CASE Resolve(n)
    BY <2>5, ResolveKeeps
  <2>6. CASE StartShortcut(n)
    BY <2>6, StartShortcutKeeps
  <2>7. CASE RunShortcut(n)
    BY <2>7, RunShortcutKeeps
  <2>8. CASE CloseWindow(n)
    BY <2>8, CloseWindowKeeps
  <2>9. CASE Return(n)
    BY <2>9, ReturnKeeps
  <2>10. CASE TimeOut(n)
    BY <2>10, TimeOutKeeps
  <2>11. CASE Cancel(n)
    BY <2>11, CancelKeeps
  <2> QED
    BY <1>1, <2>1, <2>2, <2>3, <2>4, <2>5, <2>6, <2>7, <2>8, <2>9, <2>10, <2>11 DEF Proceed
<1>2. ASSUME NEW a \in Agents, NEW c \in Agents \cup {Nobody}, SessionChanges(a, c)
      PROVE  RelayInv'
  BY <1>2, SessionChangesKeeps
<1>3. CASE Refill
  BY <1>3, RefillKeeps
<1>4. CASE Desktop /\ UNCHANGED relayVars
  BY <1>4, DesktopStep
<1>5. CASE UNCHANGED vars
  <2>1. RelayType' /\ OnceInv'
    BY <1>5 DEF RelayInv, vars, relayVars, RelayType, OnceInv, OnceAt
  <2>2. DesktopType' /\ CalmInv'
    BY <1>5, DesktopsKeep DEF RelayInv, vars
  <2> QED
    BY <2>1, <2>2 DEF RelayInv
<1> QED
  BY <1>1, <1>2, <1>3, <1>4, <1>5 DEF Next

(* The invariant of the commands and the desktops.                         *)
THEOREM RelayInvariance == Spec => []RelayInv
  BY InitRelayInv, NextRelayInv, PTL DEF Spec

(* The focus is on a window that is open, no source of requests has more   *)
(* tokens than it may, and a command that is not over is with an agent,    *)
(* however often sessions send it round.                                   *)
THEOREM RelayTypeCorrectness == Spec => []TypeOK
<1>1. RelayInv => TypeOK
  BY DEF RelayInv, RelayType, DesktopType, TypeOK
<1> QED
  BY <1>1, RelayInvariance, PTL

(* An "ok" that the sender was told is true, and no command is carried out *)
(* twice, for every circle of sessions, every number of commands and every *)
(* failure on the way.                                                     *)
THEOREM SuccessSafety == Spec => []SuccessMeansExecuted
<1>1. RelayInv => SuccessMeansExecuted
  BY DEF RelayInv, OnceInv, OnceAt, SuccessMeansExecuted
<1> QED
  BY <1>1, RelayInvariance, PTL

(* A shortcut that nothing got in between of leaves the focus where it was *)
(* and no key down, on every desktop.                                      *)
THEOREM FocusSafety == Spec => []FocusRestored
<1>1. RelayInv => FocusRestored
  BY DEF RelayInv, CalmInv, CalmAt, FocusRestored
<1> QED
  BY <1>1, RelayInvariance, PTL
=============================================================================
