-------------------------- MODULE PairingChallenges --------------------------
(***************************************************************************)
(* The pairing challenges of the agent:                                    *)
(* crates/omdesky-agent/src/pairing.rs, with the two handlers of lib.rs    *)
(* that use them (sunshine_pair_challenge and sunshine_pair).              *)
(*                                                                         *)
(* issue takes two mutexes one after the other, first the counters' and    *)
(* then the challenges'; consume takes the second.  Each reads the clock   *)
(* before it waits, so the instant it works with may be older than what    *)
(* others have stored meanwhile.  Approving the PIN with Sunshine follows  *)
(* consume and may fail.                                                   *)
(***************************************************************************)
EXTENDS Integers, Sequences, FiniteSets

CONSTANTS Owners,          \* Tailnet identities
          Ids,             \* challenge identifiers (128 random bits)
          Handlers,        \* concurrent runs of issue and consume
          NoCall,          \* a handler that is free
          Ttl,             \* CHALLENGE_TTL
          MaxOutstanding,  \* MAX_OUTSTANDING_PER_OWNER
          MaxIssues,       \* MAX_ISSUES_PER_WINDOW
          IssueWindow,     \* ISSUE_WINDOW
          MaxOwners,       \* MAX_TRACKED_OWNERS
          MaxDelay,        \* bound: wait for a mutex
          MaxTime          \* bound: time

VARIABLES clock,           \* now
          issued,          \* challenges: identifier -> [owner, expires]
          counters,        \* identity -> [issues, started]
          call,            \* what each handler is doing
          drawn,           \* identifiers ever issued, with their owner
          approvals,       \* identifier -> who had a PIN approved with it
          admitted         \* issues admitted: [owner -> [time -> how many since then]]

challengeVars == <<clock, issued, counters, call, drawn, approvals, admitted>>

Times == 0 .. MaxTime
Challenge == [owner : Owners, expires : Nat]
Counter == [issues : Nat, started : Times]
Call == [step : {"admit", "insert"}, owner : Owners, now : Times]
        \cup [step : {"consume", "submit"}, owner : Owners, now : Times, id : Ids]

ASSUME NoCallAssumption == NoCall \notin Call \cup Handlers \cup Ids
ASSUME ParameterAssumption ==
    /\ IsFiniteSet(Ids) /\ IsFiniteSet(Owners)
    /\ Ttl \in Nat /\ MaxOutstanding \in Nat /\ MaxIssues \in Nat \ {0}
    /\ IssueWindow \in Nat \ {0} /\ MaxOwners \in Nat
    /\ MaxDelay \in Nat /\ MaxTime \in Nat

Free(h) == call[h] = NoCall
At(h, step) == call[h] # NoCall /\ call[h].step = step

-----------------------------------------------------------------------------
ChallengesInit ==
    /\ clock = 0
    /\ issued = [i \in {} |-> 0]
    /\ counters = [o \in {} |-> 0]
    /\ call = [h \in Handlers |-> NoCall]
    /\ drawn = [i \in {} |-> 0]
    /\ approvals = [i \in Ids |-> <<>>]
    /\ admitted = [o \in Owners |-> [t \in Times |-> 0]]

\* Identifiers not spoken for: the bound on how many are ever drawn.
Issuing == {h \in Handlers : At(h, "admit") \/ At(h, "insert")}

\* issue reads the clock.
IssueBegin(h, o) ==
    /\ Free(h)
    /\ Cardinality(DOMAIN drawn) + Cardinality(Issuing) < Cardinality(Ids)
    /\ call' = [call EXCEPT ![h] = [step |-> "admit", owner |-> o, now |-> clock]]
    /\ UNCHANGED <<clock, issued, counters, drawn, approvals, admitted>>

\* Counters whose window is over are forgotten.
CurrentCounters(now) ==
    {o \in DOMAIN counters : now - counters[o].started < IssueWindow}
IssuesOf(o, kept) == IF o \in kept THEN counters[o].issues ELSE 0
BadRefuses(o, kept) ==
    \/ Cardinality(kept) >= MaxOwners /\ o \notin kept
    \/ IssuesOf(o, kept) > MaxIssues
Refuses(o, kept) ==
    \/ Cardinality(kept) >= MaxOwners /\ o \notin kept
    \/ IssuesOf(o, kept) >= MaxIssues

(* admit_issue, under the counters' mutex.  A refused issue still prunes.  *)
AdmitIssue(h) ==
    /\ At(h, "admit")
    /\ LET o == call[h].owner
           now == call[h].now
           kept == CurrentCounters(now)
       IN IF Refuses(o, kept)
          THEN /\ counters' = [p \in kept |-> counters[p]]
               /\ call' = [call EXCEPT ![h] = NoCall]
               /\ UNCHANGED admitted
          ELSE /\ counters' = [p \in kept \cup {o} |->
                     IF p # o THEN counters[p]
                     ELSE [issues |-> IssuesOf(o, kept) + 1,
                           started |-> IF o \in kept THEN counters[o].started
                                                     ELSE now]]
               /\ call' = [call EXCEPT ![h] =
                     [step |-> "insert", owner |-> o, now |-> now]]
               /\ admitted' = [admitted EXCEPT ![o] =
                     [t \in Times |-> IF t <= clock THEN @[t] + 1 ELSE @[t]]]
    /\ UNCHANGED <<clock, issued, drawn, approvals>>

\* Challenges that have not expired.
Unexpired(now) == {i \in DOMAIN issued : issued[i].expires > now}
Outstanding(o, kept) == {i \in kept : issued[i].owner = o}

TooMany(o, kept) == Cardinality(Outstanding(o, kept)) >= MaxOutstanding

\* random_challenge_id: 128 random bits never repeat.
Fresh == Ids \ DOMAIN drawn

BadExpiry(now) == now + IssueWindow
Expiry(now) == now + Ttl

\* The rest of issue, under the challenges' mutex.
InsertChallenge(h) ==
    /\ At(h, "insert")
    /\ LET o == call[h].owner
           now == call[h].now
           kept == Unexpired(now)
           challenge == [owner |-> o, expires |-> Expiry(now)]
       IN IF TooMany(o, kept)
          THEN issued' = [i \in kept |-> issued[i]] /\ UNCHANGED drawn
          ELSE \E new \in Fresh :
                 /\ issued' = [i \in kept \cup {new} |->
                       IF i = new THEN challenge ELSE issued[i]]
                 /\ drawn' = [i \in DOMAIN drawn \cup {new} |->
                       IF i \in DOMAIN drawn THEN drawn[i] ELSE challenge]
    /\ call' = [call EXCEPT ![h] = NoCall]
    /\ UNCHANGED <<clock, counters, approvals, admitted>>

\* sunshine_pair, by a device that knows an identifier.
ConsumeBegin(h, o, i) ==
    /\ Free(h)
    /\ i \in DOMAIN drawn
    /\ call' = [call EXCEPT ![h] =
          [step |-> "consume", owner |-> o, now |-> clock, id |-> i]]
    /\ UNCHANGED <<clock, issued, counters, drawn, approvals, admitted>>

BadAnyOwner(o, i, kept) == i \in kept
Valid(o, i, kept) == i \in kept /\ issued[i].owner = o

BadConsumeKeeps(h) ==
    /\ At(h, "consume")
    /\ LET o == call[h].owner
           i == call[h].id
           kept == Unexpired(call[h].now)
       IN /\ issued' = [j \in kept |-> issued[j]]
          /\ call' = [call EXCEPT ![h] =
                IF Valid(o, i, kept) THEN [call[h] EXCEPT !.step = "submit"]
                                     ELSE NoCall]
    /\ UNCHANGED <<clock, counters, drawn, approvals, admitted>>

(* consume: the challenge is used up, whatever comes of the approval.      *)
Consume(h) ==
    /\ At(h, "consume")
    /\ LET o == call[h].owner
           i == call[h].id
           kept == Unexpired(call[h].now)
       IN IF Valid(o, i, kept)
          THEN /\ issued' = [j \in kept \ {i} |-> issued[j]]
               /\ call' = [call EXCEPT ![h] =
                     [step |-> "submit", owner |-> o, now |-> call[h].now,
                      id |-> i]]
          ELSE /\ issued' = [j \in kept |-> issued[j]]
               /\ call' = [call EXCEPT ![h] = NoCall]
    /\ UNCHANGED <<clock, counters, drawn, approvals, admitted>>

\* sunshine_pair submits the PIN once the challenge is consumed.
SubmitPin(h) ==
    /\ At(h, "submit")
    /\ approvals' = [approvals EXCEPT ![call[h].id] = Append(@, call[h].owner)]
    /\ call' = [call EXCEPT ![h] = NoCall]
    /\ UNCHANGED <<clock, issued, counters, drawn, admitted>>

(* Sunshine refuses the PIN or is gone; or, at any of its waits, a handler *)
(* is dropped because the client hung up.  What it did is not undone.      *)
Abandon(h) ==
    /\ ~ Free(h)
    /\ call' = [call EXCEPT ![h] = NoCall]
    /\ UNCHANGED <<clock, issued, counters, drawn, approvals, admitted>>

Waits(h) == At(h, "admit") \/ At(h, "insert") \/ At(h, "consume")

ChallengesTick ==
    /\ clock < MaxTime
    /\ \A h \in Handlers : Waits(h) => clock - call[h].now < MaxDelay
    /\ clock' = clock + 1
    /\ UNCHANGED <<issued, counters, call, drawn, approvals, admitted>>

ChallengesNext ==
    \/ \E h \in Handlers, o \in Owners : IssueBegin(h, o)
    \/ \E h \in Handlers : AdmitIssue(h) \/ InsertChallenge(h) \/ Consume(h)
                             \/ SubmitPin(h) \/ Abandon(h)
    \/ \E h \in Handlers, o \in Owners, i \in Ids : ConsumeBegin(h, o, i)
    \/ ChallengesTick

ChallengesSpec == ChallengesInit /\ [][ChallengesNext]_challengeVars

-----------------------------------------------------------------------------
(***************************************************************************)
(* Properties                                                              *)
(***************************************************************************)

(* The state is well typed, and a challenge that is kept is the one that   *)
(* was drawn under its identifier (HashMap insert never replaces one).     *)
ChallengesTypeOK ==
    /\ clock \in Times
    /\ DOMAIN issued \subseteq DOMAIN drawn
    /\ DOMAIN drawn \subseteq Ids
    /\ \A i \in DOMAIN drawn : drawn[i] \in Challenge
    /\ \A i \in DOMAIN issued : issued[i] = drawn[i]
    /\ DOMAIN counters \subseteq Owners
    /\ \A o \in DOMAIN counters : counters[o] \in Counter
    /\ call \in [Handlers -> Call \cup {NoCall}]
    /\ approvals \in [Ids -> Seq(Owners)]
    /\ admitted \in [Owners -> [Times -> Nat]]

(* No device holds more than MAX_OUTSTANDING_PER_OWNER challenges that     *)
(* have not expired, though the count and the expiry go by an instant read *)
(* before two mutexes were waited for and another run of issue by the same *)
(* device may have inserted meanwhile.                                     *)
OutstandingBounded ==
    \A o \in Owners : Cardinality(Outstanding(o, DOMAIN issued)) <= MaxOutstanding

(* consume and the submission that follows it are not one critical         *)
(* section.  Still a challenge is worth one submission in all: it is       *)
(* outstanding, or being submitted by one handler, or spent.               *)
Submitting(i) == {h \in Handlers : At(h, "submit") /\ call[h].id = i}
SingleApproval ==
    \A i \in Ids :
        (IF i \in DOMAIN issued THEN 1 ELSE 0)
          + Cardinality(Submitting(i)) + Len(approvals[i]) <= 1

(* A PIN is approved only with a challenge the same device asked for,      *)
(* however many others know the identifier and race it to consume.         *)
ApprovedByOwner ==
    \A i \in Ids : \A n \in 1 .. Len(approvals[i]) :
        i \in DOMAIN drawn /\ approvals[i][n] = drawn[i].owner

(* What MAX_ISSUES_PER_WINDOW comes to.  The window is fixed, not sliding, *)
(* and starts at the instant a handler read before it waited, and another  *)
(* device's issue may prune a counter early for one with an older instant: *)
(* any stretch of ISSUE_WINDOW less the longest wait still admits at most  *)
(* two windows' worth of issues from one device.                           *)
AdmittedAfter(o, u) == IF u < MaxTime THEN admitted[o][u + 1] ELSE 0
IssueRateBounded ==
    \A o \in Owners : \A t, u \in Times :
        t <= u /\ u - t < IssueWindow - MaxDelay =>
            admitted[o][t] - AdmittedAfter(o, u) <= 2 * MaxIssues
=============================================================================
