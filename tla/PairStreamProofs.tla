--------------------------- MODULE PairStreamProofs ---------------------------
(***************************************************************************)
(* Proofs about the pairing challenges and the attempts that use them, for *)
(* any number of devices, identifiers and concurrent handlers.  The first  *)
(* part is about the agent alone: whatever its clients do, every step is   *)
(* one of ChallengesNext.                                                  *)
(***************************************************************************)
EXTENDS PairStream, FiniteSetTheorems, TLAPS

(* Who submits a PIN has consumed the challenge, and alone.                *)
SubmitInv ==
    /\ \A h \in Handlers : At(h, "consume") => call[h].id \in DOMAIN drawn
    /\ \A h \in Handlers : At(h, "submit") =>
          /\ call[h].id \in DOMAIN drawn \ DOMAIN issued
          /\ approvals[call[h].id] = <<>>
          /\ call[h].owner = drawn[call[h].id].owner
          /\ \A g \in Handlers : At(g, "submit") /\ call[g].id = call[h].id => g = h

(* What was approved was drawn, is spent and was approved once.            *)
ApprovalInv ==
    \A i \in Ids :
        \/ approvals[i] = <<>>
        \/ /\ i \in DOMAIN drawn \ DOMAIN issued
           /\ approvals[i] = <<drawn[i].owner>>

(* No handler waits for longer than it may.                                *)
DelayInv ==
    \A h \in Handlers : Waits(h) => call[h].now <= clock /\ clock - call[h].now <= MaxDelay

(* Issues admitted since an instant: nothing is admitted in the future.    *)
HistoryInv ==
    \A o \in Owners :
        /\ \A t, u \in Times : t <= u => admitted[o][u] <= admitted[o][t]
        /\ \A t \in Times : t > clock => admitted[o][t] = 0
Since(o, x) == IF x < 0 THEN admitted[o][0]
               ELSE IF x > MaxTime THEN 0 ELSE admitted[o][x]

(* c is when the latest window of a device's issues admitted its first.    *)
(* The one before began a window less a wait earlier, so that of all that  *)
(* was admitted since only the issues of two windows count.                *)
Spacing == IssueWindow - MaxDelay
LatestWindow(o, c) ==
    /\ c <= clock
    /\ IF o \in DOMAIN counters
       THEN /\ c <= counters[o].started + MaxDelay
            /\ counters[o].issues <= MaxIssues
            /\ Since(o, c + 1) <= counters[o].issues
            /\ Since(o, c + 1 - Spacing) <= MaxIssues + counters[o].issues
       ELSE /\ c + Spacing <= clock
            /\ Since(o, c + 1) <= MaxIssues
RateInv == \A o \in Owners : \E c \in (0 - IssueWindow) .. MaxTime : LatestWindow(o, c)

ChallengesInv ==
    /\ ChallengesTypeOK /\ SubmitInv /\ ApprovalInv
    /\ DelayInv /\ HistoryInv /\ RateInv /\ IssueRateBounded

(* The handler that serves an attempt does what the attempt asked for.     *)
Serving(o) ==
    attempt[o].handler # NoCall =>
        LET h == attempt[o].handler
        IN /\ call[h] # NoCall /\ call[h].owner = o
           /\ \/ InStage(o, "challenge") /\ call[h].step \in {"admit", "insert"}
              \/ /\ InStage(o, "pair") /\ call[h].step \in {"consume", "submit"}
                 /\ call[h].id = attempt[o].id

(* From the answer that brings a challenge until the agent consumes it,    *)
(* it lives long enough; and unless its device presented it in another     *)
(* request too, it is there and nobody else may use it up.                 *)
Consuming(o) == attempt[o].handler # NoCall /\ At(attempt[o].handler, "consume")
Holding(o) == InStage(o, "spawn") \/ InStage(o, "pin") \/ Consuming(o)
LongEnough(o) ==
    /\ ~ Consuming(o) => attempt[o].since + Ttl - MaxDelay <= drawn[attempt[o].id].expires
    /\ Consuming(o) => call[attempt[o].handler].now + MaxDelay < drawn[attempt[o].id].expires
Rivals(o, g) == At(g, "consume") /\ call[g].id = attempt[o].id /\ call[g].owner = o
Unrivalled(o) ==
    /\ attempt[o].id \in DOMAIN issued
    /\ \A g \in Handlers : Rivals(o, g) => g = attempt[o].handler
Life(o) ==
    Holding(o) =>
        /\ attempt[o].id \in DOMAIN drawn /\ drawn[attempt[o].id].owner = o
        /\ LongEnough(o)
        /\ attempt[o].id \in doubled \/ Unrivalled(o)
Patience(o) ==
    /\ InStage(o, "spawn") => attempt[o].since = clock
    /\ InStage(o, "pin") => clock - attempt[o].since <= PinTimeout

(* What holds of each device's attempt.                                    *)
DeviceInv(o) ==
    /\ Serving(o) /\ Life(o) /\ Patience(o)
    /\ attempt[o].stage \notin {"pin", "pair", "complete"} => child[o] = "none"
    /\ InStage(o, "paired") => o \in trusted

(* Sunshine trusts a device by an approval with its own challenge.         *)
TrustInv ==
    \A o \in trusted : \E i \in DOMAIN drawn : drawn[i].owner = o /\ approvals[i] = <<o>>

IInv ==
    /\ ChallengesInv /\ TypeOK /\ TrustInv
    /\ \A o \in Pairing : DeviceInv(o)

-----------------------------------------------------------------------------
(* The agent.                                                              *)

(* A handler goes from one step to another.                                *)
LEMMA CallMoves ==
    ASSUME ChallengesTypeOK, NEW h \in Handlers, NEW c \in Call \cup {NoCall},
           call' = [call EXCEPT ![h] = c]
    PROVE  /\ call' \in [Handlers -> Call \cup {NoCall}]
           /\ \A g \in Handlers : call'[g] = IF g = h THEN c ELSE call[g]
  BY DEF ChallengesTypeOK

(* Steps that leave all but the calls alone.                               *)
LEMMA CallsKeep ==
    ASSUME ChallengesInv, NEW h \in Handlers,
           \/ \E o \in Owners : IssueBegin(h, o)
           \/ \E o \in Owners, i \in Ids : ConsumeBegin(h, o, i)
           \/ Abandon(h)
    PROVE  ChallengesInv'
<1> USE DEF ChallengesInv
<1>1. UNCHANGED <<clock, issued, counters, drawn, approvals, admitted>>
  BY DEF IssueBegin, ConsumeBegin, Abandon
<1>2. clock \in Times
  BY DEF ChallengesTypeOK
<1>3. PICK c \in Call \cup {NoCall} :
         /\ call' = [call EXCEPT ![h] = c]
         /\ c # NoCall => /\ c.step \in {"admit", "consume"} /\ c.now = clock
                          /\ c.step = "consume" => c.id \in DOMAIN drawn
  <2>1. CASE \E o \in Owners : IssueBegin(h, o)
    <3>1. PICK o \in Owners : IssueBegin(h, o)
      BY <2>1
    <3> DEFINE r == [step |-> "admit", owner |-> o, now |-> clock]
    <3>2. r \in Call /\ r.step = "admit" /\ r.now = clock
      BY <1>2 DEF Call
    <3>3. call' = [call EXCEPT ![h] = r]
      BY <3>1 DEF IssueBegin
    <3> HIDE DEF r
    <3> QED
      BY <3>2, <3>3
  <2>2. CASE \E o \in Owners, i \in Ids : ConsumeBegin(h, o, i)
    <3>1. PICK o \in Owners, i \in Ids : ConsumeBegin(h, o, i)
      BY <2>2
    <3> DEFINE r == [step |-> "consume", owner |-> o, now |-> clock, id |-> i]
    <3>2. r \in Call /\ r.step = "consume" /\ r.now = clock /\ r.id = i
      BY <1>2 DEF Call
    <3>3. call' = [call EXCEPT ![h] = r] /\ i \in DOMAIN drawn
      BY <3>1 DEF ConsumeBegin
    <3> HIDE DEF r
    <3> QED
      BY <3>2, <3>3
  <2>3. CASE Abandon(h)
    BY <2>3 DEF Abandon
  <2> QED
    BY <2>1, <2>2, <2>3
<1>4. /\ call' \in [Handlers -> Call \cup {NoCall}]
      /\ \A g \in Handlers : call'[g] = IF g = h THEN c ELSE call[g]
  BY <1>3, CallMoves
<1>5. ChallengesTypeOK'
  BY <1>1, <1>4 DEF ChallengesTypeOK
<1>6. SubmitInv'
  BY <1>1, <1>3, <1>4 DEF SubmitInv, At
<1>7. DelayInv'
  <2>1. clock \in Int /\ MaxDelay \in Nat
    BY <1>2, ParameterAssumption DEF Times
  <2> QED
    BY <1>1, <1>3, <1>4, <2>1 DEF DelayInv, Waits, At
<1>8. ApprovalInv' /\ HistoryInv' /\ RateInv' /\ IssueRateBounded'
  BY <1>1 DEF ApprovalInv, HistoryInv, RateInv, LatestWindow, Since, IssueRateBounded,
              AdmittedAfter
<1> QED
  BY <1>5, <1>6, <1>7, <1>8

(* What a challenge is worth: steps on challenges and approvals.           *)
LEMMA ConsumeKeeps ==
    ASSUME ChallengesInv, NEW h \in Handlers, Consume(h)
    PROVE  ChallengesInv'
<1> USE DEF ChallengesInv
<1> DEFINE o == call[h].owner
           i == call[h].id
           kept == Unexpired(call[h].now)
<1>1. /\ At(h, "consume")
      /\ UNCHANGED <<clock, counters, drawn, approvals, admitted>>
  BY DEF Consume
<1>2. call[h] \in Call /\ o \in Owners /\ call[h].now \in Times /\ i \in DOMAIN drawn /\ i \in Ids
  <2>1. call[h] \in Call /\ call[h].step = "consume"
    BY <1>1 DEF At, ChallengesTypeOK
  <2>2. o \in Owners /\ call[h].now \in Times
    BY <2>1 DEF Call
  <2>3. i \in DOMAIN drawn
    BY <1>1 DEF SubmitInv
  <2> QED
    BY <2>1, <2>2, <2>3 DEF ChallengesTypeOK
<1>3. /\ kept \subseteq DOMAIN issued
      /\ DOMAIN issued \subseteq DOMAIN drawn
  BY DEF Unexpired, ChallengesTypeOK
<1>4. \/ /\ Valid(o, i, kept)
         /\ issued' = [j \in kept \ {i} |-> issued[j]]
         /\ call' = [call EXCEPT ![h] = [step |-> "submit", owner |-> o, now |-> call[h].now,
                                         id |-> i]]
      \/ /\ issued' = [j \in kept |-> issued[j]]
         /\ call' = [call EXCEPT ![h] = NoCall]
  BY DEF Consume
<1>5. PICK c \in Call \cup {NoCall} :
         /\ call' = [call EXCEPT ![h] = c]
         /\ c # NoCall => /\ c.step = "submit" /\ c.id = i /\ c.owner = o
                          /\ Valid(o, i, kept) /\ i \notin DOMAIN issued'
  <2>1. [step |-> "submit", owner |-> o, now |-> call[h].now, id |-> i] \in Call
    BY <1>2 DEF Call
  <2> QED
    BY <1>4, <2>1
<1>6. /\ call' \in [Handlers -> Call \cup {NoCall}]
      /\ \A g \in Handlers : call'[g] = IF g = h THEN c ELSE call[g]
  BY <1>5, CallMoves
<1>7. /\ DOMAIN issued' \subseteq DOMAIN issued
      /\ \A j \in DOMAIN issued' : issued'[j] = issued[j]
  BY <1>3, <1>4
<1>8. ChallengesTypeOK'
  BY <1>1, <1>3, <1>6, <1>7 DEF ChallengesTypeOK
<1>9. ApprovalInv'
  BY <1>1, <1>7 DEF ApprovalInv
<1>10. c # NoCall => /\ i \in DOMAIN issued /\ issued[i].owner = o /\ issued[i] = drawn[i]
                     /\ approvals[i] = <<>>
                     /\ \A g \in Handlers : ~ (At(g, "submit") /\ call[g].id = i)
  BY <1>2, <1>3, <1>5 DEF Valid, ChallengesTypeOK, ApprovalInv, SubmitInv
<1>11. SubmitInv'
  <2>1. \A g \in Handlers : At(g, "consume")' => call'[g].id \in DOMAIN drawn'
    BY <1>1, <1>5, <1>6 DEF SubmitInv, At
  <2>2. ASSUME NEW g \in Handlers, At(g, "submit")'
        PROVE  /\ call'[g].id \in DOMAIN drawn \ DOMAIN issued'
               /\ approvals[call'[g].id] = <<>>
               /\ call'[g].owner = drawn[call'[g].id].owner
               /\ \A k \in Handlers : At(k, "submit")' /\ call'[k].id = call'[g].id => k = g
    <3>1. CASE g = h
      BY <1>2, <1>5, <1>6, <1>10, <2>2, <3>1 DEF At
    <3>2. CASE g # h
      <4>1. At(g, "submit") /\ call'[g] = call[g]
        BY <1>6, <2>2, <3>2 DEF At
      <4> QED
        BY <1>5, <1>6, <1>7, <1>10, <4>1 DEF SubmitInv, At
    <3> QED
      BY <3>1, <3>2
  <2> QED
    BY <1>1, <2>1, <2>2 DEF SubmitInv
<1>12. DelayInv'
  BY <1>1, <1>5, <1>6 DEF DelayInv, Waits, At
<1>13. HistoryInv' /\ RateInv' /\ IssueRateBounded'
  BY <1>1 DEF HistoryInv, RateInv, LatestWindow, Since, IssueRateBounded, AdmittedAfter
<1> QED
  BY <1>8, <1>9, <1>11, <1>12, <1>13

(* The first and only approval with a challenge, by whom it was drawn for. *)
LEMMA SubmitKeeps ==
    ASSUME ChallengesInv, NEW h \in Handlers, SubmitPin(h)
    PROVE  /\ ChallengesInv'
           /\ call[h].id \in DOMAIN drawn /\ call[h].owner = drawn[call[h].id].owner
           /\ approvals'[call[h].id] = <<call[h].owner>>
           /\ \A i \in Ids : approvals[i] # <<>> => approvals'[i] = approvals[i]
<1> USE DEF ChallengesInv
<1> DEFINE i == call[h].id
           o == call[h].owner
<1>1. /\ At(h, "submit")
      /\ UNCHANGED <<clock, issued, counters, drawn, admitted>>
      /\ approvals' = [approvals EXCEPT ![i] = Append(@, o)]
      /\ call' = [call EXCEPT ![h] = NoCall]
  BY DEF SubmitPin
<1>2. /\ i \in DOMAIN drawn \ DOMAIN issued /\ i \in Ids
      /\ approvals[i] = <<>> /\ o = drawn[i].owner
      /\ \A g \in Handlers : At(g, "submit") /\ call[g].id = i => g = h
  BY <1>1 DEF SubmitInv, ChallengesTypeOK
<1>3. o \in Owners
  BY <1>2 DEF ChallengesTypeOK, Challenge
<1>4. Append(<<>>, o) = <<o>> /\ <<o>> \in Seq(Owners)
  BY <1>3
<1>5. /\ approvals' \in [Ids -> Seq(Owners)]
      /\ \A j \in Ids : approvals'[j] = IF j = i THEN <<o>> ELSE approvals[j]
  BY <1>1, <1>2, <1>4 DEF ChallengesTypeOK
<1>6. /\ call' \in [Handlers -> Call \cup {NoCall}]
      /\ \A g \in Handlers : call'[g] = IF g = h THEN NoCall ELSE call[g]
  BY <1>1, CallMoves
<1>7. ChallengesTypeOK'
  BY <1>1, <1>5, <1>6 DEF ChallengesTypeOK
<1>8. ApprovalInv'
  BY <1>1, <1>2, <1>5 DEF ApprovalInv
<1>9. SubmitInv'
  <2>1. \A g \in Handlers : At(g, "submit")' => At(g, "submit") /\ g # h /\ call'[g] = call[g]
    BY <1>6 DEF At
  <2>2. \A g \in Handlers : At(g, "consume")' => At(g, "consume") /\ call'[g] = call[g]
    BY <1>6 DEF At
  <2>3. \A g \in Handlers : At(g, "submit") => call[g].id \in Ids
    BY DEF SubmitInv, ChallengesTypeOK
  <2> QED
    BY <1>1, <1>2, <1>5, <2>1, <2>2, <2>3 DEF SubmitInv
<1>10. DelayInv'
  BY <1>1, <1>6 DEF DelayInv, Waits, At
<1>11. HistoryInv' /\ RateInv' /\ IssueRateBounded'
  BY <1>1 DEF HistoryInv, RateInv, LatestWindow, Since, IssueRateBounded, AdmittedAfter
<1> QED
  BY <1>2, <1>5, <1>7, <1>8, <1>9, <1>10, <1>11

(* Of the issues admitted since an instant: fewer since a later one, none  *)
(* since the future.                                                       *)
LEMMA SinceFacts ==
    ASSUME ChallengesTypeOK, HistoryInv, NEW o \in Owners
    PROVE  /\ \A x \in Int : Since(o, x) \in Nat
           /\ \A x, y \in Int : x <= y => Since(o, y) <= Since(o, x)
           /\ \A x \in Int : x > clock => Since(o, x) = 0
           /\ \A x \in Times : Since(o, x) = admitted[o][x]
           /\ \A x \in Times : Since(o, x + 1) = AdmittedAfter(o, x)
<1>1. clock \in Int /\ 0 <= clock /\ clock <= MaxTime /\ MaxTime \in Nat
  BY ParameterAssumption DEF ChallengesTypeOK, Times
<1>2. \A x \in Int : 0 <= x /\ x <= MaxTime <=> x \in Times
  BY <1>1 DEF Times
<1>3. \A x \in Times : admitted[o][x] \in Nat
  BY DEF ChallengesTypeOK
<1>4. \A x \in Times : x \in Int
  BY DEF Times
<1>5. \A x \in Int : Since(o, x) \in Nat
  BY <1>1, <1>2, <1>3 DEF Since
<1>6. ASSUME NEW x \in Int, NEW y \in Int, x <= y
      PROVE  Since(o, y) <= Since(o, x)
  <2>1. \A t, u \in Times : t <= u => admitted[o][u] <= admitted[o][t]
    BY DEF HistoryInv
  <2>2. 0 \in Times
    BY <1>1, <1>2
  <2>3. CASE y > MaxTime
    <3>1. Since(o, y) = 0
      BY <1>1, <2>3 DEF Since
    <3> QED
      BY <1>5, <3>1
  <2>4. CASE y <= MaxTime /\ 0 <= x
    BY <1>1, <1>2, <1>6, <2>1, <2>4 DEF Since
  <2>5. CASE y <= MaxTime /\ x < 0 /\ 0 <= y
    BY <1>1, <1>2, <1>6, <2>1, <2>2, <2>5 DEF Since
  <2>6. CASE y < 0
    <3>1. Since(o, y) = Since(o, x)
      BY <1>6, <2>6 DEF Since
    <3> QED
      BY <1>5, <3>1
  <2> QED
    BY <1>1, <2>3, <2>4, <2>5, <2>6
<1>7. \A x \in Int : x > clock => Since(o, x) = 0
  BY <1>1, <1>2 DEF Since, HistoryInv
<1>8. \A x \in Times : Since(o, x) = admitted[o][x]
  BY <1>1, <1>2, <1>4 DEF Since
<1>9. \A x \in Times : Since(o, x + 1) = AdmittedAfter(o, x)
  BY <1>1, <1>2, <1>4 DEF Since, AdmittedAfter
<1> QED
  BY <1>5, <1>6, <1>7, <1>8, <1>9

(* A window that is over, or was forgotten, began Spacing ago or earlier.  *)
LEMMA WindowOver ==
    ASSUME ChallengesTypeOK, HistoryInv, NEW o \in Owners, NEW c \in Int, LatestWindow(o, c),
           NEW now \in Times, now <= clock,
           o \in DOMAIN counters => now - counters[o].started >= IssueWindow
    PROVE  c + Spacing <= clock /\ Since(o, c + 1) <= MaxIssues
<1>1. clock \in Int /\ now \in Int /\ IssueWindow \in Nat /\ MaxDelay \in Nat /\ MaxIssues \in Nat
  BY ParameterAssumption DEF ChallengesTypeOK, Times
<1>2. Since(o, c + 1) \in Nat
  BY SinceFacts
<1>3. CASE o \in DOMAIN counters
  <2>1. counters[o].started \in Int /\ counters[o].issues \in Nat
    BY <1>3 DEF ChallengesTypeOK, Counter, Times
  <2>2. now - counters[o].started >= IssueWindow /\ c <= counters[o].started + MaxDelay
    BY <1>3 DEF LatestWindow
  <2>3. counters[o].issues <= MaxIssues /\ Since(o, c + 1) <= counters[o].issues
    BY <1>3 DEF LatestWindow
  <2>4. c + (IssueWindow - MaxDelay) <= clock
    BY <1>1, <2>1, <2>2
  <2> QED
    BY <1>1, <1>2, <2>1, <2>3, <2>4 DEF Spacing
<1>4. CASE o \notin DOMAIN counters
  BY <1>4 DEF LatestWindow
<1> QED
  BY <1>3, <1>4

(* admit_issue, when it refuses: devices whose window is over are          *)
(* forgotten, by an instant the handler read before it waited.             *)
LEMMA PruneKeepsWindow ==
    ASSUME ChallengesTypeOK, HistoryInv, NEW now \in Times, now <= clock,
           UNCHANGED <<clock, admitted>>, NEW o \in Owners, NEW c \in Int, LatestWindow(o, c),
           o \in DOMAIN counters' => o \in DOMAIN counters /\ counters'[o] = counters[o],
           o \in DOMAIN counters \ DOMAIN counters' => now - counters[o].started >= IssueWindow
    PROVE  LatestWindow(o, c)'
<1>1. \A x \in Int : Since(o, x)' = Since(o, x)
  BY DEF Since
<1>2. CASE o \in DOMAIN counters'
  BY <1>2 DEF LatestWindow, Since, Spacing
<1>3. CASE o \notin DOMAIN counters'
  <2>1. c + Spacing <= clock /\ Since(o, c + 1) <= MaxIssues
    BY <1>3, WindowOver
  <2>2. c <= clock
    BY DEF LatestWindow
  <2>3. c + 1 \in Int
    OBVIOUS
  <2> QED
    BY <1>1, <1>3, <2>1, <2>2, <2>3 DEF LatestWindow, Spacing
<1> QED
  BY <1>2, <1>3

(* What an admission does to the counts of issues.                         *)
LEMMA AdmissionCounts ==
    ASSUME ChallengesTypeOK, HistoryInv, NEW o \in Owners, clock' = clock,
           admitted' = [admitted EXCEPT ![o] =
                     [t \in Times |-> IF t <= clock THEN @[t] + 1 ELSE @[t]]]
    PROVE  /\ admitted' \in [Owners -> [Times -> Nat]]
           /\ HistoryInv'
           /\ \A p \in Owners \ {o} : \A x \in Int : Since(p, x)' = Since(p, x)
           /\ \A x \in Int : Since(o, x)' = IF x <= clock THEN Since(o, x) + 1 ELSE 0
<1> DEFINE f == [t \in Times |-> IF t <= clock THEN admitted[o][t] + 1 ELSE admitted[o][t]]
<1>1. admitted \in [Owners -> [Times -> Nat]] /\ clock \in Times
  BY DEF ChallengesTypeOK
<1>2. f \in [Times -> Nat]
  BY <1>1
<1>3. admitted' = [admitted EXCEPT ![o] = f]
  OBVIOUS
<1>4. admitted' \in [Owners -> [Times -> Nat]]
  <2> HIDE DEF f
  <2> QED
    BY <1>1, <1>2, <1>3
<1>5. admitted'[o] = f /\ \A p \in Owners \ {o} : admitted'[p] = admitted[p]
  <2> HIDE DEF f
  <2> QED
    BY <1>1, <1>3
<1>6. \A t \in Times : admitted'[o][t] = IF t <= clock THEN admitted[o][t] + 1 ELSE admitted[o][t]
  BY <1>5
<1>7. \A p \in Owners \ {o} : \A x \in Int : Since(p, x)' = Since(p, x)
  BY <1>5 DEF Since
<1>8. MaxTime \in Nat /\ clock \in Int /\ 0 <= clock /\ clock <= MaxTime
  BY <1>1, ParameterAssumption DEF Times
<1>9. \A x \in Int : 0 <= x /\ x <= MaxTime <=> x \in Times
  BY <1>8 DEF Times
<1>10. \A t \in Times : admitted[o][t] \in Nat /\ t \in Int
  <2>1. \A t \in Times : t \in Int
    BY DEF Times
  <2> QED
    BY <1>1, <2>1
<1>11. \A t, u \in Times : t <= u => admitted[o][u] <= admitted[o][t]
  BY DEF HistoryInv
<1>12. \A t \in Times : t > clock => admitted[o][t] = 0
  BY DEF HistoryInv
<1>13. ASSUME NEW t \in Times, NEW u \in Times, t <= u
       PROVE  admitted'[o][u] <= admitted'[o][t]
  <2>1. admitted[o][u] <= admitted[o][t] /\ admitted[o][u] \in Nat /\ admitted[o][t] \in Nat
    BY <1>10, <1>11, <1>13
  <2>2. u <= clock => t <= clock
    BY <1>8, <1>10, <1>13
  <2>3. admitted'[o][u] = (IF u <= clock THEN admitted[o][u] + 1 ELSE admitted[o][u])
    BY <1>6
  <2>4. admitted'[o][t] = (IF t <= clock THEN admitted[o][t] + 1 ELSE admitted[o][t])
    BY <1>6
  <2> QED
    BY <2>1, <2>2, <2>3, <2>4
<1>14. \A t \in Times : t > clock => admitted'[o][t] = 0
  BY <1>6, <1>8, <1>10, <1>12
<1>15. HistoryInv'
  BY <1>5, <1>13, <1>14 DEF HistoryInv
<1>16. \A x \in Int : Since(o, x)' = IF x <= clock THEN Since(o, x) + 1 ELSE 0
  <2> TAKE x \in Int
  <2>1. CASE x < 0
    BY <1>6, <1>8, <1>9, <2>1 DEF Since
  <2>2. CASE x > MaxTime
    BY <1>8, <2>2 DEF Since
  <2>3. CASE x \in Times
    <3>1. Since(o, x)' = admitted'[o][x] /\ Since(o, x) = admitted[o][x]
      BY <1>8, <1>9, <2>3 DEF Since
    <3> QED
      BY <1>6, <1>8, <1>14, <2>3, <3>1
  <2> QED
    BY <1>8, <1>9, <2>1, <2>2, <2>3
<1> QED
  BY <1>4, <1>7, <1>15, <1>16

(* admit_issue: an issue counts towards the window that is open, or opens  *)
(* the next one, Spacing or more after the last.                           *)
LEMMA AdmitKeepsRate ==
    ASSUME ChallengesInv, NEW o \in Owners, NEW now \in Times,
           now <= clock, clock - now <= MaxDelay, clock' = clock,
           ~ Refuses(o, CurrentCounters(now)),
           counters' = [p \in CurrentCounters(now) \cup {o} |->
                     IF p # o THEN counters[p]
                     ELSE [issues |-> IssuesOf(o, CurrentCounters(now)) + 1,
                           started |-> IF o \in CurrentCounters(now) THEN counters[o].started
                                                     ELSE now]],
           admitted' = [admitted EXCEPT ![o] =
                     [t \in Times |-> IF t <= clock THEN @[t] + 1 ELSE @[t]]]
    PROVE  /\ DOMAIN counters' \subseteq Owners
           /\ \A p \in DOMAIN counters' : counters'[p] \in Counter
           /\ RateInv' /\ IssueRateBounded'
<1> DEFINE kept == CurrentCounters(now)
<1>1. /\ ChallengesTypeOK /\ HistoryInv /\ RateInv /\ IssueRateBounded
  BY DEF ChallengesInv
<1>2. /\ clock \in Int /\ now \in Int /\ 0 <= clock /\ clock <= MaxTime /\ MaxTime \in Nat
      /\ IssueWindow \in Nat /\ MaxDelay \in Nat /\ MaxIssues \in Nat /\ 1 <= MaxIssues
      /\ Spacing \in Int
  BY <1>1, ParameterAssumption DEF ChallengesTypeOK, Times, Spacing
<1>3. /\ kept \subseteq DOMAIN counters /\ DOMAIN counters \subseteq Owners
      /\ \A p \in DOMAIN counters : counters[p].issues \in Nat /\ counters[p].started \in Times
      /\ \A p \in DOMAIN counters \ kept : now - counters[p].started >= IssueWindow
  <2>1. kept \subseteq DOMAIN counters /\ DOMAIN counters \subseteq Owners
    BY <1>1 DEF CurrentCounters, ChallengesTypeOK
  <2>2. \A p \in DOMAIN counters : counters[p].issues \in Nat /\ counters[p].started \in Times
    BY <1>1 DEF ChallengesTypeOK, Counter
  <2>3. \A p \in DOMAIN counters : counters[p].started \in Int
    BY <2>2 DEF Times
  <2>4. \A p \in DOMAIN counters \ kept : now - counters[p].started >= IssueWindow
    BY <1>2, <2>3 DEF CurrentCounters
  <2> QED
    BY <2>1, <2>2, <2>4
<1>4. /\ DOMAIN counters' = kept \cup {o}
      /\ \A p \in kept \ {o} : counters'[p] = counters[p]
      /\ counters'[o].issues = IssuesOf(o, kept) + 1
      /\ counters'[o].started = IF o \in kept THEN counters[o].started ELSE now
      /\ counters'[o] \in Counter
  <2>1. IssuesOf(o, kept) \in Nat
    BY <1>3 DEF IssuesOf
  <2>2. (IF o \in kept THEN counters[o].started ELSE now) \in Times
    BY <1>3
  <2> QED
    BY <2>1, <2>2 DEF Counter
<1>5. IssuesOf(o, kept) < MaxIssues /\ IssuesOf(o, kept) \in Nat
  <2>1. IssuesOf(o, kept) \in Nat
    BY <1>3 DEF IssuesOf
  <2> QED
    BY <1>2, <2>1 DEF Refuses
<1>6. /\ HistoryInv'
      /\ \A p \in Owners \ {o} : \A x \in Int : Since(p, x)' = Since(p, x)
      /\ \A x \in Int : Since(o, x)' = IF x <= clock THEN Since(o, x) + 1 ELSE 0
      /\ admitted' \in [Owners -> [Times -> Nat]]
  BY <1>1, AdmissionCounts
<1>7. \A p \in DOMAIN counters' : counters'[p] \in Counter
  BY <1>1, <1>3, <1>4 DEF ChallengesTypeOK
<1>8. ASSUME NEW p \in Owners \ {o}
      PROVE  \E c \in (0 - IssueWindow) .. MaxTime : LatestWindow(p, c)'
  <2>1. PICK c \in (0 - IssueWindow) .. MaxTime : LatestWindow(p, c)
    BY <1>1 DEF RateInv
  <2>2. c \in Int /\ c + 1 \in Int /\ c + 1 - Spacing \in Int
    BY <1>2
  <2>3. c <= clock
    BY <2>1 DEF LatestWindow
  <2>4. CASE p \in kept
    <3>1. p \in DOMAIN counters /\ p \in DOMAIN counters' /\ counters'[p] = counters[p]
      BY <1>3, <1>4, <2>4
    <3>2. /\ c <= counters[p].started + MaxDelay
          /\ counters[p].issues <= MaxIssues
          /\ Since(p, c + 1) <= counters[p].issues
          /\ Since(p, c + 1 - Spacing) <= MaxIssues + counters[p].issues
      BY <2>1, <3>1 DEF LatestWindow
    <3>3. Since(p, c + 1)' = Since(p, c + 1) /\ Since(p, c + 1 - Spacing)' = Since(p, c + 1 - Spacing)
      BY <1>6, <2>2
    <3>4. LatestWindow(p, c)'
      BY <2>3, <3>1, <3>2, <3>3 DEF LatestWindow, Spacing
    <3> QED
      BY <3>4
  <2>5. CASE p \notin kept
    <3>1. p \notin DOMAIN counters'
      BY <1>4, <2>5
    <3>2. c + Spacing <= clock /\ Since(p, c + 1) <= MaxIssues
      BY <1>1, <1>3, <2>1, <2>2, <2>5, WindowOver
    <3>3. Since(p, c + 1)' = Since(p, c + 1)
      BY <1>6, <2>2
    <3>4. LatestWindow(p, c)'
      BY <2>3, <3>1, <3>2, <3>3 DEF LatestWindow, Spacing
    <3> QED
      BY <3>4
  <2> QED
    BY <2>4, <2>5
<1>9. PICK d \in (0 - IssueWindow) .. MaxTime : LatestWindow(o, d)
  BY <1>1 DEF RateInv
<1>10. d \in Int /\ d <= clock
  BY <1>9 DEF LatestWindow
<1>11. \A x \in Int : Since(o, x) \in Nat
  BY <1>1, SinceFacts
<1>12. PICK c \in (0 - IssueWindow) .. MaxTime : LatestWindow(o, c)'
  <2>1. CASE o \in kept
    <3> DEFINE n == counters[o].issues
    <3>1. /\ o \in DOMAIN counters /\ o \in DOMAIN counters' /\ n \in Nat
          /\ counters'[o].issues = n + 1 /\ n + 1 <= MaxIssues
          /\ counters'[o].started = counters[o].started
      BY <1>2, <1>3, <1>4, <1>5, <2>1 DEF IssuesOf
    <3>2. /\ d <= counters[o].started + MaxDelay
          /\ Since(o, d + 1) <= n
          /\ Since(o, d + 1 - Spacing) <= MaxIssues + n
      BY <1>9, <3>1 DEF LatestWindow
    <3>3. d + 1 \in Int /\ d + 1 - Spacing \in Int
      BY <1>2, <1>10
    <3>4. Since(o, d + 1)' <= n + 1
      BY <1>6, <1>11, <3>1, <3>2, <3>3
    <3>5. Since(o, d + 1 - Spacing)' <= MaxIssues + (n + 1)
      BY <1>2, <1>6, <1>11, <3>1, <3>2, <3>3
    <3>6. LatestWindow(o, d)'
      BY <1>10, <3>1, <3>2, <3>4, <3>5 DEF LatestWindow, Spacing
    <3> QED
      BY <3>6
  <2>2. CASE o \notin kept
    <3>1. d + Spacing <= clock /\ Since(o, d + 1) <= MaxIssues
      BY <1>1, <1>3, <1>9, <1>10, <2>2, WindowOver
    <3>2. o \in DOMAIN counters' /\ counters'[o].issues = 1 /\ counters'[o].started = now
      BY <1>4, <2>2 DEF IssuesOf
    <3>3. clock + 1 \in Int /\ clock + 1 - Spacing \in Int /\ d + 1 \in Int /\ d + 1 <= clock + 1 - Spacing
      BY <1>2, <1>10, <3>1
    <3>4. Since(o, clock + 1)' <= 1
      BY <1>2, <1>6, <3>3
    <3>5. Since(o, clock + 1 - Spacing) <= Since(o, d + 1)
      BY <1>1, <3>3, SinceFacts
    <3>6. Since(o, clock + 1 - Spacing)' <= MaxIssues + 1
      BY <1>2, <1>6, <1>11, <3>1, <3>3, <3>5
    <3>7. clock <= now + MaxDelay
      BY <1>2
    <3>8. LatestWindow(o, clock)'
      BY <1>2, <3>2, <3>4, <3>6, <3>7 DEF LatestWindow, Spacing
    <3>9. clock \in (0 - IssueWindow) .. MaxTime
      BY <1>2
    <3> QED
      BY <3>8, <3>9
  <2> QED
    BY <2>1, <2>2
<1>13. RateInv'
  BY <1>8, <1>12 DEF RateInv
<1>14. ASSUME NEW p \in Owners, NEW t \in Times, NEW u \in Times,
              t <= u, u - t < IssueWindow - MaxDelay
       PROVE  admitted'[p][t] - AdmittedAfter(p, u)' <= 2 * MaxIssues
  <2>1. t \in Int /\ u \in Int /\ u + 1 \in Int /\ 0 <= t
    BY DEF Times
  <2>2. admitted[p][t] - AdmittedAfter(p, u) <= 2 * MaxIssues
    BY <1>1, <1>14 DEF IssueRateBounded
  <2>3. admitted[p][t] = Since(p, t) /\ AdmittedAfter(p, u) = Since(p, u + 1)
    BY <1>1, SinceFacts
  <2>4. admitted'[p][t] = Since(p, t)'
    BY <1>2, <2>1 DEF Since, Times
  <2>5. AdmittedAfter(p, u)' = Since(p, u + 1)'
    BY <1>2, <2>1 DEF Since, AdmittedAfter, Times
  <2>6. CASE p # o
    BY <1>6, <2>1, <2>2, <2>3, <2>4, <2>5, <2>6
  <2>7. CASE p = o
    <3>1. Since(o, t) \in Nat /\ Since(o, u + 1) \in Nat
      BY <1>11, <2>1
    <3>2. CASE u < clock
      <4>1. Since(o, t)' = Since(o, t) + 1 /\ Since(o, u + 1)' = Since(o, u + 1) + 1
        BY <1>2, <1>6, <1>14, <2>1, <3>2
      <4> QED
        BY <1>2, <2>2, <2>3, <2>4, <2>5, <2>7, <3>1, <4>1
    <3>3. CASE t > clock
      <4>1. Since(o, t)' = 0 /\ Since(o, u + 1)' = 0
        BY <1>2, <1>6, <1>14, <2>1, <3>3
      <4> QED
        BY <1>2, <2>4, <2>5, <2>7, <4>1
    <3>4. CASE t <= clock /\ clock <= u
      <4>1. Since(o, u + 1)' = 0
        BY <1>2, <1>6, <2>1, <3>4
      <4>2. c \in Int /\ c <= clock
        BY <1>12 DEF LatestWindow
      <4>3. c + 1 - Spacing \in Int /\ c + 1 - Spacing <= t
        BY <1>2, <1>14, <2>1, <3>4, <4>2 DEF Spacing
      <4>4. Since(o, t) <= Since(o, c + 1 - Spacing)
        BY <1>1, <2>1, <4>3, SinceFacts
      <4>5. c + 1 - Spacing <= clock
        BY <1>2, <2>1, <3>4, <4>3
      <4>6. Since(o, t)' <= Since(o, c + 1 - Spacing)'
        <5>1. Since(o, t)' = Since(o, t) + 1
          BY <1>6, <2>1, <3>4
        <5>2. Since(o, c + 1 - Spacing)' = Since(o, c + 1 - Spacing) + 1
          BY <1>6, <4>3, <4>5
        <5> QED
          BY <1>11, <3>1, <4>3, <4>4, <5>1, <5>2
      <4>7. /\ counters'[o].issues \in Nat /\ counters'[o].issues <= MaxIssues
            /\ Since(o, c + 1 - Spacing)' <= MaxIssues + counters'[o].issues
        BY <1>4, <1>5, <1>12 DEF LatestWindow, Spacing
      <4>8. Since(o, t)' \in Nat /\ Since(o, c + 1 - Spacing)' \in Nat
        BY <1>6, <1>11, <2>1, <4>3
      <4>9. Since(o, t)' <= 2 * MaxIssues
        BY <1>2, <4>6, <4>7, <4>8
      <4> QED
        BY <2>4, <2>5, <2>7, <4>1, <4>8, <4>9
    <3> QED
      BY <1>2, <2>1, <3>2, <3>3, <3>4
  <2> QED
    BY <2>6, <2>7
<1>15. IssueRateBounded'
  BY <1>14 DEF IssueRateBounded
<1> QED
  BY <1>3, <1>4, <1>7, <1>13, <1>15

(* admit_issue as a whole.                                                 *)
LEMMA AdmitKeeps ==
    ASSUME ChallengesInv, NEW h \in Handlers, AdmitIssue(h)
    PROVE  ChallengesInv'
<1> USE DEF ChallengesInv
<1> DEFINE o == call[h].owner
           now == call[h].now
           kept == CurrentCounters(now)
<1>1. At(h, "admit") /\ UNCHANGED <<clock, issued, drawn, approvals>>
  BY DEF AdmitIssue
<1>2. call[h] \in Call /\ o \in Owners /\ now \in Times /\ call[h].step = "admit"
  <2>1. call[h] \in Call
    BY <1>1 DEF At, ChallengesTypeOK
  <2> QED
    BY <1>1, <2>1 DEF At, Call
<1>3. now <= clock /\ clock - now <= MaxDelay
  BY <1>1 DEF DelayInv, Waits
<1>4. /\ IssueWindow \in Nat /\ now \in Int /\ kept \subseteq DOMAIN counters
      /\ \A p \in DOMAIN counters : counters[p].started \in Int
  BY <1>2, ParameterAssumption DEF Times, CurrentCounters, ChallengesTypeOK, Counter
<1>5. /\ DOMAIN counters' \subseteq Owners
      /\ \A p \in DOMAIN counters' : counters'[p] \in Counter
      /\ admitted' \in [Owners -> [Times -> Nat]]
      /\ HistoryInv' /\ RateInv' /\ IssueRateBounded'
  <2>1. CASE Refuses(o, kept)
    <3>1. counters' = [p \in kept |-> counters[p]] /\ admitted' = admitted
      BY <2>1 DEF AdmitIssue
    <3>2. DOMAIN counters' = kept /\ \A p \in kept : counters'[p] = counters[p]
      BY <3>1
    <3>3. \A p \in DOMAIN counters \ kept : now - counters[p].started >= IssueWindow
      BY <1>4 DEF CurrentCounters
    <3>4. ASSUME NEW p \in Owners
          PROVE  \E c \in (0 - IssueWindow) .. MaxTime : LatestWindow(p, c)'
      <4>1. PICK c \in (0 - IssueWindow) .. MaxTime : LatestWindow(p, c)
        BY DEF RateInv
      <4>2. c \in Int
        BY <4>1
      <4>3. LatestWindow(p, c)'
        BY <1>1, <1>2, <1>3, <1>4, <3>1, <3>2, <3>3, <4>1, <4>2, PruneKeepsWindow
      <4> QED
        BY <4>3
    <3>5. RateInv'
      BY <3>4 DEF RateInv
    <3>6. HistoryInv' /\ IssueRateBounded' /\ admitted' \in [Owners -> [Times -> Nat]]
      BY <1>1, <3>1 DEF HistoryInv, IssueRateBounded, AdmittedAfter, ChallengesTypeOK
    <3> QED
      BY <1>4, <3>2, <3>5, <3>6 DEF ChallengesTypeOK
  <2>2. CASE ~ Refuses(o, kept)
    <3>1. /\ counters' = [p \in kept \cup {o} |->
                     IF p # o THEN counters[p]
                     ELSE [issues |-> IssuesOf(o, kept) + 1,
                           started |-> IF o \in kept THEN counters[o].started ELSE now]]
          /\ admitted' = [admitted EXCEPT ![o] =
                     [t \in Times |-> IF t <= clock THEN @[t] + 1 ELSE @[t]]]
      BY <2>2 DEF AdmitIssue
    <3>2. HistoryInv' /\ admitted' \in [Owners -> [Times -> Nat]]
      BY <1>1, <1>2, <3>1, AdmissionCounts
    <3> QED
      BY <1>1, <1>2, <1>3, <2>2, <3>1, <3>2, AdmitKeepsRate
  <2> QED
    BY <2>1, <2>2
<1>6. PICK c \in Call \cup {NoCall} :
         /\ call' = [call EXCEPT ![h] = c]
         /\ c # NoCall => c.step = "insert" /\ c.now = now
  <2> DEFINE r == [step |-> "insert", owner |-> o, now |-> now]
  <2>1. r \in Call /\ r.step = "insert" /\ r.now = now
    BY <1>2 DEF Call
  <2>2. call' = [call EXCEPT ![h] = r] \/ call' = [call EXCEPT ![h] = NoCall]
    BY DEF AdmitIssue
  <2> HIDE DEF r
  <2> QED
    BY <2>1, <2>2
<1>7. /\ call' \in [Handlers -> Call \cup {NoCall}]
      /\ \A g \in Handlers : call'[g] = IF g = h THEN c ELSE call[g]
  BY <1>6, CallMoves
<1>8. ChallengesTypeOK'
  BY <1>1, <1>5, <1>7 DEF ChallengesTypeOK
<1>9. ApprovalInv' /\ SubmitInv'
  BY <1>1, <1>6, <1>7 DEF ApprovalInv, SubmitInv, At
<1>10. DelayInv'
  BY <1>1, <1>3, <1>6, <1>7 DEF DelayInv, Waits, At
<1> QED
  BY <1>5, <1>8, <1>9, <1>10

(* issue as it inserts the challenge: under an identifier that nobody has  *)
(* used yet.                                                               *)
LEMMA InsertKeeps ==
    ASSUME ChallengesInv, NEW h \in Handlers, InsertChallenge(h)
    PROVE  /\ ChallengesInv'
           /\ DOMAIN drawn \subseteq DOMAIN drawn'
           /\ \A i \in DOMAIN drawn : drawn'[i] = drawn[i]
           /\ \A i \in DOMAIN drawn' \ DOMAIN drawn :
                 /\ i \in DOMAIN issued' /\ issued'[i].owner = call[h].owner
                 /\ issued'[i].expires = call[h].now + Ttl
                 /\ \A g \in Handlers : At(g, "consume") => call[g].id # i
           /\ \A i \in DOMAIN issued : issued[i].expires > call[h].now =>
                 i \in DOMAIN issued' /\ issued'[i] = issued[i]
<1> USE DEF ChallengesInv
<1> DEFINE o == call[h].owner
           now == call[h].now
           kept == Unexpired(now)
           challenge == [owner |-> o, expires |-> Expiry(now)]
<1>1. /\ At(h, "insert") /\ UNCHANGED <<clock, counters, approvals, admitted>>
      /\ call' = [call EXCEPT ![h] = NoCall]
  BY DEF InsertChallenge
<1>2. call[h] \in Call /\ o \in Owners /\ now \in Times
  <2>1. call[h] \in Call
    BY <1>1 DEF At, ChallengesTypeOK
  <2> QED
    BY <2>1 DEF Call
<1>3. challenge \in Challenge /\ challenge.owner = o /\ challenge.expires = now + Ttl
  BY <1>2, ParameterAssumption DEF Challenge, Expiry, Times
<1>4. /\ kept \subseteq DOMAIN issued /\ DOMAIN issued \subseteq DOMAIN drawn
      /\ \A i \in DOMAIN issued : issued[i].expires > now => i \in kept
  BY DEF Unexpired, ChallengesTypeOK
<1>5. /\ call' \in [Handlers -> Call \cup {NoCall}]
      /\ \A g \in Handlers : call'[g] = IF g = h THEN NoCall ELSE call[g]
  BY <1>1, CallMoves
<1>6. \/ issued' = [i \in kept |-> issued[i]] /\ drawn' = drawn
      \/ \E new \in Fresh :
            /\ issued' = [i \in kept \cup {new} |-> IF i = new THEN challenge ELSE issued[i]]
            /\ drawn' = [i \in DOMAIN drawn \cup {new} |->
                  IF i \in DOMAIN drawn THEN drawn[i] ELSE challenge]
  BY DEF InsertChallenge
<1> HIDE DEF challenge
<1>7. PICK new :
         /\ new \subseteq Ids /\ new \cap DOMAIN drawn = {}
         /\ DOMAIN issued' = kept \cup new /\ DOMAIN drawn' = DOMAIN drawn \cup new
         /\ \A i \in kept : issued'[i] = issued[i]
         /\ \A i \in DOMAIN drawn : drawn'[i] = drawn[i]
         /\ \A i \in new : issued'[i] = challenge /\ drawn'[i] = challenge
  <2>1. CASE issued' = [i \in kept |-> issued[i]] /\ drawn' = drawn
    <3> WITNESS {}
    <3> QED
      BY <2>1
  <2>2. CASE \E n \in Fresh :
            /\ issued' = [i \in kept \cup {n} |-> IF i = n THEN challenge ELSE issued[i]]
            /\ drawn' = [i \in DOMAIN drawn \cup {n} |->
                  IF i \in DOMAIN drawn THEN drawn[i] ELSE challenge]
    <3>1. PICK n \in Fresh :
            /\ issued' = [i \in kept \cup {n} |-> IF i = n THEN challenge ELSE issued[i]]
            /\ drawn' = [i \in DOMAIN drawn \cup {n} |->
                  IF i \in DOMAIN drawn THEN drawn[i] ELSE challenge]
      BY <2>2
    <3>2. n \in Ids /\ n \notin DOMAIN drawn /\ n \notin kept
      BY <1>4 DEF Fresh
    <3> WITNESS {n}
    <3> QED
      BY <3>1, <3>2
  <2> QED
    BY <1>6, <2>1, <2>2
<1>8. ChallengesTypeOK'
  <2>1. \A i \in DOMAIN drawn' : drawn'[i] \in Challenge
    BY <1>3, <1>7 DEF ChallengesTypeOK
  <2>2. \A i \in DOMAIN issued' : issued'[i] = drawn'[i]
    BY <1>4, <1>7 DEF ChallengesTypeOK
  <2>3. DOMAIN issued' \subseteq DOMAIN drawn' /\ DOMAIN drawn' \subseteq Ids
    BY <1>4, <1>7 DEF ChallengesTypeOK
  <2> QED
    BY <1>1, <1>5, <2>1, <2>2, <2>3 DEF ChallengesTypeOK
<1>9. ApprovalInv'
  BY <1>1, <1>4, <1>7 DEF ApprovalInv
<1>10. SubmitInv'
  <2>1. \A g \in Handlers : At(g, "consume")' => At(g, "consume") /\ call'[g] = call[g]
    BY <1>5 DEF At
  <2>2. \A g \in Handlers : At(g, "submit")' => At(g, "submit") /\ call'[g] = call[g]
    BY <1>5 DEF At
  <2> QED
    BY <1>1, <1>4, <1>7, <2>1, <2>2 DEF SubmitInv
<1>11. DelayInv'
  BY <1>1, <1>5 DEF DelayInv, Waits, At
<1>12. HistoryInv' /\ RateInv' /\ IssueRateBounded'
  BY <1>1 DEF HistoryInv, RateInv, LatestWindow, Since, IssueRateBounded, AdmittedAfter
<1>13. \A i \in DOMAIN drawn' \ DOMAIN drawn :
          /\ i \in DOMAIN issued' /\ issued'[i].owner = o
          /\ issued'[i].expires = now + Ttl
          /\ \A g \in Handlers : At(g, "consume") => call[g].id # i
  BY <1>3, <1>7 DEF SubmitInv
<1>14. \A i \in DOMAIN issued : issued[i].expires > now =>
          i \in DOMAIN issued' /\ issued'[i] = issued[i]
  BY <1>4, <1>7
<1> QED
  BY <1>7, <1>8, <1>9, <1>10, <1>11, <1>12, <1>13, <1>14

(* Time passes.                                                            *)
LEMMA ChallengesTickKeeps ==
    ASSUME ChallengesInv, ChallengesTick
    PROVE  ChallengesInv'
<1> USE DEF ChallengesInv
<1>1. /\ clock' = clock + 1 /\ clock < MaxTime
      /\ UNCHANGED <<issued, counters, call, drawn, approvals, admitted>>
  BY DEF ChallengesTick
<1>2. /\ clock \in Int /\ 0 <= clock /\ MaxTime \in Nat /\ MaxDelay \in Nat /\ IssueWindow \in Nat
      /\ Spacing \in Int
  BY ParameterAssumption DEF ChallengesTypeOK, Times, Spacing
<1>3. clock' \in Times
  BY <1>1, <1>2 DEF Times
<1>4. ChallengesTypeOK'
  BY <1>1, <1>3 DEF ChallengesTypeOK
<1>5. SubmitInv' /\ ApprovalInv' /\ IssueRateBounded'
  BY <1>1 DEF SubmitInv, ApprovalInv, IssueRateBounded, AdmittedAfter, At
<1>6. DelayInv'
  <2> SUFFICES ASSUME NEW h \in Handlers, Waits(h)
               PROVE  call[h].now <= clock + 1 /\ (clock + 1) - call[h].now <= MaxDelay
    BY <1>1 DEF DelayInv, Waits, At
  <2>1. call[h] \in Call
    BY DEF Waits, At, ChallengesTypeOK
  <2>2. call[h].now \in Int
    BY <2>1 DEF Call, Times
  <2>3. call[h].now <= clock /\ clock - call[h].now < MaxDelay
    BY DEF DelayInv, ChallengesTick
  <2> QED
    BY <1>2, <2>2, <2>3
<1>7. HistoryInv'
  <2>1. \A t \in Times : t > clock' => t > clock
    BY <1>1, <1>2 DEF Times
  <2> QED
    BY <1>1, <2>1 DEF HistoryInv
<1>8. RateInv'
  <2> SUFFICES ASSUME NEW o \in Owners
               PROVE  \E c \in (0 - IssueWindow) .. MaxTime : LatestWindow(o, c)'
    BY DEF RateInv
  <2>1. PICK c \in (0 - IssueWindow) .. MaxTime : LatestWindow(o, c)
    BY DEF RateInv
  <2>2. c \in Int
    BY <2>1
  <2>3. c <= clock /\ (o \notin DOMAIN counters => c + Spacing <= clock)
    BY <2>1 DEF LatestWindow
  <2>4. c <= clock' /\ (o \notin DOMAIN counters => c + Spacing <= clock')
    BY <1>1, <1>2, <2>2, <2>3
  <2>5. LatestWindow(o, c)'
    BY <1>1, <2>1, <2>4 DEF LatestWindow, Since, Spacing
  <2> QED
    BY <2>5
<1> QED
  BY <1>4, <1>5, <1>6, <1>7, <1>8

(* Before the first request.                                               *)
LEMMA ChallengesStart ==
    ASSUME ChallengesInit
    PROVE  ChallengesInv
<1>1. /\ clock = 0 /\ DOMAIN issued = {} /\ DOMAIN counters = {} /\ DOMAIN drawn = {}
      /\ call = [h \in Handlers |-> NoCall] /\ approvals = [i \in Ids |-> <<>>]
      /\ admitted = [o \in Owners |-> [t \in Times |-> 0]]
  BY DEF ChallengesInit
<1>2. MaxTime \in Nat /\ 0 \in Times /\ IssueWindow \in Nat /\ MaxDelay \in Nat /\ MaxIssues \in Nat
  BY ParameterAssumption DEF Times
<1>3. \A o \in Owners : \A t \in Times : admitted[o][t] = 0
  BY <1>1
<1>4. ChallengesTypeOK
  BY <1>1, <1>2 DEF ChallengesTypeOK
<1>5. SubmitInv /\ ApprovalInv /\ DelayInv
  BY <1>1 DEF SubmitInv, ApprovalInv, DelayInv, Waits, At
<1>6. HistoryInv
  BY <1>3 DEF HistoryInv
<1>7. IssueRateBounded
  <2>1. \A o \in Owners : \A u \in Times : AdmittedAfter(o, u) = 0
    BY <1>2, <1>3 DEF AdmittedAfter, Times
  <2> QED
    BY <1>2, <1>3, <2>1 DEF IssueRateBounded
<1>8. RateInv
  <2> SUFFICES ASSUME NEW o \in Owners
               PROVE  LatestWindow(o, 0 - IssueWindow)
    BY <1>2 DEF RateInv
  <2>1. Since(o, 0 - IssueWindow + 1) = 0
    BY <1>2, <1>3 DEF Since, Times
  <2> QED
    BY <1>1, <1>2, <2>1 DEF LatestWindow, Spacing
<1> QED
  BY <1>4, <1>5, <1>6, <1>7, <1>8 DEF ChallengesInv

(* Whatever the agent's clients ask it.                                    *)
LEMMA ChallengesStep ==
    ASSUME ChallengesInv, [ChallengesNext]_challengeVars
    PROVE  ChallengesInv'
<1>1. CASE \E h \in Handlers, o \in Owners : IssueBegin(h, o)
  BY <1>1, CallsKeep
<1>2. CASE \E h \in Handlers : AdmitIssue(h)
  BY <1>2, AdmitKeeps
<1>3. CASE \E h \in Handlers : InsertChallenge(h)
  BY <1>3, InsertKeeps
<1>4. CASE \E h \in Handlers : Consume(h)
  BY <1>4, ConsumeKeeps
<1>5. CASE \E h \in Handlers : SubmitPin(h)
  BY <1>5, SubmitKeeps
<1>6. CASE \E h \in Handlers : Abandon(h)
  BY <1>6, CallsKeep
<1>7. CASE \E h \in Handlers, o \in Owners, i \in Ids : ConsumeBegin(h, o, i)
  BY <1>7, CallsKeep
<1>8. CASE ChallengesTick
  BY <1>8, ChallengesTickKeeps
<1>9. CASE UNCHANGED challengeVars
  BY <1>9 DEF challengeVars, ChallengesInv, ChallengesTypeOK, SubmitInv, ApprovalInv, DelayInv,
              HistoryInv, RateInv, LatestWindow, Since, IssueRateBounded, AdmittedAfter, Waits, At
<1> QED
  BY <1>1, <1>2, <1>3, <1>4, <1>5, <1>6, <1>7, <1>8, <1>9 DEF ChallengesNext

-----------------------------------------------------------------------------
(* The attempts.                                                           *)

(* What no step of the agent undoes.                                       *)
LEMMA HistoryGrows ==
    ASSUME ChallengesInv, [ChallengesNext]_challengeVars
    PROVE  /\ DOMAIN drawn \subseteq DOMAIN drawn'
           /\ \A i \in DOMAIN drawn : drawn'[i] = drawn[i]
           /\ \A i \in Ids : approvals[i] # <<>> => approvals'[i] = approvals[i]
<1>1. CASE \E h \in Handlers : InsertChallenge(h)
  <2>1. PICK h \in Handlers : InsertChallenge(h)
    BY <1>1
  <2>2. approvals' = approvals
    BY <2>1 DEF InsertChallenge
  <2> QED
    BY <2>1, <2>2, InsertKeeps
<1>2. CASE \E h \in Handlers : SubmitPin(h)
  <2>1. PICK h \in Handlers : SubmitPin(h)
    BY <1>2
  <2>2. drawn' = drawn
    BY <2>1 DEF SubmitPin
  <2> QED
    BY <2>1, <2>2, SubmitKeeps
<1>3. CASE drawn' = drawn /\ approvals' = approvals
  BY <1>3
<1> QED
  BY <1>1, <1>2, <1>3 DEF ChallengesNext, IssueBegin, AdmitIssue, Consume, Abandon, ConsumeBegin,
                          ChallengesTick, challengeVars

(* A challenge that has not expired stays until its owner consumes it,     *)
(* whatever is pruned and by whichever instant.                            *)
LEMMA UnexpiredStays ==
    ASSUME ChallengesInv, [ChallengesNext]_challengeVars,
           NEW i \in DOMAIN issued, issued[i].expires > clock,
           \A h \in Handlers : At(h, "consume") /\ call[h].id = i /\ call[h].owner = issued[i].owner
               => call'[h] = call[h]
    PROVE  i \in DOMAIN issued' /\ issued'[i] = issued[i]
<1>1. \A h \in Handlers : Waits(h) => i \in Unexpired(call[h].now)
  <2> SUFFICES ASSUME NEW h \in Handlers, Waits(h)
               PROVE  issued[i].expires > call[h].now
    BY DEF Unexpired
  <2>1. call[h] \in Call
    BY DEF Waits, At, ChallengesInv, ChallengesTypeOK
  <2>2. call[h].now \in Int /\ clock \in Int /\ issued[i].expires \in Int
    BY <2>1 DEF Call, Times, ChallengesInv, ChallengesTypeOK, Challenge
  <2>3. call[h].now <= clock
    BY DEF ChallengesInv, DelayInv
  <2> QED
    BY <2>2, <2>3
<1>2. CASE \E h \in Handlers : InsertChallenge(h)
  <2>1. PICK h \in Handlers : InsertChallenge(h)
    BY <1>2
  <2>2. issued[i].expires > call[h].now
    BY <1>1, <2>1 DEF InsertChallenge, Waits, Unexpired
  <2> QED
    BY <2>1, <2>2, InsertKeeps
<1>3. CASE \E h \in Handlers : Consume(h)
  <2>1. PICK h \in Handlers : Consume(h)
    BY <1>3
  <2>2. At(h, "consume") /\ i \in Unexpired(call[h].now)
    BY <1>1, <2>1 DEF Consume, Waits
  <2>3. \/ issued' = [j \in Unexpired(call[h].now) |-> issued[j]]
        \/ /\ Valid(call[h].owner, call[h].id, Unexpired(call[h].now))
           /\ issued' = [j \in Unexpired(call[h].now) \ {call[h].id} |-> issued[j]]
           /\ call' = [call EXCEPT ![h] = [step |-> "submit", owner |-> call[h].owner,
                                           now |-> call[h].now, id |-> call[h].id]]
    BY <2>1 DEF Consume
  <2>4. CASE issued' = [j \in Unexpired(call[h].now) |-> issued[j]]
    BY <2>2, <2>4
  <2>5. CASE /\ Valid(call[h].owner, call[h].id, Unexpired(call[h].now))
             /\ issued' = [j \in Unexpired(call[h].now) \ {call[h].id} |-> issued[j]]
             /\ call' = [call EXCEPT ![h] = [step |-> "submit", owner |-> call[h].owner,
                                             now |-> call[h].now, id |-> call[h].id]]
    <3>1. call'[h].step = "submit"
      BY <2>5 DEF ChallengesInv, ChallengesTypeOK
    <3>2. call'[h] # call[h]
      BY <2>2, <3>1 DEF At
    <3>3. call[h].id # i
      BY <2>2, <2>5, <3>2 DEF Valid
    <3> QED
      BY <2>2, <2>5, <3>3
  <2> QED
    BY <2>3, <2>4, <2>5
<1>4. CASE issued' = issued
  BY <1>4
<1> QED
  BY <1>2, <1>3, <1>4 DEF ChallengesNext, IssueBegin, AdmitIssue, SubmitPin, Abandon, ConsumeBegin,
                          ChallengesTick, challengeVars

(* The challenge an attempt holds has not expired; and one it has not      *)
(* asked to consume yet lives longer than a request may wait.              *)
LEMMA HeldIsAlive ==
    ASSUME IInv, NEW o \in Pairing, Holding(o)
    PROVE  /\ drawn[attempt[o].id].expires > clock
           /\ ~ Consuming(o) => clock + MaxDelay < drawn[attempt[o].id].expires
<1>1. /\ clock \in Int /\ MaxDelay \in Nat /\ Ttl \in Nat /\ PinTimeout \in Nat
      /\ PinTimeout + 2 * MaxDelay < Ttl
  BY ParameterAssumption, TimeoutAssumption, LifeAssumption
     DEF IInv, ChallengesInv, ChallengesTypeOK, Times
<1>2. attempt[o].id \in DOMAIN drawn /\ LongEnough(o)
  BY DEF IInv, DeviceInv, Life
<1>3. drawn[attempt[o].id].expires \in Int
  BY <1>2 DEF IInv, ChallengesInv, ChallengesTypeOK, Challenge
<1>4. CASE Consuming(o)
  <2> DEFINE h == attempt[o].handler
  <2>1. h \in Handlers /\ At(h, "consume")
    BY <1>4 DEF Consuming, IInv, TypeOK, Attempt
  <2>2. call[h] \in Call
    BY <2>1 DEF At, IInv, ChallengesInv, ChallengesTypeOK
  <2>3. call[h].now \in Int
    BY <2>2 DEF Call, Times
  <2>4. clock - call[h].now <= MaxDelay
    BY <2>1 DEF IInv, ChallengesInv, DelayInv, Waits
  <2>5. call[h].now + MaxDelay < drawn[attempt[o].id].expires
    BY <1>2, <1>4 DEF LongEnough
  <2> QED
    BY <1>1, <1>3, <1>4, <2>3, <2>4, <2>5
<1>5. CASE ~ Consuming(o)
  <2>1. attempt[o].since \in Int
    BY DEF IInv, TypeOK, Attempt, Times
  <2>2. clock - attempt[o].since <= PinTimeout
    <3>1. CASE InStage(o, "spawn")
      BY <1>1, <2>1, <3>1 DEF IInv, DeviceInv, Patience
    <3>2. CASE InStage(o, "pin")
      BY <3>2 DEF IInv, DeviceInv, Patience
    <3> QED
      BY <1>5, <3>1, <3>2 DEF Holding
  <2>3. attempt[o].since + Ttl - MaxDelay <= drawn[attempt[o].id].expires
    BY <1>2, <1>5 DEF LongEnough
  <2> QED
    BY <1>1, <1>3, <2>1, <2>2, <2>3
<1> QED
  BY <1>4, <1>5

(* A device that a step does not touch: its challenge is still there, and  *)
(* there is no new rival for it.                                           *)
LEMMA DeviceKeeps ==
    ASSUME IInv, [ChallengesNext]_challengeVars, NEW p \in Pairing,
           clock' = clock, trusted \subseteq trusted', doubled \subseteq doubled',
           attempt'[p] = attempt[p], child'[p] = child[p],
           attempt[p].handler # NoCall => call'[attempt[p].handler] = call[attempt[p].handler],
           \/ Holding(p) => attempt[p].id \in doubled'
           \/ \A g \in Handlers : Rivals(p, g)' => Rivals(p, g)
    PROVE  DeviceInv(p)'
<1>1. DeviceInv(p) /\ ChallengesInv
  BY DEF IInv
<1>2. attempt[p].handler \in Handlers \cup {NoCall}
  BY DEF IInv, TypeOK, Attempt
<1>3. Serving(p)' /\ Patience(p)'
  BY <1>1 DEF DeviceInv, Serving, Patience, InStage
<1>4. (Consuming(p)' <=> Consuming(p)) /\ (Holding(p)' <=> Holding(p))
  BY DEF Consuming, Holding, At, InStage
<1>5. ASSUME Holding(p)
      PROVE  /\ attempt[p].id \in DOMAIN drawn' /\ drawn'[attempt[p].id].owner = p
             /\ LongEnough(p)'
             /\ attempt[p].id \in doubled' \/ Unrivalled(p)'
  <2>1. /\ attempt[p].id \in DOMAIN drawn /\ drawn[attempt[p].id].owner = p
        /\ LongEnough(p)
        /\ attempt[p].id \in doubled \/ Unrivalled(p)
    BY <1>1, <1>5 DEF DeviceInv, Life
  <2>2. attempt[p].id \in DOMAIN drawn' /\ drawn'[attempt[p].id] = drawn[attempt[p].id]
    BY <1>1, <2>1, HistoryGrows
  <2>3. LongEnough(p)'
    BY <1>4, <2>1, <2>2 DEF LongEnough, Consuming
  <2>4. CASE attempt[p].id \in doubled'
    BY <2>1, <2>2, <2>3, <2>4
  <2>5. CASE attempt[p].id \notin doubled'
    <3>1. /\ Unrivalled(p)
          /\ \A g \in Handlers : Rivals(p, g)' => Rivals(p, g)
      BY <1>5, <2>1, <2>5
    <3>2. issued[attempt[p].id] = drawn[attempt[p].id]
      BY <1>1, <3>1 DEF Unrivalled, ChallengesInv, ChallengesTypeOK
    <3>3. issued[attempt[p].id].expires > clock
      BY <1>5, <3>2, HeldIsAlive
    <3>4. \A g \in Handlers : At(g, "consume") /\ call[g].id = attempt[p].id
               /\ call[g].owner = issued[attempt[p].id].owner => call'[g] = call[g]
      <4> SUFFICES ASSUME NEW g \in Handlers, Rivals(p, g)
                   PROVE  call'[g] = call[g]
        BY <2>1, <3>2 DEF Rivals
      <4>1. g = attempt[p].handler /\ g # NoCall
        BY <3>1, NoCallAssumption DEF Unrivalled
      <4> QED
        BY <4>1
    <3>5. attempt[p].id \in DOMAIN issued
      BY <3>1 DEF Unrivalled
    <3>6. attempt[p].id \in DOMAIN issued'
      BY <1>1, <3>3, <3>4, <3>5, UnexpiredStays
    <3>7. Unrivalled(p)'
      BY <3>1, <3>6 DEF Unrivalled
    <3> QED
      BY <2>1, <2>2, <2>3, <3>7
  <2> QED
    BY <2>4, <2>5
<1>6. Life(p)'
  BY <1>4, <1>5 DEF Life
<1> QED
  BY <1>1, <1>3, <1>6 DEF DeviceInv, InStage

(* One attempt and its process change.                                     *)
LEMMA Moves ==
    ASSUME TypeOK, NEW o \in Pairing, NEW r \in Attempt, NEW k \in ChildStates,
           attempt' = [attempt EXCEPT ![o] = r], child' = [child EXCEPT ![o] = k]
    PROVE  /\ attempt' \in [Pairing -> Attempt] /\ child' \in [Pairing -> ChildStates]
           /\ attempt'[o] = r /\ child'[o] = k
           /\ \A p \in Pairing \ {o} : attempt'[p] = attempt[p] /\ child'[p] = child[p]
  BY DEF TypeOK

(* A process that is left alone.                                           *)
LEMMA ChildStays ==
    ASSUME TypeOK, NEW o \in Pairing, UNCHANGED child
    PROVE  child[o] \in ChildStates /\ child' = [child EXCEPT ![o] = child[o]]
  BY DEF TypeOK

(* What attempts are made of.                                              *)
LEMMA AttemptFields ==
    ASSUME ChallengesTypeOK, NEW s \in Stages
    PROVE  /\ Over(s) \in Attempt /\ Over(s).stage = s /\ Over(s).handler = NoCall
           /\ Attempting(s) \in Attempt /\ Attempting(s).stage = s
           /\ Attempting(s).handler = NoCall
<1>1. clock \in Times /\ 0 \in Times
  BY ParameterAssumption DEF ChallengesTypeOK, Times
<1>2. Over(s) \in Attempt /\ Over(s).stage = s /\ Over(s).handler = NoCall
  BY <1>1 DEF Over, Attempt
<1>3. Attempting(s) \in Attempt /\ Attempting(s).stage = s /\ Attempting(s).handler = NoCall
  BY <1>1 DEF Attempting, Attempt
<1> QED
  BY <1>2, <1>3

(* An attempt that goes on with its challenge.                             *)
LEMMA GoingOnFields ==
    ASSUME TypeOK, NEW s \in Stages, NEW o \in Pairing, NEW h \in Handlers \cup {NoCall},
           NEW r, r = GoingOn(o, s, h)
    PROVE  /\ r \in Attempt /\ r.stage = s /\ r.since = clock
           /\ r.id = attempt[o].id /\ r.handler = h
<1>1. clock \in Times /\ attempt[o].id \in Ids \cup {NoCall}
  BY DEF TypeOK, ChallengesTypeOK, Attempt
<1> QED
  BY <1>1 DEF GoingOn, Attempt

(* Trust rests on approvals, which stay.                                   *)
LEMMA TrustStays ==
    ASSUME IInv, [ChallengesNext]_challengeVars
    PROVE  \A o \in trusted : \E i \in DOMAIN drawn' : drawn'[i].owner = o /\ approvals'[i] = <<o>>
<1> SUFFICES ASSUME NEW o \in trusted
             PROVE  \E i \in DOMAIN drawn' : drawn'[i].owner = o /\ approvals'[i] = <<o>>
  OBVIOUS
<1>1. PICK i \in DOMAIN drawn : drawn[i].owner = o /\ approvals[i] = <<o>>
  BY DEF IInv, TrustInv
<1>2. i \in Ids /\ approvals[i] # <<>>
  BY <1>1 DEF IInv, ChallengesInv, ChallengesTypeOK
<1> QED
  BY <1>1, <1>2, HistoryGrows DEF IInv

(* A step of an attempt on its own: the answer it waited for, if any, is   *)
(* given up, and it is done or starts its process.                         *)
LEMMA ClientMoves ==
    ASSUME IInv, NEW o \in Pairing, UNCHANGED <<challengeVars, trusted, doubled>>,
           NEW r \in Attempt, NEW k \in ChildStates,
           attempt' = [attempt EXCEPT ![o] = r], child' = [child EXCEPT ![o] = k],
           r.handler = NoCall, r.stage # "spawn",
           r.stage \notin {"pin", "pair", "complete"} => k = "none",
           r.stage = "paired" => o \in trusted,
           r.stage = "pin" => InStage(o, "spawn") /\ r.id = attempt[o].id /\ r.since = clock
    PROVE  IInv'
<1>1. /\ attempt' \in [Pairing -> Attempt] /\ child' \in [Pairing -> ChildStates]
      /\ attempt'[o] = r /\ child'[o] = k
      /\ \A p \in Pairing \ {o} : attempt'[p] = attempt[p] /\ child'[p] = child[p]
  BY Moves DEF IInv
<1>2. /\ UNCHANGED <<clock, issued, call, drawn, approvals>>
      /\ trusted' = trusted /\ doubled' = doubled
  BY DEF challengeVars
<1>3. ChallengesInv'
  BY ChallengesStep DEF IInv
<1>4. TrustInv'
  BY <1>2 DEF IInv, TrustInv
<1>5. TypeOK'
  BY <1>1, <1>2, <1>3 DEF IInv, TypeOK, ChallengesInv
<1>6. ASSUME NEW p \in Pairing \ {o}
      PROVE  DeviceInv(p)'
  <2>1. \A g \in Handlers : Rivals(p, g)' => Rivals(p, g)
    BY <1>1, <1>2 DEF Rivals, At
  <2> QED
    BY <1>1, <1>2, <2>1, DeviceKeeps
<1>7. DeviceInv(o)'
  <2>1. Serving(o)' /\ ~ Consuming(o)'
    BY <1>1 DEF Serving, Consuming
  <2>2. r.stage = "pin" => clock - r.since <= PinTimeout
    <3>1. clock \in Int /\ PinTimeout \in Nat
      BY TimeoutAssumption DEF IInv, TypeOK, ChallengesTypeOK, Times
    <3> QED
      BY <3>1
  <2>3. Patience(o)'
    BY <1>1, <1>2, <2>2 DEF Patience, InStage
  <2>4. Life(o)'
    <3> SUFFICES ASSUME r.stage = "pin"
                 PROVE  /\ r.id \in DOMAIN drawn /\ drawn[r.id].owner = o
                        /\ r.since + Ttl - MaxDelay <= drawn[r.id].expires
                        /\ \/ r.id \in doubled
                           \/ r.id \in DOMAIN issued /\ \A g \in Handlers : ~ Rivals(o, g)'
      BY <1>1, <1>2, <2>1 DEF Life, Holding, InStage, LongEnough, Unrivalled
    <3>1. InStage(o, "spawn") /\ r.id = attempt[o].id /\ r.since = clock /\ DeviceInv(o)
      BY DEF IInv
    <3>2. attempt[o].handler = NoCall /\ ~ Consuming(o)
      BY <3>1 DEF DeviceInv, Serving, InStage, Consuming
    <3>3. attempt[o].since = clock
      BY <3>1 DEF DeviceInv, Patience
    <3>4. /\ attempt[o].id \in DOMAIN drawn /\ drawn[attempt[o].id].owner = o
          /\ LongEnough(o)
          /\ attempt[o].id \in doubled \/ Unrivalled(o)
      BY <3>1 DEF DeviceInv, Life, Holding
    <3>5. Unrivalled(o) =>
             attempt[o].id \in DOMAIN issued /\ \A g \in Handlers : ~ Rivals(o, g)
      BY <3>2, NoCallAssumption DEF Unrivalled
    <3>6. \A g \in Handlers : Rivals(o, g)' => Rivals(o, g)
      BY <1>1, <1>2, <3>1 DEF Rivals, At
    <3> QED
      BY <3>1, <3>2, <3>3, <3>4, <3>5, <3>6 DEF LongEnough
  <2> QED
    BY <1>1, <1>2, <2>1, <2>3, <2>4 DEF DeviceInv, InStage
<1> QED
  BY <1>3, <1>4, <1>5, <1>6, <1>7 DEF IInv

(* The steps an attempt takes by itself.                                   *)
LEMMA ClientKeeps ==
    ASSUME IInv, NEW o \in Pairing,
           \/ AskPaired(o) \/ StatusRefuses(o) \/ Spawn(o) \/ NoPin(o)
           \/ AnswerTimesOut(o) \/ Complete(o) \/ CheckPaired(o)
    PROVE  IInv'
<1>1. UNCHANGED <<challengeVars, trusted, doubled>>
  BY DEF AskPaired, StatusRefuses, Spawn, NoPin, AnswerTimesOut, Complete, CheckPaired
<1>2. /\ TypeOK /\ ChallengesTypeOK
      /\ attempt[o].stage \notin {"pin", "pair", "complete"} => child[o] = "none"
      /\ {"none", "running"} \subseteq ChildStates
      /\ {"status", "check", "paired", "failed"} \subseteq Stages
  BY DEF IInv, TypeOK, DeviceInv, ChildStates, Stages
<1>3. ASSUME NEW s \in {"paired", "failed"}, End(o, s), s = "paired" => o \in trusted,
             Reap(o) \/ (child' = child /\ child[o] = "none")
      PROVE  IInv'
  <2>1. child' = [child EXCEPT ![o] = "none"]
    BY <1>2, <1>3, ChildStays DEF Reap
  <2>2. attempt' = [attempt EXCEPT ![o] = Over(s)]
    BY <1>3 DEF End
  <2>3. Over(s) \in Attempt /\ Over(s).stage = s /\ Over(s).handler = NoCall
    BY <1>2, AttemptFields
  <2> HIDE DEF Over
  <2> QED
    BY <1>1, <1>2, <1>3, <2>1, <2>2, <2>3, ClientMoves
<1>4. ASSUME NEW s \in {"status", "check"}, Go(o, s),
             Reap(o) \/ (child' = child /\ child[o] = "none")
      PROVE  IInv'
  <2>1. child' = [child EXCEPT ![o] = "none"]
    BY <1>2, <1>4, ChildStays DEF Reap
  <2>2. attempt' = [attempt EXCEPT ![o] = Attempting(s)]
    BY <1>4 DEF Go
  <2>3. Attempting(s) \in Attempt /\ Attempting(s).stage = s /\ Attempting(s).handler = NoCall
    BY <1>2, AttemptFields
  <2> QED
    BY <1>1, <1>2, <1>4, <2>1, <2>2, <2>3, ClientMoves
<1>5. CASE AskPaired(o)
  BY <1>2, <1>3, <1>4, <1>5 DEF AskPaired, Ended, PairingState
<1>6. CASE StatusRefuses(o)
  BY <1>2, <1>3, <1>6 DEF StatusRefuses, InStage
<1>7. CASE NoPin(o)
  BY <1>3, <1>7 DEF NoPin
<1>8. CASE AnswerTimesOut(o)
  BY <1>3, <1>8 DEF AnswerTimesOut, Refused
<1>9. CASE Complete(o)
  BY <1>3, <1>4, <1>9 DEF Complete
<1>10. CASE CheckPaired(o)
  BY <1>2, <1>3, <1>10 DEF CheckPaired, InStage, PairingState
<1>11. CASE Spawn(o)
  <2>1. InStage(o, "spawn") /\ child[o] = "none"
    BY <1>2, <1>11 DEF Spawn, InStage
  <2>2. CASE End(o, "failed") /\ UNCHANGED child
    BY <1>3, <2>1, <2>2
  <2>3. CASE /\ attempt' = [attempt EXCEPT ![o] = GoingOn(o, "pin", NoCall)]
             /\ child' = [child EXCEPT ![o] = "running"]
    <3> DEFINE r == GoingOn(o, "pin", NoCall)
    <3>1. "pin" \in Stages
      BY DEF Stages
    <3>2. /\ r \in Attempt /\ r.stage = "pin" /\ r.since = clock
          /\ r.id = attempt[o].id /\ r.handler = NoCall
      BY <1>2, <3>1, GoingOnFields
    <3>3. attempt' = [attempt EXCEPT ![o] = r] /\ child' = [child EXCEPT ![o] = "running"]
      BY <2>3
    <3> HIDE DEF r
    <3> QED
      BY <1>1, <1>2, <2>1, <3>2, <3>3, ClientMoves
  <2> QED
    BY <1>11, <2>2, <2>3 DEF Spawn
<1> QED
  BY <1>5, <1>6, <1>7, <1>8, <1>9, <1>10, <1>11

(* Moonlight ends.                                                         *)
LEMMA ChildExitsKeeps ==
    ASSUME IInv, NEW o \in Pairing, ChildExits(o)
    PROVE  IInv'
<1>1. /\ UNCHANGED <<challengeVars, attempt, trusted, doubled>>
      /\ child[o] \in {"running", "prompting"} /\ child' = [child EXCEPT ![o] = "exited"]
  BY DEF ChildExits
<1>2. UNCHANGED <<clock, issued, counters, call, drawn, approvals, admitted>>
  BY <1>1 DEF challengeVars
<1>3. ChallengesInv'
  BY <1>1, ChallengesStep DEF IInv
<1>4. child' \in [Pairing -> ChildStates] /\ \A p \in Pairing \ {o} : child'[p] = child[p]
  BY <1>1 DEF IInv, TypeOK, ChildStates
<1>5. TypeOK' /\ TrustInv'
  BY <1>1, <1>2, <1>3, <1>4 DEF IInv, TypeOK, ChallengesInv, TrustInv
<1>6. ASSUME NEW p \in Pairing
      PROVE  DeviceInv(p)'
  <2>1. DeviceInv(p) /\ (p = o => child[p] # "none")
    BY <1>1 DEF IInv
  <2>2. Serving(p)' /\ Patience(p)'
    BY <1>1, <1>2, <2>1 DEF DeviceInv, Serving, Patience, InStage
  <2>3. Life(p)'
    BY <1>1, <1>2, <2>1 DEF DeviceInv, Life, Holding, Consuming, LongEnough, Unrivalled,
              Rivals, At, InStage
  <2> QED
    BY <1>1, <1>4, <2>1, <2>2, <2>3 DEF DeviceInv, InStage
<1> QED
  BY <1>3, <1>5, <1>6 DEF IInv

(* An attempt that no handler serves, past its challenge or without one.   *)
LEMMA Unserved ==
    ASSUME NEW o \in Pairing, attempt'[o].handler = NoCall,
           attempt'[o].stage \notin {"spawn", "pin", "paired"},
           attempt'[o].stage \notin {"pin", "pair", "complete"} => child'[o] = "none"
    PROVE  DeviceInv(o)'
  BY DEF DeviceInv, Serving, Life, Holding, Consuming, Patience, InStage

(* A handler serves one attempt: that of the device whose request it took. *)
LEMMA ServesOne ==
    ASSUME IInv, NEW h \in Handlers, NEW o \in Served(h)
    PROVE  /\ o \in Pairing /\ attempt[o].handler = h /\ o = call[h].owner
           /\ \/ InStage(o, "challenge") /\ call[h].step \in {"admit", "insert"}
              \/ /\ InStage(o, "pair") /\ call[h].step \in {"consume", "submit"}
                 /\ call[h].id = attempt[o].id
<1>1. o \in Pairing /\ attempt[o].handler = h
  BY DEF Served
<1>2. attempt[o].handler # NoCall
  BY <1>1, NoCallAssumption
<1> QED
  BY <1>1, <1>2 DEF IInv, DeviceInv, Serving

(* The answer is a refusal or gets lost.                                   *)
LEMMA Unanswered ==
    ASSUME IInv, NEW h \in Handlers, NEW o \in Served(h), Refused(o) \/ Lost(o)
    PROVE  /\ attempt' \in [Pairing -> Attempt] /\ child' \in [Pairing -> ChildStates]
           /\ \A p \in Pairing \ {o} : attempt'[p] = attempt[p] /\ child'[p] = child[p]
           /\ DeviceInv(o)'
<1>1. /\ o \in Pairing /\ attempt[o].stage \in {"challenge", "pair"}
      /\ attempt[o].stage = "challenge" => child[o] = "none"
  BY ServesOne DEF InStage, IInv, DeviceInv
<1>2. TypeOK /\ ChallengesTypeOK /\ "failed" \in Stages /\ "none" \in ChildStates
  BY DEF IInv, TypeOK, Stages, ChildStates
<1>3. CASE Refused(o)
  <2>1. attempt' = [attempt EXCEPT ![o] = Over("failed")] /\ child' = [child EXCEPT ![o] = "none"]
    BY <1>3 DEF Refused, End, Reap
  <2>2. Over("failed") \in Attempt /\ Over("failed").stage = "failed" /\ Over("failed").handler = NoCall
    BY <1>2, AttemptFields
  <2>3. /\ attempt' \in [Pairing -> Attempt] /\ child' \in [Pairing -> ChildStates]
        /\ attempt'[o] = Over("failed") /\ child'[o] = "none"
        /\ \A p \in Pairing \ {o} : attempt'[p] = attempt[p] /\ child'[p] = child[p]
    BY <1>1, <1>2, <2>1, <2>2, Moves
  <2> QED
    BY <1>1, <2>2, <2>3, Unserved
<1>4. CASE Lost(o)
  <2> DEFINE r == [stage |-> attempt[o].stage, since |-> attempt[o].since, id |-> attempt[o].id,
                   handler |-> NoCall]
  <2>1. r \in Attempt /\ r.stage = attempt[o].stage /\ r.handler = NoCall
    BY <1>1, <1>2 DEF TypeOK, Attempt
  <2>2. attempt' = [attempt EXCEPT ![o] = r] /\ child' = child
    BY <1>4 DEF Lost
  <2> HIDE DEF r
  <2>3. child[o] \in ChildStates /\ child' = [child EXCEPT ![o] = child[o]]
    BY <1>1, <1>2, <2>2, ChildStays
  <2>4. /\ attempt' \in [Pairing -> Attempt] /\ child' \in [Pairing -> ChildStates]
        /\ attempt'[o] = r /\ child'[o] = child[o]
        /\ \A p \in Pairing \ {o} : attempt'[p] = attempt[p] /\ child'[p] = child[p]
    BY <1>1, <1>2, <2>1, <2>2, <2>3, Moves
  <2> QED
    BY <1>1, <2>1, <2>4, Unserved
<1> QED
  BY <1>3, <1>4

(* A handler goes on or ends: all but the attempt it serves are left       *)
(* alone.                                                                  *)
LEMMA AgentMoves ==
    ASSUME IInv, [ChallengesNext]_challengeVars, clock' = clock,
           NEW h \in Handlers, NEW c \in Call \cup {NoCall}, call' = [call EXCEPT ![h] = c],
           c # NoCall => c.step # "consume",
           trusted \subseteq trusted', trusted' \subseteq Pairing, TrustInv', doubled' = doubled,
           attempt' \in [Pairing -> Attempt], child' \in [Pairing -> ChildStates],
           \A p \in Pairing \ Served(h) : attempt'[p] = attempt[p] /\ child'[p] = child[p],
           \A p \in Served(h) : DeviceInv(p)'
    PROVE  IInv'
<1>1. ChallengesInv'
  BY ChallengesStep DEF IInv
<1>2. \A g \in Handlers : call'[g] = IF g = h THEN c ELSE call[g]
  BY CallMoves DEF IInv, ChallengesInv
<1>3. ASSUME NEW p \in Pairing
      PROVE  DeviceInv(p)'
  <2>1. CASE p \in Served(h)
    BY <2>1
  <2>2. CASE p \notin Served(h)
    <3>1. attempt'[p] = attempt[p] /\ child'[p] = child[p] /\ attempt[p].handler # h
      BY <2>2 DEF Served
    <3>2. attempt[p].handler # NoCall => call'[attempt[p].handler] = call[attempt[p].handler]
      BY <1>2, <3>1 DEF IInv, TypeOK, Attempt
    <3>3. \A g \in Handlers : Rivals(p, g)' => Rivals(p, g)
      BY <1>2, <3>1 DEF Rivals, At
    <3> QED
      BY <3>1, <3>2, <3>3, DeviceKeeps
  <2> QED
    BY <2>1, <2>2
<1>4. TypeOK'
  BY <1>1, HistoryGrows DEF IInv, TypeOK, ChallengesInv
<1> QED
  BY <1>1, <1>3, <1>4 DEF IInv

(* The agent's steps are steps on the challenges.                          *)
LEMMA AgentSteps ==
    ASSUME NEW h \in Handlers, AdmitIssue(h) \/ InsertChallenge(h) \/ Consume(h) \/ SubmitPin(h)
                                 \/ Abandon(h)
    PROVE  [ChallengesNext]_challengeVars /\ clock' = clock
  BY DEF ChallengesNext, AdmitIssue, InsertChallenge, Consume, SubmitPin, Abandon

(* A handler that goes on serves its attempt as before.                    *)
LEMMA StillServed ==
    ASSUME IInv, NEW h \in Handlers, NEW o \in Served(h), attempt' = attempt, child' = child,
           call'[h] # NoCall, call'[h].owner = call[h].owner,
           \/ call[h].step = "admit" /\ call'[h].step = "insert"
           \/ /\ call[h].step = "consume" /\ call'[h].step = "submit"
              /\ call'[h].id = call[h].id
    PROVE  DeviceInv(o)'
<1>1. /\ o \in Pairing /\ attempt[o].handler = h /\ o = call[h].owner
      /\ \/ InStage(o, "challenge") /\ call[h].step \in {"admit", "insert"}
         \/ /\ InStage(o, "pair") /\ call[h].step \in {"consume", "submit"}
            /\ call[h].id = attempt[o].id
  BY ServesOne
<1>2. Serving(o)'
  BY <1>1 DEF Serving, InStage
<1>3. Life(o)' /\ Patience(o)'
  BY <1>1 DEF Life, Holding, Consuming, Patience, InStage, At
<1>4. DeviceInv(o)
  BY <1>1 DEF IInv
<1> QED
  BY <1>1, <1>2, <1>3, <1>4 DEF DeviceInv, InStage

(* A step of the agent that answers nobody, or with a refusal.             *)
LEMMA QuietMoves ==
    ASSUME IInv, [ChallengesNext]_challengeVars, clock' = clock, UNCHANGED <<trusted, doubled>>,
           NEW h \in Handlers, NEW c \in Call \cup {NoCall}, call' = [call EXCEPT ![h] = c],
           c # NoCall =>
              /\ c.owner = call[h].owner
              /\ \/ call[h].step = "admit" /\ c.step = "insert"
                 \/ call[h].step = "consume" /\ c.step = "submit" /\ c.id = call[h].id,
           \/ Silent(h) /\ UNCHANGED <<attempt, child>>
           \/ \E o \in Served(h) : Refused(o) \/ Lost(o)
    PROVE  IInv'
<1>1. call'[h] = c /\ (c # NoCall => c.step # "consume")
  BY CallMoves DEF IInv, ChallengesInv
<1>2. TrustInv'
  BY TrustStays DEF TrustInv
<1>3. CASE Silent(h) /\ UNCHANGED <<attempt, child>>
  <2>1. \A p \in Served(h) : DeviceInv(p)'
    BY <1>1, <1>3, StillServed DEF Silent
  <2>2. attempt' \in [Pairing -> Attempt] /\ child' \in [Pairing -> ChildStates] /\ trusted \subseteq Pairing
    BY <1>3 DEF IInv, TypeOK
  <2> QED
    BY <1>1, <1>2, <1>3, <2>1, <2>2, AgentMoves
<1>4. CASE \E o \in Served(h) : Refused(o) \/ Lost(o)
  <2>1. PICK o \in Served(h) : Refused(o) \/ Lost(o)
    BY <1>4
  <2>2. /\ attempt' \in [Pairing -> Attempt] /\ child' \in [Pairing -> ChildStates]
        /\ \A p \in Pairing \ {o} : attempt'[p] = attempt[p] /\ child'[p] = child[p]
        /\ DeviceInv(o)'
    BY <2>1, Unanswered
  <2>3. \A p \in Served(h) : p = o
    BY ServesOne
  <2>4. \A p \in Pairing \ Served(h) : attempt'[p] = attempt[p] /\ child'[p] = child[p]
    BY <2>1, <2>2
  <2>5. trusted \subseteq Pairing /\ \A p \in Served(h) : DeviceInv(p)'
    BY <2>2, <2>3 DEF IInv, TypeOK
  <2> QED
    BY <1>1, <1>2, <2>2, <2>4, <2>5, AgentMoves
<1> QED
  BY <1>3, <1>4

(* issue and consume, up to their answers.                                 *)
LEMMA AgentQuiet ==
    ASSUME IInv, NEW h \in Handlers, AgentAdmits(h) \/ AgentConsumes(h) \/ AgentAbandons(h)
    PROVE  IInv'
<1>1. AdmitIssue(h) \/ Consume(h) \/ Abandon(h)
  BY DEF AgentAdmits, AgentConsumes, AgentAbandons
<1>2. [ChallengesNext]_challengeVars /\ clock' = clock
  BY <1>1, AgentSteps
<1>3. UNCHANGED <<trusted, doubled>>
  BY DEF AgentAdmits, AgentConsumes, AgentAbandons
<1>4. \/ Silent(h) /\ UNCHANGED <<attempt, child>>
      \/ \E o \in Served(h) : Refused(o) \/ Lost(o)
  BY DEF AgentAdmits, AgentConsumes, AgentAbandons
<1>5. PICK c \in Call \cup {NoCall} :
         /\ call' = [call EXCEPT ![h] = c]
         /\ c # NoCall =>
              /\ c.owner = call[h].owner
              /\ \/ call[h].step = "admit" /\ c.step = "insert"
                 \/ call[h].step = "consume" /\ c.step = "submit" /\ c.id = call[h].id
  <2>1. CASE AdmitIssue(h)
    <3> DEFINE r == [step |-> "insert", owner |-> call[h].owner, now |-> call[h].now]
    <3>1. At(h, "admit") /\ (call' = [call EXCEPT ![h] = r] \/ call' = [call EXCEPT ![h] = NoCall])
      BY <2>1 DEF AdmitIssue
    <3>2. call[h] \in Call /\ call[h].step = "admit"
      BY <3>1 DEF At, IInv, ChallengesInv, ChallengesTypeOK
    <3>3. r \in Call /\ r.step = "insert" /\ r.owner = call[h].owner
      BY <3>2 DEF Call
    <3> HIDE DEF r
    <3> QED
      BY <3>1, <3>2, <3>3
  <2>2. CASE Consume(h)
    <3> DEFINE r == [step |-> "submit", owner |-> call[h].owner, now |-> call[h].now,
                     id |-> call[h].id]
    <3>1. At(h, "consume") /\ (call' = [call EXCEPT ![h] = r] \/ call' = [call EXCEPT ![h] = NoCall])
      BY <2>2 DEF Consume
    <3>2. call[h] \in Call /\ call[h].step = "consume"
      BY <3>1 DEF At, IInv, ChallengesInv, ChallengesTypeOK
    <3>3. r \in Call /\ r.step = "submit" /\ r.owner = call[h].owner /\ r.id = call[h].id
      BY <3>2 DEF Call
    <3> HIDE DEF r
    <3> QED
      BY <3>1, <3>2, <3>3
  <2>3. CASE Abandon(h)
    BY <2>3 DEF Abandon
  <2> QED
    BY <1>1, <2>1, <2>2, <2>3
<1> QED
  BY <1>2, <1>3, <1>4, <1>5, QuietMoves

(* issue answers with a challenge of the device that asked, fresh enough   *)
(* to outlive the wait for a PIN.                                          *)
LEMMA AgentIssuesKeeps ==
    ASSUME IInv, NEW h \in Handlers, AgentIssues(h)
    PROVE  IInv'
<1> DEFINE new == DOMAIN drawn' \ DOMAIN drawn
<1>1. /\ InsertChallenge(h) /\ UNCHANGED <<trusted, doubled>>
      /\ call' = [call EXCEPT ![h] = NoCall] /\ At(h, "insert")
  BY DEF AgentIssues, InsertChallenge
<1>2. [ChallengesNext]_challengeVars /\ clock' = clock
  BY <1>1, AgentSteps
<1>3. CASE \/ Silent(h) /\ UNCHANGED <<attempt, child>>
           \/ \E o \in Served(h) : Refused(o) \/ Lost(o)
  BY <1>1, <1>2, <1>3, QuietMoves
<1>4. CASE \E o \in Served(h) : \E i \in new : Accepted(o, "spawn", i)
  <2>1. PICK o \in Served(h) : \E i \in new : Accepted(o, "spawn", i)
    BY <1>4
  <2>2. PICK i \in new : Accepted(o, "spawn", i)
    BY <2>1
  <2>3. /\ o \in Pairing /\ o = call[h].owner /\ child[o] = "none"
        /\ \A p \in Served(h) : p = o
    <3>1. o \in Pairing /\ o = call[h].owner /\ \A p \in Served(h) : p = o
      BY ServesOne
    <3>2. InStage(o, "challenge")
      BY <1>1, ServesOne DEF At
    <3> QED
      BY <3>1, <3>2 DEF IInv, DeviceInv, InStage
  <2>4. /\ ChallengesInv' /\ i \in DOMAIN issued' /\ issued'[i].owner = o
        /\ i \in DOMAIN drawn' /\ drawn'[i] = issued'[i]
        /\ issued'[i].expires = call[h].now + Ttl
        /\ \A g \in Handlers : At(g, "consume") => call[g].id # i
    BY <1>1, <2>3, InsertKeeps DEF IInv, ChallengesInv, ChallengesTypeOK
  <2>5. TypeOK /\ i \in Ids /\ clock \in Times /\ "spawn" \in Stages
    <3>1. i \in Ids
      BY <2>4 DEF ChallengesInv, ChallengesTypeOK
    <3> QED
      BY <3>1 DEF IInv, TypeOK, ChallengesTypeOK, Stages
  <2> DEFINE r == [stage |-> "spawn", since |-> clock, id |-> i, handler |-> NoCall]
  <2>6. r \in Attempt /\ r.stage = "spawn" /\ r.since = clock /\ r.id = i /\ r.handler = NoCall
    BY <2>5 DEF Attempt
  <2>7. attempt' = [attempt EXCEPT ![o] = r] /\ child' = child
    BY <2>2 DEF Accepted
  <2> HIDE DEF r
  <2>8. child[o] \in ChildStates /\ child' = [child EXCEPT ![o] = child[o]]
    BY <2>3, <2>5, <2>7, ChildStays
  <2>9. /\ attempt' \in [Pairing -> Attempt] /\ child' \in [Pairing -> ChildStates]
        /\ attempt'[o] = r /\ child'[o] = child[o]
        /\ \A p \in Pairing \ {o} : attempt'[p] = attempt[p] /\ child'[p] = child[p]
    BY <2>3, <2>5, <2>6, <2>7, <2>8, Moves
  <2>10. DeviceInv(o)'
    <3>1. Serving(o)' /\ ~ Consuming(o)'
      BY <2>6, <2>9 DEF Serving, Consuming
    <3>2. Patience(o)'
      BY <1>2, <2>6, <2>9 DEF Patience, InStage
    <3>3. \A g \in Handlers : ~ Rivals(o, g)'
      <4>1. \A g \in Handlers : call'[g] = IF g = h THEN NoCall ELSE call[g]
        BY <1>1, CallMoves DEF IInv, ChallengesInv
      <4> QED
        BY <2>4, <2>6, <2>9, <4>1 DEF Rivals, At
    <3>4. clock + Ttl - MaxDelay <= call[h].now + Ttl
      <4>1. call[h] \in Call
        BY <1>1 DEF At, IInv, ChallengesInv, ChallengesTypeOK
      <4>2. /\ call[h].now \in Int /\ clock \in Int /\ MaxDelay \in Nat /\ Ttl \in Nat
        BY <2>5, <4>1, ParameterAssumption DEF Call, Times
      <4>3. clock - call[h].now <= MaxDelay
        BY <1>1 DEF IInv, ChallengesInv, DelayInv, Waits
      <4> QED
        BY <4>2, <4>3
    <3>5. LongEnough(o)'
      BY <2>4, <2>6, <2>9, <3>1, <3>4 DEF LongEnough
    <3>6. Life(o)'
      BY <2>4, <2>6, <2>9, <3>3, <3>5 DEF Life, Unrivalled
    <3> QED
      BY <2>3, <2>6, <2>9, <3>1, <3>2, <3>6 DEF DeviceInv, InStage
  <2>11. TrustInv'
    BY <1>1, <1>2, TrustStays DEF TrustInv
  <2>12. \A p \in Pairing \ Served(h) : attempt'[p] = attempt[p] /\ child'[p] = child[p]
    BY <2>1, <2>9
  <2>13. trusted' \subseteq Pairing /\ \A p \in Served(h) : DeviceInv(p)'
    BY <1>1, <2>3, <2>5, <2>10 DEF TypeOK
  <2> QED
    BY <1>1, <1>2, <2>9, <2>11, <2>12, <2>13, AgentMoves
<1> QED
  BY <1>3, <1>4 DEF AgentIssues

(* Sunshine takes the PIN.                                                 *)
LEMMA AgentSubmitsKeeps ==
    ASSUME IInv, NEW h \in Handlers, AgentSubmits(h)
    PROVE  IInv'
<1>1. /\ SubmitPin(h) /\ SunshinePairs(h) /\ doubled' = doubled
      /\ call' = [call EXCEPT ![h] = NoCall] /\ drawn' = drawn /\ At(h, "submit")
  BY DEF AgentSubmits, SubmitPin
<1>2. [ChallengesNext]_challengeVars /\ clock' = clock
  BY <1>1, AgentSteps
<1>3. TypeOK /\ trusted \subseteq trusted' /\ trusted' \subseteq Pairing
  BY <1>1 DEF SunshinePairs, Served, IInv, TypeOK
<1>4. TrustInv'
  <2>1. /\ call[h].id \in DOMAIN drawn /\ call[h].owner = drawn[call[h].id].owner
        /\ approvals'[call[h].id] = <<call[h].owner>>
    BY <1>1, SubmitKeeps DEF IInv
  <2>2. \A o \in trusted' : o \in trusted \/ o = call[h].owner
    BY <1>1, ServesOne DEF SunshinePairs
  <2>3. \A o \in trusted : \E i \in DOMAIN drawn' : drawn'[i].owner = o /\ approvals'[i] = <<o>>
    BY <1>2, TrustStays
  <2> QED
    BY <1>1, <2>1, <2>2, <2>3 DEF TrustInv
<1>5. call'[h] = NoCall
  BY <1>1, CallMoves DEF IInv, ChallengesInv
<1>6. CASE Silent(h) /\ UNCHANGED <<attempt, child>>
  <2>1. Served(h) = {}
    BY <1>5, <1>6 DEF Silent
  <2>2. attempt' \in [Pairing -> Attempt] /\ child' \in [Pairing -> ChildStates]
    BY <1>3, <1>6 DEF TypeOK
  <2> QED
    BY <1>1, <1>2, <1>3, <1>4, <1>6, <2>1, <2>2, AgentMoves
<1>7. CASE \E o \in Served(h) : Accepted(o, "complete", attempt[o].id) \/ Lost(o)
  <2>1. PICK o \in Served(h) : Accepted(o, "complete", attempt[o].id) \/ Lost(o)
    BY <1>7
  <2>2. o \in Pairing /\ \A p \in Served(h) : p = o
    BY ServesOne
  <2>3. /\ attempt' \in [Pairing -> Attempt] /\ child' \in [Pairing -> ChildStates]
        /\ \A p \in Pairing \ {o} : attempt'[p] = attempt[p] /\ child'[p] = child[p]
        /\ DeviceInv(o)'
    <3>1. CASE Lost(o)
      BY <3>1, Unanswered
    <3>2. CASE Accepted(o, "complete", attempt[o].id)
      <4> DEFINE r == [stage |-> "complete", since |-> clock, id |-> attempt[o].id,
                       handler |-> NoCall]
      <4>1. r \in Attempt /\ r.stage = "complete" /\ r.handler = NoCall
        BY <1>3, <2>2 DEF TypeOK, ChallengesTypeOK, Attempt, Stages
      <4>2. attempt' = [attempt EXCEPT ![o] = r] /\ child' = child
        BY <3>2 DEF Accepted
      <4> HIDE DEF r
      <4>3. child[o] \in ChildStates /\ child' = [child EXCEPT ![o] = child[o]]
        BY <1>3, <2>2, <4>2, ChildStays
      <4>4. /\ attempt' \in [Pairing -> Attempt] /\ child' \in [Pairing -> ChildStates]
            /\ attempt'[o] = r
            /\ \A p \in Pairing \ {o} : attempt'[p] = attempt[p] /\ child'[p] = child[p]
        BY <1>3, <2>2, <4>1, <4>2, <4>3, Moves
      <4> QED
        BY <2>2, <4>1, <4>4, Unserved
    <3> QED
      BY <2>1, <3>1, <3>2
  <2>4. \A p \in Pairing \ Served(h) : attempt'[p] = attempt[p] /\ child'[p] = child[p]
    BY <2>1, <2>3
  <2>5. \A p \in Served(h) : DeviceInv(p)'
    BY <2>2, <2>3
  <2> QED
    BY <1>1, <1>2, <1>3, <1>4, <2>3, <2>4, <2>5, AgentMoves
<1> QED
  BY <1>6, <1>7 DEF AgentSubmits

(* A free handler takes a request, of an attempt or of nobody's: it serves *)
(* no one else.                                                            *)
LEMMA HandlerTaken ==
    ASSUME IInv, [ChallengesNext]_challengeVars, clock' = clock, trusted' = trusted,
           doubled \subseteq doubled', doubled' \subseteq DOMAIN drawn',
           NEW h \in Handlers, Free(h), NEW c \in Call, call' = [call EXCEPT ![h] = c],
           attempt' \in [Pairing -> Attempt], child' \in [Pairing -> ChildStates],
           NEW touched \in SUBSET Pairing,
           \A p \in Pairing \ touched :
              /\ attempt'[p] = attempt[p] /\ child'[p] = child[p]
              /\ \/ Holding(p) => attempt[p].id \in doubled'
                 \/ c.step # "consume" \/ c.owner # p \/ c.id # attempt[p].id,
           \A p \in touched : DeviceInv(p)'
    PROVE  IInv'
<1>1. ChallengesInv'
  BY ChallengesStep DEF IInv
<1>2. TrustInv'
  BY TrustStays DEF TrustInv
<1>3. \A g \in Handlers : call'[g] = IF g = h THEN c ELSE call[g]
  BY CallMoves DEF IInv, ChallengesInv
<1>4. ASSUME NEW p \in Pairing \ touched
      PROVE  DeviceInv(p)'
  <2>1. attempt[p].handler # NoCall => attempt[p].handler \in Handlers /\ attempt[p].handler # h
    BY DEF IInv, TypeOK, Attempt, DeviceInv, Serving, Free
  <2>2. attempt[p].handler # NoCall => call'[attempt[p].handler] = call[attempt[p].handler]
    BY <1>3, <2>1
  <2>3. \/ Holding(p) => attempt[p].id \in doubled'
        \/ \A g \in Handlers : Rivals(p, g)' => Rivals(p, g)
    BY <1>3 DEF Rivals, At
  <2> QED
    BY <2>2, <2>3, DeviceKeeps
<1>5. TypeOK'
  BY <1>1 DEF IInv, TypeOK, ChallengesInv
<1> QED
  BY <1>1, <1>2, <1>4, <1>5 DEF IInv

(* An attempt asks the agent for a challenge.                              *)
LEMMA AskChallengeKeeps ==
    ASSUME IInv, NEW o \in Pairing, NEW h \in Handlers, AskChallenge(o, h)
    PROVE  IInv'
<1> DEFINE r == GoingOn(o, "challenge", h)
           c == [step |-> "admit", owner |-> o, now |-> clock]
<1>1. /\ InStage(o, "status") /\ IssueBegin(h, o) /\ Free(h) /\ child' = child /\ trusted' = trusted
      /\ doubled' = doubled
      /\ attempt' = [attempt EXCEPT ![o] = r] /\ call' = [call EXCEPT ![h] = c] /\ clock' = clock
  BY DEF AskChallenge, IssueBegin, Ask
<1>2. TypeOK /\ o \in Owners /\ clock \in Times /\ "challenge" \in Stages
  BY TimeoutAssumption DEF IInv, TypeOK, ChallengesTypeOK, Stages
<1>3. [ChallengesNext]_challengeVars
  BY <1>1, <1>2 DEF ChallengesNext
<1>4. c \in Call /\ c.step = "admit" /\ c.owner = o
  BY <1>2 DEF Call
<1>5. r \in Attempt /\ r.stage = "challenge" /\ r.handler = h
  BY <1>2, GoingOnFields
<1> HIDE DEF r, c
<1>6. child[o] \in ChildStates /\ child' = [child EXCEPT ![o] = child[o]]
  BY <1>1, <1>2, ChildStays
<1>7. /\ attempt' \in [Pairing -> Attempt] /\ child' \in [Pairing -> ChildStates]
      /\ attempt'[o] = r /\ child'[o] = child[o]
      /\ \A p \in Pairing \ {o} : attempt'[p] = attempt[p] /\ child'[p] = child[p]
  BY <1>1, <1>2, <1>5, <1>6, Moves
<1>8. call'[h] = c
  BY <1>1, <1>4, CallMoves DEF IInv, ChallengesInv
<1>9. c # NoCall
  BY <1>4, NoCallAssumption
<1>10. Serving(o)' /\ Life(o)' /\ Patience(o)'
  BY <1>4, <1>5, <1>7, <1>8, <1>9
     DEF Serving, Life, Holding, Consuming, At, Patience, InStage
<1>11. child[o] = "none"
  BY <1>1 DEF IInv, DeviceInv, InStage
<1>12. DeviceInv(o)'
  BY <1>5, <1>7, <1>10, <1>11 DEF DeviceInv, InStage
<1>13. \A p \in Pairing \ {o} :
          /\ attempt'[p] = attempt[p] /\ child'[p] = child[p]
          /\ c.step # "consume" \/ c.owner # p \/ c.id # attempt[p].id
  BY <1>4, <1>7
<1> DEFINE touched == {o}
<1>14. /\ doubled' \subseteq DOMAIN drawn' /\ doubled \subseteq doubled'
       /\ touched \in SUBSET Pairing
       /\ \A p \in touched : DeviceInv(p)'
       /\ \A p \in Pairing \ touched :
             /\ attempt'[p] = attempt[p] /\ child'[p] = child[p]
             /\ \/ Holding(p) => attempt[p].id \in doubled'
                \/ c.step # "consume" \/ c.owner # p \/ c.id # attempt[p].id
  BY <1>1, <1>2, <1>12, <1>13 DEF TypeOK, IssueBegin
<1> HIDE DEF touched
<1> QED
  BY <1>1, <1>3, <1>4, <1>7, <1>14, HandlerTaken

(* Moonlight prints its PIN and the attempt asks the agent to submit it:   *)
(* the challenge it holds lives longer than the handler may wait.          *)
LEMMA ReadPinKeeps ==
    ASSUME IInv, NEW o \in Pairing, NEW h \in Handlers, ReadPin(o, h)
    PROVE  IInv'
<1> DEFINE i == attempt[o].id
           r == GoingOn(o, "pair", h)
           c == [step |-> "consume", owner |-> o, now |-> clock, id |-> i]
<1>1. /\ InStage(o, "pin") /\ ConsumeBegin(h, o, i) /\ Free(h)
      /\ trusted' = trusted /\ doubled' = doubled
      /\ child' = [child EXCEPT ![o] = "prompting"] /\ i \in DOMAIN drawn /\ issued' = issued
      /\ drawn' = drawn
      /\ attempt' = [attempt EXCEPT ![o] = r] /\ call' = [call EXCEPT ![h] = c] /\ clock' = clock
  BY DEF ReadPin, ConsumeBegin, Ask
<1>2. TypeOK /\ o \in Owners /\ clock \in Times /\ "pair" \in Stages /\ "prompting" \in ChildStates
  BY TimeoutAssumption DEF IInv, TypeOK, ChallengesTypeOK, Stages, ChildStates
<1>3. i \in Ids
  BY <1>1, <1>2 DEF TypeOK, ChallengesTypeOK
<1>4. [ChallengesNext]_challengeVars
  BY <1>1, <1>2, <1>3 DEF ChallengesNext
<1>5. c \in Call /\ c.step = "consume" /\ c.owner = o /\ c.id = i /\ c.now = clock
  BY <1>2, <1>3 DEF Call
<1>6. r \in Attempt /\ r.stage = "pair" /\ r.handler = h /\ r.id = i
  BY <1>2, GoingOnFields
<1> HIDE DEF r, c
<1>7. /\ attempt' \in [Pairing -> Attempt] /\ child' \in [Pairing -> ChildStates]
      /\ attempt'[o] = r
      /\ \A p \in Pairing \ {o} : attempt'[p] = attempt[p] /\ child'[p] = child[p]
  BY <1>1, <1>2, <1>6, Moves
<1>8. /\ \A g \in Handlers : call'[g] = IF g = h THEN c ELSE call[g]
      /\ c # NoCall /\ h # NoCall
  BY <1>1, <1>5, CallMoves, NoCallAssumption DEF IInv, ChallengesInv
<1>9. Serving(o)' /\ Patience(o)'
  BY <1>5, <1>6, <1>7, <1>8 DEF Serving, Patience, InStage
<1>10. Life(o)'
  <2>1. Holding(o) /\ ~ Consuming(o)
    BY <1>1 DEF Holding, Consuming, IInv, DeviceInv, Serving, InStage
  <2>2. drawn[i].owner = o /\ (i \in doubled \/ Unrivalled(o))
    BY <2>1 DEF IInv, DeviceInv, Life
  <2>3. clock + MaxDelay < drawn[i].expires
    BY <2>1, HeldIsAlive
  <2>4. attempt[o].handler = NoCall
    BY <1>1 DEF IInv, DeviceInv, Serving, InStage
  <2>5. Unrivalled(o) => i \in DOMAIN issued /\ \A g \in Handlers : ~ Rivals(o, g)
    BY <2>4, NoCallAssumption DEF Unrivalled
  <2>6. Unrivalled(o) => Unrivalled(o)'
    BY <1>1, <1>6, <1>7, <1>8, <2>5 DEF Rivals, At, Unrivalled
  <2>7. Consuming(o)' /\ LongEnough(o)'
    BY <1>1, <1>5, <1>6, <1>7, <1>8, <2>3 DEF Consuming, LongEnough, At
  <2> QED
    BY <1>1, <1>6, <1>7, <2>2, <2>6, <2>7 DEF Life
<1>11. DeviceInv(o)'
  BY <1>6, <1>7, <1>9, <1>10 DEF DeviceInv, InStage
<1>12. \A p \in Pairing \ {o} :
          /\ attempt'[p] = attempt[p] /\ child'[p] = child[p]
          /\ c.step # "consume" \/ c.owner # p \/ c.id # attempt[p].id
  BY <1>5, <1>7
<1> DEFINE touched == {o}
<1>13. /\ touched \in SUBSET Pairing
       /\ \A p \in touched : DeviceInv(p)'
       /\ \A p \in Pairing \ touched :
             /\ attempt'[p] = attempt[p] /\ child'[p] = child[p]
             /\ \/ Holding(p) => attempt[p].id \in doubled'
                \/ c.step # "consume" \/ c.owner # p \/ c.id # attempt[p].id
  BY <1>11, <1>12
<1> HIDE DEF touched
<1>14. /\ Free(h) /\ trusted' = trusted /\ clock' = clock
       /\ doubled \subseteq doubled' /\ doubled' \subseteq DOMAIN drawn'
       /\ c \in Call /\ call' = [call EXCEPT ![h] = c]
       /\ attempt' \in [Pairing -> Attempt] /\ child' \in [Pairing -> ChildStates]
  BY <1>1, <1>2, <1>5, <1>7 DEF TypeOK
<1> QED
  BY <1>4, <1>13, <1>14, HandlerTaken

(* Requests outside an attempt: who presents the challenge of an attempt  *)
(* is another device, or doubles it.                                       *)
LEMMA OthersKeep ==
    ASSUME IInv, NEW h \in Handlers, NEW o \in Owners,
           OtherIssue(h, o) \/ \E i \in Ids : OtherConsume(h, o, i)
    PROVE  IInv'
<1>1. /\ UNCHANGED <<attempt, child, trusted, clock, drawn>> /\ Free(h)
      /\ doubled \subseteq doubled'
  BY DEF OtherIssue, OtherConsume, IssueBegin, ConsumeBegin, pairVars
<1>2. [ChallengesNext]_challengeVars
  BY DEF OtherIssue, OtherConsume, ChallengesNext
<1>3. TypeOK /\ clock \in Times
  BY DEF IInv, TypeOK, ChallengesTypeOK
<1>4. PICK c \in Call :
         /\ call' = [call EXCEPT ![h] = c]
         /\ c.step = "consume" =>
               c.id \in DOMAIN drawn /\ (drawn[c.id].owner = c.owner => c.id \in doubled')
  <2>1. CASE OtherIssue(h, o)
    <3> DEFINE c == [step |-> "admit", owner |-> o, now |-> clock]
    <3>1. c \in Call /\ c.step = "admit"
      BY <1>3 DEF Call
    <3>2. call' = [call EXCEPT ![h] = c]
      BY <2>1 DEF OtherIssue, IssueBegin
    <3> HIDE DEF c
    <3> QED
      BY <3>1, <3>2
  <2>2. CASE \E i \in Ids : OtherConsume(h, o, i)
    <3>1. PICK i \in Ids : OtherConsume(h, o, i)
      BY <2>2
    <3> DEFINE c == [step |-> "consume", owner |-> o, now |-> clock, id |-> i]
    <3>2. c \in Call /\ c.id = i /\ c.owner = o
      BY <1>3 DEF Call
    <3>3. /\ call' = [call EXCEPT ![h] = c] /\ i \in DOMAIN drawn
          /\ drawn[i].owner = o => i \in doubled'
      BY <3>1 DEF OtherConsume, ConsumeBegin
    <3> HIDE DEF c
    <3> QED
      BY <3>2, <3>3
  <2> QED
    BY <2>1, <2>2
<1>5. \A p \in Pairing : \/ Holding(p) => attempt[p].id \in doubled'
                         \/ c.step # "consume" \/ c.owner # p \/ c.id # attempt[p].id
  <2> SUFFICES ASSUME NEW p \in Pairing, Holding(p), c.step = "consume", c.id = attempt[p].id,
                      c.owner = p
               PROVE  attempt[p].id \in doubled'
    OBVIOUS
  <2>1. drawn[attempt[p].id].owner = p
    BY DEF IInv, DeviceInv, Life
  <2> QED
    BY <1>4, <2>1
<1>6. attempt' \in [Pairing -> Attempt] /\ child' \in [Pairing -> ChildStates]
  BY <1>1, <1>3 DEF TypeOK
<1>7. doubled' \subseteq DOMAIN drawn'
  BY <1>1, <1>3 DEF OtherIssue, OtherConsume, ConsumeBegin, pairVars, TypeOK
<1> DEFINE touched == {}
<1>8. /\ touched \in SUBSET Pairing
      /\ \A p \in touched : DeviceInv(p)'
      /\ \A p \in Pairing \ touched :
            /\ attempt'[p] = attempt[p] /\ child'[p] = child[p]
            /\ \/ Holding(p) => attempt[p].id \in doubled'
               \/ c.step # "consume" \/ c.owner # p \/ c.id # attempt[p].id
  BY <1>1, <1>5
<1> HIDE DEF touched
<1> QED
  BY <1>1, <1>2, <1>4, <1>6, <1>7, <1>8, HandlerTaken

(* Time passes: no attempt is between its challenge and its process, and   *)
(* none has waited for its PIN to the limit.                               *)
LEMMA TickKeeps ==
    ASSUME IInv, Tick
    PROVE  IInv'
<1>1. /\ ChallengesTick /\ \A p \in Pairing : Patient(p)
      /\ UNCHANGED <<attempt, child, trusted, doubled>>
  BY DEF Tick, pairVars
<1>2. clock' = clock + 1 /\ UNCHANGED <<issued, call, drawn, approvals>>
  BY <1>1 DEF ChallengesTick
<1>3. ChallengesInv'
  BY <1>1, ChallengesTickKeeps DEF IInv
<1>4. TypeOK' /\ TrustInv'
  BY <1>1, <1>2, <1>3 DEF IInv, TypeOK, ChallengesInv, TrustInv
<1>5. ASSUME NEW p \in Pairing
      PROVE  DeviceInv(p)'
  <2>1. DeviceInv(p) /\ Patient(p)
    BY <1>1 DEF IInv
  <2>2. clock \in Int /\ attempt[p].since \in Int /\ PinTimeout \in Nat
    BY TimeoutAssumption DEF IInv, TypeOK, ChallengesTypeOK, Attempt, Times
  <2>3. ~ InStage(p, "spawn")
    <3> SUFFICES ASSUME InStage(p, "spawn")
                 PROVE  FALSE
      OBVIOUS
    <3>1. attempt[p].since = clock
      BY <2>1 DEF DeviceInv, Patience
    <3>2. Limit(p) = 0 /\ ~ Ended(p)
      BY DEF Limit, Ended, InStage
    <3>3. clock - attempt[p].since < 0
      BY <2>1, <3>2 DEF Patient, Elapsed
    <3> QED
      BY <2>2, <3>1, <3>3
  <2>4. InStage(p, "pin") => (clock + 1) - attempt[p].since <= PinTimeout
    <3> SUFFICES ASSUME InStage(p, "pin")
                 PROVE  (clock + 1) - attempt[p].since <= PinTimeout
      OBVIOUS
    <3>1. Limit(p) = PinTimeout /\ ~ Ended(p)
      BY DEF Limit, Ended, InStage
    <3>2. clock - attempt[p].since < PinTimeout
      BY <2>1, <3>1 DEF Patient, Elapsed
    <3> QED
      BY <2>2, <3>2
  <2>5. Patience(p)'
    BY <1>1, <1>2, <2>3, <2>4 DEF Patience, InStage
  <2>6. Serving(p)' /\ Life(p)'
    BY <1>1, <1>2, <2>1 DEF DeviceInv, Serving, Life, Holding, Consuming, LongEnough,
                            Unrivalled, Rivals, At, InStage
  <2> QED
    BY <1>1, <2>1, <2>5, <2>6 DEF DeviceInv, InStage
<1> QED
  BY <1>3, <1>4, <1>5 DEF IInv

(* Before the first attempt.                                               *)
LEMMA Start ==
    ASSUME Init
    PROVE  IInv
<1>1. ChallengesInv
  BY ChallengesStart DEF Init
<1>2. /\ attempt = [o \in Pairing |-> Over("idle")] /\ child = [o \in Pairing |-> "none"]
      /\ trusted = {} /\ doubled = {}
  BY DEF Init
<1>3. "idle" \in Stages /\ "none" \in ChildStates /\ ChallengesTypeOK
  BY <1>1 DEF Stages, ChildStates, ChallengesInv
<1>4. Over("idle") \in Attempt /\ Over("idle").stage = "idle" /\ Over("idle").handler = NoCall
  BY <1>3, AttemptFields
<1>5. TypeOK /\ TrustInv
  BY <1>2, <1>3, <1>4 DEF TypeOK, TrustInv
<1>6. ASSUME NEW o \in Pairing
      PROVE  DeviceInv(o)
  <2>1. attempt[o].handler = NoCall /\ attempt[o].stage = "idle" /\ child[o] = "none"
    BY <1>2, <1>4
  <2> QED
    BY <2>1 DEF DeviceInv, Serving, Life, Holding, Consuming, Patience, InStage
<1> QED
  BY <1>1, <1>5, <1>6 DEF IInv

(* Every step keeps the invariant.                                         *)
LEMMA Step ==
    ASSUME IInv, [Next]_vars
    PROVE  IInv'
<1>1. ASSUME NEW o \in Pairing, Client(o)
      PROVE  IInv'
  <2>1. CASE \/ AskPaired(o) \/ StatusRefuses(o) \/ Spawn(o) \/ NoPin(o)
             \/ AnswerTimesOut(o) \/ Complete(o) \/ CheckPaired(o)
    BY <2>1, ClientKeeps
  <2>2. CASE ChildExits(o)
    BY <2>2, ChildExitsKeeps
  <2>3. ASSUME NEW h \in Handlers, AskChallenge(o, h)
        PROVE  IInv'
    BY <2>3, AskChallengeKeeps
  <2>4. ASSUME NEW h \in Handlers, ReadPin(o, h)
        PROVE  IInv'
    BY <2>4, ReadPinKeeps
  <2> QED
    BY <1>1, <2>1, <2>2, <2>3, <2>4 DEF Client
<1>2. ASSUME NEW h \in Handlers, Agent(h)
      PROVE  IInv'
  BY <1>2, AgentQuiet, AgentIssuesKeeps, AgentSubmitsKeeps DEF Agent
<1>3. ASSUME NEW h \in Handlers, NEW o \in Owners,
             OtherIssue(h, o) \/ \E i \in Ids : OtherConsume(h, o, i)
      PROVE  IInv'
  BY <1>3, OthersKeep
<1>4. CASE Tick
  BY <1>4, TickKeeps
<1>5. CASE UNCHANGED vars
  <2>1. /\ UNCHANGED <<clock, issued, call, drawn, approvals>>
        /\ UNCHANGED <<attempt, child, trusted, doubled>> /\ UNCHANGED challengeVars
    BY <1>5 DEF vars, challengeVars, pairVars
  <2>2. ChallengesInv'
    BY <2>1, ChallengesStep DEF IInv
  <2>3. TypeOK' /\ TrustInv'
    BY <2>1, <2>2 DEF IInv, TypeOK, ChallengesInv, TrustInv
  <2>4. \A p \in Pairing : DeviceInv(p)'
    BY <2>1 DEF IInv, DeviceInv, Serving, Life, Holding, Consuming, LongEnough, Unrivalled,
                Rivals, At, Patience, InStage
  <2> QED
    BY <2>2, <2>3, <2>4 DEF IInv
<1> QED
  BY <1>1, <1>2, <1>3, <1>4, <1>5 DEF Next

(* The steps of pairing are, to the agent, requests at its two routes.     *)
LEMMA PairingAsks ==
    ASSUME ChallengesTypeOK, [Next]_vars
    PROVE  [ChallengesNext]_challengeVars
<1>1. Pairing \subseteq Owners
  BY TimeoutAssumption
<1>2. ASSUME NEW o \in Pairing, Client(o)
      PROVE  [ChallengesNext]_challengeVars
  <2>1. CASE \E h \in Handlers : AskChallenge(o, h)
    BY <1>1, <2>1 DEF AskChallenge, ChallengesNext
  <2>2. CASE \E h \in Handlers : ReadPin(o, h)
    <3>1. PICK h \in Handlers : ReadPin(o, h)
      BY <2>2
    <3>2. ConsumeBegin(h, o, attempt[o].id)
      BY <3>1 DEF ReadPin
    <3>3. attempt[o].id \in Ids
      BY <3>2 DEF ConsumeBegin, ChallengesTypeOK
    <3> QED
      BY <1>1, <3>2, <3>3 DEF ChallengesNext
  <2>3. CASE UNCHANGED challengeVars
    BY <2>3
  <2> QED
    BY <1>2, <2>1, <2>2, <2>3 DEF Client, AskPaired, StatusRefuses, Spawn, NoPin, AnswerTimesOut,
                                  ChildExits, Complete, CheckPaired
<1>3. ASSUME NEW h \in Handlers, Agent(h)
      PROVE  ChallengesNext
  BY <1>3 DEF Agent, AgentAdmits, AgentIssues, AgentConsumes, AgentSubmits, AgentAbandons,
              ChallengesNext
<1>4. ASSUME NEW h \in Handlers, NEW o \in Owners,
             OtherIssue(h, o) \/ \E i \in Ids : OtherConsume(h, o, i)
      PROVE  ChallengesNext
  BY <1>4 DEF OtherIssue, OtherConsume, ChallengesNext
<1>5. CASE Tick
  BY <1>5 DEF Tick, ChallengesNext
<1>6. CASE UNCHANGED vars
  BY <1>6 DEF vars
<1> QED
  BY <1>2, <1>3, <1>4, <1>5, <1>6 DEF Next

-----------------------------------------------------------------------------
(* The invariant holds throughout: the state is well typed, each challenge *)
(* is worth one submission by its owner, and each attempt in the stages    *)
(* from issue to consume holds a challenge that outlives them.             *)
THEOREM Invariance == Spec => []IInv
<1>1. Init => IInv
  BY Start
<1>2. IInv /\ [Next]_vars => IInv'
  BY Step
<1> QED
  BY <1>1, <1>2, PTL DEF Spec

(* Pairing uses the agent's challenges as PairingChallenges says they may  *)
(* be used: each of its behaviours is one of that specification, so what   *)
(* holds of the challenges for any clients holds here.                     *)
THEOREM PairingImplementsChallenges == Spec => ChallengesSpec
<1>1. Init => ChallengesInit
  BY DEF Init
<1>2. IInv /\ [Next]_vars => [ChallengesNext]_challengeVars
  BY PairingAsks DEF IInv, ChallengesInv
<1> QED
  BY <1>1, <1>2, Invariance, PTL DEF Spec, ChallengesSpec

(* The challenges' own invariant, for any clients at all of the two routes *)
(* of lib.rs.                                                              *)
THEOREM ChallengesInvariance == ChallengesSpec => []ChallengesInv
<1>1. ChallengesInit => ChallengesInv
  BY ChallengesStart
<1>2. ChallengesInv /\ [ChallengesNext]_challengeVars => ChallengesInv'
  BY ChallengesStep
<1> QED
  BY <1>1, <1>2, PTL DEF ChallengesSpec

(* A challenge is outstanding, or submitted by one handler, or approved    *)
(* once: never two of these.                                               *)
LEMMA WorthOne ==
    ASSUME ChallengesInv
    PROVE  SingleApproval
<1> SUFFICES ASSUME NEW i \in Ids
             PROVE  (IF i \in DOMAIN issued THEN 1 ELSE 0)
                       + Cardinality(Submitting(i)) + Len(approvals[i]) <= 1
  BY DEF SingleApproval
<1>1. SubmitInv /\ ApprovalInv /\ ChallengesTypeOK
  BY DEF ChallengesInv
<1>2. CASE Submitting(i) = {}
  <2>1. Cardinality(Submitting(i)) = 0
    BY <1>2, FS_EmptySet
  <2>2. CASE approvals[i] = <<>>
    BY <2>1, <2>2
  <2>3. CASE i \notin DOMAIN issued /\ approvals[i] = <<drawn[i].owner>>
    BY <2>1, <2>3
  <2> QED
    BY <1>1, <2>2, <2>3 DEF ApprovalInv
<1>3. CASE Submitting(i) # {}
  <2>1. PICK h \in Handlers : At(h, "submit") /\ call[h].id = i
    BY <1>3 DEF Submitting
  <2>2. /\ i \notin DOMAIN issued /\ approvals[i] = <<>>
        /\ \A g \in Handlers : At(g, "submit") /\ call[g].id = i => g = h
    BY <1>1, <2>1 DEF SubmitInv
  <2>3. Submitting(i) = {h}
    BY <2>1, <2>2 DEF Submitting
  <2>4. Cardinality(Submitting(i)) = 1
    BY <2>3, FS_Singleton
  <2> QED
    BY <2>2, <2>4
<1> QED
  BY <1>2, <1>3

(* consume and the submission after it: a challenge is worth one.          *)
THEOREM SingleApprovalSafety == Spec => []SingleApproval
<1>1. IInv => SingleApproval
  BY WorthOne DEF IInv
<1> QED
  BY <1>1, Invariance, PTL

(* A PIN is approved only with a challenge of the device that submits it.  *)
THEOREM OwnerSafety == Spec => []ApprovedByOwner
<1>1. IInv => ApprovedByOwner
  <2> SUFFICES ASSUME IInv, NEW i \in Ids, NEW n \in 1 .. Len(approvals[i])
               PROVE  i \in DOMAIN drawn /\ approvals[i][n] = drawn[i].owner
    BY DEF ApprovedByOwner
  <2>1. CASE approvals[i] = <<>>
    BY <2>1
  <2>2. CASE i \in DOMAIN drawn /\ approvals[i] = <<drawn[i].owner>>
    BY <2>2
  <2> QED
    BY <2>1, <2>2 DEF IInv, ChallengesInv, ApprovalInv
<1> QED
  BY <1>1, Invariance, PTL

(* Whatever the interleaving of issues, no device has more than two        *)
(* windows' worth admitted in a window less the longest wait.              *)
THEOREM IssueRateSafety == Spec => []IssueRateBounded
<1>1. IInv => IssueRateBounded
  BY DEF IInv, ChallengesInv
<1> QED
  BY <1>1, Invariance, PTL

(* However an attempt ends, its `moonlight pair' process is gone.          *)
THEOREM ReapSafety == Spec => []ChildReaped
<1>1. IInv => ChildReaped
  BY DEF IInv, DeviceInv, ChildReaped
<1> QED
  BY <1>1, Invariance, PTL

(* A PIN printed in time finds its challenge valid at consume.             *)
THEOREM LifetimeSafety == Spec => []ChallengeOutlivesPin
<1>1. IInv => ChallengeOutlivesPin
  <2> SUFFICES ASSUME IInv, NEW o \in Pairing, NEW h \in Handlers,
                      attempt[o].handler = h, At(h, "consume")
               PROVE  /\ drawn[attempt[o].id].expires > call[h].now
                      /\ \/ attempt[o].id \in doubled
                         \/ Valid(o, attempt[o].id, Unexpired(call[h].now))
    BY DEF ChallengeOutlivesPin
  <2>1. Consuming(o) /\ Holding(o)
    BY NoCallAssumption DEF Consuming, Holding
  <2>2. /\ attempt[o].id \in DOMAIN drawn /\ drawn[attempt[o].id].owner = o
        /\ call[h].now + MaxDelay < drawn[attempt[o].id].expires
        /\ attempt[o].id \in doubled \/ Unrivalled(o)
    BY <2>1 DEF IInv, DeviceInv, Life, LongEnough
  <2>3. call[h] \in Call
    BY DEF At, IInv, ChallengesInv, ChallengesTypeOK
  <2>4. call[h].now \in Int /\ MaxDelay \in Nat /\ drawn[attempt[o].id].expires \in Int
    BY <2>2, <2>3, ParameterAssumption
       DEF Call, Times, IInv, ChallengesInv, ChallengesTypeOK, Challenge
  <2>5. drawn[attempt[o].id].expires > call[h].now
    BY <2>2, <2>4
  <2>6. Unrivalled(o) => Valid(o, attempt[o].id, Unexpired(call[h].now))
    BY <2>2, <2>5 DEF Unrivalled, Valid, Unexpired, IInv, ChallengesInv, ChallengesTypeOK
  <2> QED
    BY <2>2, <2>5, <2>6
<1> QED
  BY <1>1, Invariance, PTL

(* An attempt that reports success is one of a device that Sunshine trusts *)
(* by an approval with that device's own challenge.                        *)
THEOREM PairedSafety == Spec => []PairedIsApproved
<1>1. IInv => PairedIsApproved
  BY DEF IInv, DeviceInv, TrustInv, PairedIsApproved
<1> QED
  BY <1>1, Invariance, PTL

=============================================================================
