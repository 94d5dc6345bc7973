------------------------ MODULE ConnectSessionProofs ------------------------
(***************************************************************************)
(* Proofs about a controller's connects and the agent they reach, for any  *)
(* number of controllers, any bounds on launches and faults, and any times *)
(* that TimingAssumption allows.                                           *)
(***************************************************************************)
EXTENDS ConnectSession, FiniteSetTheorems, TLAPS

(* What each message under way says of its sender.  Only an awaited call   *)
(* has tag 0, and there is one of those besides the heartbeat's renewal.   *)
MessageInv(m) ==
    /\ m.kind \in {"granted", "refused"} => m.tag = 0
    /\ m.tag = 0 /\ m.kind \in {"attach", "granted", "refused"} => pc[m.from] = "attaching"
    /\ m.tag = 0 /\ m.kind = "detach" => pc[m.from] = "detaching" /\ m.id = grant[m.from]
    /\ m.tag = 0 /\ m.kind = "renew" => beating[m.from] # None /\ m.id = beating[m.from]
    /\ m.kind = "granted" => m.id \in granted
    /\ faults = 0 /\ m.tag # 0 => m.kind = "renew"
OneCall == \A c \in Controllers : \A m, n \in MainCall(c) : m = n

(* Who has a session, or is about to.  A late detach names one that nobody *)
(* has or will have.                                                       *)
Has(c, i) ==
    \/ grant[c] = i
    \/ \E m \in net : m.kind = "granted" /\ m.from = c /\ m.id = i
Spent(i) == i \in granted /\ \A c \in Controllers : ~ Has(c, i)
LateInv == \A m \in net : m.tag # 0 /\ m.kind = "detach" => Spent(m.id)

(* Where a connect is and what it has go together.                         *)
PhaseInv(c) ==
    /\ grant[c] # None =>
          pc[c] \in {"streaming", "ending", "detaching"} /\ grant[c] \in granted
    /\ pc[c] \in {"ending", "detaching"} => grant[c] # None
    /\ beating[c] # None => pc[c] = "streaming"
    /\ pc[c] = "streaming" => beating[c] = grant[c]
    /\ beating[c] = None => renewing[c] = Quiet

(* The key bindings at every point of a connect.                           *)
LocalInv(c) ==
    c \notin spoiled =>
        /\ pc[c] \in {"idle", "launched", "detaching"} => ~ local[c]
        /\ pc[c] \in {"attaching", "undoing", "ending"} => local[c]
        /\ pc[c] = "streaming" => (local[c] <=> grant[c] # None)

(* An identifier belongs to one device.                                    *)
Claims(c, i) ==
    \/ Has(c, i)
    \/ remote # NoSession /\ remote.id = i /\ remote.owner = c
OwnerInv ==
    /\ remote # NoSession => remote.id \in granted
    /\ \A i \in Ids : \A c, d \in Controllers : Claims(c, i) /\ Claims(d, i) => c = d

(* Every session stems from an attach, and every attach from a launch.     *)
Attaches == {m \in net : m.kind = "attach"}
Launched == {c \in Controllers : pc[c] = "launched"}
CountInv ==
    /\ IsFiniteSet(Attaches) /\ IsFiniteSet(Launched)
    /\ \E n \in 0 .. MaxLaunches :
          /\ granted = 1 .. n
          /\ n + Cardinality(Attaches) + Cardinality(Launched) <= launches

AgentInv ==
    /\ ~ up => remote = NoSession
    /\ remote = NoSession => timer = 0
    /\ faults = 0 => up

(* The lease: what is left of it while the grant is under way, between     *)
(* renewals, and while a renewal is under way.                             *)
Granting(c) ==
    \A m \in net : m.kind = "granted" /\ m.from = c =>
        remote = [id |-> m.id, owner |-> c] /\ timer >= Lease - age[c]
Renewing(c) ==
    pc[c] = "streaming" /\ grant[c] # None =>
        /\ remote = [id |-> grant[c], owner |-> c]
        /\ renewing[c] = Quiet =>
              timer >= Lease - RequestTimeout - (RenewalInterval - beat[c])
        /\ renewing[c] # Quiet =>
              /\ timer >= Lease - RequestTimeout - RenewalInterval - renewing[c]
              /\ beat[c] = RenewalInterval - renewing[c]
LeaseInv == faults = 0 => \A c \in Controllers : Granting(c) /\ Renewing(c)

IInv ==
    /\ TypeOK /\ OneCall /\ LateInv /\ OwnerInv /\ CountInv /\ AgentInv /\ LeaseInv
    /\ \A m \in net : MessageInv(m)
    /\ \A c \in Controllers : PhaseInv(c) /\ LocalInv(c)

-----------------------------------------------------------------------------
(* The times that are compared.                                            *)
LEMMA Intervals ==
    /\ RenewalInterval \in Nat /\ Lease \in Nat /\ RequestTimeout \in Nat
    /\ RequestTimeout < RenewalInterval /\ 3 * RenewalInterval <= Lease
<1>1. RenewalInterval = Lease \div 3
  BY ParameterAssumption, TimingAssumption DEF RenewalInterval
<1>2. Lease \in Nat
  BY ParameterAssumption
<1>3. Lease \div 3 \in Nat /\ 3 * (Lease \div 3) <= Lease
  BY <1>2
<1> QED
  BY <1>1, <1>3, ParameterAssumption, TimingAssumption

(* While nothing goes wrong, a lease that is renewed never runs out.       *)
LEMMA LeaseLasts ==
    ASSUME TypeOK, AgentInv, LeaseInv, faults = 0, NEW c \in Controllers
    PROVE  /\ pc[c] = "streaming" /\ grant[c] # None => Live /\ timer > 0
           /\ \A m \in net : m.kind = "granted" /\ m.from = c => Live /\ timer > 0
<1>1. /\ timer \in Int /\ age[c] \in Int /\ age[c] <= RequestTimeout
      /\ beat[c] \in Int /\ 0 <= beat[c] /\ renewing[c] \in Int /\ renewing[c] <= RequestTimeout
  BY ParameterAssumption, Intervals DEF TypeOK, Quiet
<1>2. timer > 0 => Live
  BY DEF AgentInv, Live
<1>3. ASSUME pc[c] = "streaming", grant[c] # None
      PROVE  timer > 0
  <2>1. /\ renewing[c] = Quiet => timer >= Lease - RequestTimeout - (RenewalInterval - beat[c])
        /\ renewing[c] # Quiet => timer >= Lease - RequestTimeout - RenewalInterval - renewing[c]
    BY <1>3 DEF LeaseInv, Renewing
  <2> QED
    BY <1>1, <2>1, Intervals
<1>4. ASSUME NEW m \in net, m.kind = "granted", m.from = c
      PROVE  timer > 0
  <2>1. timer >= Lease - age[c]
    BY <1>4 DEF LeaseInv, Granting
  <2> QED
    BY <1>1, <2>1, Intervals
<1> QED
  BY <1>2, <1>3, <1>4

(* Identifiers keep their owners as long as nobody gets one from nowhere.  *)
LEMMA OwnersKeep ==
    ASSUME OwnerInv, LateInv, granted' = granted, remote' = remote \/ remote' = NoSession,
           \A c \in Controllers : \A i \in Ids : Has(c, i)' => Has(c, i),
           granted \subseteq Ids,
           \A m \in net' : m.tag # 0 /\ m.kind = "detach" =>
               m \in net \/ (m.id \in granted /\ \A c \in Controllers : ~ Has(c, m.id)')
    PROVE  OwnerInv' /\ LateInv'
<1>1. \A c \in Controllers : \A i \in Ids : Claims(c, i)' => Claims(c, i)
  BY DEF Claims
<1>2. OwnerInv'
  BY <1>1 DEF OwnerInv
<1>3. ASSUME NEW m \in net', m.tag # 0, m.kind = "detach"
      PROVE  Spent(m.id)'
  BY <1>3 DEF Spent, LateInv
<1> QED
  BY <1>2, <1>3 DEF LateInv

(* The count of attaches goes down, or stays.                              *)
LEMMA CountKeeps ==
    ASSUME CountInv, launches \in Nat, granted' = granted, launches' = launches,
           Attaches' \subseteq Attaches, Launched' \subseteq Launched
    PROVE  CountInv'
<1>1. IsFiniteSet(Attaches) /\ IsFiniteSet(Launched)
  BY DEF CountInv
<1>2. /\ IsFiniteSet(Attaches') /\ Cardinality(Attaches') <= Cardinality(Attaches)
      /\ IsFiniteSet(Launched') /\ Cardinality(Launched') <= Cardinality(Launched)
  BY <1>1, FS_Subset
<1>3. /\ Cardinality(Attaches') \in Nat /\ Cardinality(Attaches) \in Nat
      /\ Cardinality(Launched') \in Nat /\ Cardinality(Launched) \in Nat
  BY <1>1, <1>2, FS_CardinalityType
<1>4. PICK n \in 0 .. MaxLaunches :
         granted = 1 .. n /\ n + Cardinality(Attaches) + Cardinality(Launched) <= launches
  BY DEF CountInv
<1>5. n + Cardinality(Attaches') + Cardinality(Launched') <= launches
  BY <1>2, <1>3, <1>4
<1> QED
  BY <1>2, <1>4, <1>5 DEF CountInv

(* An attach nobody waits for any more is still one attach.                *)
LEMMA CountLate ==
    ASSUME CountInv, launches \in Nat, granted' = granted, launches' = launches,
           NEW x \in Attaches, NEW y, Attaches' \subseteq (Attaches \ {x}) \cup {y},
           Launched' \subseteq Launched
    PROVE  CountInv'
<1> DEFINE A == (Attaches \ {x}) \cup {y}
<1>1. IsFiniteSet(Attaches) /\ IsFiniteSet(Launched)
  BY DEF CountInv
<1>2. /\ IsFiniteSet(Attaches \ {x}) /\ Cardinality(Attaches \ {x}) = Cardinality(Attaches) - 1
  BY <1>1, FS_RemoveElement
<1>3. /\ Cardinality(Attaches) \in Nat /\ Cardinality(Attaches \ {x}) \in Nat
  BY <1>1, <1>2, FS_CardinalityType
<1>4. /\ IsFiniteSet(A) /\ Cardinality(A) <= Cardinality(Attaches)
  <2>1. IsFiniteSet(A) /\ Cardinality(A) = IF y \in Attaches \ {x} THEN Cardinality(Attaches \ {x})
                                           ELSE Cardinality(Attaches \ {x}) + 1
    BY <1>2, FS_AddElement
  <2> QED
    BY <1>2, <1>3, <2>1
<1> HIDE DEF A
<1>5. /\ IsFiniteSet(Attaches') /\ Cardinality(Attaches') <= Cardinality(A)
      /\ IsFiniteSet(Launched') /\ Cardinality(Launched') <= Cardinality(Launched)
  BY <1>1, <1>4, FS_Subset DEF A
<1>6. /\ Cardinality(Attaches') \in Nat /\ Cardinality(A) \in Nat
      /\ Cardinality(Launched') \in Nat /\ Cardinality(Launched) \in Nat
  BY <1>1, <1>4, <1>5, FS_CardinalityType
<1>7. PICK n \in 0 .. MaxLaunches :
         granted = 1 .. n /\ n + Cardinality(Attaches) + Cardinality(Launched) <= launches
  BY DEF CountInv
<1>8. n + Cardinality(Attaches') + Cardinality(Launched') <= launches
  BY <1>3, <1>4, <1>5, <1>6, <1>7
<1> QED
  BY <1>5, <1>7, <1>8 DEF CountInv

(* Moonlight is launched.                                                  *)
LEMMA LaunchKeeps ==
    ASSUME IInv, NEW c \in Controllers, NEW b \in BOOLEAN, Launch(c, b)
    PROVE  IInv'
<1>1. /\ UNCHANGED <<local, grant, age, beating, beat, renewing, failures, net, agentVars,
                     faults, spoiled>>
      /\ pc[c] = "idle" /\ launches < MaxLaunches /\ launches' = launches + 1
  BY DEF Launch
<1>2. UNCHANGED <<up, remote, timer, granted>>
  BY <1>1 DEF agentVars
<1>3. /\ pc' \in [Controllers -> Phases]
      /\ pc'[c] \in {"launched", "streaming"}
      /\ \A d \in Controllers \ {c} : pc'[d] = pc[d]
  BY DEF Launch, IInv, TypeOK, Phases
<1>4. launches \in Nat /\ MaxLaunches \in Nat
  BY ParameterAssumption DEF IInv, TypeOK
<1>5. TypeOK'
  BY <1>1, <1>2, <1>3, <1>4 DEF IInv, TypeOK
<1>6. OneCall' /\ LateInv' /\ OwnerInv' /\ AgentInv'
  BY <1>1, <1>2 DEF IInv, OneCall, MainCall, Awaited, LateInv, Spent, Has, OwnerInv, Claims, AgentInv
<1>7. PhaseInv(c) /\ LocalInv(c) /\ grant[c] = None
  BY <1>1 DEF IInv, PhaseInv
<1>8. LeaseInv'
  <2> SUFFICES ASSUME faults = 0, NEW d \in Controllers
               PROVE  Granting(d)' /\ Renewing(d)'
    BY <1>1 DEF LeaseInv
  <2>1. Granting(d) /\ Renewing(d)
    BY DEF IInv, LeaseInv
  <2> QED
    BY <1>1, <1>2, <1>3, <1>7, <2>1 DEF Granting, Renewing
<1>9. ASSUME NEW m \in net'
      PROVE  MessageInv(m)'
  <2>1. MessageInv(m) /\ m \in Message
    BY <1>1 DEF IInv, TypeOK
  <2>2. m.from \in Controllers
    BY <2>1 DEF Message
  <2> QED
    BY <1>1, <1>2, <1>3, <2>1, <2>2 DEF MessageInv
<1>10. ASSUME NEW d \in Controllers
       PROVE  PhaseInv(d)' /\ LocalInv(d)'
  <2>1. PhaseInv(d) /\ LocalInv(d)
    BY DEF IInv
  <2> QED
    BY <1>1, <1>2, <1>3, <1>7, <2>1 DEF PhaseInv, LocalInv
<1>11. CountInv'
  <2>1. IsFiniteSet(Attaches) /\ IsFiniteSet(Launched)
    BY DEF IInv, CountInv
  <2>2. Attaches' = Attaches
    BY <1>1 DEF Attaches
  <2>3. Launched' \subseteq Launched \cup {c}
    BY <1>3 DEF Launched
  <2>4. IsFiniteSet(Launched \cup {c}) /\ Cardinality(Launched \cup {c}) <= Cardinality(Launched) + 1
    <3>1. Cardinality(Launched) \in Nat
      BY <2>1, FS_CardinalityType
    <3>2. /\ IsFiniteSet(Launched \cup {c})
          /\ Cardinality(Launched \cup {c}) =
                IF c \in Launched THEN Cardinality(Launched) ELSE Cardinality(Launched) + 1
      BY <2>1, FS_AddElement
    <3> QED
      BY <3>1, <3>2
  <2>5. IsFiniteSet(Launched') /\ Cardinality(Launched') <= Cardinality(Launched \cup {c})
    BY <2>3, <2>4, FS_Subset
  <2>6. /\ Cardinality(Launched') \in Nat /\ Cardinality(Launched \cup {c}) \in Nat
        /\ Cardinality(Launched) \in Nat /\ Cardinality(Attaches) \in Nat
    BY <2>1, <2>4, <2>5, FS_CardinalityType
  <2>7. PICK n \in 0 .. MaxLaunches :
           granted = 1 .. n /\ n + Cardinality(Attaches) + Cardinality(Launched) <= launches
    BY DEF IInv, CountInv
  <2>8. n + Cardinality(Attaches) + Cardinality(Launched') <= launches'
    BY <1>1, <1>4, <2>4, <2>5, <2>6, <2>7
  <2> QED
    BY <1>2, <2>1, <2>2, <2>5, <2>7, <2>8 DEF CountInv
<1> QED
  BY <1>5, <1>6, <1>8, <1>9, <1>10, <1>11 DEF IInv

(* A message that is left to arrive late says what it said.                *)
LEMMA LateFields ==
    ASSUME TypeOK, NEW m \in net, NEW t \in 1 .. (MaxFaults + MaxLaunches)
    PROVE  /\ LateAs(m, t) \in Message /\ LateAs(m, t).tag = t /\ t # 0
           /\ LateAs(m, t).kind = m.kind /\ LateAs(m, t).from = m.from /\ LateAs(m, t).id = m.id
  BY ParameterAssumption DEF TypeOK, Message, LateAs

(* The requests of a step that fails.                                      *)
LEMMA FaultTag ==
    ASSUME TypeOK, Fault
    PROVE  faults + 1 \in 1 .. (MaxFaults + MaxLaunches) /\ faults' \in 0 .. MaxFaults /\ faults' # 0
  BY ParameterAssumption DEF TypeOK, Fault

(* A message and its sender.                                               *)
LEMMA Senders ==
    ASSUME IInv, NEW m \in net
    PROVE  /\ m \in Message /\ m.from \in Controllers /\ MessageInv(m)
           /\ m.tag = 0 <=> m \in Awaited(m.from)
           /\ m.tag = 0 /\ m.kind # "renew" <=> m \in MainCall(m.from)
<1>1. m \in Message /\ MessageInv(m)
  BY DEF IInv, TypeOK
<1>2. m.from \in Controllers
  BY <1>1 DEF Message
<1> QED
  BY <1>1, <1>2 DEF Awaited, MainCall

(* attach_session begins.                                                  *)
LEMMA InstallKeeps ==
    ASSUME IInv, NEW c \in Controllers, InstallLocal(c)
    PROVE  IInv'
<1>1. /\ UNCHANGED <<grant, beating, beat, renewing, failures, up, remote, timer, granted, launches>>
      /\ pc[c] = "launched"
  BY DEF InstallLocal, agentVars
<1>2. /\ TypeOK /\ PhaseInv(c) /\ LocalInv(c) /\ grant[c] = None
      /\ launches \in Nat /\ CountInv
  BY <1>1, ParameterAssumption DEF IInv, PhaseInv, TypeOK
<1>3. CASE /\ local' = [local EXCEPT ![c] = TRUE]
           /\ pc' = [pc EXCEPT ![c] = "attaching"]
           /\ age' = [age EXCEPT ![c] = 0]
           /\ net' = net \cup {Msg("attach", c, None)}
           /\ UNCHANGED <<faults, spoiled>>
  <2> DEFINE a == Msg("attach", c, None)
  <2>1. a \in Message /\ a.kind = "attach" /\ a.from = c /\ a.tag = 0
    BY ParameterAssumption DEF Msg, Message, None
  <2> HIDE DEF a
  <2>2. net' = net \cup {a}
    BY <1>3 DEF a
  <2>3. /\ pc' \in [Controllers -> Phases] /\ pc'[c] = "attaching"
        /\ local' \in [Controllers -> BOOLEAN] /\ local'[c]
        /\ age' \in [Controllers -> 0 .. RequestTimeout]
        /\ \A d \in Controllers \ {c} : pc'[d] = pc[d] /\ local'[d] = local[d] /\ age'[d] = age[d]
    BY <1>2, <1>3, ParameterAssumption DEF TypeOK, Phases
  <2>4. TypeOK'
    BY <1>1, <1>2, <1>3, <2>1, <2>2, <2>3 DEF TypeOK
  <2>5. \A m \in net : m.tag = 0 /\ m.kind # "renew" => m.from # c
    BY <1>1, Senders DEF MessageInv, Message
  <2>6. OneCall'
    BY <2>1, <2>2, <2>5 DEF IInv, OneCall, MainCall, Awaited
  <2>7. \A d \in Controllers : \A i \in Ids : Has(d, i)' => Has(d, i)
    BY <1>1, <2>1, <2>2 DEF Has
  <2>8. OwnerInv' /\ LateInv'
    BY <1>1, <1>2, <2>1, <2>2, <2>7, OwnersKeep DEF IInv, TypeOK
  <2>9. AgentInv'
    BY <1>1, <1>3 DEF IInv, AgentInv
  <2>10. LeaseInv'
    <3> SUFFICES ASSUME faults = 0, NEW d \in Controllers
                 PROVE  Granting(d)' /\ Renewing(d)'
      BY <1>3 DEF LeaseInv
    <3>1. Granting(d) /\ Renewing(d)
      BY DEF IInv, LeaseInv
    <3>2. \A m \in net : m.kind = "granted" => m.from # c
      BY <2>5, Senders DEF MessageInv
    <3> QED
      BY <1>1, <1>2, <2>1, <2>2, <2>3, <3>1, <3>2 DEF Granting, Renewing
  <2>11. ASSUME NEW m \in net'
         PROVE  MessageInv(m)'
    <3>1. CASE m \in net
      BY <1>1, <1>3, <2>3, <2>5, <3>1, Senders DEF MessageInv
    <3>2. CASE m = a
      BY <2>1, <2>3, <3>2 DEF MessageInv
    <3> QED
      BY <2>2, <3>1, <3>2
  <2>12. ASSUME NEW d \in Controllers
         PROVE  PhaseInv(d)' /\ LocalInv(d)'
    <3>1. PhaseInv(d) /\ LocalInv(d)
      BY DEF IInv
    <3> QED
      BY <1>1, <1>2, <1>3, <2>3, <3>1 DEF PhaseInv, LocalInv
  <2>13. CountInv'
    <3>1. IsFiniteSet(Attaches) /\ IsFiniteSet(Launched)
      BY <1>2 DEF CountInv
    <3>2. Attaches' = Attaches \cup {a} /\ Launched' = Launched \ {c} /\ c \in Launched
      BY <1>1, <2>1, <2>2, <2>3 DEF Attaches, Launched
    <3>3. /\ IsFiniteSet(Attaches')
          /\ Cardinality(Attaches') = IF a \in Attaches THEN Cardinality(Attaches)
                                      ELSE Cardinality(Attaches) + 1
      BY <3>1, <3>2, FS_AddElement
    <3>4. IsFiniteSet(Launched') /\ Cardinality(Launched') = Cardinality(Launched) - 1
      BY <3>1, <3>2, FS_RemoveElement
    <3>5. /\ Cardinality(Launched') \in Nat /\ Cardinality(Attaches') \in Nat
          /\ Cardinality(Launched) \in Nat /\ Cardinality(Attaches) \in Nat
      BY <3>1, <3>3, <3>4, FS_CardinalityType
    <3>6. PICK n \in 0 .. MaxLaunches :
             granted = 1 .. n /\ n + Cardinality(Attaches) + Cardinality(Launched) <= launches
      BY <1>2 DEF CountInv
    <3>7. n + Cardinality(Attaches') + Cardinality(Launched') <= launches
      BY <1>2, <3>3, <3>4, <3>5, <3>6
    <3> QED
      BY <1>1, <3>3, <3>4, <3>6, <3>7 DEF CountInv
  <2> QED
    BY <2>4, <2>6, <2>8, <2>9, <2>10, <2>11, <2>12, <2>13 DEF IInv
<1>4. CASE /\ Fault /\ spoiled' = spoiled \cup {c}
           /\ \E b \in BOOLEAN : local' = [local EXCEPT ![c] = b]
           /\ pc' = [pc EXCEPT ![c] = "streaming"]
           /\ UNCHANGED <<age, net>>
  <2>1. /\ pc' \in [Controllers -> Phases] /\ pc'[c] = "streaming"
        /\ local' \in [Controllers -> BOOLEAN]
        /\ \A d \in Controllers \ {c} : pc'[d] = pc[d] /\ local'[d] = local[d]
    BY <1>2, <1>4 DEF TypeOK, Phases
  <2>2. faults' \in 0 .. MaxFaults /\ faults' # 0
    BY <1>2, <1>4, FaultTag
  <2>3. TypeOK'
    BY <1>1, <1>2, <1>4, <2>1, <2>2 DEF TypeOK
  <2>4. OneCall' /\ LateInv' /\ OwnerInv'
    BY <1>1, <1>4 DEF IInv, OneCall, MainCall, Awaited, LateInv, Spent, Has, OwnerInv, Claims
  <2>5. AgentInv' /\ LeaseInv'
    BY <1>1, <2>2 DEF IInv, AgentInv, LeaseInv
  <2>6. ASSUME NEW m \in net'
        PROVE  MessageInv(m)'
    BY <1>1, <1>4, <2>1, <2>2, Senders DEF MessageInv
  <2>7. ASSUME NEW d \in Controllers
        PROVE  PhaseInv(d)' /\ LocalInv(d)'
    <3>1. PhaseInv(d) /\ LocalInv(d)
      BY DEF IInv
    <3> QED
      BY <1>1, <1>2, <1>4, <2>1, <3>1 DEF PhaseInv, LocalInv
  <2>8. CountInv'
    <3>1. Attaches' \subseteq Attaches /\ Launched' \subseteq Launched
      BY <1>4, <2>1 DEF Attaches, Launched
    <3> QED
      BY <1>1, <1>2, <3>1, CountKeeps
  <2> QED
    BY <2>3, <2>4, <2>5, <2>6, <2>7, <2>8 DEF IInv
<1> QED
  BY <1>3, <1>4 DEF InstallLocal

(* The grant arrives, within a request's time of its lease's start.        *)
LEMMA GrantKeeps ==
    ASSUME IInv, NEW c \in Controllers, GrantReceived(c)
    PROVE  IInv'
<1>1. /\ UNCHANGED <<local, age, renewing, failures, up, remote, timer, granted, launches,
                     faults, spoiled>>
      /\ pc[c] = "attaching"
      /\ beat' = [beat EXCEPT ![c] = RenewalInterval]
      /\ pc' = [pc EXCEPT ![c] = "streaming"]
  BY DEF GrantReceived, agentVars
<1>2. PICK g \in MainCall(c) :
         /\ g.kind = "granted" /\ net' = net \ {g}
         /\ grant' = [grant EXCEPT ![c] = g.id]
         /\ beating' = [beating EXCEPT ![c] = g.id]
  BY DEF GrantReceived
<1>3. g \in net /\ g.from = c /\ g.tag = 0 /\ g \in Message
  BY <1>2 DEF MainCall, Awaited, IInv, TypeOK
<1>4. TypeOK /\ launches \in Nat /\ CountInv /\ granted \subseteq Ids
  BY ParameterAssumption DEF IInv, TypeOK
<1>5. g.id \in granted /\ g.id \in Ids /\ g.id # None
  <2>1. g.id \in granted
    BY <1>2, <1>3, Senders DEF MessageInv
  <2>2. \A i \in Ids : i # None
    BY ParameterAssumption DEF Ids, None
  <2> QED
    BY <1>4, <2>1, <2>2
<1>6. PhaseInv(c) /\ LocalInv(c) /\ grant[c] = None /\ beating[c] = None /\ renewing[c] = Quiet
  BY <1>1 DEF IInv, PhaseInv
<1>7. /\ pc' \in [Controllers -> Phases] /\ pc'[c] = "streaming"
      /\ grant' \in [Controllers -> 0 .. MaxLaunches] /\ grant'[c] = g.id
      /\ beating' \in [Controllers -> 0 .. MaxLaunches] /\ beating'[c] = g.id
      /\ beat' \in [Controllers -> 0 .. RenewalInterval] /\ beat'[c] = RenewalInterval
      /\ \A d \in Controllers \ {c} : /\ pc'[d] = pc[d] /\ grant'[d] = grant[d]
                                      /\ beating'[d] = beating[d] /\ beat'[d] = beat[d]
  <2>1. g.id \in 0 .. MaxLaunches
    BY <1>3 DEF Message
  <2>2. RenewalInterval \in 0 .. RenewalInterval
    BY Intervals
  <2> QED
    BY <1>1, <1>2, <1>4, <2>1, <2>2 DEF TypeOK, Phases
<1>8. TypeOK'
  BY <1>1, <1>2, <1>4, <1>7 DEF TypeOK
<1>9. OneCall'
  BY <1>2 DEF IInv, OneCall, MainCall, Awaited
<1>10. \A m \in net' : m.tag = 0 /\ m.kind # "renew" => m.from # c
  BY <1>2, <1>3 DEF IInv, OneCall, MainCall, Awaited
<1>11. OwnerInv' /\ LateInv'
  <2>1. \A d \in Controllers : \A i \in Ids : Has(d, i)' => Has(d, i)
    BY <1>2, <1>3, <1>7 DEF Has
  <2> QED
    BY <1>1, <1>2, <1>4, <2>1, OwnersKeep DEF IInv
<1>12. AgentInv'
  BY <1>1 DEF IInv, AgentInv
<1>13. LeaseInv'
  <2> SUFFICES ASSUME faults = 0, NEW d \in Controllers
               PROVE  Granting(d)' /\ Renewing(d)'
    BY <1>1 DEF LeaseInv
  <2>1. Granting(d) /\ Renewing(d)
    BY DEF IInv, LeaseInv
  <2>2. Granting(d)'
    BY <1>1, <1>2, <2>1 DEF Granting
  <2>3. CASE d # c
    BY <1>1, <1>7, <2>1, <2>2, <2>3 DEF Renewing
  <2>4. CASE d = c
    <3>1. remote = [id |-> g.id, owner |-> c] /\ timer >= Lease - age[c]
      BY <1>2, <1>3, <2>1, <2>4 DEF Granting
    <3>2. timer \in Int /\ age[c] \in Int /\ age[c] <= RequestTimeout
      BY <1>4, Intervals DEF TypeOK
    <3>3. timer >= Lease - RequestTimeout - (RenewalInterval - RenewalInterval)
      BY <3>1, <3>2, Intervals
    <3> QED
      BY <1>1, <1>6, <1>7, <2>2, <2>4, <3>1, <3>3 DEF Renewing
  <2> QED
    BY <2>3, <2>4
<1>14. ASSUME NEW m \in net'
       PROVE  MessageInv(m)'
  <2>1. m \in net /\ m.from \in Controllers /\ MessageInv(m)
    BY <1>2, Senders
  <2>2. m.tag = 0 => m.from # c
    BY <1>6, <1>10, <2>1 DEF MessageInv
  <2> QED
    BY <1>1, <1>7, <2>1, <2>2 DEF MessageInv
<1>15. ASSUME NEW d \in Controllers
       PROVE  PhaseInv(d)' /\ LocalInv(d)'
  <2>1. PhaseInv(d) /\ LocalInv(d)
    BY DEF IInv
  <2> QED
    BY <1>1, <1>5, <1>7, <2>1 DEF PhaseInv, LocalInv
<1>16. CountInv'
  <2>1. Attaches' \subseteq Attaches /\ Launched' \subseteq Launched
    BY <1>2, <1>7 DEF Attaches, Launched
  <2> QED
    BY <1>1, <1>4, <2>1, CountKeeps
<1> QED
  BY <1>8, <1>9, <1>11, <1>12, <1>13, <1>14, <1>15, <1>16 DEF IInv

(* A sender gives up on calls of its own; those that are requests may      *)
(* still arrive.                                                           *)
LEMMA GivenUp ==
    ASSUME IInv, Fault, NEW c \in Controllers, NEW A \in SUBSET Awaited(c),
           NEW M \in SUBSET Requests(A),
           \A m \in net' : (m \in net /\ m \notin A) \/ \E x \in M : m = Late(x)
    PROVE  /\ net' \subseteq Message /\ OneCall'
           /\ \A m \in net' :
                 \/ m \in net /\ m \notin A
                 \/ /\ m.tag # 0 /\ m.kind \in {"attach", "renew", "detach"}
                    /\ \E x \in M : m.kind = x.kind /\ m.from = c /\ m.id = x.id
           /\ (UNCHANGED <<granted, launches>> /\ Launched' \subseteq Launched) => CountInv'
<1>1. TypeOK /\ launches \in Nat /\ CountInv
  BY ParameterAssumption DEF IInv, TypeOK
<1>2. \A x \in M : /\ x \in net /\ x \in A /\ x.from = c /\ x.tag = 0
                   /\ x.kind \in {"attach", "renew", "detach"}
  BY DEF Requests, Awaited
<1>3. \A x \in M : /\ Late(x) \in Message /\ Late(x).tag # 0 /\ Late(x).kind = x.kind
                   /\ Late(x).from = x.from /\ Late(x).id = x.id
  BY <1>1, <1>2, FaultTag, LateFields DEF Late
<1>4. \A m \in net' : \/ m \in net /\ m \notin A
                      \/ \E x \in M : m = Late(x)
  OBVIOUS
<1>5. net' \subseteq Message
  BY <1>1, <1>3, <1>4 DEF TypeOK
<1>6. \A m \in net' : m.tag = 0 => m \in net
  BY <1>3, <1>4
<1>7. OneCall'
  BY <1>6 DEF IInv, OneCall, MainCall, Awaited
<1>8. ASSUME UNCHANGED <<granted, launches>>, Launched' \subseteq Launched
      PROVE  CountInv'
  <2>1. CASE \E x \in M : x.kind = "attach"
    <3>1. PICK x \in M : x.kind = "attach"
      BY <2>1
    <3>2. x \in Attaches
      BY <1>2, <3>1 DEF Attaches
    <3>3. \A y \in M : y.kind = "attach" => y = x
      BY <1>2, <3>1 DEF IInv, OneCall, MainCall, Awaited
    <3>4. Attaches' \subseteq (Attaches \ {x}) \cup {Late(x)}
      <4> SUFFICES ASSUME NEW m \in net', m.kind = "attach"
                   PROVE  m \in (Attaches \ {x}) \cup {Late(x)}
        BY DEF Attaches
      <4>1. CASE m \in net /\ m \notin A
        BY <1>2, <4>1 DEF Attaches
      <4>2. CASE \E y \in M : m = Late(y)
        BY <1>3, <3>3, <4>2
      <4> QED
        BY <1>4, <4>1, <4>2
    <3> QED
      BY <1>1, <1>8, <3>2, <3>4, CountLate
  <2>2. CASE \A x \in M : x.kind # "attach"
    <3>1. Attaches' \subseteq Attaches
      BY <1>3, <1>4, <2>2 DEF Attaches
    <3> QED
      BY <1>1, <1>8, <3>1, CountKeeps
  <2> QED
    BY <2>1, <2>2
<1>9. \A m \in net' :
         \/ m \in net /\ m \notin A
         \/ /\ m.tag # 0 /\ m.kind \in {"attach", "renew", "detach"}
            /\ \E x \in M : m.kind = x.kind /\ m.from = c /\ m.id = x.id
  BY <1>2, <1>3, <1>4
<1> QED
  BY <1>5, <1>7, <1>8, <1>9

(* An attach that failed.                                                  *)
LEMMA AttachFailedKeeps ==
    ASSUME IInv, NEW c \in Controllers, AttachFailed(c)
    PROVE  IInv'
<1>1. /\ UNCHANGED <<local, grant, age, beating, beat, renewing, failures, up, remote, timer,
                     granted, launches, spoiled>>
      /\ pc[c] = "attaching" /\ pc' = [pc EXCEPT ![c] = "undoing"]
  BY DEF AttachFailed, agentVars
<1>2. TypeOK /\ launches \in Nat /\ CountInv /\ granted \subseteq Ids
  BY ParameterAssumption DEF IInv, TypeOK
<1>3. /\ pc' \in [Controllers -> Phases] /\ pc'[c] = "undoing"
      /\ \A d \in Controllers \ {c} : pc'[d] = pc[d]
  BY <1>1, <1>2 DEF TypeOK, Phases
<1>4. Launched' \subseteq Launched
  BY <1>3 DEF Launched
<1>5. ASSUME NEW d \in Controllers
      PROVE  PhaseInv(d)' /\ LocalInv(d)'
  <2>1. PhaseInv(d) /\ LocalInv(d)
    BY DEF IInv
  <2> QED
    BY <1>1, <1>3, <2>1 DEF PhaseInv, LocalInv
<1>6. CASE (\E m \in MainCall(c) : m.kind = "refused" /\ net' = net \ {m}) /\ UNCHANGED faults
  <2>1. PICK r \in MainCall(c) : r.kind = "refused" /\ net' = net \ {r}
    BY <1>6
  <2>2. net' \subseteq net /\ \A m \in net' : m.tag = 0 /\ m.kind # "renew" => m.from # c
    BY <2>1 DEF IInv, OneCall, MainCall, Awaited
  <2>3. TypeOK'
    BY <1>1, <1>2, <1>3, <1>6, <2>2 DEF TypeOK
  <2>4. OneCall'
    BY <2>2 DEF IInv, OneCall, MainCall, Awaited
  <2>5. OwnerInv' /\ LateInv'
    <3>1. \A d \in Controllers : \A i \in Ids : Has(d, i)' => Has(d, i)
      BY <1>1, <2>2 DEF Has
    <3> QED
      BY <1>1, <1>2, <2>2, <3>1, OwnersKeep DEF IInv
  <2>6. AgentInv'
    BY <1>1, <1>6 DEF IInv, AgentInv
  <2>7. LeaseInv'
    <3> SUFFICES ASSUME faults = 0, NEW d \in Controllers
                 PROVE  Granting(d)' /\ Renewing(d)'
      BY <1>6 DEF LeaseInv
    <3>1. Granting(d) /\ Renewing(d)
      BY DEF IInv, LeaseInv
    <3> QED
      BY <1>1, <1>3, <2>2, <3>1 DEF Granting, Renewing
  <2>8. ASSUME NEW m \in net'
        PROVE  MessageInv(m)'
    BY <1>1, <1>3, <1>6, <2>2, Senders DEF MessageInv
  <2>9. CountInv'
    <3>1. Attaches' \subseteq Attaches
      BY <2>2 DEF Attaches
    <3> QED
      BY <1>1, <1>2, <1>4, <3>1, CountKeeps
  <2> QED
    BY <1>5, <2>3, <2>4, <2>5, <2>6, <2>7, <2>8, <2>9 DEF IInv
<1>7. CASE /\ Fault
           /\ net' = (net \ MainCall(c)) \cup {Late(m) : m \in Requests(MainCall(c))}
  <2> DEFINE A == MainCall(c)
             M == Requests(A)
  <2>1. A \in SUBSET Awaited(c) /\ M \in SUBSET Requests(A)
    BY DEF MainCall
  <2>0. Fault /\ \A m \in net' : (m \in net /\ m \notin A) \/ \E x \in M : m = Late(x)
    BY <1>7
  <2>2. /\ net' \subseteq Message /\ OneCall'
        /\ \A m \in net' :
              \/ m \in net /\ m \notin A
              \/ /\ m.tag # 0 /\ m.kind \in {"attach", "renew", "detach"}
                 /\ \E x \in M : m.kind = x.kind /\ m.from = c /\ m.id = x.id
        /\ CountInv'
    <3> HIDE DEF A, M
    <3>1. UNCHANGED <<granted, launches>> /\ Launched' \subseteq Launched
      BY <1>1, <1>4
    <3>2. A \in SUBSET Awaited(c)
      BY <2>1
    <3>3. M \in SUBSET Requests(A)
      BY <2>1
    <3>4. Fault
      BY <2>0
    <3>5. \A m \in net' : (m \in net /\ m \notin A) \/ \E x \in M : m = Late(x)
      BY <2>0
    <3> QED
      BY <3>1, <3>2, <3>3, <3>4, <3>5, GivenUp
  <2>3. \A x \in Requests(MainCall(c)) : x.kind = "attach"
    BY <1>1, Senders DEF Requests, MainCall, Awaited, MessageInv
  <2>4. \A m \in net' : \/ m \in net /\ (m.tag = 0 /\ m.kind # "renew" => m.from # c)
                        \/ m.tag # 0 /\ m.kind = "attach" /\ m.from = c
    BY <2>2, <2>3 DEF MainCall, Awaited
  <2>5. faults' \in 0 .. MaxFaults /\ faults' # 0
    BY <1>2, <1>7, FaultTag
  <2>6. TypeOK'
    BY <1>1, <1>2, <1>3, <2>2, <2>5 DEF TypeOK
  <2>7. OwnerInv' /\ LateInv'
    <3>1. \A d \in Controllers : \A i \in Ids : Has(d, i)' => Has(d, i)
      BY <1>1, <2>4 DEF Has
    <3> QED
      BY <1>1, <1>2, <2>4, <3>1, OwnersKeep DEF IInv
  <2>8. AgentInv' /\ LeaseInv'
    BY <1>1, <2>5 DEF IInv, AgentInv, LeaseInv
  <2>9. ASSUME NEW m \in net'
        PROVE  MessageInv(m)'
    BY <1>1, <1>3, <2>4, <2>5, Senders DEF MessageInv
  <2> QED
    BY <1>5, <2>2, <2>6, <2>7, <2>8, <2>9 DEF IInv
<1> QED
  BY <1>6, <1>7 DEF AttachFailed

(* keybinds.clear, as both its callers see it.                             *)
LEMMA Cleared ==
    ASSUME TypeOK, NEW c \in Controllers, ClearLocal(c)
    PROVE  /\ local' \in [Controllers -> BOOLEAN]
           /\ \A d \in Controllers \ {c} : local'[d] = local[d]
           /\ c \notin spoiled' => ~ local'[c]
           /\ spoiled \subseteq spoiled' /\ spoiled' \subseteq spoiled \cup {c}
           /\ faults' = faults \/ (faults' \in 0 .. MaxFaults /\ faults' # 0)
<1>1. CASE local' = [local EXCEPT ![c] = FALSE] /\ UNCHANGED <<faults, spoiled>>
  BY <1>1 DEF TypeOK
<1>2. CASE /\ Fault /\ spoiled' = spoiled \cup {c}
           /\ local' \in {local, [local EXCEPT ![c] = FALSE]}
  <2>1. faults' \in 0 .. MaxFaults /\ faults' # 0
    BY <1>2, FaultTag
  <2> QED
    BY <1>2, <2>1 DEF TypeOK
<1> QED
  BY <1>1, <1>2 DEF ClearLocal

(* The bindings of a stream without a session are undone.                  *)
LEMMA UndoneKeeps ==
    ASSUME IInv, NEW c \in Controllers, LocalUndone(c)
    PROVE  IInv'
<1>1. /\ UNCHANGED <<grant, age, beating, beat, renewing, failures, net, up, remote, timer,
                     granted, launches>>
      /\ pc[c] = "undoing" /\ pc' = [pc EXCEPT ![c] = "streaming"]
  BY DEF LocalUndone, agentVars
<1>2. TypeOK /\ launches \in Nat /\ CountInv
  BY ParameterAssumption DEF IInv, TypeOK
<1>3. /\ pc' \in [Controllers -> Phases] /\ pc'[c] = "streaming"
      /\ \A d \in Controllers \ {c} : pc'[d] = pc[d]
  BY <1>1, <1>2 DEF TypeOK, Phases
<1>4. /\ local' \in [Controllers -> BOOLEAN]
      /\ \A d \in Controllers \ {c} : local'[d] = local[d]
      /\ c \notin spoiled' => ~ local'[c]
      /\ spoiled \subseteq spoiled' /\ spoiled' \subseteq spoiled \cup {c}
      /\ faults' = faults \/ (faults' \in 0 .. MaxFaults /\ faults' # 0)
  BY <1>2, Cleared DEF LocalUndone
<1>5. TypeOK'
  BY <1>1, <1>2, <1>3, <1>4 DEF TypeOK
<1>6. OneCall' /\ LateInv' /\ OwnerInv' /\ AgentInv'
  BY <1>1, <1>4 DEF IInv, OneCall, MainCall, Awaited, LateInv, Spent, Has, OwnerInv, Claims, AgentInv
<1>7. grant[c] = None
  BY <1>1 DEF IInv, PhaseInv
<1>8. LeaseInv'
  <2> SUFFICES ASSUME faults' = 0, NEW d \in Controllers
               PROVE  Granting(d)' /\ Renewing(d)'
    BY DEF LeaseInv
  <2>1. Granting(d) /\ Renewing(d)
    BY <1>4 DEF IInv, LeaseInv
  <2> QED
    BY <1>1, <1>3, <1>7, <2>1 DEF Granting, Renewing
<1>9. ASSUME NEW m \in net'
      PROVE  MessageInv(m)'
  BY <1>1, <1>3, <1>4, Senders DEF MessageInv
<1>10. ASSUME NEW d \in Controllers
       PROVE  PhaseInv(d)' /\ LocalInv(d)'
  <2>1. PhaseInv(d) /\ LocalInv(d)
    BY DEF IInv
  <2> QED
    BY <1>1, <1>3, <1>4, <1>7, <2>1 DEF PhaseInv, LocalInv
<1>11. CountInv'
  <2>1. Attaches' \subseteq Attaches /\ Launched' \subseteq Launched
    BY <1>1, <1>3 DEF Attaches, Launched
  <2> QED
    BY <1>1, <1>2, <2>1, CountKeeps
<1> QED
  BY <1>5, <1>6, <1>8, <1>9, <1>10, <1>11 DEF IInv

(* A tick of the heartbeat: what is left of the lease covers a renewal.    *)
LEMMA HeartbeatKeeps ==
    ASSUME IInv, NEW c \in Controllers, Heartbeat(c)
    PROVE  IInv'
<1> DEFINE r == Msg("renew", c, beating[c])
<1>1. /\ UNCHANGED <<pc, local, grant, age, beating, failures, up, remote, timer, granted,
                     launches, faults, spoiled>>
      /\ beating[c] # None /\ beat[c] = 0 /\ renewing[c] = Quiet
      /\ net' = net \cup {r}
      /\ renewing' = [renewing EXCEPT ![c] = 0]
      /\ beat' = [beat EXCEPT ![c] = RenewalInterval]
  BY DEF Heartbeat, agentVars
<1>2. TypeOK /\ launches \in Nat /\ CountInv /\ granted \subseteq Ids
  BY ParameterAssumption DEF IInv, TypeOK
<1>3. r \in Message /\ r.kind = "renew" /\ r.from = c /\ r.tag = 0 /\ r.id = beating[c]
  BY <1>2, ParameterAssumption DEF Msg, Message, TypeOK
<1> HIDE DEF r
<1>4. /\ renewing' \in [Controllers -> Quiet .. RequestTimeout] /\ renewing'[c] = 0
      /\ beat' \in [Controllers -> 0 .. RenewalInterval] /\ beat'[c] = RenewalInterval
      /\ \A d \in Controllers \ {c} : renewing'[d] = renewing[d] /\ beat'[d] = beat[d]
  <2>1. 0 \in Quiet .. RequestTimeout /\ RenewalInterval \in 0 .. RenewalInterval
    BY Intervals DEF Quiet
  <2> QED
    BY <1>1, <1>2, <2>1 DEF TypeOK
<1>5. TypeOK'
  BY <1>1, <1>2, <1>3, <1>4 DEF TypeOK
<1>6. OneCall'
  BY <1>1, <1>3 DEF IInv, OneCall, MainCall, Awaited
<1>7. OwnerInv' /\ LateInv'
  <2>1. \A d \in Controllers : \A i \in Ids : Has(d, i)' => Has(d, i)
    BY <1>1, <1>3 DEF Has
  <2>2. \A m \in net' : m.tag # 0 /\ m.kind = "detach" => m \in net
    BY <1>1, <1>3
  <2> QED
    BY <1>1, <1>2, <2>1, <2>2, OwnersKeep DEF IInv
<1>8. AgentInv'
  BY <1>1 DEF IInv, AgentInv
<1>9. LeaseInv'
  <2> SUFFICES ASSUME faults = 0, NEW d \in Controllers
               PROVE  Granting(d)' /\ Renewing(d)'
    BY <1>1 DEF LeaseInv
  <2>1. Granting(d) /\ Renewing(d)
    BY DEF IInv, LeaseInv
  <2>2. Granting(d)'
    BY <1>1, <1>3, <2>1 DEF Granting
  <2>3. CASE d # c
    BY <1>1, <1>4, <2>1, <2>2, <2>3 DEF Renewing
  <2>4. CASE d = c
    <3>1. ASSUME pc[c] = "streaming", grant[c] # None
          PROVE  /\ remote = [id |-> grant[c], owner |-> c]
                 /\ timer >= Lease - RequestTimeout - (RenewalInterval - 0)
      BY <1>1, <2>1, <2>4, <3>1 DEF Renewing
    <3>2. timer \in Int
      BY <1>2 DEF TypeOK
    <3>3. timer >= Lease - RequestTimeout - (RenewalInterval - 0) =>
             timer >= Lease - RequestTimeout - RenewalInterval - 0
      BY <3>2, Intervals
    <3>4. RenewalInterval = RenewalInterval - 0 /\ 0 # Quiet
      BY Intervals DEF Quiet
    <3> QED
      BY <1>1, <1>4, <2>2, <2>4, <3>1, <3>3, <3>4 DEF Renewing
  <2> QED
    BY <2>3, <2>4
<1>10. ASSUME NEW m \in net'
       PROVE  MessageInv(m)'
  <2>1. CASE m \in net
    BY <1>1, <2>1, Senders DEF MessageInv
  <2>2. CASE m = r
    BY <1>1, <1>3, <2>2 DEF MessageInv
  <2> QED
    BY <1>1, <2>1, <2>2
<1>11. ASSUME NEW d \in Controllers
       PROVE  PhaseInv(d)' /\ LocalInv(d)'
  <2>1. PhaseInv(d) /\ LocalInv(d)
    BY DEF IInv
  <2> QED
    BY <1>1, <1>4, <2>1 DEF PhaseInv, LocalInv
<1>12. CountInv'
  <2>1. Attaches' \subseteq Attaches /\ Launched' \subseteq Launched
    BY <1>1, <1>3 DEF Attaches, Launched
  <2> QED
    BY <1>1, <1>2, <2>1, CountKeeps
<1> QED
  BY <1>5, <1>6, <1>7, <1>8, <1>9, <1>10, <1>11, <1>12 DEF IInv

(* A renewal that is given up, which is a fault.                           *)
LEMMA RenewalGivenUpKeeps ==
    ASSUME IInv, NEW c \in Controllers, RenewalGivenUp(c)
    PROVE  IInv'
<1>1. /\ UNCHANGED <<pc, local, grant, age, beating, beat, failures, up, remote, timer, granted,
                     launches, spoiled>>
      /\ Fault /\ renewing' = [renewing EXCEPT ![c] = Quiet]
  BY DEF RenewalGivenUp, agentVars
<1>2. TypeOK /\ launches \in Nat /\ CountInv /\ granted \subseteq Ids
  BY ParameterAssumption DEF IInv, TypeOK
<1>3. faults' \in 0 .. MaxFaults /\ faults' # 0
  BY <1>1, <1>2, FaultTag
<1>4. /\ renewing' \in [Controllers -> Quiet .. RequestTimeout] /\ renewing'[c] = Quiet
      /\ \A d \in Controllers \ {c} : renewing'[d] = renewing[d]
  <2>1. Quiet \in Quiet .. RequestTimeout
    BY Intervals DEF Quiet
  <2> QED
    BY <1>1, <1>2, <2>1 DEF TypeOK
<1> DEFINE A == RenewCall(c)
<1>5. A \in SUBSET Awaited(c)
  BY DEF RenewCall
<1>6. A \in SUBSET Requests(A)
  BY DEF RenewCall, Requests
<1>7. \A m \in net' : (m \in net /\ m \notin A) \/ \E x \in A : m = Late(x)
  BY DEF RenewalGivenUp
<1>8. \A x \in A : x.kind = "renew"
  BY DEF RenewCall
<1>9. UNCHANGED <<granted, launches>> /\ Launched' \subseteq Launched
  BY <1>1 DEF Launched
<1>10. /\ net' \subseteq Message /\ OneCall' /\ CountInv'
       /\ \A m \in net' :
             \/ m \in net /\ m \notin A
             \/ /\ m.tag # 0 /\ m.kind \in {"attach", "renew", "detach"}
                /\ \E x \in A : m.kind = x.kind /\ m.from = c /\ m.id = x.id
  <2> DEFINE M == A
  <2>1. Fault
    BY <1>1
  <2>2. M \in SUBSET Requests(A)
    BY <1>6
  <2>3. \A m \in net' : (m \in net /\ m \notin A) \/ \E x \in M : m = Late(x)
    BY <1>7
  <2> HIDE DEF M
  <2> HIDE DEF A
  <2>4. /\ net' \subseteq Message /\ OneCall' /\ CountInv'
        /\ \A m \in net' :
              \/ m \in net /\ m \notin A
              \/ /\ m.tag # 0 /\ m.kind \in {"attach", "renew", "detach"}
                 /\ \E x \in M : m.kind = x.kind /\ m.from = c /\ m.id = x.id
    BY <1>5, <1>9, <2>1, <2>2, <2>3, GivenUp
  <2> QED
    BY <2>4 DEF M
<1>11. \A m \in net' : m \in net \/ (m.tag # 0 /\ m.kind = "renew")
  BY <1>8, <1>10
<1>12. TypeOK'
  BY <1>1, <1>2, <1>3, <1>4, <1>10 DEF TypeOK
<1>13. OwnerInv' /\ LateInv'
  <2>1. \A d \in Controllers : \A i \in Ids : Has(d, i)' => Has(d, i)
    BY <1>1, <1>11 DEF Has
  <2>2. \A m \in net' : m.tag # 0 /\ m.kind = "detach" => m \in net
    BY <1>11
  <2> QED
    BY <1>1, <1>2, <2>1, <2>2, OwnersKeep DEF IInv
<1>14. AgentInv' /\ LeaseInv'
  BY <1>1, <1>3 DEF IInv, AgentInv, LeaseInv
<1>15. ASSUME NEW m \in net'
       PROVE  MessageInv(m)'
  BY <1>1, <1>3, <1>11, Senders DEF MessageInv
<1>16. ASSUME NEW d \in Controllers
       PROVE  PhaseInv(d)' /\ LocalInv(d)'
  <2>1. PhaseInv(d) /\ LocalInv(d)
    BY DEF IInv
  <2> QED
    BY <1>1, <1>4, <2>1 DEF PhaseInv, LocalInv
<1> QED
  BY <1>10, <1>12, <1>13, <1>14, <1>15, <1>16 DEF IInv

(* A connect is over.  If its detach is still to arrive, nobody has, or    *)
(* will have, the session it names.                                        *)
LEMMA DetachSpent ==
    ASSUME IInv, NEW c \in Controllers, grant' = [grant EXCEPT ![c] = None],
           granted' = granted, remote' = remote \/ remote' = NoSession,
           \A m \in net' : m.kind = "granted" => m \in net /\ m.from # c,
           \A m \in net' : m.tag # 0 /\ m.kind = "detach" =>
               m \in net \/ (pc[c] = "detaching" /\ m.id = grant[c])
    PROVE  /\ OwnerInv' /\ LateInv'
           /\ grant' \in [Controllers -> 0 .. MaxLaunches] /\ grant'[c] = None
           /\ \A d \in Controllers \ {c} : grant'[d] = grant[d]
<1>1. TypeOK /\ granted \subseteq Ids /\ OwnerInv /\ LateInv /\ PhaseInv(c)
  BY DEF IInv, TypeOK
<1>2. \A i \in Ids : i # None
  BY ParameterAssumption DEF Ids, None
<1>3. /\ grant' \in [Controllers -> 0 .. MaxLaunches] /\ grant'[c] = None
      /\ \A d \in Controllers \ {c} : grant'[d] = grant[d]
  BY <1>1, ParameterAssumption DEF TypeOK, None
<1>4. \A d \in Controllers : \A i \in Ids : Has(d, i)' => Has(d, i) /\ d # c
  BY <1>2, <1>3 DEF Has
<1>5. ASSUME NEW m \in net', m.tag # 0, m.kind = "detach", m \notin net
      PROVE  m.id \in granted /\ \A d \in Controllers : ~ Has(d, m.id)'
  <2>1. m.id = grant[c] /\ m.id \in granted
    BY <1>1, <1>5 DEF PhaseInv
  <2>2. m.id \in Ids /\ Claims(c, m.id)
    BY <1>1, <2>1 DEF Claims, Has
  <2>3. ASSUME NEW d \in Controllers, Has(d, m.id)'
        PROVE  FALSE
    <3>1. Claims(d, m.id) /\ d # c
      BY <1>4, <2>2, <2>3 DEF Claims
    <3> QED
      BY <1>1, <2>2, <3>1 DEF OwnerInv
  <2> QED
    BY <2>1, <2>3
<1>6. OwnerInv' /\ LateInv'
  BY <1>1, <1>4, <1>5, OwnersKeep
<1> QED
  BY <1>3, <1>6

(* A detach that is given up.                                              *)
LEMMA DetachGivenUpKeeps ==
    ASSUME IInv, NEW c \in Controllers, DetachGivenUp(c)
    PROVE  IInv'
<1>1. /\ UNCHANGED <<local, age, beating, beat, renewing, failures, up, remote, timer, granted,
                     launches, spoiled>>
      /\ Fault /\ pc[c] = "detaching"
      /\ pc' = [pc EXCEPT ![c] = "idle"] /\ grant' = [grant EXCEPT ![c] = None]
  BY DEF DetachGivenUp, Finished, agentVars
<1>2. TypeOK /\ launches \in Nat /\ CountInv /\ granted \subseteq Ids
  BY ParameterAssumption DEF IInv, TypeOK
<1>3. faults' \in 0 .. MaxFaults /\ faults' # 0
  BY <1>1, <1>2, FaultTag
<1>4. /\ pc' \in [Controllers -> Phases] /\ pc'[c] = "idle"
      /\ \A d \in Controllers \ {c} : pc'[d] = pc[d]
  BY <1>1, <1>2 DEF TypeOK, Phases
<1> DEFINE A == MainCall(c)
           M == A
<1>5. \A x \in A : x.kind = "detach" /\ x.id = grant[c]
  <2> SUFFICES ASSUME NEW x \in A
               PROVE  x.kind = "detach" /\ x.id = grant[c]
    OBVIOUS
  <2>1. x \in net /\ x.tag = 0 /\ x.kind # "renew" /\ x.from = c
    BY DEF MainCall, Awaited
  <2>2. x \in Message /\ MessageInv(x)
    BY <2>1, Senders
  <2> QED
    BY <1>1, <2>1, <2>2 DEF MessageInv, Message
<1>6. A \in SUBSET Awaited(c)
  BY DEF MainCall
<1>7. M \in SUBSET Requests(A)
  BY <1>5 DEF Requests
<1>8. \A m \in net' : (m \in net /\ m \notin A) \/ \E x \in M : m = Late(x)
  BY DEF DetachGivenUp
<1>9. UNCHANGED <<granted, launches>> /\ Launched' \subseteq Launched
  BY <1>1, <1>4 DEF Launched
<1>10. Fault
  BY <1>1
<1>11. /\ net' \subseteq Message /\ OneCall' /\ CountInv'
       /\ \A m \in net' :
             \/ m \in net /\ m \notin A
             \/ /\ m.tag # 0 /\ m.kind \in {"attach", "renew", "detach"}
                /\ \E x \in M : m.kind = x.kind /\ m.from = c /\ m.id = x.id
  <2> HIDE DEF M
  <2> HIDE DEF A
  <2> QED
    BY <1>6, <1>7, <1>8, <1>9, <1>10, GivenUp
<1>12. \A m \in net' : \/ m \in net /\ (m.tag = 0 /\ m.kind # "renew" => m.from # c)
                       \/ m.tag # 0 /\ m.kind = "detach" /\ m.id = grant[c]
  BY <1>5, <1>11 DEF MainCall, Awaited
<1>13. \A m \in net' : m.kind = "granted" => m \in net /\ m.from # c
  BY <1>12, Senders DEF MessageInv
<1>14. /\ OwnerInv' /\ LateInv'
       /\ grant' \in [Controllers -> 0 .. MaxLaunches] /\ grant'[c] = None
       /\ \A d \in Controllers \ {c} : grant'[d] = grant[d]
  BY <1>1, <1>12, <1>13, DetachSpent
<1>15. TypeOK'
  BY <1>1, <1>2, <1>3, <1>4, <1>11, <1>14 DEF TypeOK
<1>16. AgentInv' /\ LeaseInv'
  BY <1>1, <1>3 DEF IInv, AgentInv, LeaseInv
<1>17. ASSUME NEW m \in net'
       PROVE  MessageInv(m)'
  BY <1>1, <1>3, <1>4, <1>12, <1>14, Senders DEF MessageInv
<1>18. ASSUME NEW d \in Controllers
       PROVE  PhaseInv(d)' /\ LocalInv(d)'
  <2>1. PhaseInv(d) /\ LocalInv(d)
    BY DEF IInv
  <2> QED
    BY <1>1, <1>4, <1>14, <2>1 DEF PhaseInv, LocalInv
<1> QED
  BY <1>11, <1>14, <1>15, <1>16, <1>17, <1>18 DEF IInv

(* A connect is killed.                                                    *)
LEMMA KilledKeeps ==
    ASSUME IInv, NEW c \in Controllers, Killed(c)
    PROVE  IInv'
<1>1. /\ UNCHANGED <<local, age, up, remote, timer, granted, launches>>
      /\ Fault /\ spoiled' = spoiled \cup {c}
      /\ pc' = [pc EXCEPT ![c] = "idle"] /\ grant' = [grant EXCEPT ![c] = None]
      /\ beating' = [beating EXCEPT ![c] = None] /\ beat' = [beat EXCEPT ![c] = 0]
      /\ renewing' = [renewing EXCEPT ![c] = Quiet]
      /\ failures' = [failures EXCEPT ![c] = NoFailures]
  BY DEF Killed, Finished, agentVars
<1>2. TypeOK /\ launches \in Nat /\ CountInv /\ granted \subseteq Ids
  BY ParameterAssumption DEF IInv, TypeOK
<1>3. faults' \in 0 .. MaxFaults /\ faults' # 0
  BY <1>1, <1>2, FaultTag
<1>4. /\ pc' \in [Controllers -> Phases] /\ pc'[c] = "idle"
      /\ beating' \in [Controllers -> 0 .. MaxLaunches] /\ beating'[c] = None
      /\ renewing' \in [Controllers -> Quiet .. RequestTimeout] /\ renewing'[c] = Quiet
      /\ \A d \in Controllers \ {c} :
            pc'[d] = pc[d] /\ beating'[d] = beating[d] /\ renewing'[d] = renewing[d]
  <2>1. Quiet \in Quiet .. RequestTimeout /\ None \in 0 .. MaxLaunches
    BY Intervals, ParameterAssumption DEF Quiet, None
  <2> QED
    BY <1>1, <1>2, <2>1 DEF TypeOK, Phases
<1>5. /\ beat' \in [Controllers -> 0 .. RenewalInterval]
      /\ failures' \in [Controllers -> [local : 0 .. HealthLimit, remote : 0 .. HealthLimit]]
  BY <1>1, <1>2, Intervals, ParameterAssumption DEF TypeOK, NoFailures
<1> DEFINE A == Awaited(c)
           M == Requests(A)
<1>6. \A x \in M : x.kind = "detach" => pc[c] = "detaching" /\ x.id = grant[c]
  <2> SUFFICES ASSUME NEW x \in M, x.kind = "detach"
               PROVE  pc[c] = "detaching" /\ x.id = grant[c]
    OBVIOUS
  <2>1. x \in net /\ x.tag = 0 /\ x.from = c
    BY DEF Requests, Awaited
  <2> QED
    BY <2>1, Senders DEF MessageInv
<1>7. A \in SUBSET Awaited(c) /\ M \in SUBSET Requests(A)
  OBVIOUS
<1>8. \A m \in net' : (m \in net /\ m \notin A) \/ \E x \in M : m = Late(x)
  BY DEF Killed
<1>9. UNCHANGED <<granted, launches>> /\ Launched' \subseteq Launched
  BY <1>1, <1>4 DEF Launched
<1>10. Fault
  BY <1>1
<1>11. /\ net' \subseteq Message /\ OneCall' /\ CountInv'
       /\ \A m \in net' :
             \/ m \in net /\ m \notin A
             \/ /\ m.tag # 0 /\ m.kind \in {"attach", "renew", "detach"}
                /\ \E x \in M : m.kind = x.kind /\ m.from = c /\ m.id = x.id
  <2> HIDE DEF M
  <2> HIDE DEF A
  <2>1. A \in SUBSET Awaited(c)
    BY <1>7
  <2>2. M \in SUBSET Requests(A)
    BY <1>7
  <2> QED
    BY <1>8, <1>9, <1>10, <2>1, <2>2, GivenUp
<1>12. \A m \in net' :
          \/ m \in net /\ (m.tag = 0 => m.from # c)
          \/ /\ m.tag # 0 /\ m.kind \in {"attach", "renew", "detach"}
             /\ m.kind = "detach" => pc[c] = "detaching" /\ m.id = grant[c]
  BY <1>6, <1>11 DEF Awaited
<1>13. \A m \in net' : m.kind = "granted" => m \in net /\ m.from # c
  BY <1>12, Senders DEF MessageInv
<1>14. /\ OwnerInv' /\ LateInv'
       /\ grant' \in [Controllers -> 0 .. MaxLaunches] /\ grant'[c] = None
       /\ \A d \in Controllers \ {c} : grant'[d] = grant[d]
  BY <1>1, <1>12, <1>13, DetachSpent
<1>15. TypeOK'
  BY <1>1, <1>2, <1>3, <1>4, <1>5, <1>11, <1>14 DEF TypeOK
<1>16. AgentInv' /\ LeaseInv'
  BY <1>1, <1>3 DEF IInv, AgentInv, LeaseInv
<1>17. ASSUME NEW m \in net'
       PROVE  MessageInv(m)'
  BY <1>1, <1>3, <1>4, <1>12, <1>14, Senders DEF MessageInv
<1>18. ASSUME NEW d \in Controllers
       PROVE  PhaseInv(d)' /\ LocalInv(d)'
  <2>1. PhaseInv(d) /\ LocalInv(d)
    BY DEF IInv
  <2> QED
    BY <1>1, <1>4, <1>14, <2>1 DEF PhaseInv, LocalInv
<1> QED
  BY <1>11, <1>14, <1>15, <1>16, <1>17, <1>18 DEF IInv

(* The stream is over; the renewal under way is dropped, or arrives late.  *)
LEMMA OverKeeps ==
    ASSUME IInv, NEW c \in Controllers, pc[c] = "streaming", StreamOver(c),
           UNCHANGED <<local, grant, age, up, remote, timer, granted, launches, spoiled>>,
           faults' = faults \/ (faults' \in 0 .. MaxFaults /\ faults' # 0)
    PROVE  IInv'
<1>1. /\ pc' = [pc EXCEPT ![c] = IF grant[c] = None THEN "idle" ELSE "ending"]
      /\ beating' = [beating EXCEPT ![c] = None] /\ beat' = [beat EXCEPT ![c] = 0]
      /\ renewing' = [renewing EXCEPT ![c] = Quiet]
      /\ failures' = [failures EXCEPT ![c] = NoFailures]
  BY DEF StreamOver
<1>2. TypeOK /\ launches \in Nat /\ CountInv /\ granted \subseteq Ids
  BY ParameterAssumption DEF IInv, TypeOK
<1>3. /\ pc' \in [Controllers -> Phases] /\ pc'[c] = IF grant[c] = None THEN "idle" ELSE "ending"
      /\ beating' \in [Controllers -> 0 .. MaxLaunches] /\ beating'[c] = None
      /\ renewing' \in [Controllers -> Quiet .. RequestTimeout] /\ renewing'[c] = Quiet
      /\ \A d \in Controllers \ {c} : /\ pc'[d] = pc[d] /\ beating'[d] = beating[d]
                                      /\ beat'[d] = beat[d] /\ renewing'[d] = renewing[d]
  <2>1. Quiet \in Quiet .. RequestTimeout /\ None \in 0 .. MaxLaunches
    BY Intervals, ParameterAssumption DEF Quiet, None
  <2> QED
    BY <1>1, <1>2, <2>1 DEF TypeOK, Phases
<1>4. /\ beat' \in [Controllers -> 0 .. RenewalInterval]
      /\ failures' \in [Controllers -> [local : 0 .. HealthLimit, remote : 0 .. HealthLimit]]
  BY <1>1, <1>2, Intervals, ParameterAssumption DEF TypeOK, NoFailures
<1>5. \A m \in net' : \/ m \in net /\ m \notin RenewCall(c)
                      \/ \E x \in RenewCall(c) : m = LateAs(x, MaxFaults + x.id)
  BY DEF StreamOver
<1>6. \A x \in RenewCall(c) :
         LET y == LateAs(x, MaxFaults + x.id) IN y \in Message /\ y.tag # 0 /\ y.kind = "renew"
  <2> SUFFICES ASSUME NEW x \in RenewCall(c)
               PROVE  LET y == LateAs(x, MaxFaults + x.id)
                      IN  y \in Message /\ y.tag # 0 /\ y.kind = "renew"
    OBVIOUS
  <2>1. x \in net /\ x.tag = 0 /\ x.kind = "renew" /\ x.from = c
    BY DEF RenewCall, Awaited
  <2>2. x.id \in 0 .. MaxLaunches /\ x.id # 0
    BY <2>1, Senders DEF MessageInv, Message, None
  <2>3. MaxFaults + x.id \in 1 .. (MaxFaults + MaxLaunches)
    BY <2>2, ParameterAssumption
  <2> QED
    BY <1>2, <2>1, <2>3, LateFields
<1>7. \A m \in net' :
         \/ m \in net /\ (m.tag = 0 /\ m.kind = "renew" => m.from # c)
         \/ m \in Message /\ m.tag # 0 /\ m.kind = "renew"
  BY <1>5, <1>6 DEF RenewCall, Awaited
<1>8. TypeOK'
  <2>1. net' \subseteq Message
    BY <1>2, <1>7 DEF TypeOK
  <2> QED
    BY <1>2, <1>3, <1>4, <2>1 DEF TypeOK
<1>9. OneCall'
  BY <1>7 DEF IInv, OneCall, MainCall, Awaited
<1>10. OwnerInv' /\ LateInv'
  <2>1. \A d \in Controllers : \A i \in Ids : Has(d, i)' => Has(d, i)
    BY <1>7 DEF Has
  <2>2. \A m \in net' : m.tag # 0 /\ m.kind = "detach" => m \in net
    BY <1>7
  <2> QED
    BY <1>2, <2>1, <2>2, OwnersKeep DEF IInv
<1>11. AgentInv'
  BY DEF IInv, AgentInv
<1>12. LeaseInv'
  <2> SUFFICES ASSUME faults' = 0, NEW d \in Controllers
               PROVE  Granting(d)' /\ Renewing(d)'
    BY DEF LeaseInv
  <2>1. Granting(d) /\ Renewing(d)
    BY DEF IInv, LeaseInv
  <2>2. Granting(d)'
    BY <1>7, <2>1 DEF Granting
  <2> QED
    BY <1>3, <2>1, <2>2 DEF Renewing
<1>13. ASSUME NEW m \in net'
       PROVE  MessageInv(m)'
  <2>1. CASE m \in net /\ (m.tag = 0 /\ m.kind = "renew" => m.from # c)
    BY <1>3, <2>1, Senders DEF MessageInv
  <2>2. CASE m.tag # 0 /\ m.kind = "renew"
    BY <2>2 DEF MessageInv
  <2> QED
    BY <1>7, <2>1, <2>2
<1>14. ASSUME NEW d \in Controllers
       PROVE  PhaseInv(d)' /\ LocalInv(d)'
  <2>1. PhaseInv(d) /\ LocalInv(d)
    BY DEF IInv
  <2> QED
    BY <1>3, <2>1 DEF PhaseInv, LocalInv
<1>15. CountInv'
  <2>1. Attaches' \subseteq Attaches /\ Launched' \subseteq Launched
    BY <1>3, <1>7 DEF Attaches, Launched
  <2> QED
    BY <1>2, <2>1, CountKeeps
<1> QED
  BY <1>8, <1>9, <1>10, <1>11, <1>12, <1>13, <1>14, <1>15 DEF IInv

(* A round of health checks.                                               *)
LEMMA HealthKeeps ==
    ASSUME IInv, NEW c \in Controllers, NEW l \in BOOLEAN, NEW r \in BOOLEAN,
           HealthChecked(c, l, r)
    PROVE  IInv'
<1> DEFINE count == [local |-> Count(failures[c].local, l), remote |-> Count(failures[c].remote, r)]
<1>1. /\ UNCHANGED <<local, grant, age, up, remote, timer, granted, launches, spoiled>>
      /\ pc[c] = "streaming"
  BY DEF HealthChecked, agentVars
<1>2. TypeOK /\ launches \in Nat /\ CountInv
  BY ParameterAssumption DEF IInv, TypeOK
<1>3. faults' = faults \/ (faults' \in 0 .. MaxFaults /\ faults' # 0)
  BY <1>2, FaultTag DEF HealthChecked
<1>4. CASE StreamOver(c)
  BY <1>1, <1>3, <1>4, OverKeeps
<1>5. CASE /\ ~ (count.local >= HealthLimit \/ count.remote >= HealthLimit)
           /\ failures' = [failures EXCEPT ![c] = count]
           /\ UNCHANGED <<pc, beating, beat, renewing, net>>
  <2>1. failures[c].local \in 0 .. HealthLimit /\ failures[c].remote \in 0 .. HealthLimit
    BY <1>2 DEF TypeOK
  <2>2. Count(failures[c].local, l) \in 0 .. HealthLimit
    BY <1>5, <2>1, ParameterAssumption DEF Count
  <2>3. Count(failures[c].remote, r) \in 0 .. HealthLimit
    BY <1>5, <2>1, ParameterAssumption DEF Count
  <2>4. count \in [local : 0 .. HealthLimit, remote : 0 .. HealthLimit]
    BY <2>2, <2>3
  <2>5. failures' \in [Controllers -> [local : 0 .. HealthLimit, remote : 0 .. HealthLimit]]
    <3> HIDE DEF count
    <3> QED
      BY <1>2, <1>5, <2>4 DEF TypeOK
  <2>6. TypeOK'
    BY <1>1, <1>2, <1>3, <1>5, <2>5 DEF TypeOK
  <2>7. OneCall' /\ LateInv' /\ OwnerInv' /\ AgentInv'
    BY <1>1, <1>3, <1>5
    DEF IInv, OneCall, MainCall, Awaited, LateInv, Spent, Has, OwnerInv, Claims, AgentInv
  <2>8. LeaseInv'
    <3> SUFFICES ASSUME faults' = 0, NEW d \in Controllers
                 PROVE  Granting(d)' /\ Renewing(d)'
      BY DEF LeaseInv
    <3>1. Granting(d) /\ Renewing(d)
      BY <1>3 DEF IInv, LeaseInv
    <3> QED
      BY <1>1, <1>5, <3>1 DEF Granting, Renewing
  <2>9. ASSUME NEW m \in net'
        PROVE  MessageInv(m)'
    BY <1>1, <1>3, <1>5, Senders DEF MessageInv
  <2>10. ASSUME NEW d \in Controllers
         PROVE  PhaseInv(d)' /\ LocalInv(d)'
    <3>1. PhaseInv(d) /\ LocalInv(d)
      BY DEF IInv
    <3> QED
      BY <1>1, <1>5, <3>1 DEF PhaseInv, LocalInv
  <2>11. CountInv'
    <3>1. Attaches' \subseteq Attaches /\ Launched' \subseteq Launched
      BY <1>5 DEF Attaches, Launched
    <3> QED
      BY <1>1, <1>2, <3>1, CountKeeps
  <2> QED
    BY <2>6, <2>7, <2>8, <2>9, <2>10, <2>11 DEF IInv
<1> QED
  BY <1>4, <1>5 DEF HealthChecked

(* detach_session begins.                                                  *)
LEMMA DetachSentKeeps ==
    ASSUME IInv, NEW c \in Controllers, DetachSent(c)
    PROVE  IInv'
<1> DEFINE r == Msg("detach", c, grant[c])
<1>1. /\ UNCHANGED <<grant, beating, beat, renewing, failures, up, remote, timer, granted, launches>>
      /\ pc[c] = "ending" /\ pc' = [pc EXCEPT ![c] = "detaching"]
      /\ age' = [age EXCEPT ![c] = 0] /\ net' = net \cup {r}
  BY DEF DetachSent, agentVars
<1>2. TypeOK /\ launches \in Nat /\ CountInv /\ granted \subseteq Ids
  BY ParameterAssumption DEF IInv, TypeOK
<1>3. r \in Message /\ r.kind = "detach" /\ r.from = c /\ r.tag = 0 /\ r.id = grant[c]
  BY <1>2, ParameterAssumption DEF Msg, Message, TypeOK
<1> HIDE DEF r
<1>4. /\ local' \in [Controllers -> BOOLEAN]
      /\ \A d \in Controllers \ {c} : local'[d] = local[d]
      /\ c \notin spoiled' => ~ local'[c]
      /\ spoiled \subseteq spoiled' /\ spoiled' \subseteq spoiled \cup {c}
      /\ faults' = faults \/ (faults' \in 0 .. MaxFaults /\ faults' # 0)
  BY <1>2, Cleared DEF DetachSent
<1>5. /\ pc' \in [Controllers -> Phases] /\ pc'[c] = "detaching"
      /\ age' \in [Controllers -> 0 .. RequestTimeout]
      /\ \A d \in Controllers \ {c} : pc'[d] = pc[d] /\ age'[d] = age[d]
  BY <1>1, <1>2, ParameterAssumption DEF TypeOK, Phases
<1>6. \A m \in net : m.tag = 0 /\ m.kind # "renew" => m.from # c
  BY <1>1, Senders DEF MessageInv, Message
<1>7. TypeOK'
  BY <1>1, <1>2, <1>3, <1>4, <1>5 DEF TypeOK
<1>8. OneCall'
  BY <1>1, <1>3, <1>6 DEF IInv, OneCall, MainCall, Awaited
<1>9. OwnerInv' /\ LateInv'
  <2>1. \A d \in Controllers : \A i \in Ids : Has(d, i)' => Has(d, i)
    BY <1>1, <1>3 DEF Has
  <2>2. \A m \in net' : m.tag # 0 /\ m.kind = "detach" => m \in net
    BY <1>1, <1>3
  <2> QED
    BY <1>1, <1>2, <2>1, <2>2, OwnersKeep DEF IInv
<1>10. AgentInv'
  BY <1>1, <1>4 DEF IInv, AgentInv
<1>11. LeaseInv'
  <2> SUFFICES ASSUME faults' = 0, NEW d \in Controllers
               PROVE  Granting(d)' /\ Renewing(d)'
    BY DEF LeaseInv
  <2>1. Granting(d) /\ Renewing(d)
    BY <1>4 DEF IInv, LeaseInv
  <2>2. \A m \in net : m.kind = "granted" => m.from # c
    BY <1>6, Senders DEF MessageInv
  <2>3. Granting(d)'
    BY <1>1, <1>3, <1>5, <2>1, <2>2 DEF Granting
  <2> QED
    BY <1>1, <1>5, <2>1, <2>3 DEF Renewing
<1>12. ASSUME NEW m \in net'
       PROVE  MessageInv(m)'
  <2>1. CASE m \in net
    <3>1. MessageInv(m) /\ m.from \in Controllers
      BY <2>1, Senders
    <3>2. m.tag = 0 /\ m.kind # "renew" => m.from # c
      BY <1>6, <2>1
    <3> QED
      BY <1>1, <1>4, <1>5, <3>1, <3>2 DEF MessageInv
  <2>2. CASE m = r
    BY <1>1, <1>3, <1>5, <2>2 DEF MessageInv
  <2> QED
    BY <1>1, <2>1, <2>2
<1>13. ASSUME NEW d \in Controllers
       PROVE  PhaseInv(d)' /\ LocalInv(d)'
  <2>1. PhaseInv(d) /\ LocalInv(d)
    BY DEF IInv
  <2> QED
    BY <1>1, <1>4, <1>5, <2>1 DEF PhaseInv, LocalInv
<1>14. CountInv'
  <2>1. Attaches' \subseteq Attaches /\ Launched' \subseteq Launched
    BY <1>1, <1>3, <1>5 DEF Attaches, Launched
  <2> QED
    BY <1>1, <1>2, <2>1, CountKeeps
<1> QED
  BY <1>7, <1>8, <1>9, <1>10, <1>11, <1>12, <1>13, <1>14 DEF IInv

(* The answer to an attach takes the place of the attach, if anyone waits  *)
(* for it.                                                                 *)
LEMMA Answered ==
    ASSUME IInv, NEW m \in net, m.kind = "attach", NEW kind \in {"granted", "refused"},
           NEW i \in 0 .. MaxLaunches, net' = Answer(m, kind, i)
    PROVE  /\ net' \subseteq Message /\ OneCall' /\ m \notin net' /\ m.from \in Controllers
           /\ \A x \in net' :
                 \/ x \in net
                 \/ /\ x.kind = kind /\ x.tag = 0 /\ x.id = i /\ x.from = m.from
                    /\ m.tag = 0 /\ pc[m.from] = "attaching"
           /\ m.tag = 0 => \A x \in net' : x \in net /\ x.tag = 0 /\ x.kind # "renew" =>
                                               x.from # m.from
           /\ Attaches' \subseteq Attaches \ {m}
<1> DEFINE a == Msg(kind, m.from, i)
<1>1. m \in Message /\ m.from \in Controllers /\ MessageInv(m)
  BY Senders
<1>2. a \in Message /\ a.kind = kind /\ a.tag = 0 /\ a.id = i /\ a.from = m.from
  BY <1>1, ParameterAssumption DEF Msg, Message
<1>3. \A x \in net' : (x \in net /\ x # m) \/ (m.tag = 0 /\ x = a)
  BY DEF Answer
<1> HIDE DEF a
<1>4. net' \subseteq Message
  BY <1>2, <1>3 DEF IInv, TypeOK
<1>5. m.tag = 0 => \A x \in net : x # m /\ x.tag = 0 /\ x.kind # "renew" => x.from # m.from
  BY <1>1 DEF IInv, OneCall, MainCall, Awaited
<1>6. m \notin net'
  BY <1>2, <1>3
<1>7. OneCall'
  <2> SUFFICES ASSUME NEW c \in Controllers, NEW x \in net', NEW y \in net',
                      x.from = c, y.from = c, x.tag = 0, y.tag = 0,
                      x.kind # "renew", y.kind # "renew"
               PROVE  x = y
    BY DEF OneCall, MainCall, Awaited
  <2>1. CASE x \in net /\ y \in net
    BY <2>1 DEF IInv, OneCall, MainCall, Awaited
  <2>2. CASE x \notin net \/ y \notin net
    <3>1. m.tag = 0 /\ c = m.from /\ x # m /\ y # m
      BY <1>2, <1>3, <1>6, <2>2
    <3>2. x \notin net \/ x = a
      BY <1>5, <2>2, <3>1
    <3>3. y \notin net \/ y = a
      BY <1>5, <2>2, <3>1
    <3> QED
      BY <1>3, <3>2, <3>3
  <2> QED
    BY <2>1, <2>2
<1>8. \A x \in net' :
         \/ x \in net
         \/ /\ x.kind = kind /\ x.tag = 0 /\ x.id = i /\ x.from = m.from
            /\ m.tag = 0 /\ pc[m.from] = "attaching"
  BY <1>1, <1>2, <1>3 DEF MessageInv
<1>9. Attaches' \subseteq Attaches \ {m}
  BY <1>2, <1>3 DEF Attaches
<1> QED
  BY <1>1, <1>3, <1>4, <1>5, <1>6, <1>7, <1>8, <1>9

(* An attach that is refused, for whatever reason.                         *)
LEMMA RefusedKeeps ==
    ASSUME IInv, NEW m \in net, m.kind = "attach", net' = Answer(m, "refused", None),
           UNCHANGED <<connectVars, up, granted, launches>>,
           \/ UNCHANGED <<remote, timer, faults>>
           \/ /\ Fault
              /\ UNCHANGED <<remote, timer>> \/ (remote' = NoSession /\ timer' = 0)
    PROVE  IInv'
<1>1. UNCHANGED <<pc, local, grant, age, beating, beat, renewing, failures, spoiled,
                  up, granted, launches>>
  BY DEF connectVars
<1>2. TypeOK /\ launches \in Nat /\ CountInv /\ granted \subseteq Ids
  BY ParameterAssumption DEF IInv, TypeOK
<1>3. /\ UNCHANGED <<remote, timer>> \/ (remote' = NoSession /\ timer' = 0)
      /\ \/ UNCHANGED <<remote, timer, faults>>
         \/ faults' \in 0 .. MaxFaults /\ faults' # 0
  BY <1>2, FaultTag
<1>4. /\ net' \subseteq Message /\ OneCall'
      /\ \A x \in net' : \/ x \in net
                         \/ x.kind = "refused" /\ x.tag = 0 /\ pc[x.from] = "attaching"
      /\ Attaches' \subseteq Attaches
  <2>1. None \in 0 .. MaxLaunches
    BY ParameterAssumption DEF None
  <2> QED
    BY <2>1, Answered
<1>5. TypeOK'
  BY <1>1, <1>2, <1>3, <1>4, ParameterAssumption DEF TypeOK
<1>6. OwnerInv' /\ LateInv'
  <2>1. \A d \in Controllers : \A i \in Ids : Has(d, i)' => Has(d, i)
    BY <1>1, <1>4 DEF Has
  <2>2. \A x \in net' : x.tag # 0 /\ x.kind = "detach" => x \in net
    BY <1>4
  <2> QED
    BY <1>1, <1>2, <1>3, <2>1, <2>2, OwnersKeep DEF IInv
<1>7. AgentInv'
  BY <1>1, <1>3 DEF IInv, AgentInv
<1>8. LeaseInv'
  <2> SUFFICES ASSUME faults' = 0, NEW d \in Controllers
               PROVE  Granting(d)' /\ Renewing(d)'
    BY DEF LeaseInv
  <2>1. UNCHANGED <<remote, timer, faults>>
    BY <1>3
  <2>2. Granting(d) /\ Renewing(d)
    BY <2>1 DEF IInv, LeaseInv
  <2> QED
    BY <1>1, <1>4, <2>1, <2>2 DEF Granting, Renewing
<1>9. ASSUME NEW x \in net'
      PROVE  MessageInv(x)'
  <2>1. CASE x \in net
    BY <1>1, <1>3, <2>1, Senders DEF MessageInv
  <2>2. CASE x.kind = "refused" /\ x.tag = 0 /\ pc[x.from] = "attaching"
    BY <1>1, <2>2 DEF MessageInv
  <2> QED
    BY <1>4, <2>1, <2>2
<1>10. ASSUME NEW d \in Controllers
       PROVE  PhaseInv(d)' /\ LocalInv(d)'
  <2>1. PhaseInv(d) /\ LocalInv(d)
    BY DEF IInv
  <2> QED
    BY <1>1, <2>1 DEF PhaseInv, LocalInv
<1>11. CountInv'
  <2>1. Launched' \subseteq Launched
    BY <1>1 DEF Launched
  <2> QED
    BY <1>1, <1>2, <1>4, <2>1, CountKeeps
<1> QED
  BY <1>4, <1>5, <1>6, <1>7, <1>8, <1>9, <1>10, <1>11 DEF IInv

(* Identifiers are handed out in order.                                    *)
LEMMA NewIdIsNext ==
    ASSUME NEW n \in Nat, granted = 1 .. n
    PROVE  NewId = n + 1
<1>1. CASE n = 0
  BY <1>1 DEF NewId
<1>2. CASE n # 0
  <2> DEFINE P(i) == \A j \in 1 .. n : j <= i
  <2>1. n \in 1 .. n /\ P(n)
    BY <1>2
  <2>2. \A i \in 1 .. n : P(i) => i = n
    BY <2>1
  <2>3. (CHOOSE i \in 1 .. n : P(i)) = n
    <3> HIDE DEF P
    <3> QED
      BY <2>1, <2>2
  <2>4. (CHOOSE i \in granted : \A j \in granted : j <= i) = n
    BY <2>3
  <2> QED
    <3> DEFINE z == CHOOSE i \in granted : \A j \in granted : j <= i
    <3>1. granted # {}
      BY <2>1
    <3>2. NewId = 1 + z
      BY <3>1 DEF NewId
    <3>3. z = n
      BY <2>4
    <3> HIDE DEF z
    <3> QED
      BY <3>2, <3>3
<1> QED
  BY <1>1, <1>2

(* A session is granted.  While nothing goes wrong, nobody else has one:   *)
(* the lease of anyone who has would still be running.                     *)
LEMMA GrantedKeeps ==
    ASSUME IInv, up, NEW m \in net, m.kind = "attach", ~ HeldByOther(m.from),
           remote' = [id |-> NewId, owner |-> m.from], timer' = Lease,
           granted' = granted \cup {NewId}, net' = Answer(m, "granted", NewId),
           UNCHANGED <<connectVars, up, launches, faults>>
    PROVE  IInv'
<1>1. UNCHANGED <<pc, local, grant, age, beating, beat, renewing, failures, spoiled,
                  up, launches, faults>>
  BY DEF connectVars
<1>2. /\ TypeOK /\ OwnerInv /\ LateInv /\ granted \subseteq Ids
      /\ IsFiniteSet(Attaches) /\ IsFiniteSet(Launched) /\ launches \in 0 .. MaxLaunches
  BY DEF IInv, TypeOK, CountInv
<1>3. PICK n \in 0 .. MaxLaunches :
         granted = 1 .. n /\ n + Cardinality(Attaches) + Cardinality(Launched) <= launches
  BY DEF IInv, CountInv
<1>4. NewId = n + 1 /\ n \in Nat
  BY <1>3, NewIdIsNext, ParameterAssumption
<1>5. Cardinality(Attaches \ {m}) = Cardinality(Attaches) - 1 /\ IsFiniteSet(Attaches \ {m})
  <2>1. m \in Attaches
    BY DEF Attaches
  <2> QED
    BY <1>2, <2>1, FS_RemoveElement
<1>6. /\ Cardinality(Attaches) \in Nat /\ Cardinality(Attaches \ {m}) \in Nat
      /\ Cardinality(Launched) \in Nat
  BY <1>2, <1>5, FS_CardinalityType
<1>7. n + 1 \in 1 .. MaxLaunches
  BY <1>2, <1>3, <1>5, <1>6, ParameterAssumption
<1> DEFINE k == n + 1
<1>8. /\ k \in Ids /\ k # None /\ k \notin granted /\ k \in 0 .. MaxLaunches
      /\ granted' = 1 .. k /\ granted' = granted \cup {k}
      /\ remote' = [id |-> k, owner |-> m.from] /\ net' = Answer(m, "granted", k)
  BY <1>3, <1>4, <1>7, ParameterAssumption DEF Ids, None
<1>9. n + 1 + Cardinality(Attaches \ {m}) + Cardinality(Launched) <= launches
  BY <1>2, <1>3, <1>5, <1>6, ParameterAssumption
<1>10. k + Cardinality(Attaches \ {m}) + Cardinality(Launched) <= launches
  BY <1>9
<1> HIDE DEF k
<1>11. /\ net' \subseteq Message /\ OneCall' /\ m \notin net' /\ m.from \in Controllers
       /\ \A x \in net' :
             \/ x \in net
             \/ /\ x.kind = "granted" /\ x.tag = 0 /\ x.id = k /\ x.from = m.from
                /\ m.tag = 0 /\ pc[m.from] = "attaching"
       /\ m.tag = 0 => \A x \in net' : x \in net /\ x.tag = 0 /\ x.kind # "renew" =>
                                           x.from # m.from
       /\ Attaches' \subseteq Attaches \ {m}
  BY <1>8, Answered
<1>12. CountInv'
  <2>1. Launched' = Launched
    BY <1>1 DEF Launched
  <2>2. IsFiniteSet(Attaches') /\ Cardinality(Attaches') <= Cardinality(Attaches \ {m})
    BY <1>5, <1>11, FS_Subset
  <2>3. Cardinality(Attaches') \in Nat /\ k \in Int /\ launches \in Int
    BY <1>2, <1>8, <2>2, FS_CardinalityType
  <2>4. k + Cardinality(Attaches') + Cardinality(Launched) <= launches
    BY <1>6, <1>10, <2>2, <2>3
  <2> QED
    BY <1>1, <1>2, <1>8, <2>1, <2>2, <2>4 DEF CountInv
<1>13. TypeOK'
  <2>1. remote' \in Session /\ timer' \in 0 .. Lease /\ granted' \subseteq Ids
    BY <1>2, <1>8, <1>11, ParameterAssumption DEF Session
  <2> QED
    BY <1>1, <1>2, <1>11, <2>1 DEF TypeOK
<1>14. remote' # NoSession /\ remote'.id = k /\ remote'.owner = m.from
  BY <1>8, <1>11, NoSessionAssumption DEF Session
<1>15. \A d \in Controllers : ~ Has(d, k)
  <2>1. \A d \in Controllers : grant[d] # k
    BY <1>8 DEF IInv, PhaseInv
  <2>2. \A x \in net : x.kind = "granted" => x.id # k
    BY <1>8, Senders DEF MessageInv
  <2> QED
    BY <2>1, <2>2 DEF Has
<1>16. \A d \in Controllers : \A i \in Ids :
          /\ Has(d, i)' => Has(d, i) \/ (i = k /\ d = m.from)
          /\ i # k /\ Claims(d, i)' => Claims(d, i)
  BY <1>1, <1>11, <1>14 DEF Claims, Has
<1>17. OwnerInv'
  <2>1. ASSUME NEW i \in Ids, NEW c \in Controllers, NEW d \in Controllers,
               Claims(c, i)', Claims(d, i)'
        PROVE  c = d
    <3>1. CASE i # k
      BY <1>2, <1>16, <2>1, <3>1 DEF OwnerInv
    <3>2. CASE i = k
      BY <1>14, <1>15, <1>16, <2>1, <3>2 DEF Claims
    <3> QED
      BY <3>1, <3>2
  <2> QED
    BY <1>8, <1>14, <2>1 DEF OwnerInv
<1>18. LateInv'
  <2> SUFFICES ASSUME NEW x \in net', x.tag # 0, x.kind = "detach"
               PROVE  Spent(x.id)'
    BY DEF LateInv
  <2>1. x \in net
    BY <1>11
  <2>2. Spent(x.id)
    BY <1>2, <2>1 DEF LateInv
  <2>3. x.id \in granted /\ x.id \in Ids /\ x.id # k
    BY <1>2, <1>8, <2>2 DEF Spent
  <2> QED
    BY <1>8, <1>16, <2>2, <2>3 DEF Spent
<1>19. AgentInv'
  BY <1>1, <1>14 DEF AgentInv
<1>20. LeaseInv'
  <2> SUFFICES ASSUME faults = 0, NEW d \in Controllers
               PROVE  Granting(d)' /\ Renewing(d)'
    BY <1>1 DEF LeaseInv
  <2>1. m.tag = 0 /\ pc[m.from] = "attaching"
    BY Senders DEF MessageInv
  <2>2. AgentInv /\ LeaseInv /\ Granting(d) /\ Renewing(d)
    BY DEF IInv, LeaseInv
  <2>3. ASSUME d # m.from
        PROVE  /\ ~ (pc[d] = "streaming" /\ grant[d] # None)
               /\ \A x \in net : x.kind = "granted" => x.from # d
    <3>1. ASSUME pc[d] = "streaming", grant[d] # None
          PROVE  FALSE
      <4>1. Live
        BY <1>2, <2>2, <3>1, LeaseLasts
      <4>2. remote = [id |-> grant[d], owner |-> d]
        BY <2>2, <3>1 DEF Renewing
      <4> QED
        BY <2>3, <4>1, <4>2 DEF HeldByOther
    <3>2. ASSUME NEW x \in net, x.kind = "granted", x.from = d
          PROVE  FALSE
      <4>1. Live
        BY <1>2, <2>2, <3>2, LeaseLasts
      <4>2. remote = [id |-> x.id, owner |-> d]
        BY <2>2, <3>2 DEF Granting
      <4> QED
        BY <2>3, <4>1, <4>2 DEF HeldByOther
    <3> QED
      BY <3>1, <3>2
  <2>4. Renewing(d)'
    BY <1>1, <2>1, <2>3 DEF Renewing
  <2>5. ASSUME NEW x \in net', x.kind = "granted", x.from = d
        PROVE  x.id = k /\ d = m.from
    <3>1. CASE x \in net
      <4>1. x.tag = 0
        BY <3>1, <2>5, Senders DEF MessageInv
      <4> QED
        BY <1>11, <2>1, <2>3, <2>5, <3>1, <4>1
    <3>2. CASE x \notin net
      BY <1>11, <2>5, <3>2
    <3> QED
      BY <3>1, <3>2
  <2>6. age[d] \in Nat /\ Lease >= Lease - age[d]
    <3>1. age[d] \in Nat
      BY <1>2, ParameterAssumption DEF TypeOK
    <3> QED
      BY <3>1, ParameterAssumption
  <2>7. Granting(d)'
    BY <1>1, <1>8, <2>5, <2>6 DEF Granting
  <2> QED
    BY <2>4, <2>7
<1>21. ASSUME NEW x \in net'
       PROVE  MessageInv(x)'
  <2>1. CASE x \in net
    BY <1>1, <1>8, <2>1, Senders DEF MessageInv
  <2>2. CASE x.kind = "granted" /\ x.tag = 0 /\ x.id = k /\ pc[x.from] = "attaching"
    BY <1>1, <1>8, <2>2 DEF MessageInv
  <2> QED
    BY <1>11, <2>1, <2>2
<1>22. ASSUME NEW d \in Controllers
       PROVE  PhaseInv(d)' /\ LocalInv(d)'
  <2>1. PhaseInv(d) /\ LocalInv(d)
    BY DEF IInv
  <2> QED
    BY <1>1, <1>8, <2>1 DEF PhaseInv, LocalInv
<1> QED
  BY <1>11, <1>12, <1>13, <1>17, <1>18, <1>19, <1>20, <1>21, <1>22 DEF IInv

(* The agent serves an attach.                                             *)
LEMMA ServeAttachKeeps ==
    ASSUME IInv, NEW m \in net, ServeAttach(m)
    PROVE  IInv'
<1>1. up /\ m.kind = "attach" /\ UNCHANGED <<connectVars, up, launches>>
  BY DEF ServeAttach
<1>2. CASE /\ ~ HeldByOther(m.from)
           /\ remote' = [id |-> NewId, owner |-> m.from] /\ timer' = Lease
           /\ granted' = granted \cup {NewId} /\ net' = Answer(m, "granted", NewId)
           /\ UNCHANGED faults
  BY <1>1, <1>2, GrantedKeeps
<1>3. CASE /\ net' = Answer(m, "refused", None) /\ UNCHANGED granted
           /\ \/ UNCHANGED <<remote, timer, faults>>
              \/ /\ Fault
                 /\ UNCHANGED <<remote, timer>> \/ (remote' = NoSession /\ timer' = 0)
  <2>1. UNCHANGED <<connectVars, up, granted, launches>>
    BY <1>1, <1>3
  <2> QED
    BY <1>1, <1>3, <2>1, RefusedKeeps
<1> QED
  BY <1>2, <1>3 DEF ServeAttach

(* A renewal is served, by the agent or by its absence.  While nothing     *)
(* goes wrong, an awaited renewal names the agent's session.               *)
LEMMA RenewServed ==
    ASSUME IInv, NEW m \in net, m.kind = "renew", net' = net \ {m},
           renewing' = IF m.tag = 0 THEN [renewing EXCEPT ![m.from] = Quiet] ELSE renewing,
           timer' = timer \/ (timer' = Lease /\ remote # NoSession),
           faults = 0 /\ Names(m) /\ timer > 0 => timer' = Lease,
           UNCHANGED <<pc, local, grant, age, beating, beat, failures, up, remote, granted,
                       launches, faults, spoiled>>
    PROVE  IInv'
<1>1. /\ TypeOK /\ launches \in Nat /\ CountInv /\ granted \subseteq Ids
      /\ timer \in 0 .. Lease
  BY ParameterAssumption DEF IInv, TypeOK
<1>2. m.from \in Controllers /\ MessageInv(m)
  BY Senders
<1>3. /\ renewing' \in [Controllers -> Quiet .. RequestTimeout]
      /\ \A d \in Controllers : \/ m.tag = 0 /\ d = m.from /\ renewing'[d] = Quiet
                                \/ ~ (m.tag = 0 /\ d = m.from) /\ renewing'[d] = renewing[d]
  <2>1. Quiet \in Quiet .. RequestTimeout
    BY Intervals DEF Quiet
  <2>2. CASE m.tag = 0
    <3>1. renewing' = [renewing EXCEPT ![m.from] = Quiet] /\ m.from \in Controllers
      BY <1>2, <2>2
    <3> QED
      BY <1>1, <2>1, <2>2, <3>1 DEF TypeOK
  <2>3. CASE m.tag # 0
    BY <1>1, <2>3 DEF TypeOK
  <2> QED
    BY <2>2, <2>3
<1>4. timer' \in 0 .. Lease /\ timer' >= timer
  BY <1>1, ParameterAssumption
<1>5. TypeOK'
  BY <1>1, <1>3, <1>4 DEF TypeOK
<1>6. OneCall'
  BY DEF IInv, OneCall, MainCall, Awaited
<1>7. OwnerInv' /\ LateInv'
  <2>1. \A d \in Controllers : \A i \in Ids : Has(d, i)' => Has(d, i)
    BY DEF Has
  <2> QED
    BY <1>1, <2>1, OwnersKeep DEF IInv
<1>8. AgentInv'
  BY DEF IInv, AgentInv
<1>9. LeaseInv'
  <2> SUFFICES ASSUME faults = 0, NEW d \in Controllers
               PROVE  Granting(d)' /\ Renewing(d)'
    BY DEF LeaseInv
  <2>1. Granting(d) /\ Renewing(d) /\ AgentInv /\ LeaseInv /\ PhaseInv(d)
    BY DEF IInv, LeaseInv
  <2>2. /\ timer \in Int /\ timer' \in Int /\ age[d] \in Int
        /\ beat[d] \in Int /\ beat[d] <= RenewalInterval
        /\ renewing[d] \in Int
    BY <1>1, <1>4, Intervals DEF TypeOK, Quiet
  <2>3. Granting(d)'
    <3>1. timer >= Lease - age[d] => timer' >= Lease - age[d]
      BY <1>4, <2>2, Intervals
    <3> QED
      BY <2>1, <3>1 DEF Granting
  <2>4. CASE m.tag = 0 /\ d = m.from
    <3> SUFFICES ASSUME pc[d] = "streaming", grant[d] # None
                 PROVE  /\ remote = [id |-> grant[d], owner |-> d]
                        /\ timer' >= Lease - RequestTimeout - (RenewalInterval - beat[d])
      BY <1>3, <2>3, <2>4 DEF Renewing
    <3>1. remote = [id |-> grant[d], owner |-> d]
      BY <2>1 DEF Renewing
    <3>2. m.id = grant[d]
      BY <1>2, <2>1, <2>4 DEF MessageInv, PhaseInv
    <3>3. Live /\ timer > 0
      BY <1>1, <2>1, LeaseLasts
    <3>4. Names(m)
      BY <2>4, <3>1, <3>2, <3>3 DEF Names, Live
    <3>5. timer' = Lease
      BY <3>3, <3>4
    <3>6. Lease >= Lease - RequestTimeout - (RenewalInterval - beat[d])
      BY <2>2, Intervals
    <3> QED
      BY <3>1, <3>5, <3>6
  <2>5. CASE ~ (m.tag = 0 /\ d = m.from)
    <3>1. renewing'[d] = renewing[d]
      BY <1>3, <2>5
    <3>2. /\ timer >= Lease - RequestTimeout - (RenewalInterval - beat[d]) =>
                timer' >= Lease - RequestTimeout - (RenewalInterval - beat[d])
          /\ timer >= Lease - RequestTimeout - RenewalInterval - renewing[d] =>
                timer' >= Lease - RequestTimeout - RenewalInterval - renewing[d]
      BY <1>4, <2>2, Intervals
    <3> QED
      BY <2>1, <2>3, <3>1, <3>2 DEF Renewing
  <2> QED
    BY <2>4, <2>5
<1>10. ASSUME NEW x \in net'
       PROVE  MessageInv(x)'
  BY Senders DEF MessageInv
<1>11. ASSUME NEW d \in Controllers
       PROVE  PhaseInv(d)' /\ LocalInv(d)'
  <2>1. PhaseInv(d) /\ LocalInv(d)
    BY DEF IInv
  <2> QED
    BY <1>3, <2>1 DEF PhaseInv, LocalInv
<1>12. CountInv'
  <2>1. Attaches' \subseteq Attaches /\ Launched' \subseteq Launched
    BY DEF Attaches, Launched
  <2> QED
    BY <1>1, <2>1, CountKeeps
<1> QED
  BY <1>5, <1>6, <1>7, <1>8, <1>9, <1>10, <1>11, <1>12 DEF IInv

(* A detach is served, by the agent or by its absence; whoever waits for   *)
(* it is done.                                                             *)
LEMMA DetachServed ==
    ASSUME IInv, NEW m \in net, m.kind = "detach", net' = net \ {m},
           IF m.tag = 0 THEN Finished(m.from) ELSE UNCHANGED <<pc, grant>>,
           \/ UNCHANGED <<remote, timer>>
           \/ Names(m) /\ remote' = NoSession /\ timer' = 0,
           faults' = faults \/ (faults' \in 0 .. MaxFaults /\ faults' # 0),
           UNCHANGED <<local, age, beating, beat, renewing, failures, up, granted, launches,
                       spoiled>>
    PROVE  IInv'
<1> DEFINE c == m.from
<1>1. TypeOK /\ launches \in Nat /\ CountInv /\ granted \subseteq Ids
  BY ParameterAssumption DEF IInv, TypeOK
<1>2. c \in Controllers /\ MessageInv(m) /\ PhaseInv(c) /\ LocalInv(c)
  BY Senders DEF IInv
<1>3. m.tag = 0 => pc[c] = "detaching" /\ beating[c] = None
  BY <1>2 DEF MessageInv, PhaseInv
<1>4. m.tag = 0 => \A x \in net' : x.tag = 0 => x.from # c
  <2> SUFFICES ASSUME m.tag = 0, NEW x \in net', x.tag = 0, x.from = c
               PROVE  FALSE
    OBVIOUS
  <2>1. x \in net /\ x # m /\ MessageInv(x)
    BY Senders
  <2>2. x.kind # "renew"
    BY <1>3, <2>1 DEF MessageInv
  <2> QED
    BY <1>2, <2>1, <2>2 DEF IInv, OneCall, MainCall, Awaited
<1>5. \A x \in net' : x \in net /\ (x.kind = "granted" => x.tag = 0)
  BY Senders DEF MessageInv
<1> HIDE DEF c
<1>6. /\ OwnerInv' /\ LateInv'
      /\ pc' \in [Controllers -> Phases] /\ grant' \in [Controllers -> 0 .. MaxLaunches]
      /\ m.tag = 0 => pc'[c] = "idle" /\ grant'[c] = None
      /\ \A d \in Controllers : ~ (m.tag = 0 /\ d = c) => pc'[d] = pc[d] /\ grant'[d] = grant[d]
  <2>1. CASE m.tag = 0
    <3>1. pc' = [pc EXCEPT ![c] = "idle"] /\ grant' = [grant EXCEPT ![c] = None]
      BY <2>1 DEF Finished, c
    <3>2. /\ pc' \in [Controllers -> Phases] /\ pc'[c] = "idle"
          /\ \A d \in Controllers \ {c} : pc'[d] = pc[d]
      BY <1>1, <1>2, <3>1 DEF TypeOK, Phases
    <3>3. \A x \in net' : x.kind = "granted" => x \in net /\ x.from # c
      BY <1>4, <1>5, <2>1
    <3>4. \A x \in net' : x.tag # 0 /\ x.kind = "detach" => x \in net
      BY <1>5
    <3>5. remote' = remote \/ remote' = NoSession
      OBVIOUS
    <3>6. /\ OwnerInv' /\ LateInv'
          /\ grant' \in [Controllers -> 0 .. MaxLaunches] /\ grant'[c] = None
          /\ \A d \in Controllers \ {c} : grant'[d] = grant[d]
      BY <1>2, <3>1, <3>3, <3>4, <3>5, DetachSpent
    <3> QED
      BY <2>1, <3>2, <3>6
  <2>2. CASE m.tag # 0
    <3>1. UNCHANGED <<pc, grant>>
      BY <2>2
    <3>2. \A d \in Controllers : \A i \in Ids : Has(d, i)' => Has(d, i)
      BY <3>1 DEF Has
    <3>3. OwnerInv' /\ LateInv'
      BY <1>1, <1>5, <3>2, OwnersKeep DEF IInv
    <3> QED
      BY <1>1, <2>2, <3>1, <3>3 DEF TypeOK
  <2> QED
    BY <2>1, <2>2
<1>7. TypeOK'
  BY <1>1, <1>6, ParameterAssumption DEF TypeOK
<1>8. OneCall'
  BY DEF IInv, OneCall, MainCall, Awaited
<1>9. AgentInv'
  BY DEF IInv, AgentInv
<1>10. LeaseInv'
  <2> SUFFICES ASSUME faults' = 0, NEW d \in Controllers
               PROVE  Granting(d)' /\ Renewing(d)'
    BY DEF LeaseInv
  <2>1. Granting(d) /\ Renewing(d) /\ faults = 0
    BY DEF IInv, LeaseInv
  <2>2. m.tag = 0
    BY <1>2, <2>1 DEF MessageInv
  <2>3. CASE d = c
    BY <1>4, <1>5, <1>6, <2>2, <2>3 DEF Granting, Renewing
  <2>4. CASE d # c /\ UNCHANGED <<remote, timer>>
    BY <1>6, <2>1, <2>4 DEF Granting, Renewing
  <2>5. CASE d # c /\ Names(m)
    <3>1. \A i : remote # [id |-> i, owner |-> d]
      BY <2>5 DEF Names, c
    <3> QED
      BY <1>6, <2>1, <2>5, <3>1 DEF Granting, Renewing
  <2> QED
    BY <2>3, <2>4, <2>5
<1>11. ASSUME NEW x \in net'
       PROVE  MessageInv(x)'
  <2>1. x.from \in Controllers /\ MessageInv(x) /\ (x.tag = 0 /\ m.tag = 0 => x.from # c)
    BY <1>4, Senders
  <2> QED
    BY <1>6, <2>1 DEF MessageInv
<1>12. ASSUME NEW d \in Controllers
       PROVE  PhaseInv(d)' /\ LocalInv(d)'
  <2>1. PhaseInv(d) /\ LocalInv(d)
    BY DEF IInv
  <2> QED
    BY <1>3, <1>6, <2>1 DEF PhaseInv, LocalInv
<1>13. CountInv'
  <2>1. Attaches' \subseteq Attaches /\ Launched' \subseteq Launched
    BY <1>6 DEF Attaches, Launched
  <2> QED
    BY <1>1, <2>1, CountKeeps
<1> QED
  BY <1>6, <1>7, <1>8, <1>9, <1>10, <1>11, <1>12, <1>13 DEF IInv

(* The agent, or the lack of one, meets a request.                         *)
LEMMA ServeKeeps ==
    ASSUME IInv, NEW m \in net, Serve(m)
    PROVE  IInv'
<1>1. TypeOK /\ AgentInv
  BY DEF IInv
<1>2. CASE ServeAttach(m)
  BY <1>2, ServeAttachKeeps
<1>3. CASE ServeRenew(m)
  <2>1. /\ m.kind = "renew" /\ net' = net \ {m}
        /\ renewing' = IF m.tag = 0 THEN [renewing EXCEPT ![m.from] = Quiet] ELSE renewing
        /\ UNCHANGED <<pc, local, grant, age, beating, beat, failures, up, remote, granted,
                       launches, faults, spoiled>>
    BY <1>3 DEF ServeRenew
  <2>2. /\ timer' = timer \/ (timer' = Lease /\ remote # NoSession)
        /\ faults = 0 /\ Names(m) /\ timer > 0 => timer' = Lease
    BY <1>3 DEF ServeRenew, Renewed, Names
  <2> QED
    BY <2>1, <2>2, RenewServed
<1>4. CASE ServeDetach(m)
  <2>1. /\ m.kind = "detach" /\ net' = net \ {m}
        /\ IF m.tag = 0 THEN Finished(m.from) ELSE UNCHANGED <<pc, grant>>
        /\ UNCHANGED <<local, age, beating, beat, renewing, failures, up, granted, launches, spoiled>>
    BY <1>4 DEF ServeDetach
  <2>2. /\ \/ UNCHANGED <<remote, timer>>
           \/ Names(m) /\ remote' = NoSession /\ timer' = 0
        /\ faults' = faults \/ (faults' \in 0 .. MaxFaults /\ faults' # 0)
    BY <1>1, <1>4, FaultTag DEF ServeDetach
  <2> QED
    BY <2>1, <2>2, DetachServed
<1>5. CASE NoAgent(m)
  <2>1. /\ UNCHANGED <<local, age, beating, beat, failures, up, remote, timer, granted, launches,
                       faults, spoiled>>
        /\ ~ up /\ m.kind \in {"attach", "renew", "detach"} /\ faults # 0
    BY <1>1, <1>5 DEF NoAgent, agentVars, AgentInv
  <2>2. CASE m.kind = "attach"
    <3>1. UNCHANGED <<pc, grant, renewing>> /\ net' = Answer(m, "refused", None)
      BY <1>5, <2>2 DEF NoAgent
    <3>2. UNCHANGED <<connectVars, up, granted, launches>> /\ UNCHANGED <<remote, timer, faults>>
      BY <2>1, <3>1 DEF connectVars
    <3> QED
      BY <2>2, <3>1, <3>2, RefusedKeeps
  <2>3. CASE m.kind = "renew"
    <3>1. /\ UNCHANGED <<pc, grant>> /\ net' = net \ {m}
          /\ renewing' = IF m.tag = 0 THEN [renewing EXCEPT ![m.from] = Quiet] ELSE renewing
      BY <1>5, <2>3 DEF NoAgent
    <3> QED
      BY <2>1, <2>3, <3>1, RenewServed
  <2>4. CASE m.kind = "detach"
    <3>1. /\ UNCHANGED renewing /\ net' = net \ {m}
          /\ IF m.tag = 0 THEN Finished(m.from) ELSE UNCHANGED <<pc, grant>>
      BY <1>5, <2>4 DEF NoAgent
    <3> QED
      BY <2>1, <2>4, <3>1, DetachServed
  <2> QED
    BY <2>1, <2>2, <2>3, <2>4
<1> QED
  BY <1>2, <1>3, <1>4, <1>5 DEF Serve

(* The agent's session ends by itself, the agent stops, or it starts: none *)
(* of that hurts a running lease unless it is a fault.                     *)
LEMMA AgentKeeps ==
    ASSUME IInv, Expire \/ AgentDies \/ AgentRestarts
    PROVE  IInv'
<1>1. UNCHANGED <<pc, local, grant, age, beating, beat, renewing, failures, spoiled, net,
                  granted, launches>>
  BY DEF Expire, AgentDies, AgentRestarts, connectVars
<1>2. TypeOK /\ launches \in Nat /\ CountInv /\ granted \subseteq Ids /\ AgentInv
  BY ParameterAssumption DEF IInv, TypeOK
<1>3. /\ \/ faults' = faults /\ timer' = timer
         \/ faults' \in 0 .. MaxFaults /\ faults' # 0 /\ timer' = 0
      /\ up' \in BOOLEAN
      /\ remote' = remote \/ remote' = NoSession
      /\ remote' # remote /\ faults' = faults => timer = 0
  <2>1. CASE Expire
    BY <1>2, <2>1 DEF Expire, TypeOK
  <2>2. CASE AgentDies
    <3>1. faults' \in 0 .. MaxFaults /\ faults' # 0 /\ faults' # faults
      BY <1>2, <2>2, FaultTag DEF AgentDies, Fault, TypeOK
    <3> QED
      BY <2>2, <3>1 DEF AgentDies
  <2>3. CASE AgentRestarts
    BY <2>3 DEF AgentRestarts
  <2> QED
    BY <2>1, <2>2, <2>3
<1>4. TypeOK'
  BY <1>1, <1>2, <1>3, ParameterAssumption DEF TypeOK
<1>5. OneCall'
  BY <1>1 DEF IInv, OneCall, MainCall, Awaited
<1>6. OwnerInv' /\ LateInv'
  <2>1. \A d \in Controllers : \A i \in Ids : Has(d, i)' => Has(d, i)
    BY <1>1 DEF Has
  <2> QED
    BY <1>1, <1>2, <1>3, <2>1, OwnersKeep DEF IInv
<1>7. AgentInv'
  <2>1. CASE Expire
    BY <1>2, <2>1 DEF Expire, AgentInv
  <2>2. CASE AgentDies
    BY <1>2, <2>2, FaultTag DEF AgentDies, AgentInv
  <2>3. CASE AgentRestarts
    BY <1>2, <2>3 DEF AgentRestarts, AgentInv
  <2> QED
    BY <2>1, <2>2, <2>3
<1>8. LeaseInv'
  <2> SUFFICES ASSUME faults' = 0, NEW d \in Controllers
               PROVE  Granting(d)' /\ Renewing(d)'
    BY DEF LeaseInv
  <2>1. Granting(d) /\ Renewing(d) /\ LeaseInv /\ faults = 0 /\ timer' = timer
    BY <1>3 DEF IInv, LeaseInv
  <2>2. CASE remote' = remote
    BY <1>1, <2>1, <2>2 DEF Granting, Renewing
  <2>3. CASE remote' # remote
    <3>1. timer = 0 /\ ~ (0 > 0)
      BY <1>3, <2>1, <2>3
    <3>2. /\ ~ (pc[d] = "streaming" /\ grant[d] # None)
          /\ \A m \in net : ~ (m.kind = "granted" /\ m.from = d)
      BY <1>2, <2>1, <3>1, LeaseLasts
    <3> QED
      BY <1>1, <3>2 DEF Granting, Renewing
  <2> QED
    BY <2>2, <2>3
<1>9. ASSUME NEW m \in net'
      PROVE  MessageInv(m)'
  BY <1>1, <1>3, Senders DEF MessageInv
<1>10. ASSUME NEW d \in Controllers
       PROVE  PhaseInv(d)' /\ LocalInv(d)'
  <2>1. PhaseInv(d) /\ LocalInv(d)
    BY DEF IInv
  <2> QED
    BY <1>1, <2>1 DEF PhaseInv, LocalInv
<1>11. CountInv'
  <2>1. Attaches' \subseteq Attaches /\ Launched' \subseteq Launched
    BY <1>1 DEF Attaches, Launched
  <2> QED
    BY <1>1, <1>2, <2>1, CountKeeps
<1> QED
  BY <1>4, <1>5, <1>6, <1>7, <1>8, <1>9, <1>10, <1>11 DEF IInv

(* Time passes for the lease, the requests and the heartbeats alike.       *)
LEMMA TickKeeps ==
    ASSUME IInv, Tick
    PROVE  IInv'
<1>1. /\ UNCHANGED <<pc, local, grant, beating, failures, net, up, remote, granted, launches,
                     faults, spoiled>>
      /\ timer' = Minus1(timer)
      /\ age' = [c \in Controllers |-> IF MainCall(c) = {} THEN 0 ELSE age[c] + 1]
      /\ beat' = [c \in Controllers |-> Minus1(beat[c])]
      /\ renewing' = [c \in Controllers |-> IF renewing[c] = Quiet THEN Quiet ELSE renewing[c] + 1]
  BY DEF Tick
<1>2. TypeOK /\ launches \in Nat /\ CountInv /\ granted \subseteq Ids
  BY ParameterAssumption DEF IInv, TypeOK
<1>3. \A c \in Controllers :
         /\ age[c] \in 0 .. RequestTimeout /\ beat[c] \in 0 .. RenewalInterval
         /\ renewing[c] \in Quiet .. RequestTimeout
         /\ MainCall(c) # {} => age[c] < RequestTimeout
         /\ renewing[c] < RequestTimeout
         /\ beating[c] # None => beat[c] > 0
  BY <1>2 DEF TypeOK, Tick
<1>4. /\ age' \in [Controllers -> 0 .. RequestTimeout]
      /\ beat' \in [Controllers -> 0 .. RenewalInterval]
      /\ renewing' \in [Controllers -> Quiet .. RequestTimeout]
      /\ timer' \in 0 .. Lease
  <2>1. ASSUME NEW c \in Controllers
        PROVE  /\ (IF MainCall(c) = {} THEN 0 ELSE age[c] + 1) \in 0 .. RequestTimeout
               /\ Minus1(beat[c]) \in 0 .. RenewalInterval
               /\ (IF renewing[c] = Quiet THEN Quiet ELSE renewing[c] + 1)
                     \in Quiet .. RequestTimeout
    <3>1. /\ age[c] \in 0 .. RequestTimeout /\ beat[c] \in 0 .. RenewalInterval
          /\ renewing[c] \in Quiet .. RequestTimeout
          /\ MainCall(c) # {} => age[c] < RequestTimeout
          /\ renewing[c] < RequestTimeout
      BY <1>3
    <3>2. (IF MainCall(c) = {} THEN 0 ELSE age[c] + 1) \in 0 .. RequestTimeout
      BY <3>1, Intervals
    <3>3. Minus1(beat[c]) \in 0 .. RenewalInterval
      BY <3>1, Intervals DEF Minus1
    <3>4. (IF renewing[c] = Quiet THEN Quiet ELSE renewing[c] + 1) \in Quiet .. RequestTimeout
      BY <3>1, Intervals DEF Quiet
    <3> QED
      BY <3>2, <3>3, <3>4
  <2>4. timer' \in 0 .. Lease
    BY <1>1, <1>2, Intervals DEF Minus1, TypeOK
  <2> QED
    BY <1>1, <2>1, <2>4
<1>5. TypeOK'
  BY <1>1, <1>2, <1>4 DEF TypeOK
<1>6. OneCall' /\ LateInv' /\ OwnerInv'
  BY <1>1 DEF IInv, OneCall, MainCall, Awaited, LateInv, Spent, Has, OwnerInv, Claims
<1>7. AgentInv'
  BY <1>1 DEF IInv, AgentInv, Minus1
<1>8. LeaseInv'
  <2> SUFFICES ASSUME faults = 0, NEW d \in Controllers
               PROVE  Granting(d)' /\ Renewing(d)'
    BY <1>1 DEF LeaseInv
  <2>1. Granting(d) /\ Renewing(d) /\ PhaseInv(d)
    BY DEF IInv, LeaseInv
  <2>2. timer \in Nat /\ timer' \in Int /\ timer' >= timer - 1
    BY <1>1, <1>2, Intervals DEF Minus1, TypeOK
  <2>3. age[d] \in Int /\ beat[d] \in Int /\ renewing[d] \in Int
    BY <1>3, Intervals DEF Quiet
  <2>4. Granting(d)'
    <3> SUFFICES ASSUME NEW m \in net, m.kind = "granted", m.from = d
                 PROVE  remote = [id |-> m.id, owner |-> d] /\ timer' >= Lease - age'[d]
      BY <1>1 DEF Granting
    <3>1. m \in MainCall(d)
      BY Senders DEF MessageInv
    <3>2. age'[d] = age[d] + 1
      BY <1>1, <3>1
    <3>3. remote = [id |-> m.id, owner |-> d] /\ timer >= Lease - age[d]
      BY <2>1 DEF Granting
    <3>4. timer' >= Lease - (age[d] + 1)
      BY <2>2, <2>3, <3>3, Intervals
    <3> QED
      BY <3>2, <3>3, <3>4
  <2>5. Renewing(d)'
    <3> SUFFICES ASSUME pc[d] = "streaming", grant[d] # None
                 PROVE  /\ remote = [id |-> grant[d], owner |-> d]
                        /\ renewing'[d] = Quiet =>
                              timer' >= Lease - RequestTimeout - (RenewalInterval - beat'[d])
                        /\ renewing'[d] # Quiet =>
                              /\ timer' >= Lease - RequestTimeout - RenewalInterval - renewing'[d]
                              /\ beat'[d] = RenewalInterval - renewing'[d]
      BY <1>1 DEF Renewing
    <3>1. remote = [id |-> grant[d], owner |-> d]
      BY <2>1 DEF Renewing
    <3>2. beat[d] > 0
      BY <1>3, <2>1 DEF PhaseInv
    <3>3. beat'[d] = beat[d] - 1
      BY <1>1, <2>3, <3>2 DEF Minus1
    <3>4. CASE renewing[d] = Quiet
      <4>1. renewing'[d] = Quiet
        BY <1>1, <3>4
      <4>2. timer >= Lease - RequestTimeout - (RenewalInterval - beat[d])
        BY <2>1, <3>4 DEF Renewing
      <4>3. timer' >= Lease - RequestTimeout - (RenewalInterval - (beat[d] - 1))
        BY <2>2, <2>3, <4>2, Intervals
      <4> QED
        BY <3>1, <3>3, <4>1, <4>3
    <3>5. CASE renewing[d] # Quiet
      <4>1. renewing'[d] = renewing[d] + 1
        BY <1>1, <3>5
      <4>2. renewing[d] + 1 # Quiet
        BY <1>3, <2>3, <3>5, Intervals DEF Quiet
      <4>3. /\ timer >= Lease - RequestTimeout - RenewalInterval - renewing[d]
            /\ beat[d] = RenewalInterval - renewing[d]
        BY <2>1, <3>5 DEF Renewing
      <4>4. /\ timer' >= Lease - RequestTimeout - RenewalInterval - (renewing[d] + 1)
            /\ beat[d] - 1 = RenewalInterval - (renewing[d] + 1)
        BY <2>2, <2>3, <4>3, Intervals
      <4> QED
        BY <3>1, <3>3, <4>1, <4>2, <4>4
    <3> QED
      BY <3>4, <3>5
  <2> QED
    BY <2>4, <2>5
<1>9. ASSUME NEW m \in net'
      PROVE  MessageInv(m)'
  BY <1>1, Senders DEF MessageInv
<1>10. ASSUME NEW d \in Controllers
       PROVE  PhaseInv(d)' /\ LocalInv(d)'
  <2>1. PhaseInv(d) /\ LocalInv(d)
    BY DEF IInv
  <2> QED
    BY <1>1, <2>1 DEF PhaseInv, LocalInv
<1>11. CountInv'
  <2>1. Attaches' \subseteq Attaches /\ Launched' \subseteq Launched
    BY <1>1 DEF Attaches, Launched
  <2> QED
    BY <1>1, <1>2, <2>1, CountKeeps
<1> QED
  BY <1>5, <1>6, <1>7, <1>8, <1>9, <1>10, <1>11 DEF IInv

(* Every step keeps the invariant.                                         *)
LEMMA StepKeeps == IInv /\ [Next]_vars => IInv'
<1> SUFFICES ASSUME IInv, [Next]_vars
             PROVE  IInv'
  OBVIOUS
<1>1. ASSUME NEW c \in Controllers, Proceed(c)
      PROVE  IInv'
  BY <1>1, InstallKeeps, GrantKeeps, AttachFailedKeeps, UndoneKeeps, HeartbeatKeeps, DetachSentKeeps
  DEF Proceed
<1>2. ASSUME NEW c \in Controllers, MoonlightExits(c)
      PROVE  IInv'
  <2>1. /\ pc[c] = "streaming" /\ StreamOver(c)
        /\ UNCHANGED <<local, grant, age, up, remote, timer, granted, launches, spoiled>>
        /\ faults' = faults
    BY <1>2 DEF MoonlightExits, agentVars
  <2> QED
    BY <2>1, OverKeeps
<1>3. ASSUME NEW c \in Controllers,
             \/ \E b \in BOOLEAN : Launch(c, b)
             \/ Proceed(c)
             \/ RenewalGivenUp(c) \/ DetachGivenUp(c)
             \/ MoonlightExits(c) \/ Killed(c)
             \/ \E l, r \in BOOLEAN : HealthChecked(c, l, r)
      PROVE  IInv'
  BY <1>1, <1>2, <1>3, LaunchKeeps, RenewalGivenUpKeeps, DetachGivenUpKeeps, KilledKeeps, HealthKeeps
<1>4. CASE UNCHANGED vars
  <2>1. UNCHANGED <<pc, local, grant, age, beating, beat, renewing, failures, spoiled, net,
                    up, remote, timer, granted, launches, faults>>
    BY <1>4 DEF vars, connectVars, agentVars
  <2>2. /\ TypeOK' /\ OneCall' /\ LateInv' /\ OwnerInv' /\ AgentInv' /\ LeaseInv'
    BY <2>1 DEF IInv, TypeOK, OneCall, MainCall, Awaited, LateInv, Spent, Has, OwnerInv, Claims,
                AgentInv, LeaseInv, Granting, Renewing
  <2>3. CountInv'
    BY <2>1 DEF IInv, CountInv, Attaches, Launched
  <2>4. /\ \A m \in net' : MessageInv(m)'
        /\ \A c \in Controllers : PhaseInv(c)' /\ LocalInv(c)'
    BY <2>1 DEF IInv, MessageInv, PhaseInv, LocalInv
  <2> QED
    BY <2>2, <2>3, <2>4 DEF IInv
<1> QED
  BY <1>3, <1>4, ServeKeeps, AgentKeeps, TickKeeps DEF Next

(* The invariant holds at first.                                           *)
LEMMA InitHolds == Init => IInv
<1> SUFFICES ASSUME Init
             PROVE  IInv
  OBVIOUS
<1>1. TypeOK
  <2>1. 0 \in 0 .. RenewalInterval /\ Quiet \in Quiet .. RequestTimeout /\ 0 \in 0 .. RequestTimeout
    BY Intervals DEF Quiet
  <2>2. 0 \in 0 .. MaxLaunches /\ 0 \in 0 .. MaxFaults /\ 0 \in 0 .. Lease /\ 0 \in 0 .. HealthLimit
    BY ParameterAssumption
  <2> QED
    BY <2>1, <2>2 DEF Init, TypeOK, Phases, NoFailures, None
<1>2. OneCall /\ LateInv /\ OwnerInv /\ AgentInv /\ LeaseInv
  <2>1. \A i \in Ids : i # None
    BY ParameterAssumption DEF Ids, None
  <2>2. OneCall /\ LateInv /\ AgentInv
    BY DEF Init, OneCall, MainCall, Awaited, LateInv, AgentInv
  <2>3. OwnerInv
    BY <2>1 DEF Init, OwnerInv, Claims, Has
  <2>4. LeaseInv
    BY DEF Init, LeaseInv, Granting, Renewing
  <2> QED
    BY <2>2, <2>3, <2>4
<1>3. CountInv
  <2>1. Attaches = {} /\ Launched = {}
    BY DEF Init, Attaches, Launched
  <2>2. IsFiniteSet({}) /\ Cardinality({}) = 0
    BY FS_EmptySet
  <2>3. granted = 1 .. 0 /\ 0 \in 0 .. MaxLaunches /\ 0 + 0 + 0 <= launches
    BY ParameterAssumption DEF Init
  <2> QED
    BY <2>1, <2>2, <2>3 DEF CountInv
<1>4. /\ \A m \in net : MessageInv(m)
      /\ \A c \in Controllers : PhaseInv(c) /\ LocalInv(c)
  BY DEF Init, PhaseInv, LocalInv
<1> QED
  BY <1>1, <1>2, <1>3, <1>4 DEF IInv

(* The inductive invariant.                                                *)
THEOREM Invariance == Spec => []IInv
  BY InitHolds, StepKeeps, PTL DEF Spec

(* Leases, request times, failure counts and identifiers stay within their *)
(* limits; above all, the agent never runs out of identifiers before the   *)
(* launches do.                                                            *)
THEOREM TypeCorrectness == Spec => []TypeOK
<1>1. IInv => TypeOK
  BY DEF IInv
<1> QED
  BY <1>1, Invariance, PTL

(* renewal_interval is short enough for any lease and any request timeout  *)
(* below a third of it: without faults, a stream keeps its session.        *)
THEOREM LeaseSafety == Spec => []LeaseKept
<1>1. IInv => LeaseKept
  <2> SUFFICES ASSUME IInv, faults = 0, NEW c \in Controllers,
                      pc[c] = "streaming", grant[c] # None
               PROVE  Live /\ remote = [id |-> grant[c], owner |-> c]
    BY DEF LeaseKept
  <2>1. TypeOK /\ AgentInv /\ LeaseInv /\ Renewing(c)
    BY DEF IInv, LeaseInv
  <2> QED
    BY <2>1, LeaseLasts DEF Renewing
<1> QED
  BY <1>1, Invariance, PTL

(* The controller's key bindings are those of a stream with a grant, and   *)
(* gone when connect is, whatever the network and the agents do.           *)
THEOREM LocalInputSafety == Spec => []LocalInputRestored
<1>1. IInv => LocalInputRestored
  BY DEF IInv, LocalInv, LocalInputRestored
<1> QED
  BY <1>1, Invariance, PTL

(* A late message of a finished session ends no newer one.                 *)
THEOREM HeldSafety == Spec => HeldSessionStands
<1> DEFINE Stands(c) ==
        Live /\ remote.id = grant[c] /\ remote' # remote =>
            \/ pc[c] = "detaching"
            \/ ~ up'
            \/ \E m \in net \ net' : m.kind = "attach" /\ m.from = c
<1>1. IInv /\ [Next]_vars => [\A c \in Controllers : Stands(c)]_vars
  <2> SUFFICES ASSUME IInv, Next, NEW c \in Controllers,
                      Live, remote.id = grant[c], remote' # remote
               PROVE  \/ pc[c] = "detaching"
                      \/ ~ up'
                      \/ \E m \in net \ net' : m.kind = "attach" /\ m.from = c
    OBVIOUS
  <2>1. remote # NoSession /\ remote.id \in Ids /\ remote.owner \in Controllers /\ timer # 0
    BY DEF IInv, TypeOK, Session, Live
  <2>2. remote.owner = c
    <3>1. Claims(c, remote.id) /\ Claims(remote.owner, remote.id)
      BY <2>1 DEF Claims, Has
    <3> QED
      BY <2>1, <3>1 DEF IInv, OwnerInv
  <2>3. CASE AgentDies
    BY <2>3 DEF AgentDies
  <2>4. ASSUME NEW m \in net, ServeAttach(m)
        PROVE  \E x \in net \ net' : x.kind = "attach" /\ x.from = c
    <3>1. m.kind = "attach" /\ ~ HeldByOther(m.from)
      BY <2>4 DEF ServeAttach
    <3>2. m.from = c
      BY <2>2, <3>1 DEF HeldByOther
    <3>3. PICK kind, id : kind \in {"granted", "refused"} /\ net' = Answer(m, kind, id)
      BY <2>4 DEF ServeAttach
    <3>4. m # Msg(kind, m.from, id)
      BY <3>1, <3>3 DEF Msg
    <3>5. m \notin net'
      BY <3>3, <3>4 DEF Answer
    <3> QED
      BY <3>1, <3>2, <3>5
  <2>5. ASSUME NEW m \in net, ServeDetach(m)
        PROVE  pc[c] = "detaching"
    <3>1. m.kind = "detach" /\ m.from = c /\ m.id = grant[c]
      BY <2>2, <2>5 DEF ServeDetach, Names
    <3>2. CASE m.tag = 0
      BY <3>1, <3>2, Senders DEF MessageInv
    <3>3. CASE m.tag # 0
      <4>1. Spent(m.id)
        BY <3>1, <3>3 DEF IInv, LateInv
      <4> QED
        BY <3>1, <4>1 DEF Spent, Has
    <3> QED
      BY <3>2, <3>3
  <2>6. \/ AgentDies
        \/ \E m \in net : ServeAttach(m) \/ ServeDetach(m)
        \/ remote' = remote
    BY <2>1 DEF Next, Proceed, Serve, Launch, InstallLocal, GrantReceived, AttachFailed, LocalUndone,
           Heartbeat, RenewalGivenUp, MoonlightExits, HealthChecked, DetachSent, DetachGivenUp,
           Killed, ServeRenew, NoAgent, Expire, AgentRestarts, Tick, agentVars
  <2> QED
    BY <2>3, <2>4, <2>5, <2>6
<1> QED
  BY <1>1, Invariance, PTL DEF Spec, HeldSessionStands

(* This module's agent keeps the same promise as SessionCoordinator.       *)
THEOREM Refinement == Spec => ImplementsLease
<1> DEFINE Holder == IF Live THEN remote ELSE NoSession
<1>1. Init => Promise!Init
  BY DEF Init, Promise!Init, Live
<1>2. IInv /\ IInv' /\ [Next]_vars => [Promise!Next]_(Promise!leaseVars)
  <2> SUFFICES ASSUME IInv, IInv', [Next]_vars
               PROVE  Promise!Next \/ UNCHANGED <<Holder, granted>>
    BY DEF Promise!leaseVars
  <2>1. ASSUME UNCHANGED granted, Holder' \in {Holder, NoSession}
        PROVE  Promise!Next \/ UNCHANGED <<Holder, granted>>
    BY <2>1 DEF Promise!Next, Promise!End
  <2>2. ASSUME NEW m \in net, ~ HeldByOther(m.from),
               remote' = [id |-> NewId, owner |-> m.from], timer' = Lease,
               granted' = granted \cup {NewId}
        PROVE  Promise!Next
    <3>1. m.from \in Controllers
      BY Senders
    <3>2. NewId \in Ids
      BY <2>2 DEF IInv, TypeOK
    <3>3. NewId \notin granted
      <4>1. PICK n \in 0 .. MaxLaunches : granted = 1 .. n
        BY DEF IInv, CountInv
      <4>2. n \in Nat
        BY <4>1, ParameterAssumption
      <4>3. NewId = n + 1
        BY <4>1, <4>2, NewIdIsNext
      <4> QED
        BY <4>1, <4>2, <4>3
    <3>4. remote' # NoSession /\ timer' > 0
      BY <2>2, <3>1, <3>2, NoSessionAssumption, ParameterAssumption DEF Session
    <3>5. Holder' = [id |-> NewId, owner |-> m.from]
      BY <2>2, <3>4 DEF Live
    <3>6. Holder # NoSession => Holder.owner = m.from
      BY <2>2 DEF HeldByOther
    <3>7. Promise!Grant(m.from, NewId)
      BY <2>2, <3>3, <3>5, <3>6 DEF Promise!Grant
    <3> QED
      BY <3>1, <3>2, <3>7 DEF Promise!Next
  <2>3. CASE Tick
    <3>1. UNCHANGED <<remote, granted>> /\ timer' = Minus1(timer) /\ timer \in Nat
      BY <2>3, ParameterAssumption DEF Tick, IInv, TypeOK
    <3>2. timer' > 0 => timer > 0
      BY <3>1 DEF Minus1
    <3> QED
      BY <2>1, <3>1, <3>2 DEF Live
  <2>4. ASSUME NEW m \in net, ServeRenew(m)
        PROVE  Promise!Next \/ UNCHANGED <<Holder, granted>>
    <3>1. UNCHANGED <<remote, granted>> /\ (timer' = timer \/ (timer > 0 /\ timer' = Lease))
      BY <2>4 DEF ServeRenew, Renewed
    <3>2. (timer' > 0) <=> (timer > 0)
      BY <3>1, ParameterAssumption
    <3> QED
      BY <2>1, <3>1, <3>2 DEF Live
  <2>5. CASE UNCHANGED <<remote, timer, granted>>
    BY <2>1, <2>5 DEF Live
  <2>6. CASE remote' = NoSession /\ UNCHANGED granted
    BY <2>1, <2>6 DEF Live
  <2>7. ASSUME NEW m \in net, ServeAttach(m)
        PROVE  \/ UNCHANGED <<remote, timer, granted>>
               \/ remote' = NoSession /\ UNCHANGED granted
               \/ /\ ~ HeldByOther(m.from)
                  /\ remote' = [id |-> NewId, owner |-> m.from] /\ timer' = Lease
                  /\ granted' = granted \cup {NewId}
    BY <2>7 DEF ServeAttach
  <2>8. \/ Tick
        \/ \E m \in net : ServeAttach(m) \/ ServeRenew(m)
        \/ UNCHANGED <<remote, timer, granted>>
        \/ remote' = NoSession /\ UNCHANGED granted
    BY DEF Next, Proceed, Serve, Launch, InstallLocal, GrantReceived, AttachFailed, LocalUndone,
           Heartbeat, RenewalGivenUp, MoonlightExits, HealthChecked, DetachSent, DetachGivenUp,
           Killed, ServeDetach, NoAgent, Expire, AgentDies, AgentRestarts, agentVars, vars
  <2> QED
    BY <2>2, <2>3, <2>4, <2>5, <2>6, <2>7, <2>8
<1> QED
  BY <1>1, <1>2, Invariance, PTL DEF Spec, ImplementsLease, Promise!Spec

=============================================================================
