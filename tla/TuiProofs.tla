----------------------------- MODULE TuiProofs -----------------------------
(***************************************************************************)
(* Proofs about Tui: what the user waits for is under way, streams never   *)
(* overlap, and the list of allowed devices that is shown is the file's.   *)
(* The channel is a queue, so that each argument has to follow reports of  *)
(* one kind past those of all others.                                      *)
(***************************************************************************)
EXTENDS Tui, FiniteSetTheorems, TLAPS

-----------------------------------------------------------------------------
(* What starts a stream has cost a key, also when the stream waits for the *)
(* one before it to end.                                                   *)
CostInv ==
    /\ generation <= started
    /\ pending # NoDevice => generation < started

(* Who changes the file has a device to change it for.                     *)
EditInv == \A e \in edits : e.step = "change" => e.node \in Devices
BaseInv == TypeOK /\ CostInv /\ EditInv

(* Discovery and checks that were asked for are under way.                 *)
WaitInv ==
    Running =>
        /\ UnderWay("discovery") = IF loading THEN 1 ELSE 0
        /\ readiness = "checking" => UnderWay("readiness") > 0

(* The life of a stream: its task, its reports in their order, and what    *)
(* the loop makes of them.                                                 *)
Telling == Reports("started") \cup Reports("ended")
TaskInv ==
    /\ \A s, t \in streams : s = t
    /\ \A s \in streams :
          /\ s.number = generation
          /\ activity = "connecting" \/ active = s.node
          /\ Reports("ended") = {}
          /\ s.step = "checking" => activity = "connecting" /\ Reports("started") = {}
TellingInv ==
    /\ \A i \in Telling : channel[i].number = generation
    /\ \A i, j \in Reports("started") : i = j
    /\ \A i, j \in Reports("ended") : i = j
    /\ \A i \in Reports("started") :
          /\ activity = "connecting"
          /\ channel[i].node \in Devices
          /\ \A s \in streams : s.node = channel[i].node
          /\ streams = {} => Reports("ended") # {}
          /\ \A j \in Reports("ended") : i < j /\ channel[j].node = channel[i].node
    /\ \A i \in Reports("ended") : activity = "connecting" \/ active = channel[i].node
ShownInv ==
    /\ activity = "connecting" => active = NoDevice
    /\ activity = "connecting" \/ active # NoDevice => streams # {} \/ Reports("ended") # {}
    /\ activity = "idle" /\ active = NoDevice => streams = {} /\ Telling = {}
    /\ active = NoDevice => pid = 0
    /\ pid \in {0, generation}
StreamInv == TaskInv /\ TellingInv /\ ShownInv

(* One task at a time is at the access store, and the list it brings is    *)
(* the file; once it is done, the last list on its way is.                 *)
AccessInv ==
    faults = 0 /\ ~ crowded /\ Running =>
        /\ \A e, f \in edits : e = f
        /\ \A e \in edits : e.step = "report" => e.found = allowed
        /\ edits = {} =>
              /\ \A i \in Reports("access") :
                    (\A j \in Reports("access") : j <= i) => channel[i].found = allowed
              /\ Reports("access") = {} => overlay # "access" \/ entries = allowed

IInv == BaseInv /\ WaitInv /\ StreamInv /\ AccessInv

-----------------------------------------------------------------------------
(* The channel.                                                            *)

Saying(kind, number, node, found) ==
    [kind |-> kind, number |-> number, node |-> node, found |-> found]

(* A report joins the others at the end.                                   *)
LEMMA Sending ==
    ASSUME TypeOK, NEW kind, NEW number, NEW node, NEW found, Send(kind, number, node, found)
    PROVE  /\ Len(channel) \in Nat /\ Len(channel)' = Len(channel) + 1
           /\ Len(channel)' <= ChannelCapacity
           /\ \A i \in 1 .. Len(channel) : channel'[i] = channel[i]
           /\ channel'[Len(channel) + 1] = Saying(kind, number, node, found)
           /\ \A q : Reports(q)' = Reports(q) \cup (IF q = kind THEN {Len(channel) + 1} ELSE {})
<1> DEFINE r == Saying(kind, number, node, found)
<1>1. /\ channel \in Seq(Report) /\ Len(channel) \in Nat
      /\ channel' = Append(channel, r) /\ Len(channel) < ChannelCapacity
  BY DEF TypeOK, Send, Saying
<1> HIDE DEF r
<1>2. /\ Len(channel') = Len(channel) + 1
      /\ \A i \in 1 .. Len(channel) : channel'[i] = channel[i]
      /\ channel'[Len(channel) + 1] = r
  BY <1>1
<1>3. ASSUME NEW q
      PROVE  Reports(q)' = Reports(q) \cup (IF q = kind THEN {Len(channel) + 1} ELSE {})
  <2>1. r.kind = kind
    BY DEF r, Saying
  <2> QED
    BY <1>1, <1>2, <2>1 DEF Reports
<1> QED
  BY <1>1, <1>2, <1>3, ParameterAssumption DEF r

(* The first report is taken, and the others move up.                      *)
LEMMA Taking ==
    ASSUME TypeOK, NEW kind, Take(kind)
    PROVE  /\ Len(channel) \in Nat \ {0} /\ Len(channel)' = Len(channel) - 1
           /\ channel' \in Seq(Report)
           /\ Head(channel) = channel[1] /\ channel[1] \in Report
           /\ \A i \in 1 .. Len(channel) - 1 : channel'[i] = channel[i + 1]
           /\ \A q : 1 \in Reports(q) <=> q = kind
           /\ \A q : \A i \in Nat : i \in Reports(q)' <=> i # 0 /\ i + 1 \in Reports(q)
<1>1. /\ channel \in Seq(Report) /\ channel # <<>> /\ channel' = Tail(channel)
      /\ Head(channel).kind = kind /\ Len(channel) \in Nat
  BY DEF TypeOK, Take
<1>2. /\ Len(channel) \in Nat \ {0} /\ Len(channel') = Len(channel) - 1
      /\ channel' \in Seq(Report)
      /\ Head(channel) = channel[1] /\ channel[1] \in Report
      /\ \A i \in 1 .. Len(channel) - 1 : channel'[i] = channel[i + 1]
  BY <1>1
<1>3. \A q : 1 \in Reports(q) <=> q = kind
  BY <1>1, <1>2 DEF Reports
<1>4. ASSUME NEW q, NEW i \in Nat
      PROVE  i \in Reports(q)' <=> i # 0 /\ i + 1 \in Reports(q)
  BY <1>2 DEF Reports
<1> QED
  BY <1>2, <1>3, <1>4

(* Positions are finitely many.                                            *)
LEMMA Positions ==
    ASSUME TypeOK, NEW q
    PROVE  /\ Reports(q) \subseteq 1 .. Len(channel) /\ IsFiniteSet(Reports(q))
           /\ Cardinality(Reports(q)) \in Nat
<1>1. Len(channel) \in Nat /\ Reports(q) \subseteq 1 .. Len(channel)
  BY DEF TypeOK, Reports
<1>2. IsFiniteSet(1 .. Len(channel))
  BY <1>1, FS_Interval
<1> QED
  BY <1>1, <1>2, FS_Subset, FS_CardinalityType

(* A report more.                                                          *)
LEMMA SendingCounts ==
    ASSUME TypeOK, NEW kind, NEW number, NEW node, NEW found, Send(kind, number, node, found),
           NEW q
    PROVE  Cardinality(Reports(q))' = Cardinality(Reports(q)) + (IF q = kind THEN 1 ELSE 0)
<1>1. /\ Len(channel) \in Nat
      /\ Reports(q)' = Reports(q) \cup (IF q = kind THEN {Len(channel) + 1} ELSE {})
  BY Sending
<1>2. /\ Reports(q) \subseteq 1 .. Len(channel) /\ IsFiniteSet(Reports(q))
      /\ Cardinality(Reports(q)) \in Nat
  BY Positions
<1>3. Len(channel) + 1 \notin Reports(q)
  BY <1>1, <1>2
<1>4. CASE q = kind
  <2>1. Cardinality(Reports(q) \cup {Len(channel) + 1}) = Cardinality(Reports(q)) + 1
    BY <1>2, <1>3, FS_AddElement
  <2> QED
    BY <1>1, <1>4, <2>1
<1>5. CASE q # kind
  BY <1>1, <1>2, <1>5
<1> QED
  BY <1>4, <1>5

(* A report less.                                                          *)
LEMMA TakingCounts ==
    ASSUME TypeOK, NEW kind, Take(kind), NEW q
    PROVE  /\ Cardinality(Reports(q)) \in Nat
           /\ Cardinality(Reports(q))' = Cardinality(Reports(q)) - (IF q = kind THEN 1 ELSE 0)
           /\ q = kind => Cardinality(Reports(q)) > 0
<1> DEFINE old == Reports(q)
           rest == Reports(q) \ {1}
           new == Reports(q)'
           up == [i \in rest |-> i - 1]
<1>1. /\ Len(channel) \in Nat \ {0} /\ Len(channel)' = Len(channel) - 1
      /\ 1 \in old <=> q = kind
      /\ \A i \in Nat : i \in new <=> i # 0 /\ i + 1 \in old
  BY Taking
<1>2. /\ old \subseteq 1 .. Len(channel) /\ IsFiniteSet(old) /\ Cardinality(old) \in Nat
  BY Positions
<1>3. new \subseteq Nat
  BY <1>1 DEF Reports
<1> HIDE DEF old, new
<1>4. up \in Bijection(rest, new)
  <2>1. \A i \in rest : i \in Nat /\ i - 1 \in Nat /\ i - 1 # 0 /\ (i - 1) + 1 = i
    BY <1>2 DEF old
  <2>2. up \in [rest -> new]
    BY <1>1, <2>1 DEF old
  <2>3. \A i, j \in rest : up[i] = up[j] => i = j
    BY <2>1
  <2>4. ASSUME NEW t \in new PROVE \E i \in rest : up[i] = t
    <3>1. t \in Nat /\ t # 0 /\ t + 1 \in old
      BY <1>1, <1>3
    <3>2. t + 1 \in rest /\ up[t + 1] = t
      BY <3>1 DEF old
    <3> QED
      BY <3>2
  <2> QED
    BY <2>2, <2>3, <2>4 DEF Bijection, Injection, Surjection, IsInjective
<1>5. /\ IsFiniteSet(rest)
      /\ Cardinality(rest) = IF 1 \in old THEN Cardinality(old) - 1 ELSE Cardinality(old)
  BY <1>2, FS_RemoveElement DEF old
<1>6. Cardinality(new) = Cardinality(rest)
  <2>1. ExistsBijection(rest, new)
    BY <1>4 DEF ExistsBijection
  <2> HIDE DEF rest
  <2> QED
    BY <1>5, <2>1, FS_Bijection
<1>7. 1 \in old => Cardinality(old) # 0
  BY <1>2, FS_EmptySet
<1> HIDE DEF rest
<1>8. Cardinality(new) = Cardinality(old) - (IF q = kind THEN 1 ELSE 0)
  BY <1>1, <1>2, <1>5, <1>6
<1>9. q = kind => Cardinality(old) > 0
  BY <1>1, <1>2, <1>7
<1> QED
  BY <1>2, <1>8, <1>9 DEF old, new

-----------------------------------------------------------------------------
(* Types.                                                                  *)

(* A report that is sent keeps the channel within its capacity.            *)
LEMMA SendingType ==
    ASSUME TypeOK, NEW kind \in Kinds \cup {"started", "ended", "access", "denied"},
           NEW number \in 0 .. MaxTasks, NEW node \in Devices \cup {NoDevice},
           NEW found \in SUBSET Devices, Send(kind, number, node, found)
    PROVE  channel' \in Seq(Report) /\ Len(channel') <= ChannelCapacity
<1>1. Len(channel') <= ChannelCapacity
  BY Sending
<1>2. Saying(kind, number, node, found) \in Report
  BY DEF Saying, Report
<1> QED
  BY <1>1, <1>2 DEF Send, Saying, TypeOK

(* A stream that starts has a number of its own.                           *)
LEMMA PreflightType ==
    ASSUME TypeOK, CostInv, NEW node \in Devices, StartPreflight(node), generation < started
    PROVE  /\ streams' \subseteq Stream /\ activity' = "connecting" /\ active' = NoDevice
           /\ generation' = generation + 1 /\ generation' \in 0 .. MaxTasks
           /\ pid' = pid
<1>1. /\ generation \in Nat /\ started \in Nat /\ started <= MaxTasks /\ MaxTasks \in Nat
      /\ streams \subseteq Stream
  BY ParameterAssumption DEF TypeOK
<1>2. generation + 1 \in 1 .. MaxTasks /\ generation + 1 \in 0 .. MaxTasks
  BY <1>1
<1>3. [number |-> generation + 1, node |-> node, step |-> "checking"] \in Stream
  BY <1>2 DEF Stream
<1> QED
  BY <1>1, <1>2, <1>3 DEF StartPreflight

(* What is selected can be found in the list.                              *)
LEMMA ChosenType ==
    ASSUME TypeOK
    PROVE  /\ Chosen.connectable => Chosen.id \in Devices
           /\ selected # 0 => Chosen.id \in Devices
<1>1. CASE selected = 0
  BY <1>1 DEF Chosen
<1>2. CASE selected # 0
  <2>1. nodes \in Seq(Node) /\ selected \in 1 .. Len(nodes)
    BY <1>2, DeviceAssumption DEF TypeOK
  <2>2. nodes[selected] \in Node
    BY <2>1
  <2> QED
    BY <1>2, <2>2 DEF Chosen, Node
<1> QED
  BY <1>1, <1>2

(* The selection wraps around to a place of the list (select_next and      *)
(* select_previous).                                                       *)
LEMMA CycleType ==
    ASSUME TypeOK, nodes # <<>>, NEW direction
    PROVE  Cycle(direction) \in 0 .. Len(nodes)
<1>1. /\ nodes \in Seq(Node) /\ Len(nodes) \in Nat \ {0} /\ selected \in 0 .. Len(nodes)
  BY DeviceAssumption DEF TypeOK
<1>2. \A n \in Nat \ {0} : \A m \in Nat : (m % n) + 1 \in 1 .. n
  OBVIOUS
<1>3. selected # 0 => selected \in Nat /\ selected + Len(nodes) - 2 \in Nat
  BY <1>1
<1>4. CASE selected = 0
  BY <1>1, <1>4 DEF Cycle
<1>5. CASE selected # 0
  <2>1. (selected % Len(nodes)) + 1 \in 1 .. Len(nodes)
    BY <1>1, <1>2, <1>3, <1>5
  <2>2. ((selected + Len(nodes) - 2) % Len(nodes)) + 1 \in 1 .. Len(nodes)
    BY <1>1, <1>2, <1>3, <1>5
  <2> QED
    BY <1>5, <2>1, <2>2 DEF Cycle
<1> QED
  BY <1>4, <1>5

(* The tasks, which send.                                                  *)
LEMMA TasksType ==
    ASSUME BaseInv,
           \/ \E k \in Kinds : TaskReports(k)
           \/ \E s \in streams : StreamStarts(s) \/ StreamEnds(s)
           \/ \E e \in edits : Background(e)
    PROVE  BaseInv'
<1> USE DEF listVars, sessionVars, accessVars, bounds
<1> DEFINE Sound == channel' \in Seq(Report) /\ Len(channel') <= ChannelCapacity
<1>0. TypeOK /\ 0 \in 0 .. MaxTasks /\ {} \in SUBSET Devices
  BY ParameterAssumption DEF BaseInv
<1>1. ASSUME NEW k \in Kinds, TaskReports(k) PROVE BaseInv'
  <2>1. Send(k, 0, NoDevice, {})
    BY <1>1 DEF TaskReports
  <2>2. Sound
    BY <1>0, <2>1, SendingType
  <2> QED
    BY <1>1, <2>2 DEF TaskReports, BaseInv, TypeOK, CostInv, EditInv
<1>2. ASSUME NEW s \in streams, StreamStarts(s) PROVE BaseInv'
  <2>1. s.number \in 0 .. MaxTasks /\ s.node \in Devices
    BY <1>0 DEF TypeOK, Stream
  <2>2. Send("started", s.number, s.node, {})
    BY <1>2 DEF StreamStarts
  <2>3. Sound
    BY <1>0, <2>1, <2>2, SendingType
  <2>4. streams' \subseteq Stream
    BY <1>0, <1>2 DEF StreamStarts, TypeOK, Stream
  <2> QED
    BY <1>2, <2>3, <2>4 DEF StreamStarts, BaseInv, TypeOK, CostInv, EditInv
<1>3. ASSUME NEW s \in streams, StreamEnds(s) PROVE BaseInv'
  <2>1. s.number \in 0 .. MaxTasks /\ s.node \in Devices
    BY <1>0 DEF TypeOK, Stream
  <2>2. Send("ended", s.number, s.node, {})
    BY <1>3 DEF StreamEnds
  <2>3. Sound
    BY <1>0, <2>1, <2>2, SendingType
  <2>4. faults' \in 0 .. MaxFaults
    BY <1>0, <1>3, ParameterAssumption DEF StreamEnds, Fault, TypeOK
  <2> QED
    BY <1>3, <2>3, <2>4 DEF StreamEnds, BaseInv, TypeOK, CostInv, EditInv
<1>4. ASSUME NEW e \in edits, Background(e) PROVE BaseInv'
  <2>1. e \in Edit
    BY <1>0 DEF TypeOK
  <2>2. /\ pc' = pc /\ UNCHANGED <<listVars, sessionVars, readiness, overlay, entries, crowded>>
        /\ UNCHANGED <<tasks, streams, started>>
    BY <1>4 DEF Background, Change, Changed, Read, EditReports
  <2>3. faults' \in 0 .. MaxFaults
    BY <1>0, <1>4, ParameterAssumption
    DEF Background, Change, Changed, Read, EditReports, Fault, TypeOK
  <2>4. Sound
    <3>1. ASSUME Send("denied", 0, NoDevice, {}) PROVE Sound
      BY <1>0, <3>1, SendingType
    <3>2. ASSUME Send("access", 0, NoDevice, e.found) PROVE Sound
      <4>1. e.found \in SUBSET Devices
        BY <2>1 DEF Edit
      <4> QED
        BY <1>0, <3>2, <4>1, SendingType
    <3>3. \/ Send("denied", 0, NoDevice, {}) \/ Send("access", 0, NoDevice, e.found)
          \/ UNCHANGED channel
      BY <1>4 DEF Background, Change, Changed, Read, EditReports
    <3> QED
      BY <1>0, <3>1, <3>2, <3>3 DEF TypeOK
  <2>5. allowed' \in SUBSET Devices
    BY <1>0, <1>4 DEF Background, Change, Changed, Read, EditReports, TypeOK, BaseInv, EditInv
  <2>6. edits' \subseteq Edit /\ EditInv'
    <3> DEFINE x == [e EXCEPT !.step = "read", !.found = {}]
               y == [e EXCEPT !.step = "report", !.found = allowed]
    <3>1. edits' \subseteq edits \cup {x, y}
      BY <1>4 DEF Background, Change, Changed, Read, EditReports, Step, AfterChange
    <3>2. x \in Edit /\ y \in Edit /\ x.step = "read" /\ y.step = "report"
      BY <1>0, <2>1 DEF Edit, TypeOK
    <3> HIDE DEF x, y
    <3> QED
      BY <1>0, <3>1, <3>2 DEF TypeOK, BaseInv, EditInv
  <2> QED
    BY <2>2, <2>3, <2>4, <2>5, <2>6 DEF BaseInv, TypeOK, CostInv
<1> QED
  BY <1>1, <1>2, <1>3, <1>4

(* The loop.                                                               *)
LEMMA ApplyType ==
    ASSUME BaseInv, Apply
    PROVE  BaseInv'
<1> USE DEF listVars, sessionVars, accessVars, bounds
<1>1. ASSUME NEW kind, Take(kind)
      PROVE  /\ channel' \in Seq(Report) /\ Len(channel') <= ChannelCapacity
             /\ Head(channel) \in Report
  BY <1>1, Taking, ParameterAssumption DEF BaseInv, TypeOK
<1>2. ASSUME NEW list \in Listings \cup {<<>>}, ApplyDiscovery(list) PROVE BaseInv'
  <2>1. list \in Seq(Node) /\ SelectFirst(list) \in 0 .. Len(list)
    <3>0. <<>> \in Seq(Node)
      OBVIOUS
    <3>1. list \in Seq(Node)
      BY <3>0, DeviceAssumption
    <3>2. list # <<>> => Len(list) \in Nat \ {0}
      BY <3>1
    <3>3. Len(list) \in Nat
      BY <3>1
    <3> QED
      BY <3>1, <3>2, <3>3 DEF SelectFirst
  <2> QED
    BY <1>1, <1>2, <2>1 DEF ApplyDiscovery, BaseInv, TypeOK, CostInv, EditInv
<1>3. CASE ApplyReadiness
  BY <1>1, <1>3, ParameterAssumption DEF ApplyReadiness, Fault, BaseInv, TypeOK, CostInv, EditInv
<1>4. CASE ApplyStatus
  BY <1>1, <1>4, ParameterAssumption DEF ApplyStatus, Fault, BaseInv, TypeOK, CostInv, EditInv
<1>5. CASE ApplyStored
  <2>1. tasks' \in [Kinds -> Nat]
    BY <1>5 DEF ApplyStored, Recheck, Spawn, BaseInv, TypeOK
  <2>2. faults' \in 0 .. MaxFaults
    BY <1>5, ParameterAssumption DEF ApplyStored, Fault, BaseInv, TypeOK
  <2>3. Take("stored") /\ readiness' \in {"checking", readiness}
    BY <1>5 DEF ApplyStored
  <2> QED
    BY <1>1, <1>5, <2>1, <2>2, <2>3 DEF ApplyStored, BaseInv, TypeOK, CostInv, EditInv
<1>6. CASE ApplyStarted
  <2>1. Take("started") /\ active' \in {active, Head(channel).node} /\ pid' \in {0, pid, generation}
        /\ activity' \in {"idle", activity}
    BY <1>6 DEF ApplyStarted
  <2>2. Head(channel).node \in Devices \cup {NoDevice}
    BY <1>1, <2>1 DEF Report
  <2> QED
    BY <1>1, <1>6, <2>1, <2>2, ParameterAssumption
    DEF ApplyStarted, BaseInv, TypeOK, CostInv, EditInv
<1>7. CASE ApplyEnded
  <2>1. /\ Take("ended") /\ active' \in {active, NoDevice} /\ pid' \in {0, pid}
        /\ activity' \in {"idle", activity} /\ readiness' \in {readiness, "blocked"}
    BY <1>7 DEF ApplyEnded
  <2>2. faults' \in 0 .. MaxFaults
    BY <1>7, ParameterAssumption DEF ApplyEnded, Fault, BaseInv, TypeOK
  <2> QED
    BY <1>1, <1>7, <2>1, <2>2, ParameterAssumption
    DEF ApplyEnded, BaseInv, TypeOK, CostInv, EditInv
<1>8. CASE ApplyAccess
  <2>1. /\ channel' \in Seq(Report) /\ Len(channel') <= ChannelCapacity
        /\ Head(channel) \in Report
    BY <1>1, <1>8 DEF ApplyAccess
  <2>2. entries' \in SUBSET Devices
    BY <1>8, <2>1 DEF ApplyAccess, Report, BaseInv, TypeOK
  <2> QED
    BY <1>8, <2>1, <2>2 DEF ApplyAccess, BaseInv, TypeOK, CostInv, EditInv
<1> QED
  BY <1>2, <1>3, <1>4, <1>5, <1>6, <1>7, <1>8 DEF Apply

(* A turn of the loop that handles no key.                                 *)
LEMMA LoopType ==
    ASSUME BaseInv, Drained \/ NoEvent \/ WindowClosed \/ CloseFailed
    PROVE  BaseInv'
<1> USE DEF listVars, sessionVars, accessVars, bounds
<1>1. CASE Drained
  <2>1. CASE ItsTurn
    <3>1. /\ pending \in Devices /\ generation < started /\ StartPreflight(pending)
          /\ pending' = NoDevice /\ pc' = "event"
      BY <1>1, <2>1 DEF Drained, ItsTurn, BaseInv, TypeOK, CostInv
    <3>2. /\ streams' \subseteq Stream /\ activity' = "connecting" /\ active' = NoDevice
          /\ generation' = generation + 1 /\ generation' \in 0 .. MaxTasks
          /\ pid' = pid
      BY <3>1, PreflightType DEF BaseInv
    <3>3. TypeOK'
      BY <1>1, <3>1, <3>2 DEF Drained, BaseInv, TypeOK
    <3>4. CostInv'
      BY <1>1, <3>1, <3>2 DEF Drained, BaseInv, TypeOK, CostInv
    <3> QED
      BY <1>1, <3>3, <3>4 DEF Drained, BaseInv, EditInv
  <2>2. CASE ~ ItsTurn
    BY <1>1, <2>2 DEF Drained, BaseInv, TypeOK, CostInv, EditInv
  <2> QED
    BY <2>1, <2>2
<1>2. CASE NoEvent
  BY <1>2 DEF NoEvent, BaseInv, TypeOK, CostInv, EditInv
<1>3. CASE WindowClosed
  <2>1. streams' \subseteq Stream
    <3>1. \A C \in SUBSET streams : Close(C) => streams' \subseteq Stream
      BY DEF Close, BaseInv, TypeOK, Stream
    <3>2. \E C \in SUBSET streams : Close(C)
      BY <1>3 DEF WindowClosed, Windows
    <3> QED
      BY <3>1, <3>2
  <2>2. faults' \in 0 .. MaxFaults
    BY <1>3, ParameterAssumption DEF WindowClosed, Fault, BaseInv, TypeOK
  <2> QED
    BY <1>3, <2>1, <2>2 DEF WindowClosed, BaseInv, TypeOK, CostInv, EditInv
<1>4. CASE CloseFailed
  BY <1>4, ParameterAssumption DEF CloseFailed, Fault, BaseInv, TypeOK, CostInv, EditInv
<1> QED
  BY <1>1, <1>2, <1>3, <1>4

(* The keys.                                                               *)
LEMMA EditType ==
    ASSUME BaseInv, NEW op \in {"allow", "revoke", "list"}, NEW node \in Devices \cup {NoDevice},
           NEW step \in {"change", "read"}, step = "change" => node \in Devices,
           StartEdit(op, node, step)
    PROVE  BaseInv'
<1> USE DEF listVars, sessionVars, accessVars, bounds
<1>1. /\ started \in Nat /\ started + 1 \in 1 .. MaxTasks /\ started' = started + 1
      /\ generation <= started
  BY ParameterAssumption DEF StartEdit, Key, BaseInv, TypeOK, CostInv
<1> DEFINE new == [tag |-> started + 1, op |-> op, node |-> node, step |-> step, found |-> {}]
<1>2. new \in Edit /\ edits' = edits \cup {new} /\ new.step = step /\ new.node = node
  BY <1>1 DEF StartEdit, Edit
<1> HIDE DEF new
<1>3. TypeOK'
  BY <1>1, <1>2 DEF StartEdit, BaseInv, TypeOK, Overlays
<1>4. CostInv'
  BY <1>1 DEF StartEdit, BaseInv, TypeOK, CostInv
<1>5. EditInv'
  BY <1>2 DEF BaseInv, EditInv
<1> QED
  BY <1>3, <1>4, <1>5 DEF BaseInv

(* A key: what it starts costs one of the keys that start something.       *)
LEMMA KeyType ==
    ASSUME BaseInv, HandleKey
    PROVE  BaseInv'
<1> USE DEF listVars, sessionVars, accessVars, bounds
<1>0. Key => started' \in 1 .. MaxTasks /\ started' = started + 1 /\ generation < started'
  BY ParameterAssumption DEF Key, BaseInv, TypeOK, CostInv
<1>1. CASE Quit
  <2>1. 0 \in 0 .. MaxTasks /\ <<>> \in Seq(Report) /\ Len(<<>>) = 0 /\ 0 <= ChannelCapacity
    BY ParameterAssumption
  <2>2. nodes' \in Listings \cup {<<>>} /\ selected' \in 0 .. Len(nodes')
    BY <1>1 DEF Quit
  <2>3. channel' \in Seq(Report) /\ Len(channel') <= ChannelCapacity
    BY <1>1, <2>1 DEF Quit
  <2>4. tasks' \in [Kinds -> Nat]
    BY <1>1 DEF Quit
  <2>5. TypeOK'
    BY <1>1, <2>1, <2>2, <2>3, <2>4 DEF Quit, BaseInv, TypeOK
  <2> QED
    BY <1>1, <2>5 DEF Quit, BaseInv, TypeOK, CostInv, EditInv
<1>2. ASSUME NEW direction \in {"next", "previous"}, Select(direction) PROVE BaseInv'
  <2>1. selected' \in 0 .. Len(nodes)
    BY <1>2, CycleType DEF Select, BaseInv
  <2> QED
    BY <1>2, <2>1 DEF Select, BaseInv, TypeOK, CostInv, EditInv
<1>3. CASE Refresh
  <2>1. tasks' \in [Kinds -> Nat]
    BY <1>3 DEF Refresh, Spawn, BaseInv, TypeOK
  <2> QED
    BY <1>0, <1>3, <2>1 DEF Refresh, BaseInv, TypeOK, CostInv, EditInv
<1>4. CASE EnterStart
  <2>1. /\ Chosen.id \in Devices /\ StartPreflight(Chosen.id) /\ Key /\ started < started'
    BY <1>0, <1>4, ChosenType DEF EnterStart, BaseInv, TypeOK, Key
  <2>2. /\ generation \in Nat /\ generation <= started /\ started \in Nat
        /\ generation + 1 \in 1 .. MaxTasks
        /\ streams \subseteq Stream
    BY <1>0, <2>1, ParameterAssumption DEF BaseInv, TypeOK, CostInv
  <2>3. [number |-> generation + 1, node |-> Chosen.id, step |-> "checking"] \in Stream
    BY <2>1, <2>2 DEF Stream
  <2>4. streams' \subseteq Stream /\ generation' = generation + 1
    BY <2>1, <2>2, <2>3 DEF StartPreflight
  <2>5. TypeOK'
    BY <1>0, <1>4, <2>1, <2>2, <2>4 DEF EnterStart, StartPreflight, BaseInv, TypeOK
  <2>6. CostInv'
    <3>1. started' = started + 1 /\ pending' = pending
      BY <1>0, <1>4 DEF EnterStart
    <3> QED
      BY <2>2, <2>4, <3>1 DEF BaseInv, CostInv
  <2> QED
    BY <1>4, <2>5, <2>6 DEF EnterStart, BaseInv, EditInv
<1>5. CASE EnterSwitch
  BY <1>0, <1>5, ChosenType DEF EnterSwitch, BaseInv, TypeOK, CostInv, EditInv
<1>6. CASE OpenMenu
  <2>1. tasks' \in [Kinds -> Nat]
    BY <1>6 DEF OpenMenu, Spawn, BaseInv, TypeOK
  <2> QED
    BY <1>0, <1>6, <2>1 DEF OpenMenu, BaseInv, TypeOK, CostInv, EditInv, Overlays
<1>7. ASSUME NEW next \in Overlays, Navigate(next) PROVE BaseInv'
  BY <1>7 DEF Navigate, BaseInv, TypeOK, CostInv, EditInv
<1>8. CASE StoreCredentials
  <2>1. tasks' \in [Kinds -> Nat]
    BY <1>8 DEF StoreCredentials, Spawn, BaseInv, TypeOK
  <2> QED
    BY <1>0, <1>8, <2>1 DEF StoreCredentials, BaseInv, TypeOK, CostInv, EditInv, Overlays
<1>9. CASE OpenAccess \/ Allow \/ Revoke
  BY <1>9, EditType, ChosenType DEF OpenAccess, Allow, Revoke, BaseInv
<1> QED
  BY <1>1, <1>2, <1>3, <1>4, <1>5, <1>6, <1>7, <1>8, <1>9 DEF HandleKey

(* Every step keeps the types, the cost of a stream and the edits.         *)
LEMMA BaseStep ==
    ASSUME BaseInv, [Next]_vars
    PROVE  BaseInv'
<1>1. CASE UNCHANGED vars
  BY <1>1 DEF vars, listVars, sessionVars, accessVars, bounds, BaseInv, TypeOK, CostInv, EditInv
<1> QED
  BY <1>1, ApplyType, LoopType, KeyType, TasksType DEF Next, Loop

-----------------------------------------------------------------------------
(* What is waited for.                                                     *)

(* A step that is about neither discovery nor the check.                   *)
LEMMA WaitSame ==
    ASSUME WaitInv, Running' => Running,
           UnderWay("discovery")' = UnderWay("discovery"),
           UnderWay("readiness")' = UnderWay("readiness"),
           loading' = loading, readiness' \in {readiness, "ready", "blocked"}
    PROVE  WaitInv'
  BY DEF WaitInv

(* Reports of other kinds.                                                 *)
LEMMA OtherSent ==
    ASSUME TypeOK, NEW kind, kind \notin {"discovery", "readiness"},
           NEW number, NEW node, NEW found, Send(kind, number, node, found), tasks' = tasks
    PROVE  /\ UnderWay("discovery")' = UnderWay("discovery")
           /\ UnderWay("readiness")' = UnderWay("readiness")
<1>1. \A q \in {"discovery", "readiness"} :
         /\ Cardinality(Reports(q)) \in Nat
         /\ Cardinality(Reports(q))' = Cardinality(Reports(q)) + 0
  BY SendingCounts, Positions
<1>2. ASSUME NEW q \in {"discovery", "readiness"}
      PROVE  Cardinality(Reports(q)') = Cardinality(Reports(q))
  BY <1>1
<1> QED
  BY <1>2 DEF UnderWay

(* A report of another kind is taken: the two kinds keep their number.     *)
LEMMA OtherTaken ==
    ASSUME TypeOK, NEW kind, kind \notin {"discovery", "readiness"}, Take(kind)
    PROVE  /\ Cardinality(Reports("discovery"))' = Cardinality(Reports("discovery"))
           /\ Cardinality(Reports("readiness"))' = Cardinality(Reports("readiness"))
<1>1. \A q \in {"discovery", "readiness"} :
         /\ Cardinality(Reports(q)) \in Nat
         /\ Cardinality(Reports(q))' = Cardinality(Reports(q)) - 0
  BY TakingCounts
<1> QED
  BY <1>1

(* Every step keeps what is waited for under way.                          *)
LEMMA WaitStep ==
    ASSUME BaseInv, WaitInv, [Next]_vars
    PROVE  WaitInv'
<1> USE DEF listVars, sessionVars, accessVars, bounds
<1>0. TypeOK /\ tasks \in [Kinds -> Nat] /\ "discovery" \in Kinds /\ "readiness" \in Kinds
  BY DEF BaseInv, TypeOK, Kinds
<1>1. ASSUME UNCHANGED <<loading, readiness, tasks, channel>>, Running' => Running
      PROVE  WaitInv'
  <2>1. \A q : Reports(q)' = Reports(q)
    BY <1>1 DEF Reports
  <2> QED
    BY <1>1, <2>1, WaitSame DEF UnderWay
<1>2. ASSUME NEW k \in Kinds, TaskReports(k) PROVE WaitInv'
  <2>1. ASSUME NEW q \in {"discovery", "readiness"}
        PROVE  UnderWay(q)' = UnderWay(q)
    <3>1. /\ Cardinality(Reports(q)) \in Nat /\ tasks[q] \in Nat /\ tasks[k] \in Nat
          /\ Cardinality(Reports(q))' = Cardinality(Reports(q)) + (IF q = k THEN 1 ELSE 0)
      BY <1>0, <1>2, SendingCounts, Positions DEF TaskReports
    <3>2. tasks'[q] = tasks[q] - (IF q = k THEN 1 ELSE 0)
      BY <1>0, <1>2, <3>1 DEF TaskReports
    <3> QED
      BY <3>1, <3>2 DEF UnderWay
  <2> QED
    BY <1>2, <2>1, WaitSame DEF TaskReports, Running
<1>3. ASSUME NEW s \in streams, StreamStarts(s) \/ StreamEnds(s) PROVE WaitInv'
  <2>1. /\ UnderWay("discovery")' = UnderWay("discovery")
        /\ UnderWay("readiness")' = UnderWay("readiness")
    BY <1>0, <1>3, OtherSent DEF StreamStarts, StreamEnds
  <2> QED
    BY <1>3, <2>1, WaitSame DEF StreamStarts, StreamEnds, Running
<1>4. ASSUME NEW e \in edits, Background(e) PROVE WaitInv'
  <2>1. UNCHANGED <<loading, readiness, tasks, pc>>
    BY <1>4 DEF Background, Change, Changed, Read, EditReports
  <2>2. \/ UNCHANGED channel \/ Send("denied", 0, NoDevice, {})
        \/ Send("access", 0, NoDevice, e.found)
    BY <1>4 DEF Background, Change, Changed, Read, EditReports
  <2>3. CASE UNCHANGED channel
    BY <1>1, <2>1, <2>3 DEF Running
  <2>4. CASE Send("denied", 0, NoDevice, {}) \/ Send("access", 0, NoDevice, e.found)
    <3>1. /\ UnderWay("discovery")' = UnderWay("discovery")
          /\ UnderWay("readiness")' = UnderWay("readiness")
      BY <1>0, <2>1, <2>4, OtherSent
    <3> QED
      BY <2>1, <3>1, WaitSame DEF Running
  <2> QED
    BY <2>2, <2>3, <2>4
<1>5. ASSUME NEW list, ApplyDiscovery(list) PROVE WaitInv'
  <2>1. /\ Take("discovery") /\ loading' = FALSE /\ pc = "drain" /\ tasks' = tasks
        /\ readiness' = readiness
    BY <1>5 DEF ApplyDiscovery, Take
  <2>2. /\ Cardinality(Reports("discovery")) \in Nat
        /\ Cardinality(Reports("discovery"))' = Cardinality(Reports("discovery")) - 1
        /\ Cardinality(Reports("discovery")) > 0
        /\ Cardinality(Reports("readiness")) \in Nat
        /\ Cardinality(Reports("readiness"))' = Cardinality(Reports("readiness")) - 0
    BY <1>0, <2>1, TakingCounts
  <2>3. tasks["discovery"] \in Nat /\ tasks["readiness"] \in Nat
    BY <1>0
  <2>4. /\ tasks["discovery"] + Cardinality(Reports("discovery")) = IF loading THEN 1 ELSE 0
        /\ readiness = "checking" => tasks["readiness"] + Cardinality(Reports("readiness")) > 0
    BY <2>1 DEF WaitInv, Running, UnderWay
  <2>5. UnderWay("discovery")' = 0 /\ UnderWay("readiness")' = UnderWay("readiness")
    BY <2>1, <2>2, <2>3, <2>4 DEF UnderWay
  <2> QED
    BY <2>1, <2>4, <2>5 DEF WaitInv, UnderWay
<1>6. CASE ApplyReadiness
  <2>1. /\ Take("readiness") /\ loading' = loading /\ pc = "drain" /\ tasks' = tasks
        /\ readiness' # "checking"
    BY <1>6 DEF ApplyReadiness, Take
  <2>2. /\ Cardinality(Reports("discovery")) \in Nat
        /\ Cardinality(Reports("discovery"))' = Cardinality(Reports("discovery")) - 0
    BY <1>0, <2>1, TakingCounts
  <2>3. UnderWay("discovery")' = UnderWay("discovery")
    BY <2>1, <2>2 DEF UnderWay
  <2> QED
    BY <2>1, <2>3 DEF WaitInv, Running
<1>7. CASE ApplyStatus \/ ApplyStarted \/ ApplyEnded \/ ApplyAccess
  <2>1. /\ \E kind \in {"status", "started", "ended", "access", "denied"} : Take(kind)
        /\ loading' = loading /\ pc = "drain" /\ pc' = pc /\ tasks' = tasks
        /\ readiness' \in {readiness, "ready", "blocked"}
    BY <1>7 DEF ApplyStatus, ApplyStarted, ApplyEnded, ApplyAccess, Take
  <2>2. /\ Cardinality(Reports("discovery"))' = Cardinality(Reports("discovery"))
        /\ Cardinality(Reports("readiness"))' = Cardinality(Reports("readiness"))
    BY <1>0, <2>1, OtherTaken
  <2>3. /\ UnderWay("discovery")' = UnderWay("discovery")
        /\ UnderWay("readiness")' = UnderWay("readiness")
    BY <2>1, <2>2 DEF UnderWay
  <2> QED
    BY <2>1, <2>3, WaitSame DEF Running
<1>8. CASE ApplyStored
  <2>1. Take("stored") /\ loading' = loading /\ pc = "drain" /\ pc' = pc
    BY <1>8 DEF ApplyStored, Take
  <2>2. /\ Cardinality(Reports("discovery"))' = Cardinality(Reports("discovery"))
        /\ Cardinality(Reports("readiness"))' = Cardinality(Reports("readiness"))
        /\ Cardinality(Reports("readiness")) \in Nat
    BY <1>0, <2>1, OtherTaken, Positions
  <2>3. CASE readiness' = "checking" /\ Recheck
    <3>1. tasks'["discovery"] = tasks["discovery"] /\ tasks'["readiness"] = tasks["readiness"] + 1
      BY <1>0, <2>3 DEF Recheck, Spawn
    <3>2. tasks["readiness"] \in Nat
      BY <1>0
    <3>3. UnderWay("discovery")' = UnderWay("discovery") /\ UnderWay("readiness")' > 0
      BY <2>2, <3>1, <3>2 DEF UnderWay
    <3> QED
      BY <2>1, <3>3 DEF WaitInv, Running
  <2>4. CASE UNCHANGED <<readiness, tasks>>
    <3>1. /\ UnderWay("discovery")' = UnderWay("discovery")
          /\ UnderWay("readiness")' = UnderWay("readiness")
      BY <2>2, <2>4 DEF UnderWay
    <3> QED
      BY <2>1, <2>4, <3>1, WaitSame DEF Running
  <2> QED
    BY <1>8, <2>3, <2>4 DEF ApplyStored
<1>9. CASE Quit
  BY <1>9 DEF Quit, WaitInv, Running
<1>10. CASE Refresh
  <2>1. /\ ~ loading /\ loading' = TRUE /\ channel' = channel /\ pc = "event"
        /\ Spawn({"discovery", "readiness"})
    BY <1>10 DEF Refresh, Pressed
  <2>2. /\ tasks'["discovery"] = tasks["discovery"] + 1
        /\ tasks'["readiness"] = tasks["readiness"] + 1
    BY <1>0, <2>1 DEF Spawn
  <2>3. /\ Cardinality(Reports("discovery"))' = Cardinality(Reports("discovery"))
        /\ Cardinality(Reports("readiness"))' = Cardinality(Reports("readiness"))
        /\ Cardinality(Reports("readiness")) \in Nat /\ Cardinality(Reports("discovery")) \in Nat
    BY <1>0, <2>1, Positions DEF Reports
  <2>4. tasks["discovery"] + Cardinality(Reports("discovery")) = 0
    BY <2>1 DEF WaitInv, Running, UnderWay
  <2>5. tasks["discovery"] \in Nat /\ tasks["readiness"] \in Nat
    BY <1>0
  <2>6. UnderWay("discovery")' = 1 /\ UnderWay("readiness")' > 0
    BY <2>2, <2>3, <2>4, <2>5 DEF UnderWay
  <2> QED
    BY <2>1, <2>6 DEF WaitInv
<1>11. CASE OpenMenu \/ StoreCredentials
  <2>1. /\ UNCHANGED <<loading, readiness, channel>> /\ pc = "event"
        /\ Spawn({"status"}) \/ Spawn({"stored"})
    BY <1>11 DEF OpenMenu, StoreCredentials, Pressed
  <2>2. tasks'["discovery"] = tasks["discovery"] /\ tasks'["readiness"] = tasks["readiness"]
    BY <1>0, <2>1 DEF Spawn
  <2>3. /\ UnderWay("discovery")' = UnderWay("discovery")
        /\ UnderWay("readiness")' = UnderWay("readiness")
    BY <2>1, <2>2 DEF UnderWay, Reports
  <2> QED
    BY <2>1, <2>3, WaitSame DEF Running
<1>12. CASE Drained \/ NoEvent \/ WindowClosed \/ CloseFailed
  BY <1>1, <1>12 DEF Drained, NoEvent, WindowClosed, CloseFailed, Running
<1>13. CASE EnterStart \/ EnterSwitch \/ OpenAccess \/ Allow \/ Revoke
  BY <1>1, <1>13 DEF EnterStart, EnterSwitch, OpenAccess, Allow, Revoke, StartEdit, Pressed, Running
<1>14. CASE (\E direction \in {"next", "previous"} : Select(direction))
            \/ (\E next \in Overlays : Navigate(next))
  BY <1>1, <1>14 DEF Select, Navigate, Pressed, Running
<1>15. CASE UNCHANGED vars
  BY <1>1, <1>15 DEF vars, Running
<1> QED
  BY <1>2, <1>3, <1>4, <1>5, <1>6, <1>7, <1>8, <1>9, <1>10, <1>11, <1>12, <1>13, <1>14, <1>15
  DEF Next, Loop, Apply, HandleKey

-----------------------------------------------------------------------------
(* Streams.                                                                *)

SameStream == UNCHANGED <<streams, activity, active, pid, generation>>

(* A step that moves neither a stream nor a report of one.                 *)
LEMMA StreamSame ==
    ASSUME StreamInv, SameStream,
           Reports("started")' = Reports("started"), Reports("ended")' = Reports("ended"),
           \A i \in Telling : channel'[i] = channel[i]
    PROVE  StreamInv'
<1>1. TaskInv'
  BY DEF SameStream, StreamInv, TaskInv
<1>2. TellingInv'
  BY DEF SameStream, StreamInv, TellingInv, Telling
<1>3. ShownInv'
  BY DEF SameStream, StreamInv, ShownInv, Telling
<1> QED
  BY <1>1, <1>2, <1>3 DEF StreamInv

(* Reports of other kinds.                                                 *)
LEMMA StreamOtherSent ==
    ASSUME TypeOK, StreamInv, SameStream, NEW kind, kind \notin {"started", "ended"},
           NEW number, NEW node, NEW found, Send(kind, number, node, found)
    PROVE  StreamInv'
<1>1. Reports("started")' = Reports("started") /\ Reports("ended")' = Reports("ended")
  BY Sending
<1>2. \A i \in Telling : channel'[i] = channel[i]
  BY Sending, Positions DEF Telling
<1> QED
  BY <1>1, <1>2, StreamSame

(* A report of another kind is taken: those of the stream move up.         *)
LEMMA StreamOtherTaken ==
    ASSUME TypeOK, StreamInv, SameStream, NEW kind, kind \notin {"started", "ended"}, Take(kind)
    PROVE  StreamInv'
<1>1. /\ Reports("started") \subseteq Nat /\ Reports("ended") \subseteq Nat
      /\ Reports("started")' \subseteq Nat /\ Reports("ended")' \subseteq Nat
  BY Taking DEF TypeOK, Reports
<1>2. \A q \in {"started", "ended"} :
         /\ \A i \in Reports(q)' : i \in Nat /\ i + 1 \in Reports(q) /\ channel'[i] = channel[i + 1]
         /\ \A i \in Reports(q) : i \in Nat /\ i - 1 \in Nat /\ i - 1 \in Reports(q)'
  <2>1. ASSUME NEW q \in {"started", "ended"}, NEW i \in Reports(q)'
        PROVE  i \in Nat /\ i + 1 \in Reports(q) /\ channel'[i] = channel[i + 1]
    <3>1. i \in Nat /\ i \in 1 .. Len(channel) - 1
      BY <1>1, <2>1, Taking DEF Reports
    <3> QED
      BY <2>1, <3>1, Taking
  <2>2. ASSUME NEW q \in {"started", "ended"}, NEW i \in Reports(q)
        PROVE  i \in Nat /\ i - 1 \in Nat /\ i - 1 \in Reports(q)'
    <3>0. i \in 1 .. Len(channel) /\ Len(channel) \in Nat /\ 1 \notin Reports(q)
      BY <2>2, Taking, Positions
    <3>1. i \in Nat /\ i # 1 /\ i # 0
      BY <2>2, <3>0
    <3>2. i - 1 \in Nat /\ i - 1 # 0 /\ (i - 1) + 1 = i
      BY <3>1
    <3> QED
      BY <2>2, <3>1, <3>2, Taking
  <2> QED
    BY <2>1, <2>2
<1>3. Reports("started")' = {} <=> Reports("started") = {}
  BY <1>2
<1>4. Reports("ended")' = {} <=> Reports("ended") = {}
  BY <1>2
<1>5. TaskInv'
  BY <1>3, <1>4 DEF SameStream, StreamInv, TaskInv
<1>6. TellingInv'
  BY <1>2, <1>4 DEF SameStream, StreamInv, TellingInv, Telling
<1>7. ShownInv'
  BY <1>3, <1>4 DEF SameStream, StreamInv, ShownInv, Telling
<1> QED
  BY <1>5, <1>6, <1>7 DEF StreamInv

(* A stream starts when the one before it is gone with all its reports.    *)
LEMMA StreamPreflight ==
    ASSUME TypeOK, StreamInv, MayStart, NEW node \in Devices, StartPreflight(node),
           channel' = channel
    PROVE  StreamInv'
<1>1. streams = {} /\ Telling = {} /\ pid = 0 /\ active = NoDevice
  BY DEF MayStart, StreamInv, ShownInv
<1>2. /\ streams' = {[number |-> generation + 1, node |-> node, step |-> "checking"]}
      /\ generation' = generation + 1 /\ activity' = "connecting" /\ active' = NoDevice
      /\ pid' = 0
  BY <1>1 DEF StartPreflight
<1>3. Reports("started")' = {} /\ Reports("ended")' = {}
  BY <1>1 DEF Telling, Reports
<1>4. TaskInv'
  BY <1>2, <1>3 DEF TaskInv
<1>5. TellingInv'
  BY <1>3 DEF TellingInv, Telling
<1>6. ShownInv'
  BY <1>2, <1>3 DEF ShownInv
<1> QED
  BY <1>4, <1>5, <1>6 DEF StreamInv

(* The stream is up and says so: it is the only one, and was not told of.  *)
LEMMA StreamStarting ==
    ASSUME TypeOK, StreamInv, NEW s \in streams, StreamStarts(s)
    PROVE  StreamInv'
<1>1. /\ s \in Stream /\ streams = {s} /\ s.step = "checking" /\ s.number = generation
      /\ activity = "connecting" /\ Reports("started") = {} /\ Reports("ended") = {}
      /\ active = NoDevice /\ pid = 0
  BY DEF StreamStarts, TypeOK, StreamInv, TaskInv, ShownInv
<1> DEFINE t == [s EXCEPT !.step = "running"]
           last == Len(channel) + 1
<1>2. t.number = generation /\ t.node = s.node /\ t.step = "running" /\ s.node \in Devices
  BY <1>1 DEF Stream
<1>3. streams' = {t} /\ UNCHANGED <<activity, active, pid, generation>>
  BY <1>1 DEF StreamStarts, sessionVars
<1> HIDE DEF t
<1>4. /\ Reports("started")' = {last} /\ Reports("ended")' = {}
      /\ channel'[last] = Saying("started", s.number, s.node, {})
  BY <1>1, Sending DEF StreamStarts
<1>5. channel'[last].number = generation /\ channel'[last].node = s.node
  BY <1>1, <1>4 DEF Saying
<1> HIDE DEF last
<1>6. TaskInv'
  BY <1>1, <1>2, <1>3, <1>4 DEF TaskInv
<1>7. TellingInv'
  BY <1>1, <1>2, <1>3, <1>4, <1>5 DEF TellingInv, Telling
<1>8. ShownInv'
  BY <1>1, <1>3 DEF ShownInv
<1> QED
  BY <1>6, <1>7, <1>8 DEF StreamInv

(* The stream ends and says so, after it said that it started, if it did.  *)
LEMMA StreamEnding ==
    ASSUME TypeOK, StreamInv, NEW s \in streams, StreamEnds(s)
    PROVE  StreamInv'
<1>1. /\ s \in Stream /\ streams = {s} /\ s.number = generation
      /\ activity = "connecting" \/ active = s.node
      /\ Reports("ended") = {}
      /\ active # NoDevice \/ activity = "connecting"
      /\ s.node \in Devices
  BY DeviceAssumption DEF TypeOK, StreamInv, TaskInv, Stream
<1> DEFINE last == Len(channel) + 1
<1>2. streams' = {} /\ UNCHANGED <<activity, active, pid, generation>>
  BY <1>1 DEF StreamEnds, sessionVars
<1>3. /\ Reports("started")' = Reports("started") /\ Reports("ended")' = {last}
      /\ channel'[last] = Saying("ended", s.number, s.node, {})
  <2>1. Send("ended", s.number, s.node, {})
    BY DEF StreamEnds
  <2>2. \A q : Reports(q)' = Reports(q) \cup (IF q = "ended" THEN {last} ELSE {})
    BY <2>1, Sending
  <2>3. channel'[last] = Saying("ended", s.number, s.node, {})
    BY <2>1, Sending
  <2>4. Reports("started")' = Reports("started") \cup {}
    BY <2>2
  <2>5. Reports("ended")' = Reports("ended") \cup {last}
    BY <2>2
  <2>6. Reports("started")' = Reports("started")
    BY <2>4
  <2>7. Reports("ended")' = {last}
    BY <1>1, <2>5
  <2> QED
    BY <2>3, <2>6, <2>7
<1>4. channel'[last].number = generation /\ channel'[last].node = s.node
  BY <1>1, <1>3 DEF Saying
<1>5. \A i \in Reports("started") : channel'[i] = channel[i] /\ i < last
  BY Sending, Positions DEF StreamEnds
<1> HIDE DEF last
<1>6. TaskInv'
  BY <1>2 DEF TaskInv
<1>7. TellingInv'
  BY <1>1, <1>2, <1>3, <1>4, <1>5 DEF StreamInv, TellingInv, Telling
<1>8. ShownInv'
  BY <1>1, <1>2, <1>3 DEF StreamInv, ShownInv
<1> QED
  BY <1>6, <1>7, <1>8 DEF StreamInv

(* The loop hears that the stream has started ...                          *)
LEMMA StreamHeard ==
    ASSUME TypeOK, StreamInv, ApplyStarted
    PROVE  StreamInv'
<1>1. Take("started") /\ 1 \in Reports("started") /\ Head(channel) = channel[1]
  BY Taking DEF ApplyStarted
<1>2. /\ channel[1].number = generation /\ channel[1].node \in Devices
      /\ Reports("started") = {1} /\ activity = "connecting"
      /\ \A s \in streams : s.node = channel[1].node /\ s.step # "checking"
      /\ streams = {} => Reports("ended") # {}
      /\ \A j \in Reports("ended") : 1 < j /\ channel[j].node = channel[1].node
      /\ \A j \in Reports("ended") : channel[j].number = generation
  BY <1>1 DEF StreamInv, TaskInv, TellingInv, Telling
<1>3. /\ activity' = "idle" /\ active' = channel[1].node /\ pid' \in {0, generation}
      /\ streams' = streams /\ generation' = generation
  BY <1>1, <1>2 DEF ApplyStarted
<1>4. active' # NoDevice
  BY <1>2, <1>3, DeviceAssumption
<1>5. Reports("started")' = {}
  <2>1. Reports("started")' \subseteq Nat
    BY <1>1, Taking DEF Reports
  <2>2. \A i \in Nat : i \in Reports("started")' => i # 0 /\ i + 1 \in Reports("started")
    BY <1>1, Taking
  <2> QED
    BY <1>2, <2>1, <2>2
<1>6. \A j \in Reports("ended")' :
         j \in Nat /\ j + 1 \in Reports("ended") /\ channel'[j] = channel[j + 1]
  <2>1. ASSUME NEW j \in Reports("ended")'
        PROVE  j \in Nat /\ j + 1 \in Reports("ended") /\ channel'[j] = channel[j + 1]
    <3>1. j \in Nat /\ j \in 1 .. Len(channel) - 1
      BY <1>1, <2>1, Taking DEF Reports
    <3> QED
      BY <1>1, <2>1, <3>1, Taking
  <2> QED
    BY <2>1
<1>7. Reports("ended") # {} => Reports("ended")' # {}
  <2>1. ASSUME NEW j \in Reports("ended") PROVE j - 1 \in Reports("ended")'
    <3>1. j \in Nat /\ 1 < j
      BY <1>2, Positions DEF TypeOK, Reports
    <3>2. j - 1 \in Nat /\ j - 1 # 0 /\ (j - 1) + 1 = j
      BY <3>1
    <3> QED
      BY <1>1, <3>2, Taking
  <2> QED
    BY <2>1
<1>8. TaskInv'
  BY <1>2, <1>3, <1>5, <1>6 DEF StreamInv, TaskInv
<1>9. TellingInv'
  <2>1. \A i, j \in Reports("ended")' : i = j
    BY <1>6 DEF StreamInv, TellingInv
  <2> QED
    BY <1>2, <1>3, <1>5, <1>6, <2>1 DEF TellingInv, Telling
<1>10. ShownInv'
  BY <1>2, <1>3, <1>4, <1>7 DEF ShownInv
<1> QED
  BY <1>8, <1>9, <1>10 DEF StreamInv

(* ... and that it has ended.                                              *)
LEMMA StreamOver ==
    ASSUME TypeOK, StreamInv, ApplyEnded
    PROVE  StreamInv'
<1>1. Take("ended") /\ 1 \in Reports("ended") /\ Head(channel) = channel[1]
  BY Taking DEF ApplyEnded
<1>2. Reports("started") \subseteq 1 .. Len(channel) /\ Len(channel) \in Nat
  BY Positions DEF TypeOK
<1>3. channel[1].number = generation /\ streams = {} /\ Reports("ended") = {1}
  BY <1>1 DEF StreamInv, TaskInv, TellingInv, Telling
<1>4. Reports("started") = {}
  <2>1. \A i \in Reports("started") : i \in Nat /\ i # 0 /\ i < 1
    BY <1>1, <1>2 DEF StreamInv, TellingInv
  <2> QED
    BY <2>1
<1>5. /\ activity' = "idle" /\ active' = NoDevice /\ pid' = 0
      /\ streams' = {} /\ generation' = generation
  BY <1>1, <1>3 DEF ApplyEnded
<1>6. Reports("started")' = {} /\ Reports("ended")' = {}
  <2>1. Reports("started")' \subseteq Nat /\ Reports("ended")' \subseteq Nat
    BY <1>1, Taking DEF Reports
  <2>2. \A i \in Nat : /\ i \in Reports("started")' => i + 1 \in Reports("started")
                       /\ i \in Reports("ended")' => i # 0 /\ i + 1 \in Reports("ended")
    BY <1>1, Taking
  <2> QED
    BY <1>3, <1>4, <2>1, <2>2
<1> QED
  BY <1>5, <1>6 DEF StreamInv, TaskInv, TellingInv, ShownInv, Telling

(* A window that closes ends no stream at once.                            *)
LEMMA StreamClosing ==
    ASSUME TypeOK, StreamInv, WindowClosed
    PROVE  StreamInv'
<1>1. PICK C \in SUBSET Windows : Close(C)
  BY DEF WindowClosed
<1>2. /\ UNCHANGED <<activity, active, pid, generation>>
      /\ Reports("started")' = Reports("started") /\ Reports("ended")' = Reports("ended")
      /\ channel' = channel
  BY DEF WindowClosed, sessionVars, Reports
<1>3. CASE C = {}
  <2>1. streams' = streams
    BY <1>1, <1>3 DEF Close
  <2> QED
    BY <1>2, <2>1, StreamSame DEF SameStream
<1>4. CASE C # {}
  <2>1. PICK s \in streams : C = {s} /\ streams = {s} /\ s.step = "running"
    BY <1>4 DEF Windows, StreamInv, TaskInv
  <2> DEFINE t == [s EXCEPT !.step = "closing"]
  <2>2. streams' = {t}
    BY <1>1, <2>1 DEF Close
  <2>3. t.number = s.number /\ t.node = s.node /\ t.step = "closing"
    BY <2>1 DEF TypeOK, Stream
  <2> HIDE DEF t
  <2>4. TaskInv'
    BY <1>2, <2>1, <2>2, <2>3 DEF StreamInv, TaskInv
  <2>5. TellingInv'
    BY <1>2, <2>1, <2>2, <2>3 DEF StreamInv, TellingInv, Telling
  <2>6. ShownInv'
    BY <1>2, <2>1, <2>2 DEF StreamInv, ShownInv, Telling
  <2> QED
    BY <2>4, <2>5, <2>6 DEF StreamInv
<1> QED
  BY <1>3, <1>4

(* Every step keeps the life of the stream.                                *)
LEMMA StreamStep ==
    ASSUME BaseInv, StreamInv, [Next]_vars
    PROVE  StreamInv'
<1> USE DEF listVars, sessionVars, accessVars, bounds
<1>0. TypeOK
  BY DEF BaseInv
<1>1. ASSUME SameStream, UNCHANGED channel PROVE StreamInv'
  <2>1. Reports("started")' = Reports("started") /\ Reports("ended")' = Reports("ended")
    BY <1>1 DEF Reports
  <2> QED
    BY <1>1, <2>1, StreamSame
<1>2. ASSUME NEW k \in Kinds, TaskReports(k) PROVE StreamInv'
  <2>1. SameStream /\ Send(k, 0, NoDevice, {}) /\ k \notin {"started", "ended"}
    BY <1>2 DEF TaskReports, SameStream, Kinds
  <2> QED
    BY <1>0, <2>1, StreamOtherSent
<1>3. ASSUME NEW s \in streams, StreamStarts(s) \/ StreamEnds(s) PROVE StreamInv'
  BY <1>0, <1>3, StreamStarting, StreamEnding
<1>4. ASSUME NEW e \in edits, Background(e) PROVE StreamInv'
  <2>1. SameStream
    BY <1>4 DEF Background, Change, Changed, Read, EditReports, SameStream
  <2>2. \/ UNCHANGED channel \/ Send("denied", 0, NoDevice, {})
        \/ Send("access", 0, NoDevice, e.found)
    BY <1>4 DEF Background, Change, Changed, Read, EditReports
  <2>3. CASE UNCHANGED channel
    BY <1>1, <2>1, <2>3
  <2>4. CASE Send("denied", 0, NoDevice, {})
    BY <1>0, <2>1, <2>4, StreamOtherSent
  <2>5. CASE Send("access", 0, NoDevice, e.found)
    BY <1>0, <2>1, <2>5, StreamOtherSent
  <2> QED
    BY <2>2, <2>3, <2>4, <2>5
<1>5. CASE Apply
  <2>1. ASSUME NEW kind \in {"discovery", "readiness", "status", "stored", "access", "denied"},
               Take(kind), SameStream
        PROVE  StreamInv'
    BY <1>0, <2>1, StreamOtherTaken
  <2>2. ASSUME NEW list, ApplyDiscovery(list) PROVE StreamInv'
    BY <2>1, <2>2 DEF ApplyDiscovery, SameStream
  <2>3. CASE ApplyReadiness \/ ApplyStatus \/ ApplyStored \/ ApplyAccess
    BY <2>1, <2>3 DEF ApplyReadiness, ApplyStatus, ApplyStored, ApplyAccess, SameStream
  <2> QED
    BY <1>0, <1>5, <2>2, <2>3, StreamHeard, StreamOver DEF Apply
<1>6. CASE Drained
  <2>1. CASE ItsTurn
    <3>1. MayStart /\ pending \in Devices /\ StartPreflight(pending) /\ channel' = channel
      BY <1>0, <1>6, <2>1 DEF Drained, ItsTurn, TypeOK
    <3> QED
      BY <1>0, <3>1, StreamPreflight
  <2>2. CASE ~ ItsTurn
    BY <1>1, <1>6, <2>2 DEF Drained, SameStream
  <2> QED
    BY <2>1, <2>2
<1>7. CASE NoEvent \/ CloseFailed
  BY <1>1, <1>7 DEF NoEvent, CloseFailed, SameStream
<1>8. CASE WindowClosed
  BY <1>0, <1>8, StreamClosing
<1>9. CASE Quit
  <2>1. /\ streams' = {} /\ channel' = <<>> /\ activity' = "idle" /\ active' = NoDevice
        /\ pid' = 0 /\ generation' = 0
    BY <1>9 DEF Quit
  <2>2. Reports("started")' = {} /\ Reports("ended")' = {}
    BY <2>1 DEF Reports
  <2> QED
    BY <2>1, <2>2 DEF StreamInv, TaskInv, TellingInv, ShownInv, Telling
<1>10. CASE EnterStart
  <2>1. MayStart /\ Chosen.id \in Devices /\ StartPreflight(Chosen.id) /\ channel' = channel
    BY <1>0, <1>10, ChosenType DEF EnterStart
  <2> QED
    BY <1>0, <2>1, StreamPreflight
<1>11. CASE Refresh \/ EnterSwitch \/ OpenMenu \/ StoreCredentials
  BY <1>1, <1>11 DEF Refresh, EnterSwitch, OpenMenu, StoreCredentials, SameStream
<1>12. CASE OpenAccess \/ Allow \/ Revoke
  BY <1>1, <1>12 DEF OpenAccess, Allow, Revoke, StartEdit, SameStream
<1>13. CASE (\E direction \in {"next", "previous"} : Select(direction))
            \/ (\E next \in Overlays : Navigate(next))
  BY <1>1, <1>13 DEF Select, Navigate, SameStream
<1>14. CASE UNCHANGED vars
  BY <1>1, <1>14 DEF vars, SameStream
<1> QED
  BY <1>2, <1>3, <1>4, <1>5, <1>6, <1>7, <1>8, <1>9, <1>10, <1>11, <1>12, <1>13, <1>14
  DEF Next, Loop, HandleKey

-----------------------------------------------------------------------------
(* The access list.                                                        *)

(* Nothing happens to it.                                                  *)
LEMMA AccessSame ==
    ASSUME AccessInv, UNCHANGED <<edits, allowed, entries, crowded>>,
           Running' => Running, faults' = 0 => faults = 0,
           overlay' = "access" => overlay = "access",
           Reports("access")' = Reports("access"),
           \A i \in Reports("access") : channel'[i] = channel[i]
    PROVE  AccessInv'
  BY DEF AccessInv

(* Reports of other kinds pass it by.                                      *)
LEMMA AccessOtherSent ==
    ASSUME TypeOK, AccessInv, UNCHANGED <<edits, allowed, entries, crowded, overlay, pc>>,
           faults' = 0 => faults = 0,
           NEW kind, kind # "access", NEW number, NEW node, NEW found,
           Send(kind, number, node, found)
    PROVE  AccessInv'
<1>1. Reports("access")' = Reports("access")
  BY Sending
<1>2. \A i \in Reports("access") : channel'[i] = channel[i]
  BY Sending, Positions
<1> QED
  BY <1>1, <1>2, AccessSame DEF Running

(* The list that has been taken is shown, or another kind of report goes.  *)
LEMMA AccessTaken ==
    ASSUME TypeOK, AccessInv, UNCHANGED <<edits, allowed, crowded, overlay, pc>>,
           faults' = 0 => faults = 0, NEW kind, Take(kind),
           entries' = IF kind = "access" THEN channel[1].found ELSE entries
    PROVE  AccessInv'
<1>1. SUFFICES ASSUME faults = 0, ~ crowded, Running
               PROVE  /\ \A e, f \in edits' : e = f
                      /\ \A e \in edits' : e.step = "report" => e.found = allowed'
                      /\ edits' = {} =>
                            /\ \A i \in Reports("access")' :
                                  (\A j \in Reports("access")' : j <= i) =>
                                      channel'[i].found = allowed'
                            /\ Reports("access")' = {} =>
                                  overlay' # "access" \/ entries' = allowed'
  BY DEF AccessInv, Running
<1>2. /\ \A e, f \in edits : e = f
      /\ \A e \in edits : e.step = "report" => e.found = allowed
      /\ edits = {} =>
            /\ \A i \in Reports("access") :
                  (\A j \in Reports("access") : j <= i) => channel[i].found = allowed
            /\ Reports("access") = {} => overlay # "access" \/ entries = allowed
  BY <1>1 DEF AccessInv
<1>3. /\ Reports("access") \subseteq 1 .. Len(channel) /\ Len(channel) \in Nat
      /\ 1 \in Reports("access") <=> kind = "access"
  BY Positions, Taking
<1>4. ASSUME NEW i \in Reports("access")'
      PROVE  i \in Nat /\ i # 0 /\ i + 1 \in Reports("access") /\ channel'[i] = channel[i + 1]
  <2>1. i \in Nat /\ i \in 1 .. Len(channel) - 1
    BY <1>4, Taking DEF Reports
  <2> QED
    BY <1>4, <2>1, Taking
<1>5. ASSUME NEW i \in Reports("access"), i # 1
      PROVE  i \in Nat /\ i - 1 \in Nat /\ i - 1 \in Reports("access")'
  <2>1. i \in Nat /\ i - 1 \in Nat /\ i - 1 # 0 /\ (i - 1) + 1 = i
    BY <1>3, <1>5
  <2> QED
    BY <2>1, Taking
<1>6. ASSUME edits = {}, NEW i \in Reports("access")', \A j \in Reports("access")' : j <= i
      PROVE  channel'[i].found = allowed
  <2>1. i \in Nat /\ i + 1 \in Reports("access") /\ channel'[i] = channel[i + 1]
    BY <1>4, <1>6
  <2>2. ASSUME NEW j \in Reports("access") PROVE j <= i + 1
    <3>1. CASE j = 1
      BY <2>1, <3>1
    <3>2. CASE j # 1
      <4>1. j \in Nat /\ j - 1 \in Nat /\ j - 1 <= i
        BY <1>5, <1>6, <3>2
      <4> QED
        BY <2>1, <4>1
    <3> QED
      BY <3>1, <3>2
  <2> QED
    BY <1>2, <1>6, <2>1, <2>2
<1>7. ASSUME edits = {}, Reports("access")' = {} PROVE overlay # "access" \/ entries' = allowed
  <2>1. \A j \in Reports("access") : j = 1
    BY <1>5, <1>7
  <2>2. CASE kind = "access"
    BY <1>2, <1>3, <1>7, <2>1, <2>2
  <2>3. CASE kind # "access"
    BY <1>2, <1>3, <1>7, <2>1, <2>3
  <2> QED
    BY <2>2, <2>3
<1> QED
  BY <1>2, <1>6, <1>7

(* The tasks at the access store.                                          *)
LEMMA AccessEdited ==
    ASSUME BaseInv, AccessInv, NEW e \in edits, Background(e)
    PROVE  AccessInv'
<1> USE DEF listVars, sessionVars, accessVars, bounds
<1>0. /\ TypeOK /\ faults \in Nat /\ UNCHANGED <<entries, crowded, overlay, pc>>
      /\ e \in Edit
  BY DEF Background, Change, Changed, Read, EditReports, BaseInv, TypeOK
<1>1. faults' = faults \/ faults' = faults + 1
  BY DEF Background, Change, Changed, Read, EditReports, Fault
<1>2. CASE faults' # 0
  BY <1>2 DEF AccessInv
<1>3. CASE faults' = 0 /\ (faults # 0 \/ crowded \/ ~ Running)
  <2>1. faults = 0
    BY <1>0, <1>1, <1>3
  <2> QED
    BY <1>0, <1>3, <2>1 DEF AccessInv, Running
<1>4. CASE faults' = 0 /\ faults = 0 /\ ~ crowded /\ Running
  <2>1. edits = {e} /\ (e.step = "report" => e.found = allowed)
    BY <1>4 DEF AccessInv
  <2>2. ~ Fault
    BY <1>4 DEF Fault
  <2>3. CASE Change(e)
    <3> DEFINE x == [e EXCEPT !.step = "read", !.found = {}]
    <3>1. edits' = {x}
      BY <2>1, <2>2, <2>3 DEF Change, Changed, Step, AfterChange
    <3>2. x.step = "read"
      BY <1>0 DEF Edit
    <3> HIDE DEF x
    <3> QED
      BY <3>1, <3>2 DEF AccessInv
  <2>4. CASE Read(e)
    <3> DEFINE x == [e EXCEPT !.step = "report", !.found = allowed]
    <3>1. edits' = {x} /\ allowed' = allowed
      BY <2>1, <2>2, <2>4 DEF Read, Step
    <3>2. x.found = allowed
      BY <1>0 DEF Edit
    <3> HIDE DEF x
    <3> QED
      BY <3>1, <3>2 DEF AccessInv
  <2>5. CASE EditReports(e)
    <3> DEFINE last == Len(channel) + 1
    <3>1. /\ edits' = {} /\ allowed' = allowed /\ e.found = allowed
          /\ Send("access", 0, NoDevice, e.found)
      BY <2>1, <2>5 DEF EditReports
    <3>2. /\ Reports("access")' = Reports("access") \cup {last}
          /\ channel'[last] = Saying("access", 0, NoDevice, e.found) /\ Len(channel) \in Nat
      BY <1>0, <3>1, Sending
    <3>3. Reports("access") \subseteq 1 .. Len(channel)
      BY <1>0, Positions
    <3>4. channel'[last].found = allowed
      BY <3>1, <3>2 DEF Saying
    <3>5. \A i \in Reports("access")' : last <= i => i = last
      BY <3>2, <3>3
    <3>6. last \in Reports("access")' /\ Reports("access")' # {}
      BY <3>2
    <3> HIDE DEF last
    <3>7. \A i \in Reports("access")' :
             (\A j \in Reports("access")' : j <= i) => channel'[i].found = allowed'
      BY <3>1, <3>4, <3>5, <3>6
    <3> QED
      BY <3>1, <3>6, <3>7 DEF AccessInv
  <2> QED
    BY <2>3, <2>4, <2>5 DEF Background
<1> QED
  BY <1>0, <1>1, <1>2, <1>3, <1>4

(* Every step keeps the list of allowed devices current: an edit reads the *)
(* file back before the next one may begin.                                *)
LEMMA AccessStep ==
    ASSUME BaseInv, AccessInv, [Next]_vars
    PROVE  AccessInv'
<1> USE DEF listVars, sessionVars, accessVars, bounds
<1>0. TypeOK /\ faults \in Nat /\ (Fault => faults' # 0)
  BY DEF BaseInv, TypeOK, Fault
<1>1. ASSUME UNCHANGED <<edits, allowed, entries, crowded, channel>>, Running' => Running,
             faults' = faults \/ Fault, overlay' = "access" => overlay = "access"
      PROVE  AccessInv'
  <2>1. Reports("access")' = Reports("access")
    BY <1>1 DEF Reports
  <2> QED
    BY <1>0, <1>1, <2>1, AccessSame
<1>2. ASSUME NEW k \in Kinds, TaskReports(k) PROVE AccessInv'
  <2>1. Send(k, 0, NoDevice, {}) /\ k # "access"
    BY <1>2 DEF TaskReports, Kinds
  <2> QED
    BY <1>0, <1>2, <2>1, AccessOtherSent DEF TaskReports
<1>3. ASSUME NEW s \in streams, StreamStarts(s) PROVE AccessInv'
  BY <1>0, <1>3, AccessOtherSent DEF StreamStarts
<1>4. ASSUME NEW s \in streams, StreamEnds(s) PROVE AccessInv'
  <2>1. faults' = 0 => faults = 0
    BY <1>0, <1>4 DEF StreamEnds
  <2> QED
    BY <1>0, <1>4, <2>1, AccessOtherSent DEF StreamEnds
<1>5. CASE Apply
  <2>1. ASSUME NEW kind \in {"discovery", "readiness", "status", "stored", "started", "ended",
                             "denied"},
               Take(kind), UNCHANGED <<edits, allowed, entries, crowded, overlay, pc>>,
               faults' = faults \/ Fault
        PROVE  AccessInv'
    BY <1>0, <2>1, AccessTaken
  <2>2. ASSUME NEW list, ApplyDiscovery(list) PROVE AccessInv'
    BY <2>1, <2>2 DEF ApplyDiscovery
  <2>3. CASE ApplyReadiness \/ ApplyStatus \/ ApplyStored
    BY <2>1, <2>3 DEF ApplyReadiness, ApplyStatus, ApplyStored
  <2>4. CASE ApplyStarted
    BY <2>1, <2>4 DEF ApplyStarted
  <2>5. CASE ApplyEnded
    BY <2>1, <2>5 DEF ApplyEnded
  <2>6. CASE ApplyAccess
    <3>1. CASE Take("denied") /\ UNCHANGED entries
      BY <2>1, <2>6, <3>1 DEF ApplyAccess
    <3>2. CASE Take("access") /\ entries' = Head(channel).found
      <4>1. Head(channel) = channel[1]
        BY <1>0, <3>2, Taking
      <4> QED
        BY <1>0, <2>6, <3>2, <4>1, AccessTaken DEF ApplyAccess
    <3> QED
      BY <2>6, <3>1, <3>2 DEF ApplyAccess
  <2> QED
    BY <1>5, <2>2, <2>3, <2>4, <2>5, <2>6 DEF Apply
<1>6. CASE Drained \/ NoEvent \/ WindowClosed \/ CloseFailed
  BY <1>1, <1>6 DEF Drained, NoEvent, WindowClosed, CloseFailed, Running
<1>7. CASE Quit
  BY <1>7 DEF Quit, AccessInv, Running
<1>8. CASE Refresh \/ EnterStart \/ EnterSwitch \/ OpenMenu \/ StoreCredentials
  BY <1>1, <1>8
  DEF Refresh, EnterStart, EnterSwitch, OpenMenu, StoreCredentials, Pressed, Running
<1>9. CASE OpenAccess \/ Allow \/ Revoke
  <2>1. PICK op, node, step : step \in {"change", "read"} /\ StartEdit(op, node, step)
    <3>1. CASE OpenAccess
      BY <3>1 DEF OpenAccess
    <3>2. CASE Allow
      BY <3>2 DEF Allow
    <3>3. CASE Revoke
      BY <3>3 DEF Revoke
    <3> QED
      BY <1>9, <3>1, <3>2, <3>3
  <2>2. pc = "event"
    BY <1>9 DEF OpenAccess, Allow, Revoke, Pressed
  <2> DEFINE x == [tag |-> started + 1, op |-> op, node |-> node, step |-> step, found |-> {}]
  <2>3. /\ edits' = edits \cup {x} /\ crowded' = (crowded \/ edits # {}) /\ faults' = faults
        /\ allowed' = allowed
    BY <2>1 DEF StartEdit
  <2>4. x.step # "report"
    BY <2>1
  <2> HIDE DEF x
  <2>5. crowded \in BOOLEAN
    BY <1>0 DEF TypeOK
  <2>6. CASE crowded'
    BY <2>6 DEF AccessInv
  <2>7. CASE ~ crowded'
    <3>1. edits' = {x}
      BY <2>3, <2>5, <2>7
    <3> QED
      BY <2>4, <3>1 DEF AccessInv
  <2> QED
    BY <2>6, <2>7
<1>10. ASSUME NEW direction \in {"next", "previous"}, Select(direction) PROVE AccessInv'
  BY <1>1, <1>10 DEF Select, Pressed, Running
<1>11. ASSUME NEW next \in Overlays, Navigate(next) PROVE AccessInv'
  <2>1. next # "access"
    BY <1>11 DEF Navigate, Leads
  <2> QED
    BY <1>1, <1>11, <2>1 DEF Navigate, Running
<1>12. CASE UNCHANGED vars
  BY <1>1, <1>12 DEF vars, Running
<1> QED
  BY <1>2, <1>3, <1>4, <1>5, <1>6, <1>7, <1>8, <1>9, <1>10, <1>11, <1>12, AccessEdited
  DEF Next, Loop, HandleKey

-----------------------------------------------------------------------------
(* The interface starts with a discovery and a check under way.            *)
LEMMA InitIInv == Init => IInv
<1> SUFFICES ASSUME Init PROVE IInv
  OBVIOUS
<1>1. BaseInv
  <2>1. <<>> \in Seq(Report) /\ Len(<<>>) = 0 /\ 0 <= ChannelCapacity /\ 0 \in 0 .. MaxTasks
    BY ParameterAssumption
  <2>2. tasks \in [Kinds -> Nat]
    BY DEF Init
  <2>3. nodes \in Listings \cup {<<>>} /\ selected \in 0 .. Len(nodes)
    BY DEF Init
  <2>4. channel \in Seq(Report) /\ Len(channel) <= ChannelCapacity
    BY <2>1 DEF Init
  <2>5. /\ streams \subseteq Stream /\ edits \subseteq Edit
        /\ {entries, allowed} \subseteq SUBSET Devices
    BY DeviceAssumption DEF Init
  <2>6. {active, pending} \subseteq Devices \cup {NoDevice}
    BY DEF Init
  <2>7. /\ {pid, generation} \subseteq 0 .. MaxTasks /\ started \in 0 .. MaxTasks
        /\ faults \in 0 .. MaxFaults
    BY <2>1, ParameterAssumption DEF Init
  <2>8. /\ pc \in {"drain", "event", "closing", "quit"} /\ loading \in BOOLEAN
        /\ activity \in {"idle", "connecting"} /\ readiness \in {"checking", "ready", "blocked"}
        /\ overlay \in Overlays /\ crowded \in BOOLEAN
    BY DEF Init, Overlays
  <2>9. TypeOK
    BY <2>2, <2>3, <2>4, <2>5, <2>6, <2>7, <2>8 DEF TypeOK
  <2> QED
    BY <2>9 DEF Init, BaseInv, CostInv, EditInv
<1>2. \A q : Reports(q) = {}
  BY DEF Init, Reports
<1>3. WaitInv
  <2>1. tasks["discovery"] = 1 /\ tasks["readiness"] = 1
    BY DEF Init, Kinds
  <2>2. Cardinality({}) = 0
    BY FS_EmptySet
  <2>3. UnderWay("discovery") = 1 /\ UnderWay("readiness") = 1
    BY <1>2, <2>1, <2>2 DEF UnderWay
  <2> QED
    BY <2>3 DEF WaitInv, Init
<1>4. StreamInv
  BY <1>2 DEF Init, StreamInv, TaskInv, TellingInv, ShownInv, Telling
<1>5. AccessInv
  BY <1>2 DEF Init, AccessInv
<1> QED
  BY <1>1, <1>3, <1>4, <1>5 DEF IInv

(* The invariant of the interface.                                         *)
THEOREM Invariance == Spec => []IInv
<1>1. IInv /\ [Next]_vars => IInv'
  BY BaseStep, WaitStep, StreamStep, AccessStep DEF IInv
<1> QED
  BY <1>1, InitIInv, PTL DEF Spec

(* The selection is a place of the list that is shown, and the channel     *)
(* keeps to its capacity, however many tasks there are.                    *)
THEOREM TypeCorrectness == Spec => []TypeOK
<1>1. IInv => TypeOK
  BY DEF IInv, BaseInv
<1> QED
  BY <1>1, Invariance, PTL

(* The interface tells nobody to wait for what is not coming.              *)
THEOREM WaitSafety == Spec => []WaitIsWarranted
<1>1. ASSUME IInv PROVE WaitIsWarranted
  <2>1. CASE activity = "connecting" /\ Running
    <3>1. streams # {} \/ Reports("ended") # {}
      BY <1>1, <2>1 DEF IInv, StreamInv, ShownInv
    <3>2. /\ \A s \in streams : s.number = generation
          /\ \A i \in Reports("ended") : channel[i].number = generation
      BY <1>1 DEF IInv, StreamInv, TaskInv, TellingInv, Telling
    <3> QED
      BY <1>1, <3>1, <3>2 DEF IInv, WaitInv, WaitIsWarranted
  <2>2. CASE ~ (activity = "connecting" /\ Running)
    BY <1>1, <2>2 DEF IInv, WaitInv, WaitIsWarranted
  <2> QED
    BY <2>1, <2>2
<1> QED
  BY <1>1, Invariance, PTL

(* No stream is started before the one before it has ended and the loop    *)
(* knows.                                                                  *)
THEOREM StreamSafety == Spec => []OneStreamAtATime
<1>1. ASSUME IInv PROVE OneStreamAtATime
  <2>1. Cardinality(streams) <= 1
    <3>1. CASE streams = {}
      BY <3>1, FS_EmptySet
    <3>2. CASE streams # {}
      <4>1. PICK s \in streams : \A t \in streams : t = s
        BY <1>1, <3>2 DEF IInv, StreamInv, TaskInv
      <4>2. streams = {s}
        BY <4>1
      <4> QED
        BY <4>2, FS_Singleton
    <3> QED
      BY <3>1, <3>2
  <2>2. /\ \A s \in streams : s.number = generation
        /\ \A i \in Reports("started") \cup Reports("ended") : channel[i].number = generation
        /\ pid \in {0, generation}
    BY <1>1 DEF IInv, StreamInv, TaskInv, TellingInv, ShownInv, Telling
  <2>3. active # NoDevice =>
           \/ \E s \in streams : s.node = active
           \/ \E i \in Reports("ended") : channel[i].node = active
    BY <1>1 DEF IInv, StreamInv, TaskInv, TellingInv, ShownInv
  <2> QED
    BY <2>1, <2>2, <2>3 DEF OneStreamAtATime
<1> QED
  BY <1>1, Invariance, PTL

(* The list of allowed devices that is shown is the file's.                *)
THEOREM AccessSafety == Spec => []AccessShownIsCurrent
<1>1. IInv => AccessShownIsCurrent
  BY DEF IInv, AccessInv, AccessShownIsCurrent
<1> QED
  BY <1>1, Invariance, PTL
=============================================================================
