-------------------------- MODULE FollowFocusProofs --------------------------
(***************************************************************************)
(* Safety of FollowFocus for any number of desktops, displays and changes: *)
(* what a router believes to be streamed is, unless nobody could have told *)
(* it.                                                                     *)
(***************************************************************************)
EXTENDS FollowFocus, SequenceTheorems, TLAPS

(* The functions that TypeOK speaks about by their values, and lists that  *)
(* name no display twice.                                                  *)
ShapeOK ==
    /\ focus \in [Desktops -> Displays] /\ shown \in [Desktops -> Displays]
    /\ \A d \in Desktops : Distinct(displays[d])

(* A request that nobody waits for any longer may take effect behind the   *)
(* router's back: its router counts as misled from the moment it gives up. *)
TagInv == \A r \in requests : r.tag # 0 => r.from \in misled

(* What the router believes is right also while it has asked for another   *)
(* display: it changes its mind when the controller answers.               *)
BeliefInv ==
    \A d \in Desktops :
        d \notin misled /\ streamed[d] \in Elements(displays[d]) => streamed[d] = shown[d]

IInv == TypeOK /\ ShapeOK /\ TagInv /\ BeliefInv

-----------------------------------------------------------------------------
(* A list that gets another display at its end.                            *)
LEMMA Appending ==
    ASSUME NEW S, NEW seq \in Seq(S), NEW x \in S, Distinct(seq), x \notin Elements(seq)
    PROVE  /\ Append(seq, x) \in Seq(S) /\ Distinct(Append(seq, x))
           /\ Elements(Append(seq, x)) = Elements(seq) \cup {x}
<1> DEFINE n == Len(seq)
           new == Append(seq, x)
<1>1. /\ n \in Nat /\ new \in Seq(S) /\ Len(new) = n + 1
      /\ \A i \in 1 .. n : new[i] = seq[i]
      /\ new[n + 1] = x
  OBVIOUS
<1> HIDE DEF new
<1>2. \A i \in 1 .. n : seq[i] # x
  BY DEF Elements
<1>3. Distinct(new)
  BY <1>1, <1>2 DEF Distinct
<1>4. \A i \in 1 .. n + 1 : i \in 1 .. n \/ i = n + 1
  BY <1>1
<1>5. Elements(new) = Elements(seq) \cup {x}
  <2>1. Elements(new) \subseteq Elements(seq) \cup {x}
    BY <1>1, <1>4 DEF Elements
  <2>2. Elements(seq) \subseteq Elements(new)
    <3>1. \A i \in 1 .. n : i \in 1 .. n + 1
      BY <1>1
    <3> QED
      BY <1>1, <3>1 DEF Elements
  <2>3. x \in Elements(new)
    <3>1. n + 1 \in 1 .. n + 1
      BY <1>1
    <3> QED
      BY <1>1, <3>1 DEF Elements
  <2> QED
    BY <2>1, <2>2, <2>3
<1> QED
  BY <1>1, <1>3, <1>5 DEF new

(* A list that loses one.                                                  *)
LEMMA Removing ==
    ASSUME NEW S, NEW seq \in Seq(S), NEW i \in 1 .. Len(seq), Distinct(seq)
    PROVE  /\ Without(seq, i) \in Seq(S) /\ Distinct(Without(seq, i))
           /\ Elements(Without(seq, i)) = Elements(seq) \ {seq[i]}
<1> DEFINE n == Len(seq)
           new == Without(seq, i)
<1>1. /\ n \in Nat /\ n - 1 \in Nat /\ i \in Nat /\ \A j \in 1 .. n : seq[j] \in S
  OBVIOUS
<1>2. /\ new \in [1 .. n - 1 -> S]
      /\ \A j \in 1 .. n - 1 : new[j] = IF j < i THEN seq[j] ELSE seq[j + 1]
  BY <1>1 DEF Without
<1> HIDE DEF new
<1>3. new \in Seq(S) /\ Len(new) = n - 1
  <2> DEFINE k == n - 1
  <2>1. k \in Nat /\ new \in [1 .. k -> S]
    BY <1>1, <1>2
  <2> HIDE DEF k
  <2>2. new \in Seq(S) /\ DOMAIN new = 1 .. k
    BY <2>1
  <2>3. Len(new) = k
    BY <2>1, <2>2, SMTT(30)
  <2> QED
    BY <2>2, <2>3 DEF k
<1>4. \A j \in 1 .. n - 1 : /\ j \in 1 .. n /\ j + 1 \in 1 .. n
                            /\ j < i => j # i
                            /\ ~ (j < i) => j + 1 # i
  BY <1>1
<1>5. Distinct(new)
  BY <1>1, <1>2, <1>3, <1>4 DEF Distinct
<1>6. Elements(new) \subseteq Elements(seq) \ {seq[i]}
  <2>1. ASSUME NEW j \in 1 .. n - 1 PROVE new[j] \in Elements(seq) \ {seq[i]}
    <3>1. PICK k \in 1 .. n : new[j] = seq[k] /\ k # i
      BY <1>2, <1>4
    <3> QED
      BY <3>1 DEF Elements, Distinct
  <2> QED
    BY <1>3, <2>1 DEF Elements
<1>7. Elements(seq) \ {seq[i]} \subseteq Elements(new)
  <2>1. ASSUME NEW k \in 1 .. n, seq[k] # seq[i] PROVE seq[k] \in Elements(new)
    <3>1. CASE k < i
      <4>1. k \in 1 .. n - 1 /\ new[k] = seq[k]
        BY <1>1, <1>2, <3>1
      <4> QED
        BY <1>3, <4>1 DEF Elements
    <3>2. CASE k > i
      <4>1. k - 1 \in 1 .. n - 1 /\ ~ (k - 1 < i) /\ (k - 1) + 1 = k
        BY <1>1, <3>2
      <4>2. new[k - 1] = seq[k]
        BY <1>2, <4>1
      <4> QED
        BY <1>3, <4>1, <4>2 DEF Elements
    <3> QED
      BY <1>1, <2>1, <3>1, <3>2
  <2> QED
    BY <2>1 DEF Elements
<1> QED
  BY <1>3, <1>5, <1>6, <1>7 DEF new

(* Signals and news that go unheard have their types.                      *)
LEMMA Emitting ==
    ASSUME TypeOK, NEW d \in Desktops, Emit(d)
    PROVE  signals' \in [Desktops -> Nat] /\ unheard' \subseteq Desktops
<1>1. signals \in [Desktops -> Nat] /\ unheard \subseteq Desktops
  BY DEF TypeOK
<1>2. CASE source[d] = "socket"
  BY <1>1, <1>2 DEF Emit
<1>3. CASE source[d] # "socket"
  BY <1>1, <1>3 DEF Emit
<1> QED
  BY <1>2, <1>3

(* What the router knows and what is shown do not change.                  *)
LEMMA QuietKeeps ==
    ASSUME IInv, TypeOK', focus' \in [Desktops -> Displays],
           UNCHANGED <<displays, shown, streamed>>, misled \subseteq misled',
           \A r \in requests' : r.tag # 0 => r.from \in misled'
    PROVE  IInv'
<1>1. displays' = displays /\ shown' = shown /\ streamed' = streamed
  OBVIOUS
<1>2. ShapeOK'
  BY <1>1 DEF IInv, ShapeOK, Distinct
<1>3. TagInv'
  BY DEF TagInv
<1>4. BeliefInv'
  BY <1>1 DEF IInv, BeliefInv, Elements
<1> QED
  BY <1>2, <1>3, <1>4 DEF IInv

-----------------------------------------------------------------------------
(* The desktop moves the focus, and signals come or do not.                *)
LEMMA MoveKeeps ==
    ASSUME IInv, NEW d \in Desktops, NEW x \in Displays, Move(d, x)
    PROVE  IInv'
<1>1. /\ focus' = [focus EXCEPT ![d] = x] /\ x \in Elements(displays[d])
      /\ moves < MaxMoves /\ moves' = moves + 1 /\ Emit(d)
      /\ UNCHANGED <<displays, shown, source, pc, streamed, pending, requests, misled, plugs,
                     faults>>
  BY DEF Move, routerVars
<1>2. signals' \in [Desktops -> Nat] /\ unheard' \subseteq Desktops
  BY <1>1, Emitting DEF IInv
<1>3. focus' \in [Desktops -> Displays] /\ \A e \in Desktops : focus'[e] = IF e = d THEN x ELSE focus[e]
  BY <1>1 DEF IInv, ShapeOK
<1>4. \A e \in Desktops : {focus'[e], shown'[e]} \subseteq Elements(displays'[e])
  BY <1>1, <1>3 DEF IInv, TypeOK
<1>5. moves' \in 0 .. MaxMoves
  BY <1>1, ParameterAssumption DEF IInv, TypeOK
<1>6. TypeOK'
  BY <1>1, <1>2, <1>4, <1>5 DEF IInv, TypeOK
<1> QED
  BY <1>1, <1>3, <1>6, QuietKeeps DEF IInv, TagInv

(* A display that is unplugged is no longer believed to be shown.          *)
LEMMA UnplugKeeps ==
    ASSUME IInv, NEW d \in Desktops, NEW x \in Displays, NEW y \in Displays, NEW z \in Displays,
           Unplug(d, x, y, z)
    PROVE  IInv'
<1>1. PICK i \in 1 .. Len(displays[d]) :
          displays[d][i] = x /\ displays' = [displays EXCEPT ![d] = Without(displays[d], i)]
  BY DEF Unplug
<1>2. /\ {y, z} \subseteq Elements(displays[d]) \ {x}
      /\ focus' = [focus EXCEPT ![d] = IF focus[d] = x THEN y ELSE focus[d]]
      /\ shown' = [shown EXCEPT ![d] = IF shown[d] = x THEN z ELSE shown[d]]
      /\ plugs < MaxPlugs /\ plugs' = plugs + 1 /\ Emit(d)
      /\ UNCHANGED <<source, pc, streamed, pending, requests, misled, moves, faults>>
  BY DEF Unplug, routerVars
<1>3. displays \in [Desktops -> Seq(Displays)] /\ Distinct(displays[d])
  BY DEF IInv, TypeOK, ShapeOK
<1> DEFINE new == Without(displays[d], i)
<1>4. /\ new \in Seq(Displays) /\ Distinct(new)
      /\ Elements(new) = Elements(displays[d]) \ {x}
  BY <1>1, <1>3, Removing
<1>5. \A e \in Desktops : displays'[e] = IF e = d THEN new ELSE displays[e]
  BY <1>1, <1>3
<1>6. displays' \in [Desktops -> Seq(Displays)]
  <2>1. displays' = [displays EXCEPT ![d] = new]
    BY <1>1
  <2> HIDE DEF new
  <2> QED
    BY <1>3, <1>4, <2>1
<1> HIDE DEF new
<1>7. /\ focus' \in [Desktops -> Displays] /\ shown' \in [Desktops -> Displays]
      /\ \A e \in Desktops :
            /\ focus'[e] = IF e = d /\ focus[d] = x THEN y ELSE focus[e]
            /\ shown'[e] = IF e = d /\ shown[d] = x THEN z ELSE shown[e]
  BY <1>2 DEF IInv, ShapeOK
<1>8. \A e \in Desktops : focus[e] \in Elements(displays[e]) /\ shown[e] \in Elements(displays[e])
  BY DEF IInv, TypeOK
<1>9. \A e \in Desktops : Elements(displays'[e]) =
                             IF e = d THEN Elements(displays[d]) \ {x} ELSE Elements(displays[e])
  BY <1>4, <1>5
<1>10. \A e \in Desktops : {focus'[e], shown'[e]} \subseteq Elements(displays'[e])
  <2>1. y \in Elements(displays[d]) \ {x} /\ z \in Elements(displays[d]) \ {x}
    BY <1>2
  <2> QED
    BY <1>7, <1>8, <1>9, <2>1
<1>11. signals' \in [Desktops -> Nat] /\ unheard' \subseteq Desktops
  BY <1>2, Emitting DEF IInv
<1>12. plugs' \in 0 .. MaxPlugs
  BY <1>2, ParameterAssumption DEF IInv, TypeOK
<1>13. TypeOK'
  BY <1>2, <1>6, <1>10, <1>11, <1>12 DEF IInv, TypeOK
<1>14. ShapeOK'
  <2>1. \A e \in Desktops : Distinct(displays[e])
    BY DEF IInv, ShapeOK
  <2>2. \A e \in Desktops : Distinct(displays'[e])
    BY <1>4, <1>5, <2>1
  <2> QED
    BY <1>7, <2>2 DEF ShapeOK, Distinct
<1>15. TagInv'
  BY <1>2 DEF IInv, TagInv
<1>16. BeliefInv'
  <2>1. SUFFICES ASSUME NEW e \in Desktops, e \notin misled,
                        streamed[e] \in Elements(displays'[e])
                 PROVE  streamed[e] = shown'[e]
    BY <1>2 DEF BeliefInv, Elements
  <2>2. streamed[e] = shown[e] /\ (e = d => streamed[e] # x)
    BY <1>9, <2>1 DEF IInv, BeliefInv
  <2> QED
    BY <1>7, <2>2
<1> QED
  BY <1>13, <1>14, <1>15, <1>16 DEF IInv

(* One that is plugged in again may not be shown although the router       *)
(* believes it is: nobody could have told it.                              *)
LEMMA PlugKeeps ==
    ASSUME IInv, NEW d \in Desktops, NEW x \in Displays, Plug(d, x)
    PROVE  IInv'
<1>1. /\ displays' = [displays EXCEPT ![d] = Append(displays[d], x)]
      /\ x \notin Elements(displays[d])
      /\ plugs < MaxPlugs /\ plugs' = plugs + 1 /\ Emit(d)
      /\ misled' = IF streamed[d] = x THEN misled \cup {d} ELSE misled
      /\ UNCHANGED <<focus, shown, source, pc, streamed, pending, requests, moves, faults>>
  BY DEF Plug, routerVars
<1>2. displays \in [Desktops -> Seq(Displays)] /\ Distinct(displays[d])
  BY DEF IInv, TypeOK, ShapeOK
<1> DEFINE new == Append(displays[d], x)
<1>3. /\ new \in Seq(Displays) /\ Distinct(new)
      /\ Elements(new) = Elements(displays[d]) \cup {x}
  BY <1>1, <1>2, Appending
<1>4. displays' = [displays EXCEPT ![d] = new]
  BY <1>1
<1> HIDE DEF new
<1>5. /\ displays' \in [Desktops -> Seq(Displays)]
      /\ \A e \in Desktops : displays'[e] = IF e = d THEN new ELSE displays[e]
  BY <1>2, <1>3, <1>4
<1>6. \A e \in Desktops : Elements(displays'[e]) =
                             IF e = d THEN Elements(displays[d]) \cup {x} ELSE Elements(displays[e])
  BY <1>3, <1>5
<1>7. \A e \in Desktops : {focus'[e], shown'[e]} \subseteq Elements(displays'[e])
  BY <1>1, <1>6 DEF IInv, TypeOK
<1>8. signals' \in [Desktops -> Nat] /\ unheard' \subseteq Desktops
  BY <1>1, Emitting DEF IInv
<1>9. plugs' \in 0 .. MaxPlugs /\ misled' \subseteq Desktops /\ misled \subseteq misled'
  BY <1>1, ParameterAssumption DEF IInv, TypeOK
<1>10. TypeOK'
  BY <1>1, <1>5, <1>7, <1>8, <1>9 DEF IInv, TypeOK
<1>11. ShapeOK'
  <2>1. \A e \in Desktops : Distinct(displays[e])
    BY DEF IInv, ShapeOK
  <2>2. \A e \in Desktops : Distinct(displays'[e])
    BY <1>3, <1>5, <2>1
  <2> QED
    BY <1>1, <2>2 DEF IInv, ShapeOK, Distinct
<1>12. TagInv'
  BY <1>1, <1>9 DEF IInv, TagInv
<1>13. BeliefInv'
  <2>1. SUFFICES ASSUME NEW e \in Desktops, e \notin misled',
                        streamed[e] \in Elements(displays'[e])
                 PROVE  streamed[e] = shown[e]
    BY <1>1 DEF BeliefInv, Elements
  <2>2. e \notin misled /\ streamed[e] \in Elements(displays[e])
    BY <1>1, <1>6, <1>9, <2>1
  <2> QED
    BY <2>1, <2>2 DEF IInv, BeliefInv
<1> QED
  BY <1>10, <1>11, <1>12, <1>13 DEF IInv

-----------------------------------------------------------------------------
(* Where signals come from, and their receipt.                             *)
LEMMA SignalsKeep ==
    ASSUME IInv, NEW d \in Desktops,
           Connect(d) \/ SocketLost(d) \/ Poll(d) \/ Signal(d) \/ Over(d)
    PROVE  IInv'
<1>1. UNCHANGED <<displays, focus, shown, streamed, pending, requests, misled, unheard,
                  moves, plugs>>
  BY DEF Connect, SocketLost, Poll, Signal, Over, routerVars, bounds
<1>2. source' \in [Desktops -> Sources]
  <2>1. source \in [Desktops -> Sources]
    BY DEF IInv, TypeOK
  <2>2. source' = source \/ \E s \in Sources : source' = [source EXCEPT ![d] = s]
    BY DEF Connect, SocketLost, Poll, Signal, Over, Sources
  <2> QED
    BY <2>1, <2>2
<1>3. signals' \in [Desktops -> Nat]
  <2>1. signals \in [Desktops -> Nat]
    BY DEF IInv, TypeOK
  <2>2. CASE Poll(d)
    BY <2>1, <2>2 DEF Poll
  <2>3. CASE Signal(d)
    BY <2>1, <2>3 DEF Signal
  <2>4. CASE Connect(d) \/ SocketLost(d) \/ Over(d)
    BY <2>1, <2>4 DEF Connect, SocketLost, Over
  <2> QED
    BY <2>2, <2>3, <2>4
<1>4. pc' \in [Desktops -> {"start", "wait", "reading", "switching", "over"}]
  <2>1. pc' = pc \/ \E p \in {"reading", "over"} : pc' = [pc EXCEPT ![d] = p]
    BY DEF Connect, SocketLost, Poll, Signal, Over, routerVars
  <2> QED
    BY <2>1 DEF IInv, TypeOK
<1>5. faults' \in 0 .. MaxFaults
  <2>1. faults' = faults \/ Fault
    BY DEF Connect, SocketLost, Poll, Signal, Over
  <2> QED
    BY <2>1, ParameterAssumption DEF Fault, IInv, TypeOK
<1>6. TypeOK'
  BY <1>1, <1>2, <1>3, <1>4, <1>5 DEF IInv, TypeOK
<1> QED
  BY <1>1, <1>6, QuietKeeps DEF IInv, TagInv, ShapeOK

(* A router that takes the focused display for the one that is shown is    *)
(* right, or misled.                                                       *)
LEMMA AssumesKeeps ==
    ASSUME IInv, NEW d \in Desktops, TypeOK', Assumes(d),
           streamed' = [streamed EXCEPT ![d] = focus[d]],
           UNCHANGED <<displays, focus, shown, requests>>
    PROVE  IInv'
<1>1. /\ misled' = IF focus[d] # shown[d] THEN misled \cup {d} ELSE misled
      /\ misled \subseteq misled'
  BY DEF Assumes
<1>2. \A e \in Desktops : streamed'[e] = IF e = d THEN focus[d] ELSE streamed[e]
  BY DEF IInv, TypeOK
<1>3. ShapeOK'
  BY DEF IInv, ShapeOK, Distinct
<1>4. TagInv'
  BY <1>1 DEF IInv, TagInv
<1>5. BeliefInv'
  <2>1. SUFFICES ASSUME NEW e \in Desktops, e \notin misled',
                        streamed'[e] \in Elements(displays[e])
                 PROVE  streamed'[e] = shown[e]
    BY DEF BeliefInv, Elements
  <2>2. CASE e = d
    BY <1>1, <1>2, <2>1, <2>2
  <2>3. CASE e # d
    BY <1>1, <1>2, <2>1, <2>3 DEF IInv, BeliefInv
  <2> QED
    BY <2>2, <2>3
<1> QED
  BY <1>3, <1>4, <1>5 DEF IInv

(* The router starts.                                                      *)
LEMMA StartKeeps ==
    ASSUME IInv, NEW d \in Desktops, Start(d)
    PROVE  IInv'
<1>1. /\ pc' = [pc EXCEPT ![d] = "wait"]
      /\ UNCHANGED <<displays, focus, shown, source, signals, pending, requests, unheard,
                     moves, plugs>>
  BY DEF Start, bounds
<1>2. pc' \in [Desktops -> {"start", "wait", "reading", "switching", "over"}]
  BY <1>1 DEF IInv, TypeOK
<1>3. CASE streamed' = [streamed EXCEPT ![d] = focus[d]] /\ Assumes(d) /\ UNCHANGED faults
  <2>1. streamed' \in [Desktops -> MaybeDisplay]
    BY <1>3 DEF IInv, TypeOK, ShapeOK, MaybeDisplay
  <2>2. misled' \subseteq Desktops
    BY <1>3 DEF Assumes, IInv, TypeOK
  <2>3. TypeOK'
    BY <1>1, <1>2, <1>3, <2>1, <2>2 DEF IInv, TypeOK
  <2> QED
    BY <1>1, <1>3, <2>3, AssumesKeeps
<1>4. CASE Fault /\ UNCHANGED <<streamed, misled>>
  <2>1. faults' \in 0 .. MaxFaults
    BY <1>4, ParameterAssumption DEF Fault, IInv, TypeOK
  <2>2. TypeOK'
    BY <1>1, <1>2, <1>4, <2>1 DEF IInv, TypeOK
  <2> QED
    BY <1>1, <1>4, <2>2, QuietKeeps DEF IInv, TagInv, ShapeOK
<1> QED
  BY <1>3, <1>4 DEF Start

(* The router reads the topology, or cannot.                               *)
LEMMA ReevaluateKeeps ==
    ASSUME IInv, NEW d \in Desktops, Reevaluate(d)
    PROVE  IInv'
<1>1. /\ pc' = [pc EXCEPT ![d] = "wait"]
      /\ UNCHANGED <<displays, focus, shown, source, signals, requests, moves, plugs>>
  BY DEF Reevaluate, bounds
<1>2. /\ pc' \in [Desktops -> {"start", "wait", "reading", "switching", "over"}]
      /\ focus[d] \in Displays /\ streamed \in [Desktops -> MaybeDisplay]
  BY <1>1 DEF IInv, TypeOK, ShapeOK
<1> DEFINE current == IF streamed[d] = NoDisplay THEN focus[d] ELSE streamed[d]
<1>3. CASE /\ streamed' = [streamed EXCEPT ![d] = current]
           /\ pending' = [pending EXCEPT ![d] = Target(d, current)]
           /\ IF streamed[d] = NoDisplay THEN Assumes(d) ELSE UNCHANGED misled
           /\ UNCHANGED <<unheard, faults>>
  <2>1. Target(d, current) \in MaybeDisplay /\ current \in MaybeDisplay
    BY <1>2 DEF Target, MaybeDisplay
  <2>2. streamed' \in [Desktops -> MaybeDisplay] /\ pending' \in [Desktops -> MaybeDisplay]
    <3> HIDE DEF current
    <3> QED
      BY <1>3, <2>1 DEF IInv, TypeOK
  <2>3. misled' \subseteq Desktops
    BY <1>3 DEF Assumes, IInv, TypeOK
  <2>4. TypeOK'
    BY <1>1, <1>2, <1>3, <2>2, <2>3 DEF IInv, TypeOK
  <2>5. CASE streamed[d] = NoDisplay
    <3>1. streamed' = [streamed EXCEPT ![d] = focus[d]] /\ Assumes(d)
      BY <1>3, <2>5
    <3> QED
      BY <1>1, <2>4, <3>1, AssumesKeeps
  <2>6. CASE streamed[d] # NoDisplay
    <3>1. streamed' = streamed /\ misled' = misled
      BY <1>2, <1>3, <2>6
    <3> QED
      BY <1>1, <2>4, <3>1, QuietKeeps DEF IInv, TagInv, ShapeOK
  <2> QED
    BY <2>5, <2>6
<1>4. CASE Fault /\ unheard' = unheard \cup {d} /\ UNCHANGED <<streamed, pending, misled>>
  <2>1. faults' \in 0 .. MaxFaults /\ unheard' \subseteq Desktops
    BY <1>4, ParameterAssumption DEF Fault, IInv, TypeOK
  <2>2. TypeOK'
    BY <1>1, <1>2, <1>4, <2>1 DEF IInv, TypeOK
  <2> QED
    BY <1>1, <1>4, <2>2, QuietKeeps DEF IInv, TagInv, ShapeOK
<1> QED
  BY <1>3, <1>4 DEF Reevaluate

(* The controller is asked.                                                *)
LEMMA CommitKeeps ==
    ASSUME IInv, NEW d \in Desktops, Commit(d)
    PROVE  IInv'
<1> DEFINE new == [from |-> d, target |-> pending[d], index |-> 0, tag |-> 0]
<1>1. /\ pc' = [pc EXCEPT ![d] = "switching"] /\ pending' = [pending EXCEPT ![d] = NoDisplay]
      /\ requests' = requests \cup {new} /\ pending[d] # NoDisplay
      /\ UNCHANGED <<displays, focus, shown, source, signals, streamed, misled, unheard,
                     moves, plugs, faults>>
  BY DEF Commit, bounds
<1>2. new \in Request /\ new.tag = 0
  <2>1. pending[d] \in Displays
    BY <1>1 DEF IInv, TypeOK, MaybeDisplay
  <2> QED
    BY <2>1, ParameterAssumption DEF Request
<1> HIDE DEF new
<1>3. requests' \subseteq Request
  BY <1>1, <1>2 DEF IInv, TypeOK
<1>4. /\ pc' \in [Desktops -> {"start", "wait", "reading", "switching", "over"}]
      /\ pending' \in [Desktops -> MaybeDisplay]
  BY <1>1 DEF IInv, TypeOK, MaybeDisplay
<1>5. TypeOK'
  BY <1>1, <1>3, <1>4 DEF IInv, TypeOK
<1>6. \A r \in requests' : r.tag # 0 => r.from \in misled'
  BY <1>1, <1>2 DEF IInv, TagInv
<1> QED
  BY <1>1, <1>5, <1>6, QuietKeeps DEF IInv, ShapeOK

(* The router gives up on a switch that may still happen.                  *)
LEMMA GiveUpKeeps ==
    ASSUME IInv, NEW d \in Desktops, GiveUp(d)
    PROVE  IInv'
<1>1. /\ pc' = [pc EXCEPT ![d] = "wait"] /\ Fault
      /\ misled' = misled \cup {d} /\ unheard' = unheard \cup {d}
      /\ UNCHANGED <<displays, focus, shown, source, signals, streamed, pending, moves, plugs>>
  BY DEF GiveUp, bounds
<1>2. faults + 1 \in 0 .. MaxFaults /\ faults' = faults + 1
  BY <1>1, ParameterAssumption DEF Fault, IInv, TypeOK
<1>3. ASSUME NEW q \in requests'
      PROVE  q \in Request /\ (q.tag # 0 => q.from \in misled')
  <2>1. PICK r \in requests :
            q = IF r \in Own(d) /\ r.tag = 0 THEN [r EXCEPT !.tag = faults + 1] ELSE r
    BY DEF GiveUp
  <2>2. r \in Request
    BY DEF IInv, TypeOK
  <2>3. CASE r \in Own(d) /\ r.tag = 0
    <3>1. q = [r EXCEPT !.tag = faults + 1] /\ r.from = d
      BY <2>1, <2>3 DEF Own
    <3>2. q \in Request /\ q.from = d
      BY <1>2, <2>2, <3>1 DEF Request
    <3> QED
      BY <1>1, <3>2
  <2>4. CASE ~ (r \in Own(d) /\ r.tag = 0)
    BY <1>1, <2>1, <2>2, <2>4 DEF IInv, TagInv
  <2> QED
    BY <2>3, <2>4
<1>4. /\ pc' \in [Desktops -> {"start", "wait", "reading", "switching", "over"}]
      /\ misled' \subseteq Desktops /\ unheard' \subseteq Desktops /\ requests' \subseteq Request
  BY <1>1, <1>3 DEF IInv, TypeOK
<1>5. TypeOK'
  BY <1>1, <1>2, <1>4 DEF IInv, TypeOK
<1> QED
  BY <1>1, <1>3, <1>5, QuietKeeps DEF IInv, ShapeOK

(* A switch that nobody waits for is lost.                                 *)
LEMMA LostKeeps ==
    ASSUME IInv, NEW r \in requests, Lost(r)
    PROVE  IInv'
<1>1. /\ requests' = requests \ {r}
      /\ UNCHANGED <<displays, focus, shown, source, signals, pc, streamed, pending, misled,
                     unheard, moves, plugs, faults>>
  BY DEF Lost, routerVars, bounds
<1>2. TypeOK'
  BY <1>1 DEF IInv, TypeOK
<1> QED
  BY <1>1, <1>2, QuietKeeps DEF IInv, TagInv, ShapeOK

(* A failed switch changes nothing that the router believes.               *)
LEMMA Failing ==
    ASSUME IInv, NEW r \in requests, Fails(r)
    PROVE  /\ streamed' = streamed /\ unheard' \subseteq Desktops
           /\ pc' \in [Desktops -> {"start", "wait", "reading", "switching", "over"}]
<1>1. r.from \in Desktops
  BY DEF IInv, TypeOK, Request
<1> QED
  BY <1>1 DEF Fails, IInv, TypeOK

(* The controller works out which display is meant.                        *)
LEMMA ResolveKeeps ==
    ASSUME IInv, NEW r \in requests, Resolve(r)
    PROVE  IInv'
<1>1. UNCHANGED <<displays, focus, shown, source, signals, pending, misled, moves, plugs>>
  BY DEF Resolve, bounds
<1>2. r \in Request
  BY DEF IInv, TypeOK
<1> DEFINE i == Position(displays[r.from], r.target)
<1>3. CASE /\ InRange(i) /\ requests' = (requests \ {r}) \cup {[r EXCEPT !.index = i]}
           /\ UNCHANGED <<pc, streamed, unheard, faults>>
  <2>1. i \in 0 .. SwitchRange
    <3>1. displays[r.from] \in Seq(Displays)
      BY <1>2 DEF IInv, TypeOK, Request
    <3>2. i \in Nat
      <4>1. CASE r.target \in Elements(displays[r.from])
        <5>1. \E k \in 1 .. Len(displays[r.from]) : displays[r.from][k] = r.target
          BY <4>1 DEF Elements
        <5>2. i \in 1 .. Len(displays[r.from])
          BY <4>1, <5>1 DEF Position
        <5> QED
          BY <3>1, <5>2
      <4>2. CASE r.target \notin Elements(displays[r.from])
        BY <4>2 DEF Position
      <4> QED
        BY <4>1, <4>2
    <3> HIDE DEF i
    <3> QED
      BY <1>3, <3>2, ParameterAssumption DEF InRange
  <2> HIDE DEF i
  <2> DEFINE new == [r EXCEPT !.index = i]
  <2>2. new \in Request /\ new.tag = r.tag /\ new.from = r.from
    BY <1>2, <2>1 DEF Request
  <2>3. requests' = (requests \ {r}) \cup {new}
    BY <1>3
  <2> HIDE DEF new
  <2>4. TypeOK'
    BY <1>1, <1>3, <2>2, <2>3 DEF IInv, TypeOK
  <2>5. \A q \in requests' : q.tag # 0 => q.from \in misled'
    BY <1>1, <2>2, <2>3 DEF IInv, TagInv
  <2> QED
    BY <1>1, <1>3, <2>4, <2>5, QuietKeeps DEF IInv, ShapeOK
<1>4. CASE requests' = requests \ {r} /\ Fails(r) /\ (Fault \/ UNCHANGED faults)
  <2>1. faults' \in 0 .. MaxFaults
    BY <1>4, ParameterAssumption DEF Fault, IInv, TypeOK
  <2>2. TypeOK' /\ streamed' = streamed
    BY <1>1, <1>4, <2>1, Failing DEF IInv, TypeOK
  <2> QED
    BY <1>1, <1>4, <2>2, QuietKeeps DEF IInv, TagInv, ShapeOK
<1> QED
  BY <1>3, <1>4 DEF Resolve

(* What a shortcut shows is one of the desktop's displays.                 *)
LEMMA Showing ==
    ASSUME IInv, NEW w \in Desktops, NEW r \in requests, r.index # 0
    PROVE  /\ ShownAfter(w, r.index) \in [Desktops -> Displays]
           /\ \A d \in Desktops : ShownAfter(w, r.index)[d] \in Elements(displays[d])
           /\ \A d \in Desktops : d # w => ShownAfter(w, r.index)[d] = shown[d]
<1> DEFINE i == r.index
           x == IF i <= Len(displays[w]) THEN displays[w][i] ELSE shown[w]
<1>1. i \in Nat \ {0} /\ displays[w] \in Seq(Displays)
  BY ParameterAssumption DEF IInv, TypeOK, Request
<1>2. x \in Elements(displays[w]) /\ x \in Displays
  <2>1. CASE i <= Len(displays[w])
    <3>1. i \in 1 .. Len(displays[w])
      BY <1>1, <2>1
    <3> QED
      BY <1>1, <2>1, <3>1 DEF Elements
  <2>2. CASE ~ (i <= Len(displays[w]))
    BY <2>2 DEF IInv, TypeOK, ShapeOK
  <2> QED
    BY <2>1, <2>2
<1>3. ShownAfter(w, i) = [shown EXCEPT ![w] = x]
  BY DEF ShownAfter
<1> HIDE DEF x
<1>4. /\ ShownAfter(w, i) \in [Desktops -> Displays]
      /\ \A d \in Desktops : ShownAfter(w, i)[d] = IF d = w THEN x ELSE shown[d]
  BY <1>2, <1>3 DEF IInv, ShapeOK
<1> QED
  BY <1>2, <1>4 DEF IInv, TypeOK

(* The shortcut reaches a stream.  The router that asked learns of it, and *)
(* who is left in error counts as misled.                                  *)
LEMMA SendShortcutKeeps ==
    ASSUME IInv, NEW r \in requests, NEW w \in Desktops, SendShortcut(r, w)
    PROVE  IInv'
<1>1. /\ requests' = requests \ {r} /\ r.index # 0
      /\ UNCHANGED <<displays, focus, source, signals, pending, moves, plugs>>
  BY DEF SendShortcut, bounds
<1>2. r \in Request /\ r.from \in Desktops /\ r.target \in Displays
  BY DEF IInv, TypeOK, Request
<1> DEFINE after == ShownAfter(w, r.index)
<1>3. /\ after \in [Desktops -> Displays]
      /\ \A d \in Desktops : after[d] \in Elements(displays[d])
      /\ \A d \in Desktops : d # w => after[d] = shown[d]
  BY <1>1, Showing
<1> HIDE DEF after
<1>4. requests' \subseteq Request /\ \A q \in requests' : q \in requests
  BY <1>1 DEF IInv, TypeOK
<1>5. \A d \in Desktops : shown[d] \in Elements(displays[d]) /\ focus[d] \in Elements(displays[d])
  BY DEF IInv, TypeOK
<1>6. CASE /\ shown' = after
           /\ misled' = misled \cup MisledBy(r, w)
           /\ Succeeds(r)
           /\ UNCHANGED <<unheard, faults>>
  <2>1. /\ pc' \in [Desktops -> {"start", "wait", "reading", "switching", "over"}]
        /\ streamed' \in [Desktops -> MaybeDisplay]
        /\ \A d \in Desktops :
              streamed'[d] = IF d = r.from /\ r.tag = 0 THEN r.target ELSE streamed[d]
    BY <1>2, <1>6 DEF Succeeds, IInv, TypeOK, MaybeDisplay
  <2>2. misled' \subseteq Desktops /\ misled \subseteq misled'
    BY <1>2, <1>6 DEF MisledBy, IInv, TypeOK
  <2>3. TypeOK'
    BY <1>1, <1>3, <1>4, <1>5, <1>6, <2>1, <2>2 DEF IInv, TypeOK
  <2>4. ShapeOK'
    BY <1>1, <1>3, <1>6 DEF IInv, ShapeOK, Distinct
  <2>5. TagInv'
    BY <1>4, <2>2 DEF IInv, TagInv
  <2>6. BeliefInv'
    <3>1. SUFFICES ASSUME NEW d \in Desktops, d \notin misled',
                          streamed'[d] \in Elements(displays[d])
                   PROVE  streamed'[d] = after[d]
      BY <1>1, <1>6 DEF BeliefInv, Elements
    <3>2. d \notin misled /\ d \notin MisledBy(r, w)
      BY <1>6, <3>1
    <3>3. CASE d = r.from
      <4>1. r.tag = 0
        BY <3>2, <3>3 DEF IInv, TagInv
      <4>2. after[d] = r.target
        BY <3>2, <3>3 DEF MisledBy, after
      <4> QED
        BY <2>1, <3>3, <4>1, <4>2
    <3>4. CASE d # r.from
      <4>1. d # w
        BY <3>2, <3>4 DEF MisledBy
      <4>2. streamed'[d] = streamed[d] /\ after[d] = shown[d]
        BY <1>3, <2>1, <3>4, <4>1
      <4> QED
        BY <3>1, <3>2, <4>2 DEF IInv, BeliefInv
    <3> QED
      BY <3>3, <3>4
  <2> QED
    BY <2>3, <2>4, <2>5, <2>6 DEF IInv
<1>7. CASE /\ Fault /\ Fails(r)
           /\ \/ UNCHANGED <<shown, misled>>
              \/ shown' = after /\ misled' = misled \cup {w, r.from}
  <2>1. faults' \in 0 .. MaxFaults
    BY <1>7, ParameterAssumption DEF Fault, IInv, TypeOK
  <2>2. /\ streamed' = streamed /\ unheard' \subseteq Desktops
        /\ pc' \in [Desktops -> {"start", "wait", "reading", "switching", "over"}]
    BY <1>7, Failing
  <2>3. CASE UNCHANGED <<shown, misled>>
    <3>1. TypeOK'
      BY <1>1, <1>4, <2>1, <2>2, <2>3 DEF IInv, TypeOK
    <3> QED
      BY <1>1, <1>4, <2>2, <2>3, <3>1, QuietKeeps DEF IInv, TagInv, ShapeOK
  <2>4. CASE shown' = after /\ misled' = misled \cup {w, r.from}
    <3>1. misled' \subseteq Desktops
      BY <1>2, <2>4 DEF IInv, TypeOK
    <3>2. TypeOK'
      BY <1>1, <1>3, <1>4, <1>5, <2>1, <2>2, <2>4, <3>1 DEF IInv, TypeOK
    <3>3. ShapeOK'
      BY <1>1, <1>3, <2>4 DEF IInv, ShapeOK, Distinct
    <3>4. TagInv'
      BY <1>4, <2>4 DEF IInv, TagInv
    <3>5. BeliefInv'
      <4>1. SUFFICES ASSUME NEW d \in Desktops, d \notin misled',
                            streamed[d] \in Elements(displays[d])
                     PROVE  streamed[d] = after[d]
        BY <1>1, <2>2, <2>4 DEF BeliefInv, Elements
      <4>2. d \notin misled /\ after[d] = shown[d]
        BY <1>3, <2>4, <4>1
      <4> QED
        BY <4>1, <4>2 DEF IInv, BeliefInv
    <3> QED
      BY <3>2, <3>3, <3>4, <3>5 DEF IInv
  <2> QED
    BY <1>7, <2>3, <2>4
<1> QED
  BY <1>6, <1>7 DEF SendShortcut, after

-----------------------------------------------------------------------------
(* The initial states.                                                     *)
LEMMA InitIInv == Init => IInv
<1>1. SUFFICES ASSUME Init PROVE IInv
  OBVIOUS
<1>2. /\ displays = [d \in Desktops |-> Layout] /\ focus \in [Desktops -> Displays]
      /\ shown = focus /\ requests = {} /\ misled = {} /\ unheard = {}
      /\ streamed = [d \in Desktops |-> NoDisplay]
      /\ pending = [d \in Desktops |-> NoDisplay]
      /\ source = [d \in Desktops |-> "connecting"] /\ signals = [d \in Desktops |-> 0]
      /\ pc = [d \in Desktops |-> "start"] /\ moves = 0 /\ plugs = 0 /\ faults = 0
  BY <1>1 DEF Init
<1>3. Layout \in Seq(Displays) /\ Distinct(Layout) /\ NoDisplay \notin Displays
  BY LayoutAssumption
<1>4. Elements(Layout) = Displays
  BY DEF Displays
<1>5. TypeOK
  <2>1. /\ displays \in [Desktops -> Seq(Displays)]
        /\ \A d \in Desktops : {focus[d], shown[d]} \subseteq Elements(displays[d])
    BY <1>2, <1>3, <1>4
  <2>2. /\ source \in [Desktops -> Sources] /\ signals \in [Desktops -> Nat]
        /\ pc \in [Desktops -> {"start", "wait", "reading", "switching", "over"}]
        /\ streamed \in [Desktops -> MaybeDisplay] /\ pending \in [Desktops -> MaybeDisplay]
    BY <1>2 DEF Sources, MaybeDisplay
  <2> QED
    BY <1>2, <2>1, <2>2, ParameterAssumption DEF TypeOK
<1>6. ShapeOK
  BY <1>2, <1>3 DEF ShapeOK
<1>7. TagInv
  BY <1>2 DEF TagInv
<1>8. BeliefInv
  BY <1>2, <1>3, <1>4 DEF BeliefInv
<1> QED
  BY <1>5, <1>6, <1>7, <1>8 DEF IInv

(* IInv is inductive: one step per action.                                 *)
LEMMA NextIInv == IInv /\ [Next]_vars => IInv'
<1>1. SUFFICES ASSUME IInv, [Next]_vars PROVE IInv'
  OBVIOUS
<1>2. ASSUME NEW d \in Desktops, NEW x \in Displays,
             Move(d, x) \/ Plug(d, x) \/ \E y, z \in Displays : Unplug(d, x, y, z)
      PROVE  IInv'
  BY <1>1, <1>2, MoveKeeps, PlugKeeps, UnplugKeeps
<1>3. ASSUME NEW d \in Desktops,
             Connect(d) \/ SocketLost(d) \/ Poll(d) \/ Signal(d) \/ Over(d)
      PROVE  IInv'
  BY <1>1, <1>3, SignalsKeep
<1>4. ASSUME NEW d \in Desktops, Start(d) \/ Reevaluate(d) \/ Commit(d) \/ GiveUp(d)
      PROVE  IInv'
  BY <1>1, <1>4, StartKeeps, ReevaluateKeeps, CommitKeeps, GiveUpKeeps
<1>5. ASSUME NEW r \in requests, Carry(r) \/ Lost(r)
      PROVE  IInv'
  BY <1>1, <1>5, ResolveKeeps, SendShortcutKeeps, LostKeeps DEF Carry
<1>6. CASE UNCHANGED vars
  <2>1. UNCHANGED <<displays, focus, shown, source, signals, pc, streamed, pending, requests,
                    misled, unheard, moves, plugs, faults>>
    BY <1>6 DEF vars, routerVars, bounds
  <2>2. TypeOK'
    BY <1>1, <2>1 DEF IInv, TypeOK
  <2> QED
    BY <1>1, <2>1, <2>2, QuietKeeps DEF IInv, TagInv, ShapeOK
<1> QED
  BY <1>1, <1>2, <1>3, <1>4, <1>5, <1>6 DEF Next

(* The invariant of FollowFocus.                                           *)
THEOREM Invariance == Spec => []IInv
BY InitIInv, NextIInv, PTL DEF Spec

(* Types: what is focused and what is shown are displays the desktop has,  *)
(* and no switch is asked for beyond Sunshine's range.                     *)
THEOREM TypeCorrectness == Spec => []TypeOK
<1>1. IInv => TypeOK
  BY DEF IInv
<1> QED
  BY <1>1, Invariance, PTL

(* However switches fail, signals are lost and displays come and go on any *)
(* number of desktops, RoutingState.streamed is what Sunshine shows,       *)
(* unless the router was misled.                                           *)
THEOREM BeliefSafety == Spec => []BeliefMatchesStream
<1>1. IInv => BeliefMatchesStream
  BY DEF IInv, BeliefInv, BeliefMatchesStream
<1> QED
  BY <1>1, Invariance, PTL
=============================================================================
