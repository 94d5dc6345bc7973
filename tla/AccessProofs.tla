---------------------------- MODULE AccessProofs -----------------------------
(***************************************************************************)
(* Who may use an agent: which devices an edit can grant something, and    *)
(* when an edit of the allowlist can be lost (Access); how old the facts   *)
(* may be on which the agent authorizes a request, for any number of       *)
(* addresses, identities and requests (Authorizer).  The two are about the *)
(* same file and share no variable.                                        *)
(***************************************************************************)
EXTENDS Access, Authorizer, FiniteSetTheorems, TLAPS

-----------------------------------------------------------------------------
(***************************************************************************)
(* The store and its users.                                                *)
(***************************************************************************)

EditRecord == [step : {"begun", "store"}, grant : Grants, node : Devices \cup {Nobody},
               meant : Devices \cup {Nobody}, copy : [Devices -> Grants] \cup {Nobody}]

(* The types of the allowlist, of what its edits promise and of the edits. *)
FileTypeOK ==
    /\ granted \in [Devices -> Grants]
    /\ intended \in [Devices -> SUBSET Grants] /\ wanted \in [Devices -> SUBSET Grants]
    /\ asked \in [Devices -> SUBSET Grants]
    /\ crossed \in BOOLEAN
    /\ edit \in [Editors -> EditRecord \cup {Nobody}]
    /\ \A e \in Editors : InStore(e) => edit[e].copy \in [Devices -> Grants]

(* An edit is for the device the user has in mind from the moment the name *)
(* is resolved, or for none; so the edits of an entry are those meant for  *)
(* its device.                                                             *)
MeantInv ==
    /\ \A e \in Editors : edit[e] # Nobody => edit[e].node = edit[e].meant
    /\ wanted = intended

(* Unless two processes have overlapped, one edit at a time is between its *)
(* read and its write, and its copy is the file, which is what the edits   *)
(* before it have reported.                                                *)
CopyInv ==
    ~ crossed =>
        /\ \A d \in Devices : granted[d] \in intended[d]
        /\ \A e \in Editors : InStore(e) => edit[e].copy = granted
        /\ \A e, f \in Editors : InStore(e) /\ InStore(f) => e = f

(* Every list around, also an outdated copy that is still to be written,   *)
(* grants a device only what was asked for it once.                        *)
AskedFor(list) == \A d \in Devices : list[d] # "none" => list[d] \in asked[d]
AskedInv == AskedFor(granted) /\ \A e \in Editors : InStore(e) => AskedFor(edit[e].copy)

IInv == FileTypeOK /\ MeantInv /\ CopyInv /\ AskedInv

-----------------------------------------------------------------------------
(* A name resolves to the only device that has it.                         *)
LEMMA ResolvedIsMeant ==
    ASSUME NEW name, NEW meant \in Devices, name \in NamesOf[meant],
           NEW node \in Resolved(name)
    PROVE  node = meant
<1>1. Cardinality(Named(name)) = 1 /\ node \in Named(name)
  BY DEF Resolved
<1>2. meant \in Named(name)
  BY DEF Named
<1>3. IsFiniteSet(Named(name))
  BY DevicesAssumption, FS_Subset DEF Named
<1>4. PICK x : Named(name) = {x}
  BY <1>1, <1>3, FS_Singleton
<1> QED
  BY <1>1, <1>2, <1>4

(* Beginning an edit keeps the invariant, if it is meant for its device.   *)
LEMMA EditKeeps ==
    ASSUME IInv, NEW e \in Editors, NEW grant \in Grants, NEW node \in Devices \cup {Nobody},
           Edit(e, grant, node, node)
    PROVE  IInv'
<1> DEFINE new == [step |-> "begun", grant |-> grant, node |-> node, meant |-> node,
                   copy |-> Nobody]
<1>1. /\ edit' = [edit EXCEPT ![e] = new]
      /\ granted' = granted /\ crossed' = crossed
      /\ intended' = intended /\ wanted' = wanted /\ asked' = asked
  BY DEF Edit, file, expected
<1>2. new \in EditRecord
  BY DEF EditRecord
<1>3. edit' \in [Editors -> EditRecord \cup {Nobody}]
  BY <1>1, <1>2 DEF IInv, FileTypeOK
<1>4. \A f \in Editors : edit'[f] = IF f = e THEN new ELSE edit[f]
  BY <1>1 DEF IInv, FileTypeOK
<1>5. \A f \in Editors : InStore(f)' => InStore(f) /\ edit'[f] = edit[f]
  BY <1>4 DEF InStore
<1>6. FileTypeOK'
  BY <1>1, <1>3, <1>5 DEF IInv, FileTypeOK
<1>7. MeantInv'
  BY <1>1, <1>4 DEF IInv, MeantInv
<1>8. CopyInv'
  BY <1>1, <1>5 DEF IInv, CopyInv
<1>9. AskedInv'
  BY <1>1, <1>5 DEF IInv, AskedInv, AskedFor
<1> QED
  BY <1>6, <1>7, <1>8, <1>9 DEF IInv

(* Reading the file keeps it: nobody of the same process is in between,    *)
(* and somebody of another process is on record.                           *)
LEMMA EditReadKeeps ==
    ASSUME IInv, NEW e \in Editors, EditRead(e)
    PROVE  IInv'
<1> DEFINE new == [edit[e] EXCEPT !.step = "store", !.copy = granted]
<1>1. /\ edit[e] \in EditRecord /\ granted \in [Devices -> Grants]
      /\ edit[e] # Nobody /\ ~ Locked(e)
  BY DEF IInv, FileTypeOK, EditRead
<1>2. /\ edit' = [edit EXCEPT ![e] = new]
      /\ granted' = granted /\ intended' = intended /\ wanted' = wanted /\ asked' = asked
      /\ crossed' = (crossed \/ \E f \in Editors : ~ SameProcess(e, f) /\ InStore(f))
  BY DEF EditRead, IInv, FileTypeOK, expected
<1>3. /\ new \in EditRecord
      /\ new.grant = edit[e].grant /\ new.node = edit[e].node /\ new.meant = edit[e].meant
      /\ new.copy = granted
  BY <1>1 DEF EditRecord
<1>4. edit' \in [Editors -> EditRecord \cup {Nobody}]
  BY <1>2, <1>3 DEF IInv, FileTypeOK
<1>5. \A f \in Editors : edit'[f] = IF f = e THEN new ELSE edit[f]
  BY <1>2 DEF IInv, FileTypeOK
<1>6. \A f \in Editors \ {e} : InStore(f)' <=> InStore(f)
  BY <1>5 DEF InStore
<1>7. crossed' \in BOOLEAN
  BY <1>2 DEF IInv, FileTypeOK
<1>8. FileTypeOK'
  BY <1>1, <1>2, <1>3, <1>4, <1>5, <1>6, <1>7 DEF IInv, FileTypeOK
<1>9. MeantInv'
  BY <1>1, <1>2, <1>3, <1>5 DEF IInv, MeantInv
<1>10. CopyInv'
  <2>1. SUFFICES ASSUME ~ crossed'
                 PROVE  /\ \A d \in Devices : granted'[d] \in intended'[d]
                        /\ \A f \in Editors : InStore(f)' => edit'[f].copy = granted'
                        /\ \A f, g \in Editors : InStore(f)' /\ InStore(g)' => f = g
    BY DEF CopyInv
  <2>2. \A f \in Editors : ~ InStore(f)
    BY <1>1, <1>2, <2>1 DEF Locked
  <2>3. ~ crossed
    BY <1>2, <2>1
  <2> QED
    BY <1>2, <1>3, <1>5, <1>6, <2>2, <2>3 DEF IInv, CopyInv
<1>11. AskedInv'
  <2>1. AskedFor(granted)'
    BY <1>2 DEF IInv, AskedInv, AskedFor
  <2>2. ASSUME NEW f \in Editors, InStore(f)' PROVE AskedFor(edit[f].copy)'
    <3>1. CASE f = e
      BY <1>2, <1>3, <1>5, <2>1, <3>1 DEF AskedFor
    <3>2. CASE f # e
      BY <1>2, <1>5, <1>6, <2>2, <3>2 DEF IInv, AskedInv, AskedFor
    <3> QED
      BY <3>1, <3>2
  <2> QED
    BY <2>1, <2>2 DEF AskedInv
<1> QED
  BY <1>8, <1>9, <1>10, <1>11 DEF IInv

(* What is expected after an edit, done or perhaps done.                   *)
LEMMA ExpectKeeps ==
    ASSUME IInv, NEW e \in Editors, InStore(e), NEW done \in BOOLEAN, Expect(e, done)
    PROVE  /\ intended' \in [Devices -> SUBSET Grants] /\ wanted' = intended'
           /\ asked' \in [Devices -> SUBSET Grants]
           /\ \A d \in Devices : asked[d] \subseteq asked'[d]
           /\ edit[e].node \in Devices =>
                 /\ edit[e].grant \in asked'[edit[e].node]
                 /\ edit[e].grant \in intended'[edit[e].node]
                 /\ ~ done => intended[edit[e].node] \subseteq intended'[edit[e].node]
           /\ \A d \in Devices \ {edit[e].node} : intended'[d] = intended[d]
<1>1. edit[e] \in EditRecord /\ edit[e].node = edit[e].meant
  BY DEF IInv, FileTypeOK, MeantInv, InStore
<1>2. edit[e].grant \in Grants
  BY <1>1 DEF EditRecord
<1>3. /\ intended \in [Devices -> SUBSET Grants] /\ wanted = intended
      /\ asked \in [Devices -> SUBSET Grants]
  BY DEF IInv, FileTypeOK, MeantInv
<1>4. intended' = [d \in Devices |->
          IF d = edit[e].node THEN Expected(e, intended, d, done) ELSE intended[d]]
  BY DEF Expect
<1>5. wanted' = [d \in Devices |->
          IF d = edit[e].meant THEN Expected(e, wanted, d, done) ELSE wanted[d]]
  BY DEF Expect
<1>6. asked' = [d \in Devices |->
          IF d = edit[e].meant THEN Expected(e, asked, d, FALSE) ELSE asked[d]]
  BY DEF Expect
<1>7. \A d \in Devices : /\ Expected(e, intended, d, done) \in SUBSET Grants
                         /\ Expected(e, asked, d, FALSE) = asked[d] \cup {edit[e].grant}
                         /\ Expected(e, asked, d, FALSE) \in SUBSET Grants
  BY <1>2, <1>3 DEF Expected
<1>8. wanted' = intended'
  BY <1>1, <1>3, <1>4, <1>5
<1>9. intended' \in [Devices -> SUBSET Grants] /\ asked' \in [Devices -> SUBSET Grants]
  BY <1>3, <1>4, <1>6, <1>7
<1>10. \A d \in Devices : asked[d] \subseteq asked'[d]
  BY <1>6, <1>7
<1>11. ASSUME edit[e].node \in Devices
       PROVE  /\ edit[e].grant \in asked'[edit[e].node]
              /\ edit[e].grant \in intended'[edit[e].node]
              /\ ~ done => intended[edit[e].node] \subseteq intended'[edit[e].node]
  <2>1. edit[e].grant \in asked'[edit[e].node]
    BY <1>1, <1>6, <1>7, <1>11
  <2>2. intended'[edit[e].node] = Expected(e, intended, edit[e].node, done)
    BY <1>4, <1>11
  <2> QED
    BY <2>1, <2>2 DEF Expected
<1>12. \A d \in Devices \ {edit[e].node} : intended'[d] = intended[d]
  BY <1>4
<1> QED
  BY <1>8, <1>9, <1>10, <1>11, <1>12

(* Leaving the mutex keeps the invariant, if the file that is left, the    *)
(* old one or the new one, has its entries expected and asked for.         *)
LEMMA LeaveKeeps ==
    ASSUME IInv, NEW e \in Editors, InStore(e), NEW done \in BOOLEAN, Expect(e, done),
           edit' = [edit EXCEPT ![e] = Nobody], crossed' = crossed,
           granted' = Written(e, edit[e].copy) \/ (~ done /\ granted' = granted)
    PROVE  IInv'
<1>1. /\ edit[e] \in EditRecord /\ edit[e].copy \in [Devices -> Grants]
      /\ edit[e].grant \in Grants /\ granted \in [Devices -> Grants]
  BY DEF IInv, FileTypeOK, InStore, EditRecord
<1>2. /\ intended' \in [Devices -> SUBSET Grants] /\ wanted' = intended'
      /\ asked' \in [Devices -> SUBSET Grants]
      /\ \A d \in Devices : asked[d] \subseteq asked'[d]
      /\ edit[e].node \in Devices =>
            /\ edit[e].grant \in asked'[edit[e].node]
            /\ edit[e].grant \in intended'[edit[e].node]
            /\ ~ done => intended[edit[e].node] \subseteq intended'[edit[e].node]
      /\ \A d \in Devices \ {edit[e].node} : intended'[d] = intended[d]
  BY ExpectKeeps
<1>3. \A d \in Devices : Written(e, edit[e].copy)[d] =
                            IF d = edit[e].node THEN edit[e].grant ELSE edit[e].copy[d]
  BY DEF Written
<1>4. granted' \in [Devices -> Grants]
  BY <1>1 DEF Written
<1>5. edit' \in [Editors -> EditRecord \cup {Nobody}]
  BY DEF IInv, FileTypeOK
<1>6. \A f \in Editors : edit'[f] = IF f = e THEN Nobody ELSE edit[f]
  BY DEF IInv, FileTypeOK
<1>7. \A f \in Editors : InStore(f)' => f # e /\ InStore(f) /\ edit'[f] = edit[f]
  BY <1>6 DEF InStore
<1>8. FileTypeOK'
  BY <1>2, <1>4, <1>5, <1>7 DEF IInv, FileTypeOK
<1>9. MeantInv'
  BY <1>2, <1>6 DEF IInv, MeantInv
<1>10. CopyInv'
  <2>1. SUFFICES ASSUME ~ crossed
                 PROVE  /\ \A d \in Devices : granted'[d] \in intended'[d]
                        /\ \A f \in Editors : ~ InStore(f)'
    BY DEF CopyInv
  <2>2. edit[e].copy = granted /\ \A d \in Devices : granted[d] \in intended[d]
    BY <2>1 DEF IInv, CopyInv
  <2>3. \A f \in Editors : ~ InStore(f)'
    BY <1>7, <2>1 DEF IInv, CopyInv
  <2>4. ASSUME NEW d \in Devices PROVE granted'[d] \in intended'[d]
    <3>1. CASE d # edit[e].node
      <4>1. granted'[d] = granted[d] /\ intended'[d] = intended[d]
        BY <1>2, <1>3, <2>2, <3>1
      <4> QED
        BY <2>2, <4>1
    <3>2. CASE d = edit[e].node
      <4>1. CASE granted' = Written(e, edit[e].copy)
        BY <1>2, <1>3, <3>2, <4>1
      <4>2. CASE ~ done /\ granted' = granted
        BY <1>2, <2>2, <3>2, <4>2
      <4> QED
        BY <4>1, <4>2
    <3> QED
      BY <3>1, <3>2
  <2> QED
    BY <2>3, <2>4
<1>11. AskedInv'
  <2>1. ASSUME NEW d \in Devices, granted'[d] # "none" PROVE granted'[d] \in asked'[d]
    <3>1. CASE granted' = Written(e, edit[e].copy)
      BY <1>2, <1>3, <2>1, <3>1 DEF IInv, AskedInv, AskedFor
    <3>2. CASE granted' = granted
      BY <1>2, <2>1, <3>2 DEF IInv, AskedInv, AskedFor
    <3> QED
      BY <3>1, <3>2
  <2>2. ASSUME NEW f \in Editors, InStore(f)', NEW d \in Devices, edit'[f].copy[d] # "none"
        PROVE  edit'[f].copy[d] \in asked'[d]
    BY <1>2, <1>7, <2>2 DEF IInv, AskedInv, AskedFor
  <2> QED
    BY <2>1, <2>2 DEF AskedInv, AskedFor
<1> QED
  BY <1>8, <1>9, <1>10, <1>11 DEF IInv

(* A failed read is forgotten and leaves everything else.                  *)
LEMMA ReadFailsKeeps ==
    ASSUME IInv, NEW e \in Editors, ReadFails(e)
    PROVE  IInv'
<1>1. /\ edit' = [edit EXCEPT ![e] = Nobody]
      /\ granted' = granted /\ crossed' = crossed
      /\ intended' = intended /\ wanted' = wanted /\ asked' = asked
  BY DEF ReadFails, file, expected
<1>2. edit' \in [Editors -> EditRecord \cup {Nobody}]
  BY <1>1 DEF IInv, FileTypeOK
<1>3. \A f \in Editors : edit'[f] = IF f = e THEN Nobody ELSE edit[f]
  BY <1>1 DEF IInv, FileTypeOK
<1>4. \A f \in Editors : InStore(f)' => InStore(f) /\ edit'[f] = edit[f]
  BY <1>3 DEF InStore
<1>5. FileTypeOK'
  BY <1>1, <1>2, <1>4 DEF IInv, FileTypeOK
<1>6. MeantInv' /\ CopyInv'
  BY <1>1, <1>3, <1>4 DEF IInv, MeantInv, CopyInv
<1>7. AskedInv'
  BY <1>1, <1>4 DEF IInv, AskedInv, AskedFor
<1> QED
  BY <1>5, <1>6, <1>7 DEF IInv

(* A write keeps it, also one that fails before or after the rename.       *)
LEMMA WriteKeeps ==
    ASSUME IInv, NEW e \in Editors, EditWrite(e) \/ WriteFails(e)
    PROVE  IInv'
<1>1. CASE EditWrite(e)
  <2>1. /\ InStore(e) /\ Expect(e, TRUE) /\ granted' = Written(e, edit[e].copy)
        /\ edit' = [edit EXCEPT ![e] = Nobody] /\ crossed' = crossed
    BY <1>1 DEF EditWrite
  <2> QED
    BY <2>1, LeaveKeeps
<1>2. CASE WriteFails(e)
  <2>1. /\ InStore(e) /\ Expect(e, FALSE)
        /\ granted' = Written(e, edit[e].copy) \/ granted' = granted
        /\ edit' = [edit EXCEPT ![e] = Nobody] /\ crossed' = crossed
    BY <1>2 DEF WriteFails
  <2> QED
    BY <2>1, LeaveKeeps
<1> QED
  BY <1>1, <1>2

(* Everything an editor does.                                              *)
LEMMA EditingKeeps ==
    ASSUME IInv, NEW e \in Editors, Editing(e)
    PROVE  IInv'
<1>1. CASE EditRead(e)
  BY <1>1, EditReadKeeps
<1>2. CASE EditWrite(e) \/ WriteFails(e)
  BY <1>2, WriteKeeps
<1>3. CASE ReadFails(e)
  BY <1>3, ReadFailsKeeps
<1>4. ASSUME NEW d \in Devices, TuiAllow(e, d) \/ TuiRevoke(e, d)
      PROVE  IInv'
  <2>1. PICK grant \in {"full", "none"} : Edit(e, grant, d, d)
    BY <1>4 DEF TuiAllow, TuiRevoke
  <2> QED
    BY <2>1, EditKeeps DEF Grants
<1>5. ASSUME NEW d \in Devices, NEW name \in NamesOf[d], CliRevoke(e, d, name)
      PROVE  IInv'
  <2>1. CASE \E node \in Resolved(name) : Edit(e, "none", node, d)
    BY <2>1, ResolvedIsMeant, EditKeeps DEF Grants
  <2>2. CASE Edit(e, "none", Nobody, Nobody)
    BY <2>2, EditKeeps DEF Grants
  <2> QED
    BY <1>5, <2>1, <2>2 DEF CliRevoke
<1>6. ASSUME NEW d \in Devices, NEW name \in NamesOf[d], NEW grant \in Grants,
             CliAllow(e, d, name, grant)
      PROVE  IInv'
  <2>1. PICK node \in Resolved(name) : Edit(e, grant, node, d) /\ name \in NamesOf[d]
    BY <1>6 DEF CliAllow
  <2>2. node = d
    BY <2>1, ResolvedIsMeant
  <2> QED
    BY <2>1, <2>2, EditKeeps
<1> QED
  BY <1>1, <1>2, <1>3, <1>4, <1>5, <1>6 DEF Editing

(* Nothing else touches the allowlist or the edits.                        *)
LEMMA OthersKeep ==
    ASSUME IInv, UNCHANGED <<file, edit>>
    PROVE  IInv'
<1>1. /\ granted' = granted /\ crossed' = crossed /\ edit' = edit
      /\ intended' = intended /\ wanted' = wanted /\ asked' = asked
  BY DEF file, expected
<1> QED
  BY <1>1 DEF IInv, FileTypeOK, MeantInv, CopyInv, AskedInv, AskedFor, InStore

(* The initial states.                                                     *)
LEMMA InitIInv == Init => IInv
<1>1. SUFFICES ASSUME Init PROVE IInv
  OBVIOUS
<1>2. granted \in [Devices -> Grants] /\ crossed = FALSE
  BY <1>1 DEF Init, Grants
<1>3. edit \in [Editors -> EditRecord \cup {Nobody}] /\ \A e \in Editors : edit[e] = Nobody
  BY <1>1 DEF Init
<1>4. intended = [d \in Devices |-> {granted[d]}] /\ wanted = intended /\ asked = intended
  BY <1>1 DEF Init
<1>5. intended \in [Devices -> SUBSET Grants] /\ \A d \in Devices : granted[d] \in intended[d]
  BY <1>2, <1>4
<1>6. FileTypeOK /\ MeantInv
  BY <1>2, <1>3, <1>4, <1>5 DEF FileTypeOK, MeantInv, InStore
<1>7. CopyInv /\ AskedInv
  BY <1>3, <1>4, <1>5 DEF CopyInv, AskedInv, AskedFor, InStore
<1> QED
  BY <1>6, <1>7 DEF IInv

(* IInv is inductive: one step per action.                                 *)
LEMMA NextIInv == IInv /\ [Next]_vars => IInv'
<1>1. SUFFICES ASSUME IInv, [Next]_vars PROVE IInv'
  OBVIOUS
<1>2. ASSUME NEW e \in Editors, Editing(e) PROVE IInv'
  BY <1>1, <1>2, EditingKeeps
<1>3. ASSUME NEW d, Probe(d) \/ ConnectBegin(d)
      PROVE  UNCHANGED <<file, edit>>
  BY <1>3 DEF Probe, ConnectBegin
<1>4. ASSUME Elsewhere PROVE UNCHANGED <<file, edit>>
  BY <1>4 DEF Elsewhere, HostChanges, AgentChanges
<1>5. ASSUME \/ ScanBegin \/ ScanEnd \/ ConnectFails
             \/ CheckReady \/ CheckCallbacks \/ CheckStatus \/ CheckAgents
      PROVE  UNCHANGED <<file, edit>>
  BY <1>5 DEF ScanBegin, ScanEnd, ConnectFails, CheckReady, CheckCallbacks, CheckStatus,
              CheckAgents
<1>6. ASSUME UNCHANGED vars PROVE UNCHANGED <<file, edit>>
  BY <1>6 DEF vars
<1> QED
  BY <1>1, <1>2, <1>3, <1>4, <1>5, <1>6, OthersKeep DEF Next

-----------------------------------------------------------------------------
(* For any number of devices, names, tasks and processes, the allowlist is *)
(* what the edits that reported success make one after the other, those    *)
(* that reported an error being done as a whole or not at all, unless two  *)
(* processes were between their read and their write at once: the mutex of *)
(* FileAccessStore is enough within a process.                             *)
THEOREM ChangesKept == Spec => []ChangesAreKept
<1>1. IInv => ChangesAreKept
  BY DEF IInv, CopyInv, ChangesAreKept
<1> QED
  BY <1>1, InitIInv, NextIInv, PTL DEF Spec

(* However devices share names, find_peer's insistence on a single match   *)
(* is enough: what a device has in the allowlist was asked for that device *)
(* once, also after edits of two processes overlapped, each with a copy    *)
(* that was outdated; and it was asked for last, unless they did.          *)
THEOREM OnlyMeant == Spec => []OnlyMeantIsGranted
<1>1. IInv => OnlyMeantIsGranted
  BY DEF IInv, MeantInv, CopyInv, AskedInv, AskedFor, OnlyMeantIsGranted
<1> QED
  BY <1>1, InitIInv, NextIInv, PTL DEF Spec
-----------------------------------------------------------------------------
(***************************************************************************)
(* What discovery shows against what a connection meets.                   *)
(***************************************************************************)
ScanRecord == [list : [Devices -> Grants], clean : BOOLEAN,
               found : UNION {[some -> Listed] : some \in SUBSET Computers}]
AttemptRecord == [node : Devices, step : {"ready", "callbacks", "status", "agents"},
                  clean : BOOLEAN]
OutcomeRecord == [node : Devices, result : Results]

(* What a scan says of the computers in some is what a probe that is       *)
(* answered would say of them now.                                         *)
Current(found, some) == \A d \in some : found[d] = Probed(d, granted, TRUE)

(* A result of a connection that still has its reason.                     *)
Founded(d, result) ==
    /\ result = "local_down" => agent[Here] = "down"
    /\ result = "local_incompatible" => agent[Here] \in {"older", "newer"}
    /\ result \notin {"local_down", "local_incompatible"} => agent[Here] = "same"
    /\ result = "needs_access" => granted[d] # "full"
    /\ result \in {"unreachable", "incompatible", "denied", "launched"} => granted[d] = "full"
    /\ result = "unreachable" => agent[d] \in {"offline", "down"}
    /\ result = "incompatible" => agent[d] \in {"older", "newer"}
    /\ result = "denied" => agent[d] = "same" /\ hosts[d] # "full"
    /\ result = "launched" => agent[d] = "same" /\ hosts[d] = "full"

(* The types of what discovery and a connection work with.                 *)
LookTypeOK ==
    /\ hosts \in [Devices -> Grants]
    /\ agent \in [Computers -> Agents] /\ agent[Here] # "offline"
    /\ stable \in BOOLEAN
    /\ scan \in ScanRecord \cup {Nobody}
    /\ shown \in [Computers -> Listed] \cup {Nobody}
    /\ attempt \in AttemptRecord \cup {Nobody}
    /\ outcome \in OutcomeRecord \cup {Nobody}

(* A scan in which nothing has changed or failed has read the file as it   *)
(* is, and what it has found so far is current; so is what is shown.       *)
ScanCurrent == scan.list = granted /\ Current(scan.found, DOMAIN scan.found)
ScanInv ==
    /\ scan # Nobody /\ scan.clean => ScanCurrent
    /\ stable /\ shown # Nobody => Current(shown, Computers)

(* The checks that an undisturbed connection has passed would be passed    *)
(* again, and its outcome has its reason.                                  *)
AttemptInv ==
    /\ attempt # Nobody /\ attempt.clean =>
          /\ attempt.step # "ready" => agent[Here] = "same"
          /\ attempt.step \in {"status", "agents"} => granted[attempt.node] = "full"
          /\ attempt.step = "agents" =>
                agent[attempt.node] = "same" /\ hosts[attempt.node] = "full"
    /\ outcome # Nobody => Founded(outcome.node, outcome.result)

LookInv == LookTypeOK /\ ScanInv /\ AttemptInv

(* What a probe says is of the type of the listing.                        *)
LEMMA ProbedType ==
    ASSUME NEW d, NEW list, NEW answered, agent[d] \in Agents
    PROVE  Probed(d, list, answered) \in Listed
<1>1. Blockers(d, list, answered) \in SUBSET Blocker
  <2>1. Incompatible(d) \in SUBSET Blocker
    BY DEF Incompatible, Blocker, Codes
  <2>2. Denied(d, answered) \in SUBSET Blocker
    BY DEF Denied, Blocker, Codes
  <2>3. NeedsAccess(d, list) \in SUBSET Blocker
    BY DEF NeedsAccess, Blocker, Codes
  <2> QED
    BY <2>1, <2>2, <2>3 DEF Blockers
<1> HIDE DEF Blockers
<1>2. CASE agent[d] = "offline"
  BY <1>2 DEF Probed, Listed
<1>3. CASE agent[d] = "down"
  BY <1>3 DEF Probed, Listed
<1>4. CASE agent[d] # "offline" /\ agent[d] # "down"
  BY <1>1, <1>4 DEF Probed, Listed
<1> QED
  BY <1>2, <1>3, <1>4

(* What was current is while nothing it was read from changes.             *)
LEMMA CurrentSame ==
    ASSUME granted' = granted, hosts' = hosts, agent' = agent,
           NEW found, NEW some, Current(found, some)
    PROVE  \A d \in some : found[d] = Probed(d, granted, TRUE)'
<1>1. \A d \in some : Probed(d, granted, TRUE)' = Probed(d, granted, TRUE)
  BY DEF Probed, Blockers, Incompatible, Denied, NeedsAccess, CallbackMissing
<1> QED
  BY <1>1 DEF Current

(* What is shown does not go stale either.                                 *)
LEMMA ShownSame ==
    ASSUME ScanInv, granted' = granted, hosts' = hosts, agent' = agent,
           shown' = shown, stable' = stable
    PROVE  (stable /\ shown # Nobody => Current(shown, Computers))'
<1>1. SUFFICES ASSUME stable', shown' # Nobody PROVE Current(shown, Computers)'
  OBVIOUS
<1>2. Current(shown, Computers)
  BY <1>1 DEF ScanInv
<1>3. \A d \in Computers : shown[d] = Probed(d, granted, TRUE)'
  BY <1>2, CurrentSame
<1> QED
  BY <1>3 DEF Current, Computers

(* The same of a scan under way.                                           *)
LEMMA ScanSame ==
    ASSUME ScanInv, granted' = granted, hosts' = hosts, agent' = agent,
           scan' = scan
    PROVE  (scan # Nobody /\ scan.clean => ScanCurrent)'
<1>1. SUFFICES ASSUME scan # Nobody, scan.clean
               PROVE  ScanCurrent'
  OBVIOUS
<1>2. scan.list = granted /\ Current(scan.found, DOMAIN scan.found)
  BY <1>1 DEF ScanInv, ScanCurrent
<1>3. \A d \in DOMAIN scan.found : scan.found[d] = Probed(d, granted, TRUE)'
  BY <1>2, CurrentSame
<1> QED
  BY <1>2, <1>3 DEF ScanCurrent, Current

(* After a change nothing under way is taken for current.                  *)
LEMMA DisturbKeeps ==
    ASSUME LookInv, Disturb, shown' = shown, hosts' \in [Devices -> Grants],
           agent' \in [Computers -> Agents], agent'[Here] # "offline"
    PROVE  LookInv'
<1>1. /\ scan' \in ScanRecord \cup {Nobody}
      /\ scan' # Nobody => ~ scan'.clean
  <2>1. CASE scan = Nobody
    BY <2>1 DEF Disturb
  <2>2. CASE scan # Nobody
    <3>1. scan \in ScanRecord /\ scan' = [scan EXCEPT !.clean = FALSE]
      BY <2>2 DEF LookInv, LookTypeOK, Disturb
    <3> QED
      BY <3>1 DEF ScanRecord
  <2> QED
    BY <2>1, <2>2
<1>2. /\ attempt' \in AttemptRecord \cup {Nobody}
      /\ attempt' # Nobody => ~ attempt'.clean
  <2>1. CASE attempt = Nobody
    BY <2>1 DEF Disturb
  <2>2. CASE attempt # Nobody
    <3>1. attempt \in AttemptRecord /\ attempt' = [attempt EXCEPT !.clean = FALSE]
      BY <2>2 DEF LookInv, LookTypeOK, Disturb
    <3> QED
      BY <3>1 DEF AttemptRecord
  <2> QED
    BY <2>1, <2>2
<1>3. stable' = FALSE /\ outcome' = Nobody
  BY DEF Disturb
<1>4. LookTypeOK'
  BY <1>1, <1>2, <1>3 DEF LookInv, LookTypeOK
<1>5. ScanInv' /\ AttemptInv'
  BY <1>1, <1>2, <1>3 DEF ScanInv, AttemptInv
<1> QED
  BY <1>4, <1>5 DEF LookInv

(* Editing leaves discovery and connections alone until the file is        *)
(* written.                                                                *)
LEMMA QuietKeeps ==
    ASSUME LookInv, UNCHANGED <<granted, others, scan, shown, attempt, outcome, stable>>
    PROVE  LookInv'
<1>1. /\ granted' = granted /\ hosts' = hosts /\ agent' = agent /\ scan' = scan
      /\ shown' = shown /\ attempt' = attempt /\ outcome' = outcome /\ stable' = stable
  BY DEF others
<1>2. LookTypeOK'
  BY <1>1 DEF LookInv, LookTypeOK
<1>3. ScanInv'
  BY <1>1, ShownSame, ScanSame DEF LookInv, ScanInv
<1>4. AttemptInv'
  BY <1>1 DEF LookInv, AttemptInv, Founded
<1> QED
  BY <1>2, <1>3, <1>4 DEF LookInv

(* A scan begins with the file, or with nothing and a failure.             *)
LEMMA ScanBeginKeeps ==
    ASSUME IInv, LookInv, ScanBegin
    PROVE  LookInv'
<1>1. /\ granted' = granted /\ hosts' = hosts /\ agent' = agent
      /\ shown' = shown /\ attempt' = attempt /\ outcome' = outcome /\ stable' = stable
  BY DEF ScanBegin, file, others
<1>2. PICK list \in [Devices -> Grants], clean \in BOOLEAN :
          scan' = Scanning(list, clean) /\ (clean => list = granted)
  <2>1. granted \in [Devices -> Grants] /\ [d \in Devices |-> "none"] \in [Devices -> Grants]
    BY DEF IInv, FileTypeOK, Grants
  <2> QED
    BY <2>1 DEF ScanBegin
<1> DEFINE none == [d \in {} |-> 0]
<1>3. none \in UNION {[some -> Listed] : some \in SUBSET Computers} /\ DOMAIN none = {}
  <2>1. none \in [{} -> Listed] /\ {} \in SUBSET Computers
    OBVIOUS
  <2> HIDE DEF none
  <2> QED
    BY <2>1
<1>4. /\ scan' \in ScanRecord /\ scan'.list = list /\ scan'.found = none
      /\ scan'.clean = clean
  <2>1. scan' = [list |-> list, found |-> none, clean |-> clean]
    BY <1>2 DEF Scanning
  <2> HIDE DEF none
  <2> QED
    BY <1>3, <2>1 DEF ScanRecord
<1> HIDE DEF none
<1>5. LookTypeOK'
  BY <1>1, <1>4 DEF LookInv, LookTypeOK
<1>6. (scan # Nobody /\ scan.clean => ScanCurrent)'
  BY <1>1, <1>2, <1>3, <1>4 DEF ScanCurrent, Current
<1>7. ScanInv'
  BY <1>1, <1>6, ShownSame DEF LookInv, ScanInv
<1>8. AttemptInv'
  BY <1>1 DEF LookInv, AttemptInv, Founded
<1> QED
  BY <1>5, <1>7, <1>8 DEF LookInv

(* A probe that is answered adds what is current, by a list that is too.   *)
LEMMA ProbeKeeps ==
    ASSUME IInv, LookInv, NEW d \in Computers, Probe(d)
    PROVE  LookInv'
<1>1. /\ granted' = granted /\ hosts' = hosts /\ agent' = agent
      /\ shown' = shown /\ attempt' = attempt /\ outcome' = outcome /\ stable' = stable
  BY DEF Probe, file, others
<1>2. PICK answered \in BOOLEAN :
          scan' = [scan EXCEPT
              !.found = [x \in DOMAIN scan.found \cup {d} |->
                  IF x = d THEN Probed(d, scan.list, answered) ELSE scan.found[x]],
              !.clean = @ /\ answered]
  BY DEF Probe
<1>3. scan # Nobody /\ scan \in ScanRecord
  BY DEF Probe, LookInv, LookTypeOK
<1> DEFINE new == [x \in DOMAIN scan.found \cup {d} |->
                      IF x = d THEN Probed(d, scan.list, answered) ELSE scan.found[x]]
<1>4. new \in UNION {[some -> Listed] : some \in SUBSET Computers}
  <2>1. PICK some \in SUBSET Computers : scan.found \in [some -> Listed]
    BY <1>3 DEF ScanRecord
  <2>2. Probed(d, scan.list, answered) \in Listed
    BY ProbedType DEF LookInv, LookTypeOK
  <2>3. new \in [some \cup {d} -> Listed] /\ some \cup {d} \in SUBSET Computers
    BY <2>1, <2>2
  <2> HIDE DEF new
  <2> QED
    BY <2>3
<1>5. /\ scan' \in ScanRecord /\ scan'.list = scan.list /\ scan'.found = new
      /\ scan'.clean = (scan.clean /\ answered)
  <2>1. scan' = [scan EXCEPT !.found = new, !.clean = @ /\ answered]
    BY <1>2
  <2> HIDE DEF new
  <2> QED
    BY <1>3, <1>4, <2>1 DEF ScanRecord
<1>6. LookTypeOK'
  BY <1>1, <1>5 DEF LookInv, LookTypeOK
<1>7. (scan # Nobody /\ scan.clean => ScanCurrent)'
  <2>1. SUFFICES ASSUME scan.clean, answered
                 PROVE  /\ scan.list = granted
                        /\ \A x \in DOMAIN new : new[x] = Probed(x, granted, TRUE)'
    BY <1>1, <1>5 DEF ScanCurrent, Current
  <2>2. scan.list = granted /\ Current(scan.found, DOMAIN scan.found)
    BY <1>3, <2>1 DEF LookInv, ScanInv, ScanCurrent
  <2>3. \A x \in DOMAIN scan.found : scan.found[x] = Probed(x, granted, TRUE)
    BY <2>2 DEF Current
  <2>4. Probed(d, scan.list, answered) = Probed(d, granted, TRUE)
    <3>1. answered = TRUE
      BY <2>1
    <3> QED
      BY <2>2, <3>1
  <2>5. \A x \in DOMAIN new : new[x] = Probed(x, granted, TRUE)
    BY <2>3, <2>4
  <2>6. Current(new, DOMAIN new)
    <3> HIDE DEF new
    <3> QED
      BY <2>5 DEF Current
  <2> HIDE DEF new
  <2> QED
    BY <1>1, <2>2, <2>6, CurrentSame
<1>8. ScanInv'
  BY <1>1, <1>7, ShownSame DEF LookInv, ScanInv
<1>9. AttemptInv'
  BY <1>1 DEF LookInv, AttemptInv, Founded
<1> QED
  BY <1>6, <1>8, <1>9 DEF LookInv

(* What an undisturbed scan found is shown.                                *)
LEMMA ScanEndKeeps ==
    ASSUME LookInv, ScanEnd
    PROVE  LookInv'
<1>1. /\ granted' = granted /\ hosts' = hosts /\ agent' = agent
      /\ attempt' = attempt /\ outcome' = outcome
      /\ scan' = Nobody /\ shown' = scan.found /\ stable' = scan.clean
      /\ DOMAIN scan.found = Computers /\ scan # Nobody
  BY DEF ScanEnd, file, others
<1>2. scan \in ScanRecord
  BY <1>1 DEF LookInv, LookTypeOK
<1>3. scan.found \in [Computers -> Listed] /\ scan.clean \in BOOLEAN
  <2>1. PICK some \in SUBSET Computers : scan.found \in [some -> Listed]
    BY <1>2 DEF ScanRecord
  <2>2. some = Computers
    BY <1>1, <2>1
  <2> QED
    BY <1>2, <2>1, <2>2 DEF ScanRecord
<1>4. LookTypeOK'
  BY <1>1, <1>3 DEF LookInv, LookTypeOK
<1>5. ScanInv'
  <2>1. SUFFICES ASSUME stable' PROVE Current(shown, Computers)'
    BY <1>1 DEF ScanInv
  <2>2. scan.clean
    BY <1>1, <2>1
  <2>3. Current(scan.found, Computers)
    BY <1>1, <2>2 DEF LookInv, ScanInv, ScanCurrent
  <2>4. \A d \in Computers : scan.found[d] = Probed(d, granted, TRUE)'
    BY <1>1, <2>3, CurrentSame
  <2> QED
    BY <1>1, <2>4 DEF Current, Computers
<1>6. AttemptInv'
  BY <1>1 DEF LookInv, AttemptInv, Founded
<1> QED
  BY <1>4, <1>5, <1>6 DEF LookInv

(* A connection that ends has the reason it ends with.                     *)
LEMMA EndsKeeps ==
    ASSUME LookInv, attempt # Nobody, NEW r \in Results, ConnectEnds(r),
           UNCHANGED <<file, others, edit, scan, shown, stable, bounds>>,
           attempt.clean => Founded(attempt.node, r)
    PROVE  LookInv'
<1>1. /\ granted' = granted /\ hosts' = hosts /\ agent' = agent
      /\ scan' = scan /\ shown' = shown /\ stable' = stable
      /\ attempt' = Nobody
      /\ outcome' = IF attempt.clean THEN [node |-> attempt.node, result |-> r] ELSE Nobody
  BY DEF ConnectEnds, file, others, bounds
<1>2. attempt.node \in Devices
  BY DEF LookInv, LookTypeOK, AttemptRecord
<1>3. outcome' \in OutcomeRecord \cup {Nobody}
  BY <1>1, <1>2 DEF OutcomeRecord
<1>4. outcome' # Nobody => Founded(attempt.node, r) /\ outcome'.node = attempt.node
                                                   /\ outcome'.result = r
  BY <1>1
<1>5. LookTypeOK'
  BY <1>1, <1>3 DEF LookInv, LookTypeOK
<1>6. ScanInv'
  BY <1>1, ShownSame, ScanSame DEF LookInv, ScanInv
<1>7. AttemptInv'
  BY <1>1, <1>4 DEF AttemptInv, Founded
<1> QED
  BY <1>5, <1>6, <1>7 DEF LookInv

(* One that goes on has passed the checks before its step.                 *)
LEMMA GoesKeeps ==
    ASSUME LookInv, attempt # Nobody, NEW s \in {"callbacks", "status", "agents"},
           ConnectGoes(s), UNCHANGED <<file, others, edit, scan, shown, stable, bounds>>,
           attempt.clean => agent[Here] = "same",
           attempt.clean /\ s # "callbacks" => granted[attempt.node] = "full",
           attempt.clean /\ s = "agents" =>
               agent[attempt.node] = "same" /\ hosts[attempt.node] = "full"
    PROVE  LookInv'
<1>1. /\ granted' = granted /\ hosts' = hosts /\ agent' = agent
      /\ scan' = scan /\ shown' = shown /\ stable' = stable /\ outcome' = outcome
      /\ attempt' = [attempt EXCEPT !.step = s]
  BY DEF ConnectGoes, file, others
<1>2. attempt \in AttemptRecord
  BY DEF LookInv, LookTypeOK
<1>3. /\ attempt' \in AttemptRecord /\ attempt'.step = s
      /\ attempt'.node = attempt.node /\ attempt'.clean = attempt.clean
  BY <1>1, <1>2 DEF AttemptRecord
<1>4. LookTypeOK'
  BY <1>1, <1>3 DEF LookInv, LookTypeOK
<1>5. ScanInv'
  BY <1>1, ShownSame, ScanSame DEF LookInv, ScanInv
<1>6. (outcome # Nobody => Founded(outcome.node, outcome.result))'
  BY <1>1 DEF LookInv, AttemptInv, Founded
<1>7. AttemptInv'
  BY <1>1, <1>3, <1>6 DEF AttemptInv
<1> QED
  BY <1>4, <1>5, <1>7 DEF LookInv

(* Beginning one forgets the outcome of the last.                          *)
LEMMA ConnectBeginKeeps ==
    ASSUME LookInv, NEW d \in Devices, ConnectBegin(d)
    PROVE  LookInv'
<1>1. /\ granted' = granted /\ hosts' = hosts /\ agent' = agent
      /\ scan' = scan /\ shown' = shown /\ stable' = stable /\ outcome' = Nobody
      /\ attempt' = [node |-> d, step |-> "ready", clean |-> TRUE]
  BY DEF ConnectBegin, file, others
<1>2. attempt' \in AttemptRecord /\ attempt'.step = "ready"
  BY <1>1 DEF AttemptRecord
<1>3. LookTypeOK'
  BY <1>1, <1>2 DEF LookInv, LookTypeOK
<1>4. ScanInv'
  BY <1>1, ShownSame, ScanSame DEF LookInv, ScanInv
<1>5. AttemptInv'
  BY <1>1, <1>2 DEF AttemptInv
<1> QED
  BY <1>3, <1>4, <1>5 DEF LookInv

(* So does its failure.                                                    *)
LEMMA ConnectFailsKeeps ==
    ASSUME LookInv, ConnectFails
    PROVE  LookInv'
<1>1. /\ granted' = granted /\ hosts' = hosts /\ agent' = agent
      /\ scan' = scan /\ shown' = shown /\ stable' = stable /\ outcome' = Nobody
      /\ attempt' = Nobody
  BY DEF ConnectFails, file, others
<1>2. LookTypeOK' /\ AttemptInv'
  BY <1>1 DEF LookInv, LookTypeOK, AttemptInv
<1>3. ScanInv'
  BY <1>1, ShownSame, ScanSame DEF LookInv, ScanInv
<1> QED
  BY <1>2, <1>3 DEF LookInv

(* The four checks of a connection.                                        *)
LEMMA ReadyKeeps ==
    ASSUME LookInv, CheckReady
    PROVE  LookInv'
<1>1. /\ attempt # Nobody
      /\ UNCHANGED <<file, others, edit, scan, shown, stable, bounds>>
  BY DEF CheckReady, Doing
<1>2. agent[Here] \in {"down", "older", "same", "newer"}
  BY DEF LookInv, LookTypeOK, Computers, Agents
<1>3. CASE agent[Here] = "down"
  <2>1. ConnectEnds("local_down") /\ Founded(attempt.node, "local_down")
    BY <1>3 DEF CheckReady, Founded
  <2> QED
    BY <1>1, <2>1, EndsKeeps DEF Results
<1>4. CASE agent[Here] \in {"older", "newer"}
  <2>1. ConnectEnds("local_incompatible") /\ Founded(attempt.node, "local_incompatible")
    BY <1>4 DEF CheckReady, Founded
  <2> QED
    BY <1>1, <2>1, EndsKeeps DEF Results
<1>5. CASE agent[Here] = "same"
  <2>1. ConnectGoes("callbacks")
    BY <1>5 DEF CheckReady
  <2> QED
    BY <1>1, <1>5, <2>1, GoesKeeps
<1> QED
  BY <1>2, <1>3, <1>4, <1>5

LEMMA CallbacksKeep ==
    ASSUME LookInv, CheckCallbacks
    PROVE  LookInv'
<1>1. /\ attempt # Nobody /\ attempt.step = "callbacks"
      /\ UNCHANGED <<file, others, edit, scan, shown, stable, bounds>>
  BY DEF CheckCallbacks, Doing
<1>2. attempt.clean => agent[Here] = "same"
  BY <1>1 DEF LookInv, AttemptInv
<1>3. CASE granted[attempt.node] # "full"
  <2>1. /\ ConnectEnds("needs_access")
        /\ attempt.clean => Founded(attempt.node, "needs_access")
    BY <1>2, <1>3 DEF CheckCallbacks, CallbackMissing, Founded
  <2> QED
    BY <1>1, <2>1, EndsKeeps DEF Results
<1>4. CASE granted[attempt.node] = "full"
  <2>1. ConnectGoes("status")
    BY <1>4 DEF CheckCallbacks, CallbackMissing
  <2> QED
    BY <1>1, <1>2, <1>4, <2>1, GoesKeeps
<1> QED
  BY <1>3, <1>4

LEMMA StatusKeeps ==
    ASSUME LookInv, CheckStatus
    PROVE  LookInv'
<1> DEFINE d == attempt.node
<1>1. /\ attempt # Nobody /\ attempt.step = "status"
      /\ UNCHANGED <<file, others, edit, scan, shown, stable, bounds>>
  BY DEF CheckStatus, Doing
<1>2. d \in Devices /\ agent[d] \in Agents
  BY <1>1 DEF LookInv, LookTypeOK, AttemptRecord, Computers
<1>3. attempt.clean => agent[Here] = "same" /\ granted[d] = "full"
  BY <1>1 DEF LookInv, AttemptInv
<1>4. CASE agent[d] \in {"offline", "down"}
  <2>1. ConnectEnds("unreachable") /\ (attempt.clean => Founded(d, "unreachable"))
    BY <1>3, <1>4 DEF CheckStatus, Founded
  <2> QED
    BY <1>1, <2>1, EndsKeeps DEF Results
<1>5. CASE agent[d] \in {"older", "newer"}
  <2>1. ConnectEnds("incompatible") /\ (attempt.clean => Founded(d, "incompatible"))
    BY <1>3, <1>5 DEF CheckStatus, Founded
  <2> QED
    BY <1>1, <2>1, EndsKeeps DEF Results
<1>6. CASE agent[d] = "same" /\ hosts[d] # "full"
  <2>1. ConnectEnds("denied") /\ (attempt.clean => Founded(d, "denied"))
    BY <1>3, <1>6 DEF CheckStatus, Founded
  <2> QED
    BY <1>1, <2>1, EndsKeeps DEF Results
<1>7. CASE agent[d] = "same" /\ hosts[d] = "full"
  <2>1. ConnectGoes("agents")
    BY <1>7 DEF CheckStatus
  <2> QED
    BY <1>1, <1>3, <1>7, <2>1, GoesKeeps
<1> QED
  BY <1>2, <1>4, <1>5, <1>6, <1>7 DEF Agents

LEMMA AgentsKeep ==
    ASSUME LookInv, CheckAgents
    PROVE  LookInv'
<1> DEFINE d == attempt.node
<1>1. /\ attempt # Nobody /\ attempt.step = "agents"
      /\ UNCHANGED <<file, others, edit, scan, shown, stable, bounds>>
  BY DEF CheckAgents, Doing
<1>2. attempt.clean => /\ agent[Here] = "same" /\ granted[d] = "full"
                       /\ agent[d] = "same" /\ hosts[d] = "full"
  BY <1>1 DEF LookInv, AttemptInv
<1>3. CASE agent[Here] = "down"
  <2>1. ConnectEnds("local_down") /\ (attempt.clean => Founded(d, "local_down"))
    BY <1>2, <1>3 DEF CheckAgents
  <2> QED
    BY <1>1, <2>1, EndsKeeps DEF Results
<1>4. CASE agent[Here] # "down" /\ agent[d] \in {"offline", "down"}
  <2>1. ConnectEnds("unreachable") /\ (attempt.clean => Founded(d, "unreachable"))
    BY <1>2, <1>4 DEF CheckAgents
  <2> QED
    BY <1>1, <2>1, EndsKeeps DEF Results
<1>5. CASE agent[Here] # "down" /\ agent[d] \notin {"offline", "down"}
  <2>1. ConnectEnds("launched") /\ (attempt.clean => Founded(d, "launched"))
    BY <1>2, <1>5 DEF CheckAgents, Founded
  <2> QED
    BY <1>1, <2>1, EndsKeeps DEF Results
<1> QED
  BY <1>3, <1>4, <1>5

(* An editor disturbs what was read when the file is replaced, and only    *)
(* then.                                                                   *)
LEMMA EditingKeepsLook ==
    ASSUME LookInv, NEW e \in Editors, Editing(e)
    PROVE  LookInv'
<1>1. ASSUME Disturb, UNCHANGED <<others, shown>> PROVE LookInv'
  <2>1. shown' = shown /\ hosts' = hosts /\ agent' = agent
    BY <1>1 DEF others
  <2> QED
    BY <1>1, <2>1, DisturbKeeps DEF LookInv, LookTypeOK
<1>2. CASE EditWrite(e)
  BY <1>1, <1>2 DEF EditWrite
<1>3. CASE WriteFails(e)
  BY <1>1, <1>3, QuietKeeps DEF WriteFails
<1>4. CASE EditRead(e)
  BY <1>4, QuietKeeps DEF EditRead
<1>5. CASE ReadFails(e)
  <2>1. UNCHANGED <<granted, others, scan, shown, attempt, outcome, stable>>
    BY <1>5 DEF ReadFails, file
  <2> QED
    BY <2>1, QuietKeeps
<1>6. ASSUME NEW grant, NEW node, NEW meant, Edit(e, grant, node, meant)
      PROVE  LookInv'
  <2>1. UNCHANGED <<granted, others, scan, shown, attempt, outcome, stable>>
    BY <1>6 DEF Edit, file
  <2> QED
    BY <2>1, QuietKeeps
<1>7. ASSUME NEW d \in Devices, TuiAllow(e, d) \/ TuiRevoke(e, d)
      PROVE  LookInv'
  BY <1>6, <1>7 DEF TuiAllow, TuiRevoke
<1>8. ASSUME NEW d \in Devices, NEW name \in NamesOf[d], CliRevoke(e, d, name)
      PROVE  LookInv'
  BY <1>6, <1>8 DEF CliRevoke
<1>9. ASSUME NEW d \in Devices, NEW name \in NamesOf[d], NEW grant \in Grants,
             CliAllow(e, d, name, grant)
      PROVE  LookInv'
  BY <1>6, <1>9 DEF CliAllow
<1> QED
  BY <1>2, <1>3, <1>4, <1>5, <1>7, <1>8, <1>9 DEF Editing

(* So do the other computers and the agents.                               *)
LEMMA ElsewhereKeeps ==
    ASSUME LookInv, Elsewhere
    PROVE  LookInv'
<1>1. ASSUME NEW d \in Devices, NEW grant \in {"none", "full"}, HostChanges(d, grant)
      PROVE  LookInv'
  <2>1. /\ Disturb /\ shown' = shown /\ agent' = agent
        /\ hosts' \in [Devices -> Grants]
    BY <1>1 DEF HostChanges, LookInv, LookTypeOK, Grants
  <2> QED
    BY <2>1, DisturbKeeps DEF LookInv, LookTypeOK
<1>2. ASSUME NEW d \in Computers, NEW state \in Agents, AgentChanges(d, state)
      PROVE  LookInv'
  <2>1. /\ Disturb /\ shown' = shown /\ hosts' = hosts
        /\ agent' = [agent EXCEPT ![d] = state] /\ (d = Here => state # "offline")
    BY <1>2 DEF AgentChanges
  <2>2. agent \in [Computers -> Agents] /\ agent[Here] # "offline" /\ Here \in Computers
    BY DEF LookInv, LookTypeOK, Computers
  <2>3. agent' \in [Computers -> Agents] /\ agent'[Here] # "offline"
    BY <2>1, <2>2
  <2> QED
    BY <2>1, <2>3, DisturbKeeps DEF LookInv, LookTypeOK
<1> QED
  BY <1>1, <1>2 DEF Elsewhere

(* LookInv holds at first.                                                 *)
LEMMA InitLook == Init => LookInv
<1>1. SUFFICES ASSUME Init PROVE LookInv
  OBVIOUS
<1>2. /\ scan = Nobody /\ shown = Nobody /\ attempt = Nobody /\ outcome = Nobody
      /\ stable = FALSE /\ agent = [d \in Computers |-> "same"]
  BY <1>1 DEF Init
<1>3. hosts \in [Devices -> Grants]
  <2>1. PICK grant \in {"none", "full"} : hosts = [d \in Devices |-> grant]
    BY <1>1 DEF Init
  <2> QED
    BY <2>1 DEF Grants
<1>4. agent \in [Computers -> Agents] /\ agent[Here] # "offline"
  BY <1>2 DEF Agents, Computers
<1> QED
  BY <1>2, <1>3, <1>4 DEF LookInv, LookTypeOK, ScanInv, AttemptInv

(* And it is inductive, given the type of the file.                        *)
LEMMA NextLook == IInv /\ LookInv /\ [Next]_vars => LookInv'
<1>1. SUFFICES ASSUME IInv, LookInv, [Next]_vars PROVE LookInv'
  OBVIOUS
<1>2. CASE \E e \in Editors : Editing(e)
  BY <1>1, <1>2, EditingKeepsLook
<1>3. CASE Elsewhere
  BY <1>1, <1>3, ElsewhereKeeps
<1>4. CASE ScanBegin \/ ScanEnd \/ \E d \in Computers : Probe(d)
  BY <1>1, <1>4, ScanBeginKeeps, ScanEndKeeps, ProbeKeeps
<1>5. CASE ConnectFails \/ \E d \in Devices : ConnectBegin(d)
  BY <1>1, <1>5, ConnectBeginKeeps, ConnectFailsKeeps
<1>6. CASE CheckReady \/ CheckCallbacks \/ CheckStatus \/ CheckAgents
  BY <1>1, <1>6, ReadyKeeps, CallbacksKeep, StatusKeeps, AgentsKeep
<1>7. CASE UNCHANGED vars
  <2>1. UNCHANGED <<granted, others, scan, shown, attempt, outcome, stable>>
    BY <1>7 DEF vars, file
  <2> QED
    BY <1>1, <2>1, QuietKeeps
<1> QED
  BY <1>1, <1>2, <1>3, <1>4, <1>5, <1>6, <1>7 DEF Next

-----------------------------------------------------------------------------
(* The variables of Access have their types: what is shown is a listing of *)
(* all computers, and an outcome one of the seven a connection can have.    *)
THEOREM TypeCorrectness == Spec => []TypeOK
<1>1. IInv /\ LookInv => TypeOK
  BY DEF IInv, FileTypeOK, LookInv, LookTypeOK, TypeOK, OutcomeRecord
<1>2. IInv /\ LookInv /\ [Next]_vars => (IInv /\ LookInv)'
  BY NextIInv, NextLook
<1> QED
  BY <1>1, <1>2, InitIInv, InitLook, PTL DEF Spec

(* What `omdesky devices' shows explains what a connection meets, for any  *)
(* number of devices and edits: although discovery and a connection read   *)
(* the file at different times and ask the agents different things, a      *)
(* device is let through exactly if it and this computer are shown ready,  *)
(* and a refusal has its reason shown, unless something changed since the  *)
(* scan began, or failed in it.                                            *)
THEOREM ListingSafety == Spec => []ListingExplainsOutcome
<1>1. IInv /\ LookInv => ListingExplainsOutcome
  <2>1. SUFFICES ASSUME LookInv, stable, shown # Nobody, outcome # Nobody
                 PROVE  ListingExplainsOutcome
    BY DEF ListingExplainsOutcome
  <2> DEFINE d == outcome.node
             r == outcome.result
             seen == shown[d]
             codes == {b.code : b \in seen.blockers}
             here == shown[Here].status
  <2>2. /\ d \in Devices /\ r \in Results /\ Founded(d, r)
        /\ agent[d] \in Agents /\ agent[Here] \in Agents \ {"offline"} /\ d # Here
    BY <2>1, HereAssumption DEF LookInv, LookTypeOK, AttemptInv, OutcomeRecord, Computers
  <2>3. seen = Probed(d, granted, TRUE) /\ shown[Here] = Probed(Here, granted, TRUE)
    BY <2>1, <2>2 DEF LookInv, ScanInv, Current, Computers
  <2>4. /\ agent[Here] = "down" => here = "unavailable"
        /\ agent[Here] \in {"older", "newer"} => here = "blocked"
        /\ agent[Here] = "same" => here = "ready"
    <3>1. CASE agent[Here] = "down"
      BY <2>3, <3>1 DEF Probed
    <3>2. CASE agent[Here] \in {"older", "newer"}
      <4>1. Blockers(Here, granted, TRUE) # {}
        BY <3>2 DEF Blockers, Incompatible
      <4>2. agent[Here] # "offline" /\ agent[Here] # "down"
        BY <3>2
      <4>3. Probed(Here, granted, TRUE).status = "blocked"
        BY <4>1, <4>2 DEF Probed
      <4> QED
        BY <2>3, <3>2, <4>3
    <3>3. CASE agent[Here] = "same"
      <4>1. Blockers(Here, granted, TRUE) = {}
        BY <3>3 DEF Blockers
      <4> QED
        BY <2>3, <3>3, <4>1 DEF Probed
    <3> QED
      BY <3>1, <3>2, <3>3
  <2>5. /\ r = "launched" => seen.status = "ready"
        /\ r \in {"unreachable", "incompatible", "denied", "needs_access"} =>
              seen.status # "ready"
        /\ r \in Codes /\ seen.status = "blocked" => r \in codes \/ "incompatible" \in codes
    <3> HIDE DEF d, r, seen
    <3>1. CASE agent[d] \in {"offline", "down"}
      <4>1. seen.status \in {"offline", "unavailable"}
        BY <2>3, <3>1 DEF Probed
      <4>2. r # "launched"
        BY <2>2, <3>1 DEF Founded
      <4> QED
        BY <4>1, <4>2
    <3>2. CASE agent[d] \in {"older", "newer"}
      <4>1. seen.blockers = Incompatible(d) /\ Incompatible(d) # {} /\ seen.status = "blocked"
        BY <2>3, <3>2 DEF Probed, Blockers, Incompatible
      <4>2. "incompatible" \in codes
        BY <4>1 DEF Incompatible
      <4>3. r # "launched"
        BY <2>2, <3>2 DEF Founded
      <4> QED
        BY <4>1, <4>2, <4>3
    <3>3. CASE agent[d] = "same"
      <4>1. /\ seen.blockers = Denied(d, TRUE) \cup NeedsAccess(d, granted)
            /\ seen.status = IF seen.blockers = {} THEN "ready" ELSE "blocked"
        BY <2>2, <2>3, <3>3 DEF Probed, Blockers
      <4>2. CASE r = "launched"
        <5>1. Denied(d, TRUE) = {} /\ NeedsAccess(d, granted) = {}
          BY <2>2, <4>2 DEF Founded, Denied, NeedsAccess, CallbackMissing
        <5>2. seen.status = "ready"
          BY <4>1, <5>1
        <5> QED
          BY <4>2, <5>2 DEF Codes
      <4>3. CASE r = "needs_access"
        <5> DEFINE b == [code |-> "needs_access", side |-> "local"]
        <5>1. b \in NeedsAccess(d, granted) /\ b.code = "needs_access"
          BY <2>2, <4>3 DEF Founded, NeedsAccess, CallbackMissing
        <5> HIDE DEF b
        <5>2. b \in seen.blockers
          BY <4>1, <5>1
        <5>3. seen.status = "blocked"
          BY <4>1, <5>2
        <5>4. "needs_access" \in codes
          BY <5>1, <5>2
        <5> QED
          BY <4>3, <5>3, <5>4
      <4>4. CASE r = "denied"
        <5> DEFINE b == [code |-> "denied", side |-> "remote"]
        <5>1. b \in Denied(d, TRUE) /\ b.code = "denied"
          BY <2>2, <4>4 DEF Founded, Denied
        <5> HIDE DEF b
        <5>2. b \in seen.blockers
          BY <4>1, <5>1
        <5>3. seen.status = "blocked"
          BY <4>1, <5>2
        <5>4. "denied" \in codes
          BY <5>1, <5>2
        <5> QED
          BY <4>4, <5>3, <5>4
      <4>5. CASE r \in {"unreachable", "incompatible"}
        BY <2>2, <3>3, <4>5 DEF Founded
      <4>6. CASE r \in {"local_down", "local_incompatible"}
        BY <4>6 DEF Codes
      <4> QED
        BY <2>2, <4>2, <4>3, <4>4, <4>5, <4>6 DEF Results
    <3> QED
      BY <2>2, <3>1, <3>2, <3>3 DEF Agents
  <2>6. /\ r = "launched" <=> seen.status = "ready" /\ here = "ready"
        /\ r = "local_down" <=> here = "unavailable"
        /\ r = "local_incompatible" <=> here = "blocked"
    <3>1. \/ r = "local_down" /\ agent[Here] = "down"
          \/ r = "local_incompatible" /\ agent[Here] \in {"older", "newer"}
          \/ /\ r \in {"launched", "unreachable", "incompatible", "denied", "needs_access"}
             /\ agent[Here] = "same"
      BY <2>2 DEF Founded, Results
    <3> HIDE DEF d, r, seen, here
    <3> QED
      BY <2>4, <2>5, <3>1
  <2> QED
    BY <2>5, <2>6 DEF ListingExplainsOutcome
<1>2. IInv /\ LookInv /\ [Next]_vars => (IInv /\ LookInv)'
  BY NextIInv, NextLook
<1> QED
  BY <1>1, <1>2, InitIInv, InitLook, PTL DEF Spec

-----------------------------------------------------------------------------
(***************************************************************************)
(* The authorizer.                                                         *)
(***************************************************************************)

(* At some instant not before a, address s was identity i's; identity i    *)
(* was in the allowlist.  a may be any integer.                            *)
Behind(s, i, a) == whoIs[s] = i \/ lastWas[s][i] >= a
WasAllowed(i, a) == i \in allowed \/ lastAllowed[i] >= a

(* What was true of the world is not in the future.                        *)
WorldInv ==
    /\ \A s \in Sources, i \in Identities : lastWas[s][i] <= clock
    /\ \A i \in Identities : lastAllowed[i] <= clock

(* A cached fact was true at the instant it is dated with, or later.       *)
IdentitiesInv ==
    \A s \in DOMAIN identities : Behind(s, identities[s].id, identities[s].at)
AllowlistInv ==
    allowlist # NoCall => \A i \in allowlist.entries : WasAllowed(i, allowlist.at)

(* A request is no older than the time it may take.  What it has found out *)
(* was true not long before the clock it read last: the identity it looked *)
(* up, or got from the cache before it read the clock again; the list it   *)
(* read behind the mutex.                                                  *)
CallOK(c) ==
    /\ c \in Call /\ c.now <= clock /\ clock - c.now <= MaxWait
    /\ c.step = "remember" => c.id \in Identities /\ Behind(c.source, c.id, c.now)
    /\ c.step \in {"list", "store"} =>
          c.id \in Identities /\ Behind(c.source, c.id, c.now - (IdentityTtl + MaxWait - 1))
    /\ c.step = "store" => \A i \in c.entries : WasAllowed(i, c.now)
CallInv == \A h \in Handlers : call[h] # NoCall => CallOK(call[h])

AuthorizerInv ==
    /\ AuthorizerTypeOK /\ IdentityCacheBounded /\ WorldInv
    /\ IdentitiesInv /\ AllowlistInv /\ CallInv
    /\ IdentityRecent /\ RevocationTakesEffect

-----------------------------------------------------------------------------
(* The outside world changes and everything else stays: what was true      *)
(* lately still was.                                                       *)
LEMMA WorldKeeps ==
    ASSUME AuthorizerInv,
           (\E s \in Sources, i \in Identities : Reassign(s, i))
              \/ (\E i \in Identities : ChangeEntry(i))
    PROVE  AuthorizerInv'
<1> USE DEF AuthorizerInv
<1>1. /\ UNCHANGED <<clock, identities, allowlist, call, decision>>
      /\ outside' \in 0 .. MaxOutside
  BY ParameterAssumption DEF Reassign, ChangeEntry, AuthorizerTypeOK
<1>2. clock \in Times /\ clock \in Int /\ clock' = clock
  BY <1>1 DEF AuthorizerTypeOK, Times
<1>3. /\ whoIs' \in [Sources -> Identities]
      /\ lastWas' \in [Sources -> [Identities -> Times \cup {Never}]]
      /\ \A s \in Sources, i \in Identities :
            \/ lastWas'[s][i] = lastWas[s][i] /\ (whoIs[s] = i => whoIs'[s] = i)
            \/ lastWas'[s][i] = clock
  <2>1. CASE UNCHANGED <<whoIs, lastWas>>
    BY <2>1 DEF AuthorizerTypeOK
  <2>2. ASSUME NEW s \in Sources, NEW i \in Identities, Reassign(s, i)
        PROVE  /\ whoIs' \in [Sources -> Identities]
               /\ lastWas' \in [Sources -> [Identities -> Times \cup {Never}]]
               /\ \A t \in Sources, j \in Identities :
                     \/ lastWas'[t][j] = lastWas[t][j] /\ (whoIs[t] = j => whoIs'[t] = j)
                     \/ lastWas'[t][j] = clock
    BY <1>2, <2>2 DEF Reassign, AuthorizerTypeOK
  <2> QED
    BY <2>1, <2>2 DEF ChangeEntry
<1>4. /\ allowed' \subseteq Identities
      /\ lastAllowed' \in [Identities -> Times \cup {Never}]
      /\ \A i \in Identities :
            \/ lastAllowed'[i] = lastAllowed[i] /\ (i \in allowed => i \in allowed')
            \/ lastAllowed'[i] = clock
  BY <1>2 DEF Reassign, ChangeEntry, AuthorizerTypeOK
<1>5. ASSUME NEW s \in Sources, NEW i \in Identities, NEW a \in Int, a <= clock,
             Behind(s, i, a)
      PROVE  whoIs'[s] = i \/ lastWas'[s][i] >= a
  BY <1>2, <1>3, <1>5 DEF Behind
<1>6. ASSUME NEW i \in Identities, NEW a \in Int, a <= clock, WasAllowed(i, a)
      PROVE  i \in allowed' \/ lastAllowed'[i] >= a
  BY <1>2, <1>4, <1>6 DEF WasAllowed
<1>7. AuthorizerTypeOK'
  BY <1>1, <1>2, <1>3, <1>4 DEF AuthorizerTypeOK
<1>8. WorldInv'
  <2>1. ASSUME NEW s \in Sources, NEW i \in Identities PROVE lastWas'[s][i] <= clock'
    BY <1>2, <1>3 DEF WorldInv
  <2>2. ASSUME NEW i \in Identities PROVE lastAllowed'[i] <= clock'
    BY <1>2, <1>4 DEF WorldInv
  <2> QED
    BY <2>1, <2>2 DEF WorldInv
<1>9. IdentitiesInv'
  <2> SUFFICES ASSUME NEW s \in DOMAIN identities
               PROVE  \/ whoIs'[s] = identities[s].id
                      \/ lastWas'[s][identities[s].id] >= identities[s].at
    BY <1>1 DEF IdentitiesInv, Behind
  <2>1. /\ s \in Sources /\ identities[s].id \in Identities
        /\ identities[s].at \in Int /\ identities[s].at <= clock
    BY <1>2 DEF AuthorizerTypeOK
  <2> QED
    BY <1>5, <2>1 DEF IdentitiesInv
<1>10. AllowlistInv'
  <2> SUFFICES ASSUME allowlist # NoCall, NEW i \in allowlist.entries
               PROVE  i \in allowed' \/ lastAllowed'[i] >= allowlist.at
    BY <1>1 DEF AllowlistInv, WasAllowed
  <2>1. i \in Identities /\ allowlist.at \in Int /\ allowlist.at <= clock
    BY <1>2 DEF AuthorizerTypeOK
  <2> QED
    BY <1>6, <2>1 DEF AllowlistInv
<1>11. CallInv'
  <2> SUFFICES ASSUME NEW h \in Handlers, call[h] # NoCall
               PROVE  CallOK(call[h])'
    BY <1>1 DEF CallInv
  <2> DEFINE c == call[h]
  <2>1. CallOK(c) /\ c' = c
    BY <1>1 DEF CallInv
  <2>2. /\ c.source \in Sources /\ c.now \in Int /\ c.now <= clock
        /\ c.entries \subseteq Identities
    BY <2>1 DEF CallOK, Call, Times
  <2>3. c.now - (IdentityTtl + MaxWait - 1) \in Int
           /\ c.now - (IdentityTtl + MaxWait - 1) <= clock
    BY <1>2, <2>2, ParameterAssumption
  <2>4. c.step = "remember" =>
           c.id \in Identities /\ (whoIs'[c.source] = c.id \/ lastWas'[c.source][c.id] >= c.now)
    BY <1>5, <2>1, <2>2 DEF CallOK
  <2>5. c.step \in {"list", "store"} =>
           /\ c.id \in Identities
           /\ \/ whoIs'[c.source] = c.id
              \/ lastWas'[c.source][c.id] >= c.now - (IdentityTtl + MaxWait - 1)
    BY <1>5, <2>1, <2>2, <2>3 DEF CallOK
  <2>6. c.step = "store" =>
           \A i \in c.entries : i \in allowed' \/ lastAllowed'[i] >= c.now
    BY <1>6, <2>1, <2>2 DEF CallOK
  <2> QED
    BY <1>2, <2>1, <2>4, <2>5, <2>6 DEF CallOK, Behind, WasAllowed
<1>12. IdentityCacheBounded' /\ IdentityRecent' /\ RevocationTakesEffect'
  BY <1>1 DEF IdentityCacheBounded, IdentityRecent, RevocationTakesEffect
<1> QED
  BY <1>7, <1>8, <1>9, <1>10, <1>11, <1>12

-----------------------------------------------------------------------------
(* A handler goes on with what is true of it.                              *)
LEMMA HandlerMoves ==
    ASSUME AuthorizerInv, NEW h \in Handlers, NEW c,
           UNCHANGED <<clock, world>>,
           call' = [call EXCEPT ![h] = c],
           c = NoCall \/ CallOK(c)
    PROVE  call' \in [Handlers -> Call \cup {NoCall}] /\ WorldInv' /\ CallInv'
<1>1. UNCHANGED <<clock, whoIs, lastWas, allowed, lastAllowed>>
  BY DEF world
<1>2. call \in [Handlers -> Call \cup {NoCall}] /\ c \in Call \cup {NoCall}
  BY DEF AuthorizerInv, AuthorizerTypeOK, CallOK
<1>3. \A g \in Handlers : call'[g] = IF g = h THEN c ELSE call[g]
  BY <1>2
<1>5. WorldInv'
  BY <1>1 DEF AuthorizerInv, WorldInv
<1>6. ASSUME NEW g \in Handlers, call'[g] # NoCall PROVE CallOK(call[g])'
  <2>1. CallOK(call'[g])
    BY <1>3, <1>6 DEF AuthorizerInv, CallInv
  <2> QED
    BY <1>1, <2>1 DEF CallOK, Behind, WasAllowed
<1> QED
  BY <1>2, <1>5, <1>6 DEF CallInv

(* Steps that change no cache and decide nothing.                          *)
LEMMA LookupsKeep ==
    ASSUME AuthorizerInv, NEW h \in Handlers,
           \/ \E s \in Sources : IdentifyBegin(h, s)
           \/ LookUpCache(h) \/ AcquirePermit(h) \/ Resolve(h) \/ GiveUp(h)
           \/ AllowlistRead(h)
    PROVE  AuthorizerInv'
<1> USE DEF AuthorizerInv
<1>1. UNCHANGED <<clock, world, identities, allowlist, decision>>
  BY DEF IdentifyBegin, LookUpCache, AcquirePermit, Resolve, GiveUp, AllowlistRead
<1>2. clock \in Times /\ clock \in Int
  BY DEF AuthorizerTypeOK, Times
<1>3. \E c : call' = [call EXCEPT ![h] = c] /\ (c = NoCall \/ CallOK(c))
  <2>1. ASSUME NEW s \in Sources, IdentifyBegin(h, s) 
        PROVE  \E c : call' = [call EXCEPT ![h] = c] /\ (c = NoCall \/ CallOK(c))
    <3> DEFINE c == Working("cache", s, clock, NoCall, {})
    <3>1. CallOK(c)
      BY <1>2, ParameterAssumption DEF CallOK, Working, Call, Steps
    <3> QED
      BY <2>1, <3>1 DEF IdentifyBegin, Goto
  <2>2. CASE GiveUp(h)
    BY <2>2 DEF GiveUp, Over, Goto
  <2>3. ASSUME call[h] # NoCall
        PROVE  /\ CallOK(call[h]) /\ call[h].source \in Sources
               /\ call[h].now \in Times /\ call[h].now \in Int
    BY <2>3 DEF CallInv, CallOK, Call, Times
  <2>4. CASE LookUpCache(h)
    <3> DEFINE s == call[h].source
               c == IF CachedFor(s, call[h].now)
                    THEN Working("list", s, clock, identities[s].id, {})
                    ELSE Working("queue", s, call[h].now, NoCall, {})
    <3>1. call' = [call EXCEPT ![h] = c] /\ call[h] # NoCall
      BY <2>4 DEF LookUpCache, Goto, At
    <3>2. CASE CachedFor(s, call[h].now)
      <4>1. /\ identities[s].id \in Identities /\ identities[s].at \in 0 .. clock
            /\ Behind(s, identities[s].id, identities[s].at)
            /\ call[h].now - identities[s].at < IdentityTtl
        BY <3>2 DEF CachedFor, IdentitiesInv, AuthorizerTypeOK
      <4>2. identities[s].at >= clock - (IdentityTtl + MaxWait - 1)
        BY <1>2, <2>3, <3>1, <4>1, ParameterAssumption DEF CallOK
      <4>3. Behind(s, identities[s].id, clock - (IdentityTtl + MaxWait - 1))
        <5>1. whoIs[s] = identities[s].id \/ lastWas[s][identities[s].id] \in Int
          BY <2>3, <3>1, <4>1 DEF AuthorizerTypeOK, Times, Never
        <5> QED
          BY <1>2, <4>1, <4>2, <5>1, ParameterAssumption DEF Behind
      <4>4. CallOK(c)
        BY <1>2, <2>3, <3>1, <3>2, <4>1, <4>3, ParameterAssumption
           DEF CallOK, Working, Call, Steps
      <4> QED
        BY <3>1, <4>4
    <3>3. CASE ~ CachedFor(s, call[h].now)
      <4>1. CallOK(c)
        BY <1>2, <2>3, <3>1, <3>3 DEF CallOK, Working, Call, Steps
      <4> QED
        BY <3>1, <4>1
    <3> QED
      BY <3>2, <3>3
  <2>5. CASE AcquirePermit(h)
    <3> DEFINE c == Working("lookup", call[h].source, call[h].now, NoCall, {})
    <3>1. call' = [call EXCEPT ![h] = c] /\ call[h] # NoCall
      BY <2>5 DEF AcquirePermit, Goto, At
    <3>2. CallOK(c)
      BY <1>2, <2>3, <3>1 DEF CallOK, Working, Call, Steps
    <3> QED
      BY <3>1, <3>2
  <2>6. CASE Resolve(h)
    <3> DEFINE s == call[h].source
               c == Working("remember", s, call[h].now, whoIs[s], {})
    <3>1. call' = [call EXCEPT ![h] = c] /\ call[h] # NoCall
      BY <2>6 DEF Resolve, Goto, At
    <3>2. whoIs[s] \in Identities
      BY <2>3, <3>1 DEF AuthorizerTypeOK
    <3>3. CallOK(c)
      BY <1>2, <2>3, <3>1, <3>2 DEF CallOK, Working, Call, Steps, Behind
    <3> QED
      BY <3>1, <3>3
  <2>7. CASE AllowlistRead(h)
    <3> DEFINE c == Working("store", call[h].source, call[h].now, call[h].id, allowed)
    <3>1. /\ call' = [call EXCEPT ![h] = c] /\ call[h] # NoCall
          /\ call[h].step = "list"
      BY <2>7 DEF AllowlistRead, Goto, At
    <3>2. allowed \subseteq Identities
      BY DEF AuthorizerTypeOK
    <3>3. CallOK(c)
      BY <1>2, <2>3, <3>1, <3>2 DEF CallOK, Working, Call, Steps, WasAllowed
    <3> QED
      BY <3>1, <3>3
  <2> QED
    BY <2>1, <2>2, <2>4, <2>5, <2>6, <2>7
<1>4. call' \in [Handlers -> Call \cup {NoCall}] /\ WorldInv' /\ CallInv'
  BY <1>1, <1>3, HandlerMoves
<1>5. AuthorizerTypeOK'
  BY <1>1, <1>4 DEF AuthorizerTypeOK, world
<1>6. IdentitiesInv' /\ AllowlistInv' /\ IdentityCacheBounded'
  BY <1>1 DEF IdentitiesInv, AllowlistInv, IdentityCacheBounded, Behind, WasAllowed, world
<1>7. IdentityRecent' /\ RevocationTakesEffect'
  BY <1>1 DEF IdentityRecent, RevocationTakesEffect
<1> QED
  BY <1>4, <1>5, <1>6, <1>7

(* What was looked up is cached, dated with the start of the request, and  *)
(* the clock is read again.                                                *)
LEMMA RememberKeeps ==
    ASSUME AuthorizerInv, NEW h \in Handlers, Remember(h)
    PROVE  AuthorizerInv'
<1> USE DEF AuthorizerInv
<1> DEFINE s == call[h].source
           kept == Pruned(call[h].now)
           entry == [id |-> call[h].id, at |-> Stamp(h)]
           c == Working("list", s, clock, call[h].id, {})
<1>1. /\ call[h] # NoCall /\ call[h].step = "remember"
      /\ UNCHANGED <<clock, world, allowlist, decision>>
      /\ call' = [call EXCEPT ![h] = c]
      /\ identities' = IF HasRoom(kept)
                       THEN [t \in kept \cup {s} |-> IF t = s THEN entry ELSE identities[t]]
                       ELSE [t \in kept |-> identities[t]]
  BY DEF Remember, At, Goto
<1>2. /\ CallOK(call[h]) /\ s \in Sources /\ call[h].now \in Times
      /\ call[h].now \in Int /\ clock \in Times /\ clock \in Int /\ 0 <= call[h].now
  BY <1>1 DEF CallInv, CallOK, Call, Times, AuthorizerTypeOK
<1>3. /\ call[h].id \in Identities /\ Behind(s, call[h].id, call[h].now)
      /\ call[h].now <= clock /\ clock - call[h].now <= MaxWait
  BY <1>1, <1>2 DEF CallOK
<1>4. kept \subseteq DOMAIN identities /\ DOMAIN identities \subseteq Sources
  BY DEF Pruned, AuthorizerTypeOK
<1>5. \A t \in DOMAIN identities' :
         /\ t \in Sources
         /\ \/ t \in DOMAIN identities /\ identities'[t] = identities[t]
            \/ t = s /\ identities'[t] = entry
  BY <1>1, <1>2, <1>4
<1>6. \A t \in DOMAIN identities' :
         /\ identities'[t].id \in Identities /\ identities'[t].at \in 0 .. clock
         /\ Behind(t, identities'[t].id, identities'[t].at)
  <2>1. /\ entry.id \in Identities /\ entry.at \in 0 .. clock
        /\ Behind(s, entry.id, entry.at)
    BY <1>2, <1>3 DEF Stamp
  <2> QED
    BY <1>5, <2>1 DEF AuthorizerTypeOK, IdentitiesInv
<1>7. CallOK(c)
  <2>1. Behind(s, call[h].id, clock - (IdentityTtl + MaxWait - 1))
    <3>1. lastWas[s][call[h].id] \in Int
      BY <1>2, <1>3 DEF AuthorizerTypeOK, Times, Never
    <3> DEFINE last == lastWas[s][call[h].id]
               now == call[h].now
               since == clock - (IdentityTtl + MaxWait - 1)
    <3>2. since \in Int /\ since <= now
      BY <1>2, <1>3, ParameterAssumption
    <3>3. now \in Int /\ last \in Int
      BY <1>2, <3>1
    <3> HIDE DEF last, now, since
    <3>4. last >= now => last >= since
      BY <3>2, <3>3
    <3>5. whoIs[s] = call[h].id \/ last >= now
      BY <1>3 DEF Behind, last, now
    <3> QED
      BY <3>4, <3>5 DEF Behind, last, since
  <2> QED
    BY <1>2, <1>3, <2>1, ParameterAssumption DEF CallOK, Working, Call, Steps
<1>8. call' \in [Handlers -> Call \cup {NoCall}] /\ WorldInv' /\ CallInv'
  BY <1>1, <1>7, HandlerMoves
<1>9. AuthorizerTypeOK'
  BY <1>1, <1>5, <1>6, <1>8 DEF AuthorizerTypeOK, world
<1>10. IdentitiesInv' /\ AllowlistInv'
  BY <1>1, <1>6 DEF IdentitiesInv, AllowlistInv, Behind, WasAllowed, world
<1>11. IdentityCacheBounded'
  <2>1. IsFiniteSet(Sources) /\ IsFiniteSet(DOMAIN identities) /\ IsFiniteSet(kept)
    BY <1>4, ParameterAssumption, FS_Subset
  <2>2. /\ Cardinality(kept) \in Nat /\ Cardinality(DOMAIN identities) \in Nat
        /\ Cardinality(kept) <= Cardinality(DOMAIN identities)
    BY <1>4, <2>1, FS_CardinalityType, FS_Subset
  <2>3. /\ Cardinality(kept \cup {s}) \in Nat
        /\ Cardinality(kept \cup {s}) <= Cardinality(kept) + 1
    <3> HIDE DEF kept, s
    <3>1. /\ IsFiniteSet(kept \cup {s})
          /\ Cardinality(kept \cup {s}) =
                IF s \in kept THEN Cardinality(kept) ELSE Cardinality(kept) + 1
      BY <2>1, FS_AddElement
    <3> QED
      BY <2>2, <3>1
  <2>4. CASE HasRoom(kept)
    BY <1>1, <2>2, <2>3, <2>4, ParameterAssumption DEF HasRoom, IdentityCacheBounded
  <2>5. CASE ~ HasRoom(kept)
    BY <1>1, <2>2, <2>5, ParameterAssumption DEF IdentityCacheBounded
  <2> QED
    BY <2>4, <2>5
<1>12. IdentityRecent' /\ RevocationTakesEffect'
  BY <1>1 DEF IdentityRecent, RevocationTakesEffect
<1> QED
  BY <1>8, <1>9, <1>10, <1>11, <1>12

(* A request is decided, on the cached list or on one just read.           *)
LEMMA DecisionsKeep ==
    ASSUME AuthorizerInv, NEW h \in Handlers, AllowlistCached(h) \/ AllowlistStored(h)
    PROVE  AuthorizerInv'
<1> USE DEF AuthorizerInv
<1>1. /\ call[h] # NoCall /\ call[h].step \in {"list", "store"}
      /\ UNCHANGED <<clock, world, identities>>
      /\ call' = [call EXCEPT ![h] = NoCall]
  BY DEF AllowlistCached, AllowlistStored, At, Decide, Over, Goto
<1> DEFINE s == call[h].source
           i == call[h].id
           now == call[h].now
<1>2. /\ CallOK(call[h]) /\ s \in Sources /\ now \in Times /\ now \in Int /\ 0 <= now
      /\ clock \in Times /\ clock \in Int
  BY <1>1 DEF CallInv, CallOK, Call, Times, AuthorizerTypeOK
<1>3. /\ i \in Identities /\ now <= clock /\ clock - now <= MaxWait
      /\ Behind(s, i, now - (IdentityTtl + MaxWait - 1))
  BY <1>1, <1>2 DEF CallOK
<1>4. PICK list \in SUBSET Identities, at \in 0 .. clock :
         /\ now - at < AllowlistTtl
         /\ \A j \in list : WasAllowed(j, at)
         /\ decision' = IF i \in list
                        THEN [identityAge |-> IdentityAge(s, i), allowedAge |-> AllowedAge(i)]
                        ELSE decision
         /\ \/ allowlist' = allowlist
            \/ allowlist' = [entries |-> list, at |-> at]
  <2>1. CASE AllowlistCached(h)
    <3>1. /\ allowlist # NoCall /\ now - allowlist.at < AllowlistTtl
          /\ allowlist' = allowlist
      BY <2>1 DEF AllowlistCached, ListFresh
    <3>2. allowlist.at \in 0 .. clock /\ allowlist.entries \subseteq Identities
      BY <3>1 DEF AuthorizerTypeOK
    <3>3. \A j \in allowlist.entries : WasAllowed(j, allowlist.at)
      BY <3>1 DEF AllowlistInv
    <3>4. decision' = IF i \in allowlist.entries
                      THEN [identityAge |-> IdentityAge(s, i), allowedAge |-> AllowedAge(i)]
                      ELSE decision
      BY <2>1 DEF AllowlistCached, Decide
    <3> QED
      BY <3>1, <3>2, <3>3, <3>4
  <2>2. CASE AllowlistStored(h)
    <3>1. /\ call[h].step = "store"
          /\ allowlist' = [entries |-> call[h].entries, at |-> now]
      BY <2>2 DEF AllowlistStored, At, ReadAt
    <3>2. now \in 0 .. clock /\ call[h].entries \subseteq Identities
      BY <1>2, <1>3 DEF CallOK, Call
    <3>3. \A j \in call[h].entries : WasAllowed(j, now)
      BY <1>2, <3>1 DEF CallOK
    <3>4. decision' = IF i \in call[h].entries
                      THEN [identityAge |-> IdentityAge(s, i), allowedAge |-> AllowedAge(i)]
                      ELSE decision
      BY <2>2 DEF AllowlistStored, Decide
    <3>5. now - now < AllowlistTtl
      BY <1>2, ParameterAssumption
    <3> QED
      BY <3>1, <3>2, <3>3, <3>4, <3>5
  <2> QED
    BY <2>1, <2>2
<1>5. /\ IdentityAge(s, i) \in Nat
      /\ IdentityAge(s, i) < IdentityTtl + 2 * MaxWait
  <2>1. lastWas[s][i] \in Int /\ lastWas[s][i] <= clock
    BY <1>2, <1>3 DEF AuthorizerTypeOK, Times, Never, WorldInv
  <2>2. IdentityTtl \in Nat \ {0} /\ MaxWait \in Nat
    BY ParameterAssumption
  <2>3. CASE whoIs[s] = i
    BY <2>2, <2>3 DEF IdentityAge
  <2>4. CASE whoIs[s] # i
    <3>1. /\ IdentityAge(s, i) = clock - lastWas[s][i]
          /\ lastWas[s][i] >= now - (IdentityTtl + MaxWait - 1)
      BY <1>3, <2>4 DEF IdentityAge, Behind
    <3>2. now \in Int /\ clock \in Int /\ clock - now <= MaxWait
      BY <1>2, <1>3
    <3> QED
      BY <2>1, <2>2, <3>1, <3>2
  <2> QED
    BY <2>3, <2>4
<1>6. i \in list => /\ AllowedAge(i) \in Nat
                    /\ AllowedAge(i) < AllowlistTtl + MaxWait
  <2>1. lastAllowed[i] \in Int /\ lastAllowed[i] <= clock
    BY <1>3 DEF AuthorizerTypeOK, Times, Never, WorldInv
  <2>2. i \in list => WasAllowed(i, at)
    BY <1>4
  <2> QED
    BY <1>2, <1>3, <1>4, <2>1, <2>2, ParameterAssumption DEF AllowedAge, WasAllowed
<1>7. IdentityRecent' /\ RevocationTakesEffect'
  <2>1. CASE decision' = decision
    BY <2>1 DEF IdentityRecent, RevocationTakesEffect
  <2>2. CASE decision' # decision
    <3>1. /\ i \in list
          /\ decision' = [identityAge |-> IdentityAge(s, i), allowedAge |-> AllowedAge(i)]
      BY <1>4, <2>2
    <3>2. decision'.identityAge = IdentityAge(s, i) /\ decision'.allowedAge = AllowedAge(i)
      BY <3>1
    <3> QED
      BY <1>5, <1>6, <3>1, <3>2 DEF IdentityRecent, RevocationTakesEffect
  <2> QED
    BY <2>1, <2>2
<1>8. decision' \in [identityAge : Nat, allowedAge : Nat] \cup {NoCall}
  BY <1>4, <1>5, <1>6 DEF AuthorizerTypeOK
<1>9. call' \in [Handlers -> Call \cup {NoCall}] /\ WorldInv' /\ CallInv'
  BY <1>1, HandlerMoves
<1>10. allowlist' \in [entries : SUBSET Identities, at : 0 .. clock] \cup {NoCall}
  BY <1>4 DEF AuthorizerTypeOK
<1>11. AuthorizerTypeOK'
  BY <1>1, <1>8, <1>9, <1>10 DEF AuthorizerTypeOK, world
<1>12. IdentitiesInv' /\ IdentityCacheBounded'
  BY <1>1 DEF IdentitiesInv, Behind, IdentityCacheBounded, world
<1>13. AllowlistInv'
  BY <1>1, <1>4 DEF AllowlistInv, WasAllowed, world
<1> QED
  BY <1>7, <1>9, <1>11, <1>12, <1>13

(* Time passes while no request has used up its share.                     *)
LEMMA TickKeeps ==
    ASSUME AuthorizerInv, Tick
    PROVE  AuthorizerInv'
<1> USE DEF AuthorizerInv
<1>1. /\ clock \in Times /\ clock \in Int /\ clock' = clock + 1 /\ clock' \in Times
      /\ UNCHANGED <<world, identities, allowlist, call, decision>>
      /\ UNCHANGED <<whoIs, lastWas, allowed, lastAllowed, outside>>
  BY ParameterAssumption DEF Tick, AuthorizerTypeOK, Times, world
<1>2. 0 .. clock \subseteq 0 .. clock'
  BY <1>1
<1>3. allowlist' \in [entries : SUBSET Identities, at : 0 .. clock'] \cup {NoCall}
  BY <1>1, <1>2 DEF AuthorizerTypeOK
<1>4. AuthorizerTypeOK'
  BY <1>1, <1>2, <1>3 DEF AuthorizerTypeOK
<1>5. WorldInv'
  <2>1. \A s \in Sources, i \in Identities :
           lastWas[s][i] \in Int /\ lastWas[s][i] <= clock
    BY DEF AuthorizerTypeOK, Times, Never, WorldInv
  <2>2. \A i \in Identities : lastAllowed[i] \in Int /\ lastAllowed[i] <= clock
    BY DEF AuthorizerTypeOK, Times, Never, WorldInv
  <2> QED
    BY <1>1, <2>1, <2>2 DEF WorldInv
<1>6. CallInv'
  <2> SUFFICES ASSUME NEW h \in Handlers, call[h] # NoCall PROVE CallOK(call[h])'
    BY <1>1 DEF CallInv
  <2>1. CallOK(call[h]) /\ call[h].now \in Int /\ clock - call[h].now < MaxWait
    BY DEF CallInv, CallOK, Call, Times, Tick
  <2> QED
    BY <1>1, <2>1, ParameterAssumption DEF CallOK, Behind, WasAllowed
<1>7. IdentitiesInv' /\ AllowlistInv' /\ IdentityCacheBounded'
  BY <1>1 DEF IdentitiesInv, AllowlistInv, Behind, WasAllowed, IdentityCacheBounded
<1>8. IdentityRecent' /\ RevocationTakesEffect'
  BY <1>1 DEF IdentityRecent, RevocationTakesEffect
<1> QED
  BY <1>4, <1>5, <1>6, <1>7, <1>8

-----------------------------------------------------------------------------
(* The caches are empty at the start.                                      *)
LEMMA InitAuthorizerInv == AuthorizerInit => AuthorizerInv
<1> SUFFICES ASSUME AuthorizerInit PROVE AuthorizerInv
  OBVIOUS
<1>1. clock = 0 /\ 0 \in Times
  BY ParameterAssumption DEF AuthorizerInit, Times
<1>2. DOMAIN identities = {}
  BY DEF AuthorizerInit
<1>3. AuthorizerTypeOK
  BY <1>1, <1>2, ParameterAssumption DEF AuthorizerInit, AuthorizerTypeOK, Never
<1>4. WorldInv
  BY <1>1 DEF AuthorizerInit, WorldInv, Never
<1>5. IdentitiesInv /\ AllowlistInv /\ CallInv /\ IdentityRecent /\ RevocationTakesEffect
  BY <1>2 DEF AuthorizerInit, IdentitiesInv, AllowlistInv, CallInv, IdentityRecent,
              RevocationTakesEffect
<1>6. IdentityCacheBounded
  BY <1>2, FS_EmptySet, ParameterAssumption DEF IdentityCacheBounded
<1> QED
  BY <1>3, <1>4, <1>5, <1>6 DEF AuthorizerInv

(* Every step keeps the invariant.                                         *)
LEMMA NextAuthorizerInv == AuthorizerInv /\ [AuthorizerNext]_authorizerVars => AuthorizerInv'
<1> SUFFICES ASSUME AuthorizerInv, [AuthorizerNext]_authorizerVars PROVE AuthorizerInv'
  OBVIOUS
<1>1. CASE UNCHANGED authorizerVars
  BY <1>1 DEF authorizerVars, world, AuthorizerInv, AuthorizerTypeOK, IdentityCacheBounded,
     WorldInv, IdentitiesInv, AllowlistInv, CallInv, CallOK, Behind, WasAllowed, IdentityRecent, RevocationTakesEffect
<1>2. ASSUME NEW h \in Handlers,
             \/ \E s \in Sources : IdentifyBegin(h, s)
             \/ LookUpCache(h) \/ AcquirePermit(h) \/ Resolve(h) \/ Remember(h)
             \/ AllowlistCached(h) \/ AllowlistRead(h) \/ AllowlistStored(h)
             \/ GiveUp(h)
      PROVE  AuthorizerInv'
  BY <1>2, LookupsKeep, RememberKeeps, DecisionsKeep
<1> QED
  BY <1>1, <1>2, WorldKeeps, TickKeeps DEF AuthorizerNext

(* The invariant of the specification, types included: requests that wait  *)
(* for permits, lookups and the allowlist's mutex never make a cached fact *)
(* look younger than it is.                                                *)
THEOREM AuthorizerInvariance == AuthorizerSpec => []AuthorizerInv
  BY InitAuthorizerInv, NextAuthorizerInv, PTL DEF AuthorizerSpec

(* The identity cache keeps to its capacity, however many handlers insert  *)
(* concurrently.                                                           *)
THEOREM CacheBounded == AuthorizerSpec => []IdentityCacheBounded
<1>1. AuthorizerInv => IdentityCacheBounded
  BY DEF AuthorizerInv
<1> QED
  BY <1>1, AuthorizerInvariance, PTL

(* A device that has lost its address is not authorized by it for longer   *)
(* than IDENTITY_CACHE_TTL and the two waits of a request.                 *)
THEOREM IdentitySafety == AuthorizerSpec => []IdentityRecent
<1>1. AuthorizerInv => IdentityRecent
  BY DEF AuthorizerInv
<1> QED
  BY <1>1, AuthorizerInvariance, PTL

(* A revoked device is not authorized for longer than ALLOWLIST_CACHE_TTL  *)
(* and the wait for the allowlist.                                         *)
THEOREM RevocationSafety == AuthorizerSpec => []RevocationTakesEffect
<1>1. AuthorizerInv => RevocationTakesEffect
  BY DEF AuthorizerInv
<1> QED
  BY <1>1, AuthorizerInvariance, PTL
=============================================================================
