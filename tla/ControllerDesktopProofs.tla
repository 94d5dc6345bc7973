----------------------- MODULE ControllerDesktopProofs -----------------------
(***************************************************************************)
(* Proofs about ControllerDesktop: the session file and the process that   *)
(* disconnect signals, for any number of connects, pids and processes.     *)
(***************************************************************************)
EXTENDS ControllerDesktop, TLAPS

Run == [step : {"idle", "judging", "killing", "looking", "removing"},
        seen : Record \cup {NoRecord}, at : Nat]

(* Types of what the argument is about.                                    *)
CoreTypeOK ==
    /\ pc \in [Connects -> Phases] /\ kind \in [Connects -> Kinds]
    /\ pidOf \in [Connects -> Pids \cup {NoPid}]
    /\ table \in [Pids -> Process \cup {Free}] /\ births \in Nat
    /\ record \in Record \cup {NoRecord}
    /\ disc \in Run
    /\ disc.step # "idle" => disc.seen \in Record
    /\ disc.step = "killing" => disc.seen.moonlight \in Supervised

(* Only a connect of the command line has a record, and while it has one   *)
(* it is under way or was killed.                                          *)
RecordInv ==
    record # NoRecord => kind[record.id].cli /\ pc[record.id] \notin {"idle", "done"}

(* A connect with a stream has the process it launched: the process cannot *)
(* have been reaped, so its pid cannot have been reused.                   *)
Streaming == {"launched", "attaching", "undoing", "started", "waiting"}
OwnInv ==
    \A c \in Connects : pc[c] \in Streaming =>
        pidOf[c] \in Pids /\ table[pidOf[c]] \in Process /\ table[pidOf[c]].owner = c

(* No process was born in the future.                                      *)
BirthsInv == \A p \in Pids : table[p] # Free => table[p].birth <= births

(* The process a record names belongs to its connect, if it is still the   *)
(* one that was born then.                                                 *)
Known(r) ==
    r # NoRecord /\ r.moonlight # NoPid =>
        /\ r.moonlight.birth <= births
        /\ table[r.moonlight.pid] # Free /\ table[r.moonlight.pid].birth = r.moonlight.birth
              => table[r.moonlight.pid].owner = r.id

(* Whatever has the pid that disconnect is about to signal is the          *)
(* session's, or was born after disconnect had made sure.                  *)
KillInv ==
    disc.step = "killing" =>
        /\ disc.at <= births
        /\ Target # Free => Target.owner = disc.seen.id \/ Target.birth > disc.at

IInv ==
    /\ CoreTypeOK /\ RecordInv /\ OwnInv /\ BirthsInv
    /\ Known(record) /\ Known(disc.seen) /\ KillInv

-----------------------------------------------------------------------------
(* What any step does to the process table: processes go, change their     *)
(* state, or are born with the next number.                                *)
TableStep ==
    /\ births' \in Nat /\ births <= births'
    /\ table' \in [Pids -> Process \cup {Free}]
    /\ \A p \in Pids :
          \/ table'[p] = Free
          \/ /\ table[p] # Free /\ table'[p] # Free
             /\ table'[p].birth = table[p].birth /\ table'[p].owner = table[p].owner
          \/ table[p] = Free /\ table'[p].birth = births + 1 /\ births' = births + 1

(* Such a step keeps what is known about the processes.                    *)
LEMMA TableStepKeeps ==
    ASSUME IInv, TableStep
    PROVE  /\ BirthsInv'
           /\ record' = record => Known(record)'
           /\ disc' = disc => Known(disc.seen)' /\ KillInv'
<1> USE DEF IInv
<1>1. BirthsInv'
  <2> SUFFICES ASSUME NEW p \in Pids, table'[p] # Free
               PROVE  table'[p].birth <= births'
    BY DEF BirthsInv
  <2>1. table[p] # Free => table[p] \in Process /\ table[p].birth \in Nat
    BY DEF CoreTypeOK, Process
  <2> QED
    BY <2>1 DEF TableStep, BirthsInv, CoreTypeOK
<1>2. ASSUME NEW r \in Record \cup {NoRecord}, Known(r)
      PROVE  r # NoRecord /\ r.moonlight # NoPid =>
                /\ r.moonlight.birth <= births'
                /\ table'[r.moonlight.pid] # Free
                      /\ table'[r.moonlight.pid].birth = r.moonlight.birth
                      => table'[r.moonlight.pid].owner = r.id
  <2> SUFFICES ASSUME r # NoRecord, r.moonlight # NoPid
               PROVE  /\ r.moonlight.birth <= births'
                      /\ table'[r.moonlight.pid] # Free
                            /\ table'[r.moonlight.pid].birth = r.moonlight.birth
                            => table'[r.moonlight.pid].owner = r.id
    OBVIOUS
  <2>1. r.moonlight \in Supervised /\ r.moonlight.pid \in Pids /\ r.moonlight.birth \in Nat
    BY <1>2 DEF Record, Supervised
  <2>2. r.moonlight.birth <= births /\ births \in Nat
    BY <1>2 DEF Known, CoreTypeOK
  <2> QED
    BY <1>2, <2>1, <2>2 DEF Known, TableStep
<1>3. ASSUME disc' = disc PROVE KillInv'
  <2> SUFFICES ASSUME disc.step = "killing"
               PROVE  /\ disc.at <= births'
                      /\ table'[disc.seen.moonlight.pid] # Free =>
                            \/ table'[disc.seen.moonlight.pid].owner = disc.seen.id
                            \/ table'[disc.seen.moonlight.pid].birth > disc.at
    BY <1>3 DEF KillInv, Target
  <2>1. disc.seen.moonlight.pid \in Pids /\ disc.at \in Nat /\ births \in Nat
    BY DEF CoreTypeOK, Supervised, Run
  <2>2. /\ disc.at <= births
        /\ table[disc.seen.moonlight.pid] # Free =>
              \/ table[disc.seen.moonlight.pid].owner = disc.seen.id
              \/ table[disc.seen.moonlight.pid].birth > disc.at
    BY DEF KillInv, Target
  <2> QED
    BY <2>1, <2>2 DEF TableStep
<1>4. record \in Record \cup {NoRecord} /\ disc.seen \in Record \cup {NoRecord}
  BY DEF CoreTypeOK, Run
<1>5. record' = record => Known(record)'
  BY <1>2, <1>4 DEF Known
<1>6. disc' = disc => Known(disc.seen)'
  BY <1>2, <1>4 DEF Known
<1> QED
  BY <1>1, <1>3, <1>5, <1>6

(* A step that leaves the table alone is one.                              *)
LEMMA SameTable ==
    ASSUME IInv, UNCHANGED <<table, births>>
    PROVE  TableStep
<1>1. \A p \in Pids : table[p] \in Process \cup {Free}
  BY DEF IInv, CoreTypeOK
<1> QED
  BY <1>1 DEF IInv, CoreTypeOK, TableStep

-----------------------------------------------------------------------------
(* A connect moves on and touches neither the file nor a process.  It may  *)
(* finish only when the record is not its own.                             *)
LEMMA ConnectMoves ==
    ASSUME IInv, NEW c \in Connects, NEW phase \in Phases \ {"idle"},
           pc' = [pc EXCEPT ![c] = phase],
           UNCHANGED <<kind, table, births, pidOf, record, disc>>,
           phase = "done" => ~ Owned(c),
           phase \in Streaming => pc[c] \in Streaming
    PROVE  IInv'
<1>1. \A d \in Connects : pc'[d] = IF d = c THEN phase ELSE pc[d]
  BY DEF IInv, CoreTypeOK
<1>2. CoreTypeOK'
  BY DEF IInv, CoreTypeOK
<1>3. RecordInv'
  BY <1>1 DEF IInv, CoreTypeOK, RecordInv, Owned, Record
<1>4. OwnInv'
  BY <1>1 DEF IInv, OwnInv
<1>5. BirthsInv' /\ Known(record)' /\ Known(disc.seen)' /\ KillInv'
  BY SameTable, TableStepKeeps
<1> QED
  BY <1>2, <1>3, <1>4, <1>5 DEF IInv

(* The connects' steps of that kind.                                       *)
LEMMA MovesKeep ==
    ASSUME IInv, NEW c \in Connects,
           \/ CheckFails(c) \/ InstallLocal(c) \/ Attached(c) \/ AttachRefused(c)
           \/ Undo(c) \/ Detach(c) \/ Look(c)
    PROVE  IInv'
<1>1. UNCHANGED <<kind, table, births, pidOf, record, disc>>
  BY DEF CheckFails, InstallLocal, Attached, AttachRefused, Undo, Detach, Look,
         procVars, fileVars
<1>2. ~ kind[c].cli => ~ Owned(c)
  BY DEF IInv, RecordInv, Owned
<1>3. AfterStream(c) \in {"finishing", "done"} /\ (AfterStream(c) = "done" => ~ Owned(c))
  BY <1>2 DEF AfterStream
<1>4. PICK phase \in {"finishing", "done", "removing", "attaching", "started", "undoing"} :
         /\ pc' = [pc EXCEPT ![c] = phase]
         /\ phase = "done" => ~ Owned(c)
         /\ phase \in Streaming => pc[c] \in Streaming
  <2>1. CASE CheckFails(c) \/ Detach(c)
    BY <1>3, <2>1 DEF CheckFails, Detach, Goto, Streaming
  <2>2. CASE InstallLocal(c)
    BY <2>2 DEF InstallLocal, Goto, Streaming
  <2>3. CASE Attached(c) \/ AttachRefused(c) \/ Undo(c)
    BY <2>3 DEF Attached, AttachRefused, Undo, Goto, Streaming
  <2>4. CASE Look(c)
    BY <2>4 DEF Look, LooksOwn, Goto, Streaming
  <2> QED
    BY <2>1, <2>2, <2>3, <2>4
<1>5. phase \in Phases \ {"idle"}
  BY DEF Phases
<1> QED
  BY <1>1, <1>4, <1>5, ConnectMoves

(* A record is written by a connect of the command line that goes on, and  *)
(* names no process or the connect's own.                                  *)
LEMMA WritesKeep ==
    ASSUME IInv, NEW c \in Connects, Begin(c) \/ Started(c)
    PROVE  IInv'
<1>1. UNCHANGED <<kind, table, births, pidOf, disc>>
  BY DEF Begin, Started, procVars
<1>2. PICK phase \in {"checking", "waiting"} :
         /\ pc' = [pc EXCEPT ![c] = phase]
         /\ phase = "waiting" => pc[c] = "started"
  BY DEF Begin, Started, Goto
<1>3. \A d \in Connects : pc'[d] = IF d = c THEN phase ELSE pc[d]
  BY <1>2 DEF IInv, CoreTypeOK
<1>4. PICK m \in Supervised \cup {NoPid} :
         /\ record' = record \/ (kind[c].cli /\ record' = [id |-> c, moonlight |-> m])
         /\ m # NoPid => /\ m.birth <= births
                         /\ table[m.pid] # Free /\ table[m.pid].owner = c
  <2>1. CASE Begin(c)
    BY <2>1 DEF Begin, Write, fileVars
  <2>2. CASE Started(c)
    <3>1. /\ pidOf[c] \in Pids /\ table[pidOf[c]] \in Process
          /\ table[pidOf[c]].owner = c /\ table[pidOf[c]] # Free
      BY <2>2, ParameterAssumption DEF Started, IInv, OwnInv, Streaming
    <3>2. Observed(pidOf[c]) \in Supervised
      BY <3>1 DEF Observed, Supervised, Process
    <3>3. Observed(pidOf[c]).birth <= births /\ Observed(pidOf[c]).pid = pidOf[c]
      BY <3>1 DEF Observed, IInv, BirthsInv
    <3> QED
      BY <2>2, <3>1, <3>2, <3>3 DEF Started, Write, fileVars
  <2> QED
    BY <2>1, <2>2
<1>5. record' \in Record \cup {NoRecord}
  BY <1>4 DEF Record, IInv, CoreTypeOK
<1>6. CoreTypeOK'
  BY <1>1, <1>2, <1>5 DEF IInv, CoreTypeOK, Phases
<1>7. RecordInv'
  <2>1. CASE record' = record
    BY <1>1, <1>3, <2>1 DEF IInv, CoreTypeOK, RecordInv, Record
  <2>2. CASE kind[c].cli /\ record' = [id |-> c, moonlight |-> m]
    BY <1>1, <1>3, <2>2 DEF RecordInv
  <2> QED
    BY <1>4, <2>1, <2>2
<1>8. OwnInv'
  BY <1>1, <1>2, <1>3 DEF IInv, OwnInv, Streaming
<1>9. TableStep
  BY <1>1, SameTable
<1>10. Known(record)'
  <2>1. CASE record' = record
    BY <1>9, <2>1, TableStepKeeps
  <2>2. CASE record' = [id |-> c, moonlight |-> m]
    BY <1>1, <1>4, <2>2 DEF Known
  <2> QED
    BY <1>4, <2>1, <2>2
<1>11. BirthsInv' /\ Known(disc.seen)' /\ KillInv'
  BY <1>1, <1>9, TableStepKeeps
<1> QED
  BY <1>6, <1>7, <1>8, <1>10, <1>11 DEF IInv

(* A record is removed.                                                    *)
LEMMA RemovalsKeep ==
    ASSUME IInv, DiscRemove \/ (\E c \in Connects : RemoveOwn(c))
    PROVE  IInv'
<1>1. UNCHANGED <<kind, table, births, pidOf>> /\ record' = NoRecord
  BY DEF DiscRemove, RemoveOwn, Remove, procVars
<1>2. disc' = disc \/ disc' = NoRun
  BY DEF DiscRemove, RemoveOwn
<1>3. \/ pc' = pc
      \/ \E c \in Connects : pc' = [pc EXCEPT ![c] = "done"]
  BY DEF DiscRemove, RemoveOwn, Goto
<1>4. /\ pc' \in [Connects -> Phases]
      /\ \A d \in Connects : pc'[d] = pc[d] \/ pc'[d] = "done"
  BY <1>3 DEF IInv, CoreTypeOK, Phases
<1>5. NoRun \in Run /\ NoRun.step = "idle" /\ NoRun.seen = NoRecord
  BY DEF NoRun, Run
<1>6. CoreTypeOK'
  BY <1>1, <1>2, <1>4, <1>5 DEF IInv, CoreTypeOK
<1>7. RecordInv' /\ Known(record)'
  BY <1>1 DEF RecordInv, Known
<1>8. OwnInv'
  BY <1>1, <1>4 DEF IInv, OwnInv, Streaming
<1>9. BirthsInv' /\ Known(disc.seen)' /\ KillInv'
  <2>1. BirthsInv' /\ (disc' = disc => Known(disc.seen)' /\ KillInv')
    BY <1>1, SameTable, TableStepKeeps
  <2>2. CASE disc' = NoRun
    BY <1>5, <2>1, <2>2 DEF Known, KillInv
  <2> QED
    BY <1>2, <2>1, <2>2
<1> QED
  BY <1>6, <1>7, <1>8, <1>9 DEF IInv

-----------------------------------------------------------------------------
(* Moonlight is launched under a free pid, so no other connect has it.     *)
LEMMA LaunchKeeps ==
    ASSUME IInv, NEW c \in Connects, NEW q \in Pids, Launch(c, q)
    PROVE  IInv'
<1>1. /\ UNCHANGED <<kind, record, disc>>
      /\ births' = births + 1 /\ births + 1 \in 1 .. MaxBirths /\ births \in Nat
      /\ table[q] = Free
  BY ParameterAssumption DEF Launch, Born, fileVars, IInv, CoreTypeOK
<1> DEFINE new == [birth |-> births + 1, owner |-> c, state |-> "runs"]
<1>2. new \in Process /\ new # Free
  BY <1>1, ParameterAssumption DEF Process
<1>3. /\ table' \in [Pids -> Process \cup {Free}]
      /\ \A p \in Pids : table'[p] = IF p = q THEN new ELSE table[p]
  BY <1>2 DEF Launch, Born, IInv, CoreTypeOK
<1>4. TableStep
  BY <1>1, <1>2, <1>3 DEF TableStep
<1>5. PICK phase \in {"launched", "started"} : pc' = [pc EXCEPT ![c] = phase]
  BY DEF Launch, Goto
<1>6. \A d \in Connects : pc'[d] = IF d = c THEN phase ELSE pc[d]
  BY <1>5 DEF IInv, CoreTypeOK
<1>7. /\ pidOf' \in [Connects -> Pids \cup {NoPid}]
      /\ \A d \in Connects : pidOf'[d] = IF d = c THEN q ELSE pidOf[d]
  BY DEF Launch, IInv, CoreTypeOK
<1>8. CoreTypeOK'
  <2>1. births' \in Nat
    BY <1>1
  <2>2. pc' \in [Connects -> Phases]
    BY <1>5 DEF IInv, CoreTypeOK, Phases
  <2>3. UNCHANGED <<kind, record, disc>>
    BY <1>1
  <2> QED
    BY <1>3, <1>7, <2>1, <2>2, <2>3 DEF IInv, CoreTypeOK
<1>9. RecordInv'
  BY <1>1, <1>6 DEF IInv, CoreTypeOK, RecordInv, Record
<1>10. OwnInv'
  <2> SUFFICES ASSUME NEW d \in Connects, pc'[d] \in Streaming
               PROVE  /\ pidOf'[d] \in Pids /\ table'[pidOf'[d]] \in Process
                      /\ table'[pidOf'[d]].owner = d
    BY DEF OwnInv
  <2>1. CASE d = c
    BY <1>2, <1>3, <1>7, <2>1
  <2>2. CASE d # c
    <3>1. pidOf[d] \in Pids /\ table[pidOf[d]] \in Process /\ table[pidOf[d]].owner = d
      BY <1>6, <2>2 DEF IInv, OwnInv
    <3>2. pidOf[d] # q
      BY <1>1, <3>1, ParameterAssumption
    <3> QED
      BY <1>3, <1>7, <2>2, <3>1, <3>2
  <2> QED
    BY <2>1, <2>2
<1>11. BirthsInv' /\ Known(record)' /\ Known(disc.seen)' /\ KillInv'
  BY <1>1, <1>4, TableStepKeeps
<1> QED
  BY <1>8, <1>9, <1>10, <1>11 DEF IInv

(* A connect's stream ends or the connect is killed: only processes of its *)
(* own go.  It is done at once only if it keeps no record.                 *)
LEMMA ReapingKeeps ==
    ASSUME IInv, NEW c \in Connects,
           MoonlightExited(c) \/ MonitorGaveUp(c) \/ Killed(c)
    PROVE  IInv'
<1>1. UNCHANGED <<kind, births, record, disc>>
  BY DEF MoonlightExited, MonitorGaveUp, StreamOver, Killed, fileVars
<1>2. PICK phase \in {"detaching", "finishing", "done", "dead"} :
         /\ pc' = [pc EXCEPT ![c] = phase]
         /\ phase = "done" => ~ kind[c].cli
  BY DEF MoonlightExited, MonitorGaveUp, StreamOver, Killed, Goto, AfterStream
<1>3. \A d \in Connects : pc'[d] = IF d = c THEN phase ELSE pc[d]
  BY <1>2 DEF IInv, CoreTypeOK
<1>4. /\ pidOf' \in [Connects -> Pids \cup {NoPid}]
      /\ \A d \in Connects \ {c} : pidOf'[d] = pidOf[d]
  BY DEF MoonlightExited, MonitorGaveUp, StreamOver, Killed, IInv, CoreTypeOK
<1>5. /\ table' \in [Pids -> Process \cup {Free}]
      /\ \A p \in Pids :
            \/ table'[p] = table[p]
            \/ table'[p] = Free /\ table[p].owner = c
  <2>1. CASE MoonlightExited(c) \/ MonitorGaveUp(c)
    <3>1. pc[c] = "waiting" /\ table' = [table EXCEPT ![pidOf[c]] = Free]
      BY <2>1 DEF MoonlightExited, MonitorGaveUp, StreamOver
    <3>2. table[pidOf[c]].owner = c
      BY <3>1 DEF IInv, OwnInv, Streaming
    <3> QED
      BY <3>1, <3>2 DEF IInv, CoreTypeOK
  <2>2. CASE Killed(c)
    BY <2>2 DEF Killed, IInv, CoreTypeOK
  <2> QED
    BY <2>1, <2>2
<1>6. TableStep
  BY <1>1, <1>5 DEF TableStep, IInv, CoreTypeOK
<1>7. CoreTypeOK'
  BY <1>1, <1>2, <1>4, <1>5 DEF IInv, CoreTypeOK, Phases
<1>8. RecordInv'
  BY <1>1, <1>2, <1>3 DEF IInv, CoreTypeOK, RecordInv, Record
<1>9. OwnInv'
  <2> SUFFICES ASSUME NEW d \in Connects, pc'[d] \in Streaming
               PROVE  /\ pidOf'[d] \in Pids /\ table'[pidOf'[d]] \in Process
                      /\ table'[pidOf'[d]].owner = d
    BY DEF OwnInv
  <2>1. d # c /\ pc[d] \in Streaming
    BY <1>3 DEF Streaming
  <2>2. pidOf[d] \in Pids /\ table[pidOf[d]] \in Process /\ table[pidOf[d]].owner = d
    BY <2>1 DEF IInv, OwnInv
  <2> QED
    BY <1>4, <1>5, <2>1, <2>2
<1>10. BirthsInv' /\ Known(record)' /\ Known(disc.seen)' /\ KillInv'
  BY <1>1, <1>6, TableStepKeeps
<1> QED
  BY <1>7, <1>8, <1>9, <1>10 DEF IInv

(* A process whose state changes is the same process.                      *)
LEMMA SameProcess ==
    ASSUME NEW r \in Process, NEW s \in {"signalled", "zombie"}
    PROVE  /\ [r EXCEPT !.state = s] \in Process
           /\ [r EXCEPT !.state = s].birth = r.birth
           /\ [r EXCEPT !.state = s].owner = r.owner
  BY DEF Process

(* Processes end or change their state, and strangers are born.            *)
LEMMA ProcessesKeep ==
    ASSUME IInv, NEW q \in Pids, ProcessEnds(q) \/ StrangerStarts(q)
    PROVE  IInv'
<1>1. UNCHANGED <<pc, kind, pidOf, record, disc>>
  BY DEF ProcessEnds, StrangerStarts, fileVars
<1>2. /\ TableStep
      /\ \A p \in Pids :
            \/ p # q /\ table'[p] = table[p]
            \/ p = q /\ table[p] = Free
            \/ /\ p = q /\ table[p] \in Process
               /\ table[p].owner \in Connects /\ pc[table[p].owner] # "dead" =>
                     table'[p] \in Process /\ table'[p].owner = table[p].owner
  <2>1. CASE ProcessEnds(q)
    <3>1. table[q] \in Process /\ table[q] # Free /\ births' = births
      BY <2>1 DEF ProcessEnds, IInv, CoreTypeOK
    <3>2. PICK ended \in Process :
             /\ ended = [table[q] EXCEPT !.state = "zombie"]
             /\ ended # Free
             /\ ended.birth = table[q].birth /\ ended.owner = table[q].owner
      BY <3>1, SameProcess, ParameterAssumption, Zenon
    <3>3. table' = [table EXCEPT ![q] =
                       IF table[q].owner \in Connects /\ pc[table[q].owner] # "dead"
                       THEN ended ELSE Free]
      BY <2>1, <3>2, Zenon DEF ProcessEnds
    <3>4. /\ ended \in Process /\ ended # Free
          /\ ended.birth = table[q].birth /\ ended.owner = table[q].owner
      BY <3>2, Zenon
    <3>5. /\ table' \in [Pids -> Process \cup {Free}]
          /\ \A p \in Pids \ {q} : table'[p] = table[p]
          /\ table'[q] = IF table[q].owner \in Connects /\ pc[table[q].owner] # "dead"
                         THEN ended ELSE Free
      BY <3>3, <3>4 DEF IInv, CoreTypeOK
    <3>6. TableStep
      BY <3>1, <3>4, <3>5 DEF TableStep, IInv, CoreTypeOK
    <3> QED
      BY <3>1, <3>4, <3>5, <3>6
  <2>2. CASE StrangerStarts(q)
    <3> DEFINE new == [birth |-> births + 1, owner |-> Stranger, state |-> "runs"]
    <3>1. /\ births' = births + 1 /\ births + 1 \in 1 .. MaxBirths /\ births \in Nat
          /\ table[q] = Free
      BY <2>2, ParameterAssumption DEF StrangerStarts, Born, IInv, CoreTypeOK
    <3>2. new \in Process /\ new # Free
      BY <3>1, ParameterAssumption DEF Process
    <3>3. /\ table' \in [Pids -> Process \cup {Free}]
          /\ \A p \in Pids : table'[p] = IF p = q THEN new ELSE table[p]
      BY <2>2, <3>2 DEF StrangerStarts, Born, IInv, CoreTypeOK
    <3> QED
      BY <3>1, <3>2, <3>3 DEF TableStep
  <2> QED
    BY <2>1, <2>2
<1>3. CoreTypeOK'
  BY <1>1, <1>2 DEF IInv, CoreTypeOK, TableStep
<1>4. RecordInv'
  BY <1>1 DEF IInv, RecordInv
<1>5. OwnInv'
  <2> SUFFICES ASSUME NEW d \in Connects, pc[d] \in Streaming
               PROVE  /\ pidOf[d] \in Pids /\ table'[pidOf[d]] \in Process
                      /\ table'[pidOf[d]].owner = d
    BY <1>1 DEF OwnInv
  <2>1. /\ pidOf[d] \in Pids /\ table[pidOf[d]] \in Process /\ table[pidOf[d]].owner = d
        /\ table[pidOf[d]] # Free
    BY ParameterAssumption DEF IInv, OwnInv
  <2>2. pc[d] # "dead"
    BY DEF Streaming
  <2> QED
    BY <1>2, <2>1, <2>2
<1>6. BirthsInv' /\ Known(record)' /\ Known(disc.seen)' /\ KillInv'
  BY <1>1, <1>2, TableStepKeeps
<1> QED
  BY <1>3, <1>4, <1>5, <1>6 DEF IInv

(* disconnect reads the record, makes sure of the process, signals it and  *)
(* looks at the record again.                                              *)
LEMMA DisconnectKeeps ==
    ASSUME IInv, DiscRead \/ DiscJudge \/ DiscKill \/ DiscLook
    PROVE  IInv'
<1>1. UNCHANGED <<pc, kind, pidOf, record, births>>
  BY DEF DiscRead, DiscJudge, DiscKill, DiscLook, procVars, fileVars
<1>2. /\ TableStep
      /\ \A p \in Pids :
            \/ table'[p] = table[p]
            \/ /\ table'[p] \in Process /\ table[p] \in Process
               /\ table'[p].owner = table[p].owner
  <2>1. CASE table' = table
    BY <1>1, <2>1, SameTable
  <2>2. CASE table' # table
    <3> DEFINE q == disc.seen.moonlight.pid
    <3>1. /\ disc.step = "killing" /\ table[q] # Free
          /\ table' = [table EXCEPT ![q].state = "signalled"]
      BY <2>2, Zenon DEF DiscRead, DiscJudge, DiscKill, DiscLook, procVars, Target
    <3>2. q \in Pids /\ table[q] \in Process /\ table \in [Pids -> Process \cup {Free}]
      <4>1. disc.step = "killing" /\ table[q] # Free
        BY <3>1, Zenon
      <4> QED
        BY <4>1 DEF IInv, CoreTypeOK, Supervised
    <3> HIDE DEF q
    <3>3. PICK hit \in Process :
             /\ hit = [table[q] EXCEPT !.state = "signalled"]
             /\ hit # Free /\ hit.birth = table[q].birth /\ hit.owner = table[q].owner
      BY <3>2, SameProcess, ParameterAssumption, Zenon
    <3>4. /\ hit \in Process /\ hit # Free
          /\ hit.birth = table[q].birth /\ hit.owner = table[q].owner
      BY <3>3, Zenon
    <3>5. table' = [table EXCEPT ![q] = hit]
      BY <3>1, <3>3, Zenon
    <3>6. /\ table' \in [Pids -> Process \cup {Free}]
          /\ \A p \in Pids : table'[p] = IF p = q THEN hit ELSE table[p]
      BY <3>2, <3>4, <3>5
    <3>7. table[q] # Free
      BY <3>2, ParameterAssumption
    <3> QED
      BY <1>1, <3>2, <3>4, <3>6, <3>7 DEF TableStep, IInv, CoreTypeOK
  <2> QED
    BY <2>1, <2>2
<1>3. BirthsInv' /\ Known(record)'
  BY <1>1, <1>2, TableStepKeeps
<1>4. RecordInv'
  BY <1>1 DEF IInv, RecordInv
<1>5. OwnInv'
  BY <1>1, <1>2 DEF IInv, OwnInv
<1>6. /\ disc' \in Run
      /\ disc'.step # "idle" => disc'.seen \in Record
      /\ disc'.step = "killing" => disc'.seen.moonlight \in Supervised
      /\ Known(disc.seen)' /\ KillInv'
  <2>1. CASE DiscRead
    <3>1. disc' = [step |-> "judging", seen |-> record, at |-> 0] /\ record \in Record
      BY <2>1 DEF DiscRead, IInv, CoreTypeOK
    <3>2. disc' \in Run /\ disc'.step = "judging" /\ disc'.seen = record
      BY <3>1 DEF Run
    <3>3. Known(disc.seen)'
      BY <1>1, <1>3, <3>2 DEF Known
    <3> QED
      BY <3>1, <3>2, <3>3 DEF KillInv
  <2>2. CASE DiscLook
    <3>1. disc \in Run /\ disc.seen \in Record /\ disc.step = "looking"
      BY <2>2 DEF DiscLook, IInv, CoreTypeOK
    <3>2. disc' = [disc EXCEPT !.step = "removing"] \/ disc' = NoRun
      BY <2>2 DEF DiscLook
    <3>3. CASE disc' = NoRun
      BY <3>3 DEF NoRun, Run, Known, KillInv
    <3>4. CASE disc' = [disc EXCEPT !.step = "removing"]
      <4>1. disc' \in Run /\ disc'.step = "removing" /\ disc'.seen = disc.seen
        BY <3>1, <3>4 DEF Run
      <4>2. table' = table
        BY <2>2 DEF DiscLook, procVars
      <4>3. Known(disc.seen)'
        BY <1>1, <4>1, <4>2 DEF IInv, Known
      <4> QED
        BY <3>1, <4>1, <4>3 DEF KillInv
    <3> QED
      BY <3>2, <3>3, <3>4
  <2>3. CASE disc.step # "idle" /\ disc' = Judged
    <3>1. disc.seen \in Record
      BY <2>3 DEF IInv, CoreTypeOK
    <3>2. [disc.seen EXCEPT !.moonlight = NoPid] \in Record
      BY <3>1 DEF Record
    <3>3. [disc.seen EXCEPT !.moonlight = NoPid].moonlight = NoPid
      BY <3>1 DEF Record
    <3>4. /\ disc'.step = "looking" /\ disc'.seen \in Record /\ disc'.seen.moonlight = NoPid
          /\ disc' \in Run
      BY <2>3, <3>2, <3>3 DEF Judged, Run
    <3> QED
      BY <3>4 DEF Known, KillInv
  <2>4. CASE DiscJudge /\ disc' # Judged
    <3>1. /\ disc \in Run /\ disc.seen \in Record /\ births \in Nat
      BY <2>4 DEF DiscJudge, IInv, CoreTypeOK
    <3>2. /\ disc' = [disc EXCEPT !.step = "killing", !.at = births]
          /\ disc.seen.moonlight # NoPid /\ StillRunning(disc.seen.moonlight)
          /\ table' = table
      BY <2>4 DEF DiscJudge, procVars
    <3>3. /\ disc' \in Run /\ disc'.step = "killing" /\ disc'.seen = disc.seen
          /\ disc'.at = births
      BY <3>1, <3>2 DEF Run
    <3>4. disc.seen.moonlight \in Supervised /\ disc.seen # NoRecord
      BY <3>1, <3>2, ParameterAssumption DEF Record
    <3>5. Target.owner = disc.seen.id
      BY <3>2, <3>4 DEF Target, StillRunning, IInv, Known
    <3>6. Known(disc.seen)'
      BY <1>1, <3>2, <3>3 DEF IInv, Known
    <3>7. KillInv'
      BY <1>1, <3>1, <3>2, <3>3, <3>5 DEF KillInv, Target
    <3> QED
      BY <3>1, <3>3, <3>4, <3>6, <3>7
  <2> QED
    BY <2>1, <2>2, <2>3, <2>4 DEF DiscJudge, DiscKill
<1>7. CoreTypeOK'
  BY <1>1, <1>2, <1>6 DEF IInv, CoreTypeOK, TableStep
<1> QED
  BY <1>3, <1>4, <1>5, <1>6, <1>7 DEF IInv

(* A step of the agent, or of nobody, leaves all of it alone.              *)
LEMMA RestKeeps ==
    ASSUME IInv, AgentAttach \/ AgentClears \/ UNCHANGED vars
    PROVE  IInv'
<1>1. UNCHANGED <<pc, kind, pidOf, table, births, record, disc>>
  BY DEF AgentAttach, AgentClears, AgentMove, vars, procVars, fileVars
<1>2. BirthsInv' /\ Known(record)' /\ Known(disc.seen)' /\ KillInv'
  BY <1>1, SameTable, TableStepKeeps
<1>3. CoreTypeOK' /\ RecordInv' /\ OwnInv'
  BY <1>1 DEF IInv, CoreTypeOK, RecordInv, OwnInv
<1> QED
  BY <1>2, <1>3 DEF IInv

-----------------------------------------------------------------------------
(* The invariant holds at the start ...                                    *)
LEMMA InitIInv == Init => IInv
<1> SUFFICES ASSUME Init PROVE IInv
  OBVIOUS
<1>1. NoRun \in Run /\ NoRun.step = "idle" /\ NoRun.seen = NoRecord
  BY DEF NoRun, Run
<1>2. CoreTypeOK
  BY <1>1, ParameterAssumption DEF Init, CoreTypeOK, Phases
<1>3. RecordInv /\ OwnInv /\ BirthsInv
  BY DEF Init, RecordInv, OwnInv, BirthsInv, Streaming
<1>4. Known(record) /\ Known(disc.seen) /\ KillInv
  BY <1>1 DEF Init, Known, KillInv
<1> QED
  BY <1>2, <1>3, <1>4 DEF IInv

(* ... and every step keeps it.                                            *)
LEMMA NextIInv == IInv /\ [Next]_vars => IInv'
<1> SUFFICES ASSUME IInv, [Next]_vars PROVE IInv'
  OBVIOUS
<1>1. ASSUME NEW c \in Connects,
             Begin(c) \/ CheckFails(c) \/ Proceed(c) \/ MonitorGaveUp(c) \/ Killed(c)
      PROVE  IInv'
  BY <1>1, MovesKeep, WritesKeep, RemovalsKeep, LaunchKeeps, ReapingKeeps, Zenon
     DEF Proceed
<1>2. ASSUME DiscRead \/ Disconnect PROVE IInv'
  BY <1>2, DisconnectKeeps, RemovalsKeep DEF Disconnect
<1>3. ASSUME NEW p \in Pids, ProcessEnds(p) \/ StrangerStarts(p) PROVE IInv'
  BY <1>3, ProcessesKeep
<1>4. ASSUME AgentAttach \/ AgentClears \/ UNCHANGED vars PROVE IInv'
  BY <1>4, RestKeeps
<1> QED
  BY <1>1, <1>2, <1>3, <1>4 DEF Next

(* The invariant of the specification.                                     *)
THEOREM Invariance == Spec => []IInv
  BY InitIInv, NextIInv, PTL DEF Spec

(* No connect that has finished leaves its record in the file that         *)
(* omdesky disconnect reads, however many run and in whatever order.       *)
THEOREM RecordsEnd == Spec => []NoStaleRecord
<1>1. IInv => NoStaleRecord
  BY DEF IInv, RecordInv, NoStaleRecord
<1> QED
  BY <1>1, Invariance, PTL

(* disconnect signals a process that is not the recorded session's only if *)
(* it was born after is_still_running had answered.                        *)
THEOREM StrangersSpared == Spec => SparesStrangers
<1> DEFINE Spares ==
      \A p \in Pids :
          table[p] # Free /\ table[p].state = "runs"
              /\ table'[p] # Free /\ table'[p].state = "signalled" =>
              \/ table[p].owner = disc.seen.id
              \/ table[p].birth > disc.at
<1>1. IInv /\ [Next]_vars => [Spares]_vars
  <2> SUFFICES ASSUME IInv, [Next]_vars, NEW p \in Pids,
                      table[p] # Free, table[p].state = "runs",
                      table'[p] # Free, table'[p].state = "signalled"
               PROVE  \/ table[p].owner = disc.seen.id
                      \/ table[p].birth > disc.at
    OBVIOUS
  <2>1. table' # table /\ table \in [Pids -> Process \cup {Free}]
    BY DEF IInv, CoreTypeOK
  <2>2. ~ \E c \in Connects : (\E q \in Pids : Launch(c, q)) \/ StreamOver(c) \/ Killed(c)
    BY <2>1 DEF Launch, Born, StreamOver, Killed
  <2>3. ~ \E q \in Pids : ProcessEnds(q) \/ StrangerStarts(q)
    <3>1. ASSUME NEW q \in Pids, ProcessEnds(q) PROVE FALSE
      <4>1. table[q] \in Process
        BY <2>1, <3>1 DEF ProcessEnds
      <4>2. [table[q] EXCEPT !.state = "zombie"].state = "zombie"
        BY <4>1 DEF Process
      <4>3. /\ table'[p] = IF p = q THEN table'[q] ELSE table[p]
            /\ table'[q] \in {Free, [table[q] EXCEPT !.state = "zombie"]}
        BY <2>1, <3>1, Zenon DEF ProcessEnds
      <4> QED
        BY <4>2, <4>3, Zenon
    <3>2. ASSUME NEW q \in Pids, StrangerStarts(q) PROVE FALSE
      BY <2>1, <3>2 DEF StrangerStarts, Born
    <3> QED
      BY <3>1, <3>2
  <2>4. DiscKill
    BY <2>1, <2>2, <2>3 DEF Next, Proceed, Disconnect, Begin, CheckFails, InstallLocal,
       Attached, AttachRefused, Undo, Started, MoonlightExited, MonitorGaveUp, Detach, Look,
       RemoveOwn, DiscRead, DiscJudge, DiscLook, DiscRemove, AgentAttach, AgentClears,
       AgentMove, vars, procVars
  <2>5. p = disc.seen.moonlight.pid
    BY <2>1, <2>4, Zenon DEF DiscKill
  <2> QED
    BY <2>4, <2>5 DEF DiscKill, IInv, KillInv, Target
<1> QED
  BY <1>1, Invariance, PTL DEF Spec, SparesStrangers

-----------------------------------------------------------------------------
(* Key bindings.  A grant lasts from the answer of the attach to the       *)
(* detach.                                                                 *)
GrantedInv ==
    granted \subseteq {c \in Connects : pc[c] \in {"started", "waiting", "detaching"}}
BindInv == GrantedInv /\ alone \subseteq Connects /\ BindingsMatchSessions

(* The step of one connect says nothing of the sessions of the others.     *)
LEMMA OthersStay ==
    ASSUME CoreTypeOK, NEW c \in Connects, NEW phase \in Phases, pc' = [pc EXCEPT ![c] = phase],
           granted' \ {c} = granted \ {c}
    PROVE  /\ pc'[c] = phase
           /\ \A d \in Connects \ {c} : /\ pc'[d] = pc[d] /\ (d \in granted' <=> d \in granted)
                                        /\ InSession(d)' <=> InSession(d)
<1>1. pc'[c] = phase /\ \A d \in Connects \ {c} : pc'[d] = pc[d] /\ (d \in granted' <=> d \in granted)
  BY DEF CoreTypeOK
<1> QED
  BY <1>1 DEF InSession

(* A connect moves on, with the session it had or without one.             *)
LEMMA SessionMoves ==
    ASSUME CoreTypeOK, BindInv, NEW c \in Connects, UNCHANGED <<binds, hosted, alone, spoiled>>,
           \/ Begin(c) \/ CheckFails(c) \/ (\E p \in Pids : Launch(c, p)) \/ Attached(c)
           \/ AttachRefused(c) \/ Started(c) \/ StreamOver(c) \/ Look(c) \/ RemoveOwn(c)
    PROVE  BindInv'
<1>1. PICK phase \in Phases :
         /\ pc' = [pc EXCEPT ![c] = phase]
         /\ granted' \subseteq Connects /\ granted' \ {c} = granted \ {c}
         /\ c \in granted' => phase \in {"started", "waiting", "detaching"}
         /\ (phase \in {"attaching", "undoing"} \/
                (c \in granted' /\ phase \in {"started", "waiting", "detaching"})) <=> InSession(c)
  <2> USE DEF Goto, BindInv, GrantedInv, InSession, Phases, AfterStream
  <2>1. CASE Begin(c) \/ CheckFails(c) \/ (\E p \in Pids : Launch(c, p))
    BY <2>1 DEF Begin, CheckFails, Launch
  <2>2. CASE Attached(c)
    BY <2>2 DEF Attached
  <2>3. CASE AttachRefused(c)
    BY <2>3 DEF AttachRefused
  <2>4. CASE Started(c)
    BY <2>4 DEF Started
  <2>5. CASE StreamOver(c)
    BY <2>5 DEF StreamOver
  <2>6. CASE Look(c) \/ RemoveOwn(c)
    BY <2>6 DEF Look, RemoveOwn
  <2> QED
    BY <2>1, <2>2, <2>3, <2>4, <2>5, <2>6
<1>2. /\ pc'[c] = phase
      /\ \A d \in Connects \ {c} : /\ pc'[d] = pc[d] /\ (d \in granted' <=> d \in granted)
                                   /\ InSession(d)' <=> InSession(d)
  BY <1>1, OthersStay
<1>3. \A d \in Connects : InSession(d)' <=> InSession(d)
  BY <1>1, <1>2 DEF InSession
<1>4. GrantedInv'
  BY <1>1, <1>2 DEF BindInv, GrantedInv
<1>5. BindingsMatchSessions'
  BY <1>3 DEF BindInv, BindingsMatchSessions
<1> QED
  BY <1>4, <1>5 DEF BindInv

(* A connect clears the bindings, and no session has its own for certain.  *)
LEMMA ClearKeeps ==
    ASSUME CoreTypeOK, BindInv, NEW c \in Connects, Undo(c) \/ Detach(c)
    PROVE  BindInv'
<1>1. /\ UNCHANGED hosted /\ alone' = {} /\ spoiled \subseteq spoiled'
      /\ binds' = NoBinds \/ (binds' = binds /\ c \in spoiled')
  BY DEF Undo, Detach, Clear
<1>2. PICK phase \in {"started", "finishing", "done"} :
         /\ pc' = [pc EXCEPT ![c] = phase]
         /\ granted' \subseteq Connects /\ granted' \ {c} = granted \ {c} /\ c \notin granted'
  BY DEF Undo, Detach, Goto, AfterStream, BindInv, GrantedInv
<1>3. phase \in Phases
  BY DEF Phases
<1>4. /\ pc'[c] = phase
      /\ \A d \in Connects \ {c} : /\ pc'[d] = pc[d] /\ (d \in granted' <=> d \in granted)
                                   /\ InSession(d)' <=> InSession(d)
  BY <1>2, <1>3, OthersStay
<1>5. GrantedInv'
  BY <1>2, <1>4 DEF BindInv, GrantedInv
<1>6. BindingsMatchSessions'
  <2>1. CASE binds' = NoBinds
    BY <1>1, <2>1, ParameterAssumption DEF BindingsMatchSessions
  <2>2. CASE binds' = binds /\ c \in spoiled'
    BY <1>1, <1>4, <2>2 DEF BindInv, BindingsMatchSessions
  <2> QED
    BY <1>1, <2>1, <2>2
<1> QED
  BY <1>1, <1>5, <1>6 DEF BindInv

(* A connect sets its bindings, or it is spoiled.                          *)
LEMMA SetKeeps ==
    ASSUME CoreTypeOK, BindInv, NEW c \in Connects, InstallLocal(c) \/ Killed(c)
    PROVE  BindInv'
<1>1. /\ UNCHANGED hosted /\ spoiled \subseteq spoiled'
      /\ \/ binds' = c /\ alone' \subseteq {c} /\ pc' = [pc EXCEPT ![c] = "attaching"]
         \/ /\ binds' \in {binds, c} /\ alone' = {} /\ c \in spoiled'
            /\ pc' = [pc EXCEPT ![c] = "started"] \/ pc' = [pc EXCEPT ![c] = "dead"]
  BY DEF InstallLocal, Killed, Goto
<1>2. granted' \subseteq Connects /\ granted' \ {c} = granted \ {c} /\ c \notin granted'
  BY DEF InstallLocal, Killed, BindInv, GrantedInv
<1>3. PICK phase \in {"attaching", "started", "dead"} : pc' = [pc EXCEPT ![c] = phase]
  BY <1>1
<1>4. phase \in Phases
  BY DEF Phases
<1>5. /\ pc'[c] = phase
      /\ \A d \in Connects \ {c} : /\ pc'[d] = pc[d] /\ (d \in granted' <=> d \in granted)
                                   /\ InSession(d)' <=> InSession(d)
  BY <1>2, <1>3, <1>4, OthersStay
<1>6. GrantedInv'
  BY <1>2, <1>5 DEF BindInv, GrantedInv
<1>7. BindingsMatchSessions'
  <2>1. CASE binds' = c /\ alone' \subseteq {c} /\ pc' = [pc EXCEPT ![c] = "attaching"]
    <3>1. InSession(c)'
      BY <2>1 DEF CoreTypeOK, InSession
    <3> QED
      BY <2>1, <3>1, ParameterAssumption DEF BindingsMatchSessions
  <2>2. CASE binds' \in {binds, c} /\ alone' = {} /\ c \in spoiled'
    BY <1>1, <1>5, <2>2, ParameterAssumption DEF BindInv, BindingsMatchSessions
  <2> QED
    BY <1>1, <2>1, <2>2
<1> QED
  BY <1>1, <1>6, <1>7 DEF BindInv

(* Every step keeps the bindings in order.                                 *)
LEMMA BindStep ==
    ASSUME CoreTypeOK, BindInv, [Next]_vars
    PROVE  BindInv'
<1>1. CASE AgentAttach \/ AgentClears
  <2>1. UNCHANGED <<pc, granted>> /\ alone' = {}
    BY <1>1 DEF AgentAttach, AgentClears, AgentMove
  <2>2. (binds' = Agent /\ hosted') \/ binds' = NoBinds
    BY <1>1 DEF AgentAttach, AgentClears, AgentMove
  <2> QED
    BY <2>1, <2>2, ParameterAssumption DEF BindInv, GrantedInv, BindingsMatchSessions
<1>2. ASSUME UNCHANGED <<pc, granted, binds, hosted, alone, spoiled>>
      PROVE  BindInv'
  BY <1>2 DEF BindInv, GrantedInv, BindingsMatchSessions, InSession
<1>3. ASSUME \/ DiscRead \/ Disconnect \/ UNCHANGED vars
             \/ \E p \in Pids : ProcessEnds(p) \/ StrangerStarts(p)
      PROVE  BindInv'
  <2>1. UNCHANGED <<pc, granted, binds, hosted, alone, spoiled>>
    BY <1>3 DEF DiscRead, Disconnect, DiscJudge, DiscKill, DiscLook, DiscRemove, ProcessEnds,
                StrangerStarts, vars, bindVars
  <2> QED
    BY <1>2, <2>1
<1>4. ASSUME NEW c \in Connects,
             \/ Begin(c) \/ CheckFails(c) \/ (\E p \in Pids : Launch(c, p)) \/ Attached(c)
             \/ AttachRefused(c) \/ Started(c) \/ StreamOver(c) \/ Look(c) \/ RemoveOwn(c)
      PROVE  BindInv'
  <2>1. UNCHANGED <<binds, hosted, alone, spoiled>>
    BY <1>4 DEF Begin, CheckFails, Launch, Attached, AttachRefused, Started, StreamOver, Look,
                RemoveOwn, bindVars
  <2> QED
    BY <1>4, <2>1, SessionMoves
<1>5. ASSUME NEW c \in Connects,
             Begin(c) \/ CheckFails(c) \/ Proceed(c) \/ MonitorGaveUp(c) \/ Killed(c)
      PROVE  BindInv'
  BY <1>4, <1>5, ClearKeeps, SetKeeps DEF Proceed, MoonlightExited, MonitorGaveUp
<1> QED
  BY <1>1, <1>3, <1>5 DEF Next

(* The shortcuts of this desktop are those of a session that goes on, and  *)
(* a session no other has overlapped has its own.                          *)
THEOREM BindingsSafety == Spec => []BindingsMatchSessions
<1>1. Init => BindInv
  BY ParameterAssumption DEF Init, BindInv, GrantedInv, BindingsMatchSessions
<1>2. IInv => CoreTypeOK
  BY DEF IInv
<1>3. CoreTypeOK /\ BindInv /\ [Next]_vars => BindInv'
  BY BindStep
<1>4. BindInv => BindingsMatchSessions
  BY DEF BindInv
<1> QED
  BY <1>1, <1>2, <1>3, <1>4, Invariance, PTL DEF Spec

-----------------------------------------------------------------------------
(* The session file again.  A remover whose look is still current is about *)
(* to remove the record it saw.                                            *)
LookInv ==
    /\ \A c \in Connects : pc[c] = "removing" /\ c \notin stale => Owned(c)
    /\ disc.step = "removing" /\ Disconnecting \notin stale => Owned(disc.seen.id)

(* Once the record has changed, every other remover is out of date.        *)
LEMMA ChangeNoticed ==
    ASSUME LookInv, NEW who,
           \A c \in Connects : pc'[c] = "removing" => pc[c] = "removing" /\ c # who,
           disc'.step = "removing" => disc.step = "removing" /\ Disconnecting # who,
           stale \cup Removers \subseteq stale' \cup {who}
    PROVE  LookInv'
  BY DEF LookInv, Removers

(* Every step keeps the removers' view of the file.                        *)
LEMMA LookStep ==
    ASSUME CoreTypeOK, LookInv, [Next]_vars
    PROVE  LookInv'
<1>1. ASSUME UNCHANGED <<record, stale>>,
             \A c \in Connects : pc'[c] = "removing" => pc[c] = "removing",
             disc'.step = "removing" => disc' = disc
      PROVE  LookInv'
  BY <1>1 DEF LookInv, Owned
<1>2. ASSUME NEW c \in Connects, Look(c)
      PROVE  LookInv'
  <2>1. /\ UNCHANGED <<record, disc>> /\ stale' = stale \ {c}
        /\ pc' = [pc EXCEPT ![c] = IF LooksOwn(c) THEN "removing" ELSE "done"]
    BY <1>2 DEF Look, Goto
  <2>2. \A d \in Connects : pc'[d] = IF d = c THEN IF Owned(c) THEN "removing" ELSE "done"
                                     ELSE pc[d]
    BY <2>1 DEF CoreTypeOK, LooksOwn
  <2>3. Disconnecting # c
    BY ParameterAssumption
  <2> QED
    BY <2>1, <2>2, <2>3 DEF LookInv, Owned
<1>3. CASE DiscLook
  <2>1. /\ UNCHANGED <<record, pc>> /\ stale' = stale \ {Disconnecting}
        /\ disc' = IF Owned(disc.seen.id) THEN [disc EXCEPT !.step = "removing"] ELSE NoRun
    BY <1>3 DEF DiscLook
  <2>2. \A c \in Connects : c # Disconnecting
    BY ParameterAssumption
  <2>3. disc'.step = "removing" => disc'.seen = disc.seen /\ Owned(disc.seen.id)
    BY <2>1 DEF CoreTypeOK, Run, NoRun
  <2> QED
    BY <2>1, <2>2, <2>3 DEF LookInv, Owned
<1>4. ASSUME NEW c \in Connects, RemoveOwn(c)
      PROVE  LookInv'
  <2>1. /\ stale' = (stale \cup Removers) \ {c} /\ disc' = disc /\ c # Disconnecting
        /\ \A d \in Connects : pc'[d] = IF d = c THEN "done" ELSE pc[d]
    BY <1>4, ParameterAssumption DEF RemoveOwn, Remove, Goto, CoreTypeOK
  <2> QED
    BY <2>1, ChangeNoticed
<1>5. CASE DiscRemove
  <2>1. stale' = (stale \cup Removers) \ {Disconnecting} /\ pc' = pc /\ disc'.step = "idle"
    BY <1>5 DEF DiscRemove, Remove, NoRun
  <2>2. \A c \in Connects : c # Disconnecting
    BY ParameterAssumption
  <2> QED
    BY <2>1, <2>2, ChangeNoticed
<1>6. ASSUME NEW c \in Connects, Begin(c) \/ Started(c)
      PROVE  LookInv'
  <2>1. /\ disc' = disc /\ \A d \in Connects : pc'[d] = "removing" => pc[d] = "removing"
        /\ (stale' = stale \cup Removers) \/ UNCHANGED <<record, stale>>
    BY <1>6 DEF Begin, Started, Write, fileVars, Goto, CoreTypeOK
  <2>2. CASE stale' = stale \cup Removers
    BY <2>1, <2>2 DEF LookInv, Removers
  <2> QED
    BY <1>1, <2>1, <2>2
<1>7. ASSUME NEW c \in Connects,
             \/ CheckFails(c) \/ (\E p \in Pids : Launch(c, p)) \/ InstallLocal(c) \/ Attached(c)
             \/ AttachRefused(c) \/ Undo(c) \/ StreamOver(c) \/ Detach(c) \/ Killed(c)
      PROVE  LookInv'
  <2>1. UNCHANGED <<record, stale, disc>>
    BY <1>7 DEF CheckFails, Launch, InstallLocal, Attached, AttachRefused, Undo, StreamOver,
                Detach, Killed, fileVars
  <2>2. PICK phase \in Phases \ {"removing"} : pc' = [pc EXCEPT ![c] = phase]
    BY <1>7 DEF CheckFails, Launch, InstallLocal, Attached, AttachRefused, Undo, StreamOver,
                Detach, Killed, Goto, AfterStream, Phases
  <2>3. \A d \in Connects : pc'[d] = "removing" => pc[d] = "removing"
    BY <2>2 DEF CoreTypeOK
  <2> QED
    BY <1>1, <2>1, <2>3
<1>8. CASE DiscRead \/ DiscJudge \/ DiscKill
  <2>1. UNCHANGED <<pc, record, stale>>
    BY <1>8 DEF DiscRead, DiscJudge, DiscKill, fileVars
  <2>2. disc'.step # "removing"
    <3>1. CASE DiscRead
      BY <3>1 DEF DiscRead
    <3>2. CASE disc' = Judged
      BY <3>2 DEF Judged
    <3>3. CASE disc' = [disc EXCEPT !.step = "killing", !.at = births]
      BY <3>3 DEF CoreTypeOK, Run
    <3> QED
      BY <1>8, <3>1, <3>2, <3>3 DEF DiscJudge, DiscKill
  <2> QED
    BY <1>1, <2>1, <2>2
<1>9. ASSUME \/ AgentAttach \/ AgentClears \/ UNCHANGED vars
             \/ \E p \in Pids : ProcessEnds(p) \/ StrangerStarts(p)
      PROVE  LookInv'
  <2>1. UNCHANGED <<pc, record, stale, disc>>
    BY <1>9 DEF AgentAttach, AgentClears, AgentMove, ProcessEnds, StrangerStarts, vars, fileVars
  <2> QED
    BY <1>1, <2>1
<1>10. ASSUME NEW c \in Connects,
              Begin(c) \/ CheckFails(c) \/ Proceed(c) \/ MonitorGaveUp(c) \/ Killed(c)
       PROVE  LookInv'
  BY <1>2, <1>4, <1>6, <1>7, <1>10 DEF Proceed, MoonlightExited, MonitorGaveUp
<1> QED
  BY <1>3, <1>5, <1>8, <1>9, <1>10 DEF Next, Disconnect

(* A record is removed by the connect that wrote it, by a disconnect that  *)
(* read it, or by one that had looked before it was written.               *)
THEOREM RemovalSafety == Spec => RemovedByOwner
<1> DEFINE Rightly ==
      \A c \in Connects :
          record # NoRecord /\ record.id = c /\ record' = NoRecord =>
              \/ pc[c] = "removing" /\ pc'[c] = "done"
              \/ disc.step = "removing" /\ disc' = NoRun /\ disc.seen.id = c
              \/ \E who \in stale : who \notin stale'
<1>1. Init => LookInv
  BY DEF Init, LookInv, NoRun
<1>2. IInv => CoreTypeOK
  BY DEF IInv
<1>3. CoreTypeOK /\ LookInv /\ [Next]_vars => LookInv'
  BY LookStep
<1>4. IInv /\ LookInv /\ [Next]_vars => [Rightly]_vars
  <2> SUFFICES ASSUME IInv, LookInv, [Next]_vars, NEW c \in Connects,
                      record # NoRecord, record.id = c, record' = NoRecord
               PROVE  \/ pc[c] = "removing" /\ pc'[c] = "done"
                      \/ disc.step = "removing" /\ disc' = NoRun /\ disc.seen.id = c
                      \/ \E who \in stale : who \notin stale'
    OBVIOUS
  <2>1. ASSUME NEW d \in Connects, RemoveOwn(d)
        PROVE  (pc[c] = "removing" /\ pc'[c] = "done") \/ \E who \in stale : who \notin stale'
    <3>1. pc[d] = "removing" /\ d \notin stale' /\ pc' = [pc EXCEPT ![d] = "done"]
      BY <2>1 DEF RemoveOwn, Remove, Goto
    <3>2. CASE d \in stale
      BY <3>1, <3>2
    <3>3. CASE d \notin stale
      BY <1>2, <3>1, <3>3 DEF LookInv, Owned, CoreTypeOK
    <3> QED
      BY <3>2, <3>3
  <2>2. CASE DiscRemove
    <3>1. disc.step = "removing" /\ Disconnecting \notin stale' /\ disc' = NoRun
      BY <2>2 DEF DiscRemove, Remove
    <3>2. CASE Disconnecting \in stale
      BY <3>1, <3>2
    <3>3. CASE Disconnecting \notin stale
      BY <3>1, <3>3 DEF LookInv, Owned
    <3> QED
      BY <3>2, <3>3
  <2>3. ASSUME NEW d \in Connects, Begin(d) \/ Started(d)
        PROVE  FALSE
    <3>1. PICK m : /\ record' = record \/ record' = [id |-> d, moonlight |-> m]
                   /\ m = NoPid \/ (m = Observed(pidOf[d]) /\ pc[d] = "started")
      BY <2>3 DEF Begin, Started, Write, fileVars
    <3>2. pc[d] = "started" => Observed(pidOf[d]) \in Supervised
      BY DEF IInv, OwnInv, Streaming, Observed, Supervised, Process
    <3>3. [id |-> d, moonlight |-> m] \in Record
      BY <3>1, <3>2 DEF Record
    <3> QED
      BY <3>1, <3>3, ParameterAssumption
  <2>4. DiscRemove \/ \E d \in Connects : RemoveOwn(d) \/ Begin(d) \/ Started(d)
    BY DEF Next, Proceed, Disconnect, CheckFails, Launch, InstallLocal, Attached, AttachRefused,
       Undo, MoonlightExited, MonitorGaveUp, StreamOver, Detach, Look, Killed, DiscRead, DiscJudge,
       DiscKill, DiscLook, ProcessEnds, StrangerStarts, AgentAttach, AgentClears, AgentMove,
       vars, fileVars
  <2> QED
    BY <2>1, <2>2, <2>3, <2>4
<1> QED
  BY <1>1, <1>2, <1>3, <1>4, Invariance, PTL DEF Spec, RemovedByOwner

-----------------------------------------------------------------------------
(* The types that no argument above needs.                                 *)
SessionTypeOK ==
    /\ granted \subseteq Connects /\ spoiled \subseteq Connects
    /\ binds \in Connects \cup {Agent, NoBinds} /\ hosted \in BOOLEAN
    /\ alone \subseteq Connects
FileTypeOK == stale \subseteq Connects \cup {Disconnecting}
BoundsOK == births \in 0 .. MaxBirths /\ disc.at \in 0 .. MaxBirths

(* Sessions and bindings are those of connects or of the agent.            *)
LEMMA SessionTypes ==
    ASSUME SessionTypeOK, [Next]_vars
    PROVE  SessionTypeOK'
<1> USE DEF SessionTypeOK
<1>1. ASSUME NEW c \in Connects,
             \/ Begin(c) \/ CheckFails(c) \/ (\E p \in Pids : Launch(c, p))
             \/ AttachRefused(c) \/ Started(c) \/ StreamOver(c) \/ Look(c) \/ RemoveOwn(c)
      PROVE  SessionTypeOK'
  BY <1>1 DEF Begin, CheckFails, Launch, AttachRefused, Started, StreamOver, Look, RemoveOwn,
              bindVars
<1>2. ASSUME NEW c \in Connects, InstallLocal(c) PROVE SessionTypeOK'
  BY <1>2 DEF InstallLocal
<1>3. ASSUME NEW c \in Connects, Undo(c) \/ Detach(c) PROVE SessionTypeOK'
  BY <1>3 DEF Undo, Detach, Clear
<1>4. ASSUME NEW c \in Connects, Attached(c) \/ Killed(c) PROVE SessionTypeOK'
  BY <1>4 DEF Attached, Killed, bindVars
<1>5. ASSUME NEW c \in Connects,
             Begin(c) \/ CheckFails(c) \/ Proceed(c) \/ MonitorGaveUp(c) \/ Killed(c)
      PROVE  SessionTypeOK'
  BY <1>1, <1>2, <1>3, <1>4, <1>5 DEF Proceed, MoonlightExited, MonitorGaveUp
<1>6. CASE AgentAttach \/ AgentClears
  BY <1>6 DEF AgentAttach, AgentClears, AgentMove
<1>7. ASSUME \/ DiscRead \/ Disconnect \/ UNCHANGED vars
             \/ \E p \in Pids : ProcessEnds(p) \/ StrangerStarts(p)
      PROVE  SessionTypeOK'
  BY <1>7 DEF DiscRead, Disconnect, DiscJudge, DiscKill, DiscLook, DiscRemove, ProcessEnds,
              StrangerStarts, vars, bindVars
<1> QED
  BY <1>5, <1>6, <1>7 DEF Next

(* Who looked at the file is a connect or a disconnect.                    *)
LEMMA FileTypes ==
    ASSUME FileTypeOK, [Next]_vars
    PROVE  FileTypeOK'
<1> USE DEF FileTypeOK
<1>1. stale' \subseteq stale \cup Removers
  <2>1. ASSUME NEW c \in Connects,
               Begin(c) \/ CheckFails(c) \/ Proceed(c) \/ MonitorGaveUp(c) \/ Killed(c)
        PROVE  stale' \subseteq stale \cup Removers
    BY <2>1 DEF Begin, CheckFails, Proceed, Launch, InstallLocal, Attached, AttachRefused, Undo,
                Started, MoonlightExited, MonitorGaveUp, StreamOver, Detach, Look, RemoveOwn,
                Killed, Write, Remove, fileVars
  <2>2. CASE \/ DiscRead \/ Disconnect \/ AgentAttach \/ AgentClears \/ UNCHANGED vars
             \/ \E p \in Pids : ProcessEnds(p) \/ StrangerStarts(p)
    BY <2>2 DEF DiscRead, Disconnect, DiscJudge, DiscKill, DiscLook, DiscRemove, Remove,
                AgentAttach, AgentClears, AgentMove, ProcessEnds, StrangerStarts, vars, fileVars
  <2> QED
    BY <2>1, <2>2 DEF Next
<1>2. Removers \subseteq Connects \cup {Disconnecting}
  BY DEF Removers
<1> QED
  BY <1>1, <1>2

(* No more processes are born than the bound allows, and disconnect counts *)
(* those there are.                                                        *)
LEMMA BoundsStep ==
    ASSUME BoundsOK, [Next]_vars
    PROVE  BoundsOK'
<1> USE DEF BoundsOK
<1>1. births' = births \/ (births < MaxBirths /\ births' = births + 1)
  <2>1. ASSUME NEW c \in Connects,
               Begin(c) \/ CheckFails(c) \/ Proceed(c) \/ MonitorGaveUp(c) \/ Killed(c)
        PROVE  births' = births \/ (births < MaxBirths /\ births' = births + 1)
    BY <2>1 DEF Begin, CheckFails, Proceed, Launch, Born, InstallLocal, Attached, AttachRefused,
                Undo, Started, MoonlightExited, MonitorGaveUp, StreamOver, Detach, Look,
                RemoveOwn, Killed, procVars
  <2>2. CASE \/ DiscRead \/ Disconnect \/ AgentAttach \/ AgentClears \/ UNCHANGED vars
             \/ \E p \in Pids : ProcessEnds(p) \/ StrangerStarts(p)
    BY <2>2 DEF DiscRead, Disconnect, DiscJudge, DiscKill, DiscLook, DiscRemove, AgentAttach,
                AgentClears, AgentMove, ProcessEnds, StrangerStarts, Born, vars, procVars
  <2> QED
    BY <2>1, <2>2 DEF Next
<1>2. disc'.at \in {disc.at, births, 0}
  <2>1. ASSUME NEW c \in Connects,
               Begin(c) \/ CheckFails(c) \/ Proceed(c) \/ MonitorGaveUp(c) \/ Killed(c)
        PROVE  disc' = disc
    BY <2>1 DEF Begin, CheckFails, Proceed, Launch, InstallLocal, Attached, AttachRefused, Undo,
                Started, MoonlightExited, MonitorGaveUp, StreamOver, Detach, Look, RemoveOwn,
                Killed
  <2>2. CASE \/ AgentAttach \/ AgentClears \/ UNCHANGED vars
             \/ \E p \in Pids : ProcessEnds(p) \/ StrangerStarts(p)
    BY <2>2 DEF AgentAttach, AgentClears, AgentMove, ProcessEnds, StrangerStarts, vars
  <2>3. CASE DiscRead \/ DiscKill \/ DiscRemove
    BY <2>3 DEF DiscRead, DiscKill, DiscRemove, Judged, NoRun
  <2>4. CASE DiscJudge
    BY <2>4 DEF DiscJudge, Judged
  <2>5. CASE DiscLook
    BY <2>5 DEF DiscLook, NoRun
  <2> QED
    BY <2>1, <2>2, <2>3, <2>4, <2>5 DEF Next, Disconnect
<1> QED
  BY <1>1, <1>2, ParameterAssumption

(* Types of every variable; and a connect that waits for its Moonlight has *)
(* the process of that pid, so that on_started observes its own.           *)
THEOREM TypeCorrectness == Spec => []TypeOK
<1> DEFINE Rest == SessionTypeOK /\ FileTypeOK /\ BoundsOK
<1>1. Init => Rest
  <2>1. Init => SessionTypeOK /\ FileTypeOK
    BY DEF Init, SessionTypeOK, FileTypeOK
  <2>2. MaxBirths \in Nat
    BY ParameterAssumption
  <2>3. NoRun.at = 0
    BY DEF NoRun
  <2>4. Init => BoundsOK
    BY <2>2, <2>3 DEF Init, BoundsOK
  <2> QED
    BY <2>1, <2>4
<1>2. Rest /\ [Next]_vars => Rest'
  BY SessionTypes, FileTypes, BoundsStep
<1>3. IInv /\ Rest => TypeOK
  <2> SUFFICES ASSUME IInv, Rest PROVE TypeOK
    OBVIOUS
  <2>1. disc \in [step : {"idle", "judging", "killing", "looking", "removing"},
                  seen : Record \cup {NoRecord}, at : 0 .. MaxBirths]
    BY DEF IInv, CoreTypeOK, Run, BoundsOK
  <2>2. \A c \in Connects : pc[c] \in Streaming =>
            table[pidOf[c]] # Free /\ table[pidOf[c]].owner = c
    BY ParameterAssumption DEF IInv, OwnInv
  <2> QED
    BY <2>1, <2>2
       DEF TypeOK, IInv, CoreTypeOK, SessionTypeOK, FileTypeOK, BoundsOK, Streaming
<1> QED
  BY <1>1, <1>2, <1>3, Invariance, PTL DEF Spec

=============================================================================
