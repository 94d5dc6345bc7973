----------------------- MODULE SessionCoordinatorProofs -----------------------
(***************************************************************************)
(* Safety of SessionCoordinator for every number of devices, every lease   *)
(* and every bound on attaches, faults and cancellations.  The inductive   *)
(* invariant IInv is the conjunction of the named parts below.             *)
(***************************************************************************)
EXTENDS SessionCoordinator, TLAPS

Ending == op.kind \in {"detach", "expire"}
Attaching(step) == op.kind = "attach" /\ op.step = step

(* Which operation can hold the mutex when, and what it knows: the checks  *)
(* made before the first await still hold at the last one.                 *)
OpInv ==
    /\ op.kind = "idle" => op = Idle
    /\ op.kind # "idle" => op.step # "none"
    /\ op.kind \notin {"idle", "attach"} => op.step = "clear"
    /\ op.kind = "reconcile" <=> status = "starting"
    /\ op.kind = "release" <=> status = "stopping"
    /\ status = "down" => op.kind = "idle" /\ active = NoSession
    /\ status = "starting" => active = NoSession
    /\ active = NoSession => timer = 0
    /\ op.kind = "attach" =>
          /\ op.session \in Session
          /\ ~HeldByOther(op.session.owner)
    /\ op.kind = "detach" => active # NoSession /\ op.session = active
    /\ op.kind = "expire" => active # NoSession /\ timer = 0

(* Identifiers are drawn once: the candidate's has not been granted.       *)
IdInv ==
    /\ \A c \in grants : c.id \in 1 .. nextId
    /\ active # NoSession => active.id \in 1 .. nextId
    /\ op.kind = "attach" =>
          /\ op.session.id = nextId
          /\ nextId >= 1
          /\ \A c \in grants : c.id # nextId

(* The time an attach has used of the lease it is going to grant.          *)
TimingInv ==
    /\ op.waited <= EffectTimeout
    /\ Attaching("clear") => op.spent = op.waited
    /\ Attaching("install") => op.spent <= EffectTimeout + op.waited

FollowInv ==
    /\ FollowFocusBelongsToSession
    /\ op.kind # "idle" => followFocus = None

SessionBinds == IF active = NoSession THEN None ELSE InstalledBinds(active)
SessionFollow ==
    IF active # NoSession /\ active.role = "remote" /\ active.callback
    THEN active.id ELSE None

(* Nothing has gone wrong yet.                                             *)
FaultFreeInv ==
    faults = 0 /\ cancels = 0 =>
        /\ status \in {"down", "starting"} => keybinds = None
        /\ op.kind = "idle" /\ status = "serving" =>
              keybinds = SessionBinds /\ followFocus = SessionFollow
        /\ Attaching("clear") => keybinds = SessionBinds
        /\ Attaching("install") => keybinds = None
        /\ ~Attaching("rollback")
        /\ Ending => keybinds = SessionBinds

(* One thing may have gone wrong, and the next clean-up makes up for it.   *)
OneFaultInv ==
    faults <= 1 /\ cancels = 0 =>
        /\ status \in {"down", "starting"} /\ keybinds # None => faults = 1
        /\ Serving /\ keybinds # None
               /\ (op.kind = "idle" \/ Ending \/ Attaching("clear"))
             => active # NoSession /\ keybinds = active.id
        /\ Attaching("install") /\ keybinds # None => faults = 1
        /\ Attaching("rollback") => faults = 1

IInv == TypeOK /\ OpInv /\ IdInv /\ TimingInv /\ FollowInv /\ FaultFreeInv
               /\ OneFaultInv

-----------------------------------------------------------------------------
\* Every step of the coordinator keeps its variables in their types.
LEMMA TypeStep == IInv /\ [Next]_vars => TypeOK'
<1> SUFFICES ASSUME IInv, [Next]_vars PROVE TypeOK'
  OBVIOUS
<1> USE NoSessionAssumption, BoundAssumption DEF IInv, TypeOK, OpInv, Serving,
    Roles, Session, Claim, Kinds, Steps, Operation, Op, Idle, Busy, None
<1>1. CASE Start
  BY <1>1 DEF Start
<1>2. CASE Reconciled
  BY <1>2 DEF Reconciled, RunOk, RunErr, EffectBinds
<1>3. ASSUME NEW o \in Owners, NEW role \in Roles, NEW callback \in BOOLEAN,
            AttachBegin(o, role, callback)
     PROVE  TypeOK'
  BY <1>3 DEF AttachBegin, ClearBegins
<1>4. CASE AttachCleared
  BY <1>4 DEF AttachCleared, RunOk, RunErr, EffectBinds, NextStep
<1>5. CASE AttachInstalled
  BY <1>5 DEF AttachInstalled, RunOk, EffectBinds, RemainingLease,
      FollowAfterInstall, ClaimOf, InstalledBinds
<1>6. CASE AttachInstallFailed
  BY <1>6 DEF AttachInstallFailed, RunErr, EffectBinds, NextStep, ClearBegins,
      InstalledBinds
<1>7. CASE AttachRolledBack
  BY <1>7 DEF AttachRolledBack, RunOk, RunErr, EffectBinds
<1>8. ASSUME NEW o \in Owners, NEW c \in grants, DetachBegin(o, c)
     PROVE  TypeOK'
  BY <1>8 DEF DetachBegin, ClearBegins, Named, Matches
<1>9. CASE DetachFinished
  BY <1>9 DEF DetachFinished, EndFinished, RunOk, RunErr, EffectBinds
<1>10. CASE ExpireBegin
  BY <1>10 DEF ExpireBegin, ClearBegins
<1>11. CASE ExpireFinished
  BY <1>11 DEF ExpireFinished, EndFinished, RunOk, RunErr, EffectBinds
<1>12. CASE Released
  BY <1>12 DEF Released, RunOk, RunErr, EffectBinds
<1>13. ASSUME NEW o \in Owners, NEW c \in grants, Renew(o, c)
     PROVE  TypeOK'
  BY <1>13 DEF Renew, Matches
<1>14. CASE Shutdown
  BY <1>14 DEF Shutdown, EffectBinds, InstalledBinds
<1>15. CASE Crash
  BY <1>15 DEF Crash, EffectBinds, InstalledBinds
<1>16. CASE Cancel
  BY <1>16 DEF Cancel, EffectBinds, InstalledBinds
<1>17. CASE Tick
  BY <1>17 DEF Tick
<1>18. CASE UNCHANGED vars
  BY <1>18 DEF vars
<1> QED
  BY <1>1, <1>2, <1>3, <1>4, <1>5, <1>6, <1>7, <1>8, <1>9, <1>10, <1>11, <1>12,
      <1>13, <1>14, <1>15, <1>16, <1>17, <1>18 DEF Next, Client, Effects

\* What the operation that holds the mutex has checked stays true.
LEMMA OpStep == IInv /\ [Next]_vars => OpInv'
<1> SUFFICES ASSUME IInv, [Next]_vars PROVE OpInv'
  OBVIOUS
<1> USE NoSessionAssumption, BoundAssumption DEF IInv, TypeOK, OpInv, Serving,
    HeldByOther, LeaseElapsed, Roles, Session, Claim, Kinds, Steps, Operation,
    Op, Idle, Busy, None
<1>1. CASE Start
  BY <1>1 DEF Start
<1>2. CASE Reconciled
  BY <1>2 DEF Reconciled, RunOk, RunErr, EffectBinds
<1>3. ASSUME NEW o \in Owners, NEW role \in Roles, NEW callback \in BOOLEAN,
            AttachBegin(o, role, callback)
     PROVE  OpInv'
  BY <1>3 DEF AttachBegin, ClearBegins
<1>4. CASE AttachCleared
  BY <1>4 DEF AttachCleared, RunOk, RunErr, EffectBinds, NextStep
<1>5. CASE AttachInstalled
  BY <1>5 DEF AttachInstalled, RunOk, EffectBinds, RemainingLease,
      FollowAfterInstall, ClaimOf, InstalledBinds
<1>6. CASE AttachInstallFailed
  BY <1>6 DEF AttachInstallFailed, RunErr, EffectBinds, NextStep, ClearBegins,
      InstalledBinds
<1>7. CASE AttachRolledBack
  BY <1>7 DEF AttachRolledBack, RunOk, RunErr, EffectBinds
<1>8. ASSUME NEW o \in Owners, NEW c \in grants, DetachBegin(o, c)
     PROVE  OpInv'
  BY <1>8 DEF DetachBegin, ClearBegins, Named, Matches
<1>9. CASE DetachFinished
  BY <1>9 DEF DetachFinished, EndFinished, RunOk, RunErr, EffectBinds
<1>10. CASE ExpireBegin
  BY <1>10 DEF ExpireBegin, ClearBegins
<1>11. CASE ExpireFinished
  BY <1>11 DEF ExpireFinished, EndFinished, RunOk, RunErr, EffectBinds
<1>12. CASE Released
  BY <1>12 DEF Released, RunOk, RunErr, EffectBinds
<1>13. ASSUME NEW o \in Owners, NEW c \in grants, Renew(o, c)
     PROVE  OpInv'
  BY <1>13 DEF Renew, Matches
<1>14. CASE Shutdown
  BY <1>14 DEF Shutdown, EffectBinds, InstalledBinds
<1>15. CASE Crash
  BY <1>15 DEF Crash, EffectBinds, InstalledBinds
<1>16. CASE Cancel
  BY <1>16 DEF Cancel, EffectBinds, InstalledBinds
<1>17. CASE Tick
  BY <1>17 DEF Tick
<1>18. CASE UNCHANGED vars
  BY <1>18 DEF vars
<1> QED
  BY <1>1, <1>2, <1>3, <1>4, <1>5, <1>6, <1>7, <1>8, <1>9, <1>10, <1>11, <1>12,
      <1>13, <1>14, <1>15, <1>16, <1>17, <1>18 DEF Next, Client, Effects

\* Identifiers stay unique: an attach draws one that no claim carries.
LEMMA IdStep == IInv /\ [Next]_vars => IdInv'
<1> SUFFICES ASSUME IInv, [Next]_vars PROVE IdInv'
  OBVIOUS
<1> USE NoSessionAssumption, BoundAssumption DEF IInv, TypeOK, OpInv, IdInv,
    Serving, Roles, Session, Claim, Kinds, Steps, Operation, Op, Idle, Busy,
    None
<1>1. CASE Start
  BY <1>1 DEF Start
<1>2. CASE Reconciled
  BY <1>2 DEF Reconciled, RunOk, RunErr, EffectBinds
<1>3. ASSUME NEW o \in Owners, NEW role \in Roles, NEW callback \in BOOLEAN,
            AttachBegin(o, role, callback)
     PROVE  IdInv'
  BY <1>3 DEF AttachBegin, ClearBegins
<1>4. CASE AttachCleared
  BY <1>4 DEF AttachCleared, RunOk, RunErr, EffectBinds, NextStep
<1>5. CASE AttachInstalled
  BY <1>5 DEF AttachInstalled, RunOk, EffectBinds, RemainingLease,
      FollowAfterInstall, ClaimOf, InstalledBinds
<1>6. CASE AttachInstallFailed
  BY <1>6 DEF AttachInstallFailed, RunErr, EffectBinds, NextStep, ClearBegins,
      InstalledBinds
<1>7. CASE AttachRolledBack
  BY <1>7 DEF AttachRolledBack, RunOk, RunErr, EffectBinds
<1>8. ASSUME NEW o \in Owners, NEW c \in grants, DetachBegin(o, c)
     PROVE  IdInv'
  BY <1>8 DEF DetachBegin, ClearBegins, Named, Matches
<1>9. CASE DetachFinished
  BY <1>9 DEF DetachFinished, EndFinished, RunOk, RunErr, EffectBinds
<1>10. CASE ExpireBegin
  BY <1>10 DEF ExpireBegin, ClearBegins
<1>11. CASE ExpireFinished
  BY <1>11 DEF ExpireFinished, EndFinished, RunOk, RunErr, EffectBinds
<1>12. CASE Released
  BY <1>12 DEF Released, RunOk, RunErr, EffectBinds
<1>13. ASSUME NEW o \in Owners, NEW c \in grants, Renew(o, c)
     PROVE  IdInv'
  BY <1>13 DEF Renew, Matches
<1>14. CASE Shutdown
  BY <1>14 DEF Shutdown, EffectBinds, InstalledBinds
<1>15. CASE Crash
  BY <1>15 DEF Crash, EffectBinds, InstalledBinds
<1>16. CASE Cancel
  BY <1>16 DEF Cancel, EffectBinds, InstalledBinds
<1>17. CASE Tick
  BY <1>17 DEF Tick
<1>18. CASE UNCHANGED vars
  BY <1>18 DEF vars
<1> QED
  BY <1>1, <1>2, <1>3, <1>4, <1>5, <1>6, <1>7, <1>8, <1>9, <1>10, <1>11, <1>12,
      <1>13, <1>14, <1>15, <1>16, <1>17, <1>18 DEF Next, Client, Effects

\* An attach that may still publish used at most two hyprctl time limits.
LEMMA TimingStep == IInv /\ [Next]_vars => TimingInv'
<1> SUFFICES ASSUME IInv, [Next]_vars PROVE TimingInv'
  OBVIOUS
<1> USE NoSessionAssumption, BoundAssumption DEF IInv, TypeOK, OpInv,
    TimingInv, Attaching, Serving, Roles, Session, Claim, Kinds, Steps,
    Operation, Op, Idle, Busy, None
<1>1. CASE Start
  BY <1>1 DEF Start
<1>2. CASE Reconciled
  BY <1>2 DEF Reconciled, RunOk, RunErr, EffectBinds
<1>3. ASSUME NEW o \in Owners, NEW role \in Roles, NEW callback \in BOOLEAN,
            AttachBegin(o, role, callback)
     PROVE  TimingInv'
  BY <1>3 DEF AttachBegin, ClearBegins
<1>4. CASE AttachCleared
  BY <1>4 DEF AttachCleared, RunOk, RunErr, EffectBinds, NextStep
<1>5. CASE AttachInstalled
  BY <1>5 DEF AttachInstalled, RunOk, EffectBinds, RemainingLease,
      FollowAfterInstall, ClaimOf, InstalledBinds
<1>6. CASE AttachInstallFailed
  BY <1>6 DEF AttachInstallFailed, RunErr, EffectBinds, NextStep, ClearBegins,
      InstalledBinds
<1>7. CASE AttachRolledBack
  BY <1>7 DEF AttachRolledBack, RunOk, RunErr, EffectBinds
<1>8. ASSUME NEW o \in Owners, NEW c \in grants, DetachBegin(o, c)
     PROVE  TimingInv'
  BY <1>8 DEF DetachBegin, ClearBegins, Named, Matches
<1>9. CASE DetachFinished
  BY <1>9 DEF DetachFinished, EndFinished, RunOk, RunErr, EffectBinds
<1>10. CASE ExpireBegin
  BY <1>10 DEF ExpireBegin, ClearBegins
<1>11. CASE ExpireFinished
  BY <1>11 DEF ExpireFinished, EndFinished, RunOk, RunErr, EffectBinds
<1>12. CASE Released
  BY <1>12 DEF Released, RunOk, RunErr, EffectBinds
<1>13. ASSUME NEW o \in Owners, NEW c \in grants, Renew(o, c)
     PROVE  TimingInv'
  BY <1>13 DEF Renew, Matches
<1>14. CASE Shutdown
  BY <1>14 DEF Shutdown, EffectBinds, InstalledBinds
<1>15. CASE Crash
  BY <1>15 DEF Crash, EffectBinds, InstalledBinds
<1>16. CASE Cancel
  BY <1>16 DEF Cancel, EffectBinds, InstalledBinds
<1>17. CASE Tick
  BY <1>17 DEF Tick
<1>18. CASE UNCHANGED vars
  BY <1>18 DEF vars
<1> QED
  BY <1>1, <1>2, <1>3, <1>4, <1>5, <1>6, <1>7, <1>8, <1>9, <1>10, <1>11, <1>12,
      <1>13, <1>14, <1>15, <1>16, <1>17, <1>18 DEF Next, Client, Effects

\* Every clean-up stops follow-focus first, and only a publication starts it.
LEMMA FollowStep == IInv /\ [Next]_vars => FollowInv'
<1> SUFFICES ASSUME IInv, [Next]_vars PROVE FollowInv'
  OBVIOUS
<1> USE NoSessionAssumption, BoundAssumption DEF IInv, TypeOK, OpInv,
    FollowInv, FollowFocusBelongsToSession, Serving, Roles, Session, Claim,
    Kinds, Steps, Operation, Op, Idle, Busy, None
<1>1. CASE Start
  BY <1>1 DEF Start
<1>2. CASE Reconciled
  BY <1>2 DEF Reconciled, RunOk, RunErr, EffectBinds
<1>3. ASSUME NEW o \in Owners, NEW role \in Roles, NEW callback \in BOOLEAN,
            AttachBegin(o, role, callback)
     PROVE  FollowInv'
  BY <1>3 DEF AttachBegin, ClearBegins
<1>4. CASE AttachCleared
  BY <1>4 DEF AttachCleared, RunOk, RunErr, EffectBinds, NextStep
<1>5. CASE AttachInstalled
  BY <1>5 DEF AttachInstalled, RunOk, EffectBinds, RemainingLease,
      FollowAfterInstall, ClaimOf, InstalledBinds
<1>6. CASE AttachInstallFailed
  BY <1>6 DEF AttachInstallFailed, RunErr, EffectBinds, NextStep, ClearBegins,
      InstalledBinds
<1>7. CASE AttachRolledBack
  BY <1>7 DEF AttachRolledBack, RunOk, RunErr, EffectBinds
<1>8. ASSUME NEW o \in Owners, NEW c \in grants, DetachBegin(o, c)
     PROVE  FollowInv'
  BY <1>8 DEF DetachBegin, ClearBegins, Named, Matches
<1>9. CASE DetachFinished
  BY <1>9 DEF DetachFinished, EndFinished, RunOk, RunErr, EffectBinds
<1>10. CASE ExpireBegin
  BY <1>10 DEF ExpireBegin, ClearBegins
<1>11. CASE ExpireFinished
  BY <1>11 DEF ExpireFinished, EndFinished, RunOk, RunErr, EffectBinds
<1>12. CASE Released
  BY <1>12 DEF Released, RunOk, RunErr, EffectBinds
<1>13. ASSUME NEW o \in Owners, NEW c \in grants, Renew(o, c)
     PROVE  FollowInv'
  BY <1>13 DEF Renew, Matches
<1>14. CASE Shutdown
  BY <1>14 DEF Shutdown, EffectBinds, InstalledBinds
<1>15. CASE Crash
  BY <1>15 DEF Crash, EffectBinds, InstalledBinds
<1>16. CASE Cancel
  BY <1>16 DEF Cancel, EffectBinds, InstalledBinds
<1>17. CASE Tick
  BY <1>17 DEF Tick
<1>18. CASE UNCHANGED vars
  BY <1>18 DEF vars
<1> QED
  BY <1>1, <1>2, <1>3, <1>4, <1>5, <1>6, <1>7, <1>8, <1>9, <1>10, <1>11, <1>12,
      <1>13, <1>14, <1>15, <1>16, <1>17, <1>18 DEF Next, Client, Effects

\* Without faults the desktop follows the session through every operation.
LEMMA FaultFreeStep == IInv /\ [Next]_vars => FaultFreeInv'
<1> SUFFICES ASSUME IInv, [Next]_vars PROVE FaultFreeInv'
  OBVIOUS
<1> USE NoSessionAssumption, BoundAssumption DEF IInv, TypeOK, OpInv,
    FollowInv, FaultFreeInv, SessionBinds, SessionFollow, Ending, Attaching,
    Serving, Roles, Session, Claim, Kinds, Steps, Operation, Op, Idle, Busy,
    None
<1>1. CASE Start
  BY <1>1 DEF Start
<1>2. CASE Reconciled
  BY <1>2 DEF Reconciled, RunOk, RunErr, EffectBinds
<1>3. ASSUME NEW o \in Owners, NEW role \in Roles, NEW callback \in BOOLEAN,
            AttachBegin(o, role, callback)
     PROVE  FaultFreeInv'
  BY <1>3 DEF AttachBegin, ClearBegins
<1>4. CASE AttachCleared
  BY <1>4 DEF AttachCleared, RunOk, RunErr, EffectBinds, NextStep
<1>5. CASE AttachInstalled
  BY <1>5 DEF AttachInstalled, RunOk, EffectBinds, RemainingLease,
      FollowAfterInstall, ClaimOf, InstalledBinds
<1>6. CASE AttachInstallFailed
  BY <1>6 DEF AttachInstallFailed, RunErr, EffectBinds, NextStep, ClearBegins,
      InstalledBinds
<1>7. CASE AttachRolledBack
  BY <1>7 DEF AttachRolledBack, RunOk, RunErr, EffectBinds
<1>8. ASSUME NEW o \in Owners, NEW c \in grants, DetachBegin(o, c)
     PROVE  FaultFreeInv'
  BY <1>8 DEF DetachBegin, ClearBegins, Named, Matches
<1>9. CASE DetachFinished
  BY <1>9 DEF DetachFinished, EndFinished, RunOk, RunErr, EffectBinds
<1>10. CASE ExpireBegin
  BY <1>10 DEF ExpireBegin, ClearBegins
<1>11. CASE ExpireFinished
  BY <1>11 DEF ExpireFinished, EndFinished, RunOk, RunErr, EffectBinds
<1>12. CASE Released
  BY <1>12 DEF Released, RunOk, RunErr, EffectBinds
<1>13. ASSUME NEW o \in Owners, NEW c \in grants, Renew(o, c)
     PROVE  FaultFreeInv'
  BY <1>13 DEF Renew, Matches
<1>14. CASE Shutdown
  BY <1>14 DEF Shutdown, EffectBinds, InstalledBinds
<1>15. CASE Crash
  BY <1>15 DEF Crash, EffectBinds, InstalledBinds
<1>16. CASE Cancel
  BY <1>16 DEF Cancel, EffectBinds, InstalledBinds
<1>17. CASE Tick
  BY <1>17 DEF Tick
<1>18. CASE UNCHANGED vars
  BY <1>18 DEF vars
<1> QED
  BY <1>1, <1>2, <1>3, <1>4, <1>5, <1>6, <1>7, <1>8, <1>9, <1>10, <1>11, <1>12,
      <1>13, <1>14, <1>15, <1>16, <1>17, <1>18 DEF Next, Client, Effects

\* After one fault the next clean-up leaves no bindings behind.
LEMMA OneFaultStep == IInv /\ [Next]_vars => OneFaultInv'
<1> SUFFICES ASSUME IInv, [Next]_vars PROVE OneFaultInv'
  OBVIOUS
<1> USE NoSessionAssumption, BoundAssumption DEF IInv, TypeOK, OpInv,
    OneFaultInv, Ending, Attaching, Serving, InstalledBinds, Roles, Session,
    Claim, Kinds, Steps, Operation, Op, Idle, Busy, None
<1>1. CASE Start
  BY <1>1 DEF Start
<1>2. CASE Reconciled
  BY <1>2 DEF Reconciled, RunOk, RunErr, EffectBinds
<1>3. ASSUME NEW o \in Owners, NEW role \in Roles, NEW callback \in BOOLEAN,
            AttachBegin(o, role, callback)
     PROVE  OneFaultInv'
  BY <1>3 DEF AttachBegin, ClearBegins
<1>4. CASE AttachCleared
  BY <1>4 DEF AttachCleared, RunOk, RunErr, EffectBinds, NextStep
<1>5. CASE AttachInstalled
  BY <1>5 DEF AttachInstalled, RunOk, EffectBinds, RemainingLease,
      FollowAfterInstall, ClaimOf, InstalledBinds
<1>6. CASE AttachInstallFailed
  BY <1>6 DEF AttachInstallFailed, RunErr, EffectBinds, NextStep, ClearBegins,
      InstalledBinds
<1>7. CASE AttachRolledBack
  BY <1>7 DEF AttachRolledBack, RunOk, RunErr, EffectBinds
<1>8. ASSUME NEW o \in Owners, NEW c \in grants, DetachBegin(o, c)
     PROVE  OneFaultInv'
  BY <1>8 DEF DetachBegin, ClearBegins, Named, Matches
<1>9. CASE DetachFinished
  BY <1>9 DEF DetachFinished, EndFinished, RunOk, RunErr, EffectBinds
<1>10. CASE ExpireBegin
  BY <1>10 DEF ExpireBegin, ClearBegins
<1>11. CASE ExpireFinished
  BY <1>11 DEF ExpireFinished, EndFinished, RunOk, RunErr, EffectBinds
<1>12. CASE Released
  BY <1>12 DEF Released, RunOk, RunErr, EffectBinds
<1>13. ASSUME NEW o \in Owners, NEW c \in grants, Renew(o, c)
     PROVE  OneFaultInv'
  BY <1>13 DEF Renew, Matches
<1>14. CASE Shutdown
  BY <1>14 DEF Shutdown, EffectBinds, InstalledBinds
<1>15. CASE Crash
  BY <1>15 DEF Crash, EffectBinds, InstalledBinds
<1>16. CASE Cancel
  BY <1>16 DEF Cancel, EffectBinds, InstalledBinds
<1>17. CASE Tick
  BY <1>17 DEF Tick
<1>18. CASE UNCHANGED vars
  BY <1>18 DEF vars
<1> QED
  BY <1>1, <1>2, <1>3, <1>4, <1>5, <1>6, <1>7, <1>8, <1>9, <1>10, <1>11, <1>12,
      <1>13, <1>14, <1>15, <1>16, <1>17, <1>18 DEF Next, Client, Effects

(* The inductive invariant: it holds at the start, and each part of it is  *)
(* kept by every step of Next.                                             *)
THEOREM Invariance == Spec => []IInv
<1>1. Init => IInv
  BY NoSessionAssumption, BoundAssumption
  DEF Init, IInv, TypeOK, OpInv, IdInv, TimingInv, FollowInv,
      FollowFocusBelongsToSession, FaultFreeInv, OneFaultInv, SessionBinds,
      SessionFollow, Ending, Attaching, Serving, Roles, Session, Kinds, Steps,
      Operation, Op, Idle, None
<1>2. IInv /\ [Next]_vars => IInv'
  BY TypeStep, OpStep, IdStep, TimingStep, FollowStep, FaultFreeStep,
     OneFaultStep DEF IInv
<1> QED
  BY <1>1, <1>2, PTL DEF Spec

(* Type correctness of the coordinator's state.                            *)
THEOREM TypeCorrectness == Spec => []TypeOK
<1>1. IInv => TypeOK
  BY DEF IInv
<1> QED
  BY <1>1, Invariance, PTL

(* Follow-focus runs only for the published session, whatever fails.       *)
THEOREM FollowFocusSafety == Spec => []FollowFocusBelongsToSession
<1>1. IInv => FollowFocusBelongsToSession
  BY DEF IInv, FollowInv
<1> QED
  BY <1>1, Invariance, PTL

(* Without faults the desktop's bindings are those of the session.         *)
THEOREM FaultFreeInput == Spec => []FaultFreeInputMatchesSession
<1>1. IInv => FaultFreeInputMatchesSession
  BY DEF IInv, FaultFreeInv, FaultFreeInputMatchesSession, SessionBinds,
         SessionFollow, Serving, Idle, Op
<1> QED
  BY <1>1, Invariance, PTL

(* One failing hyprctl call or one crash leaves no orphaned bindings once  *)
(* the agent serves: attach rolls back, detach and expiry keep the session *)
(* they could not clean up, a restart reconciles.                          *)
THEOREM OneFaultTolerated == Spec => []OneFaultOrphansNothing
<1>1. IInv => OneFaultOrphansNothing
  BY DEF OneFaultOrphansNothing, IInv, TypeOK, OpInv, OneFaultInv, NoOrphanedKeybinds, Ending,
         Attaching, Serving, Operation, Kinds
<1> QED
  BY <1>1, Invariance, PTL

(* Only its owner ends a session whose lease runs.                         *)
THEOREM EndsOnlyByRight == Spec => SessionEndsOnlyByRight
<1> DEFINE Right == Live /\ active' # active =>
              \/ op.kind = "attach" /\ op.session.owner = active.owner
              \/ op.kind = "detach" /\ op.session = active
              \/ status' = "down"
<1>1. IInv /\ [Next]_vars => [Right]_vars
  <2> SUFFICES ASSUME IInv, Next, Live, active' # active PROVE Right
    OBVIOUS
  <2> USE DEF IInv, OpInv, Live, Snapshot, LeaseElapsed, HeldByOther
  <2>1. CASE Start
    BY <2>1 DEF Start
  <2>2. CASE AttachInstalled
    BY <2>2 DEF AttachInstalled
  <2>3. CASE AttachRolledBack
    BY <2>3 DEF AttachRolledBack
  <2>4. CASE DetachFinished
    BY <2>4 DEF DetachFinished, EndFinished
  <2>5. CASE ExpireFinished
    BY <2>5 DEF ExpireFinished, EndFinished
  <2>6. CASE Released
    BY <2>6 DEF Released
  <2>7. CASE Crash
    BY <2>7 DEF Crash
  <2> QED
    BY <2>1, <2>2, <2>3, <2>4, <2>5, <2>6, <2>7
    DEF Next, Client, Effects, Reconciled, AttachBegin, AttachCleared,
        AttachInstallFailed, DetachBegin, Renew, ExpireBegin, Shutdown,
        Cancel, Tick
<1> QED
  BY <1>1, Invariance, PTL DEF Spec, SessionEndsOnlyByRight

(* The coordinator implements SessionLease: a published session is a Grant *)
(* (its identifier is new, and its lease still runs because two hyprctl    *)
(* calls are shorter than a lease), the end of a live session or of its    *)
(* lease is an End, and everything else is invisible.                      *)
THEOREM Refinement == Spec => ImplementsLease
<1>1. Init => Promise!Init
  BY DEF Init, Promise!Init, Holder, GrantedIds, Live, Snapshot, LeaseElapsed
<1>2. IInv /\ [Next]_vars => [Promise!Next]_(Promise!leaseVars)
  <2> SUFFICES ASSUME IInv, [Next]_vars
               PROVE  Promise!Next \/ UNCHANGED <<Holder, GrantedIds>>
    BY DEF Promise!leaseVars
  <2> USE DEF IInv, Holder, Live, Snapshot, LeaseElapsed
  <2>1. ASSUME UNCHANGED grants, Holder' \in {Holder, NoSession}
        PROVE  Promise!Next \/ UNCHANGED <<Holder, GrantedIds>>
    BY <2>1 DEF Promise!Next, Promise!End, GrantedIds
  <2>2. CASE AttachInstalled
    <3> DEFINE s == op.session
    <3>1. /\ s \in Session /\ s.id = nextId /\ s.id \in 1 .. MaxAttaches
          /\ \A c \in grants : c.id # s.id
          /\ ~HeldByOther(s.owner)
      BY <2>2, BoundAssumption DEF AttachInstalled, OpInv, IdInv, TypeOK
    <3>2. timer' # 0
      BY <2>2, BoundAssumption, TimingAssumption
      DEF AttachInstalled, RemainingLease, TypeOK, TimingInv, Attaching,
          Operation
    <3>3. active' = s /\ active' # NoSession
      BY <2>2, <3>1, NoSessionAssumption DEF AttachInstalled
    <3>4. Holder' = [id |-> s.id, owner |-> s.owner]
      BY <3>2, <3>3
    <3>5. GrantedIds' = GrantedIds \cup {s.id}
      <4>1. grants' = grants \cup {ClaimOf(s)} /\ ClaimOf(s).id = s.id
        BY <2>2 DEF AttachInstalled, ClaimOf
      <4> HIDE DEF s
      <4> QED
        BY <4>1 DEF GrantedIds
    <3>6. s.id \notin GrantedIds
      BY <3>1 DEF GrantedIds
    <3>7. Holder # NoSession => Holder.owner = s.owner
      BY <3>1 DEF HeldByOther
    <3>8. s.owner \in Owners
      BY <3>1 DEF Session
    <3>9. Promise!Grant(s.owner, s.id)
      BY <3>4, <3>5, <3>6, <3>7 DEF Promise!Grant
    <3> QED
      BY <3>1, <3>8, <3>9 DEF Promise!Next
  <2>3. CASE Tick
    <3>1. UNCHANGED <<active, grants>> /\ (timer = 0 => timer' = 0)
      BY <2>3 DEF Tick
    <3> QED
      BY <2>1, <3>1
  <2>4. ASSUME NEW o \in Owners, NEW c \in grants, Renew(o, c)
        PROVE  Promise!Next \/ UNCHANGED <<Holder, GrantedIds>>
    <3>1. timer # 0 /\ timer' # 0 /\ UNCHANGED <<active, grants>>
      BY <2>4, BoundAssumption, TimingAssumption DEF Renew
    <3> QED
      BY <2>1, <3>1
  <2>5. CASE UNCHANGED <<active, timer, grants>>
    BY <2>1, <2>5
  <2>6. CASE active' = NoSession /\ UNCHANGED grants
    BY <2>1, <2>6
  <2>7. \/ AttachInstalled \/ Tick
        \/ \E o \in Owners, c \in grants : Renew(o, c)
        \/ UNCHANGED <<active, timer, grants>>
        \/ active' = NoSession /\ UNCHANGED grants
    BY DEF Next, Client, Effects, vars, Start, Reconciled, AttachBegin,
           AttachCleared, AttachInstallFailed, AttachRolledBack, DetachBegin,
           DetachFinished, ExpireBegin, ExpireFinished, EndFinished, Released,
           Shutdown, Crash, Cancel
  <2> QED
    BY <2>2, <2>3, <2>4, <2>5, <2>6, <2>7
<1> QED
  BY <1>1, <1>2, Invariance, PTL DEF Spec, ImplementsLease, Promise!Spec

===============================================================================
