------------------------- MODULE SessionCoordinator -------------------------
(***************************************************************************)
(* The agent's desktop session: crates/omdesky-agent/src/session.rs, the   *)
(* effects it runs (session.rs KeybindSessionEffects and the Hyprland key  *)
(* bindings of omdesky-platform/src/input.rs) and the agent's life cycle   *)
(* (main.rs).                                                              *)
(*                                                                         *)
(* One tokio mutex guards the state and stays locked while an operation    *)
(* awaits hyprctl, so an operation is a sequence of steps during which     *)
(* `op' is busy: time passes, the client may disconnect (which drops the   *)
(* handler and unlocks the mutex at the await), the process may die, but   *)
(* no other operation runs.  Operations that never await are one step.     *)
(* A request that is refused or ignored changes nothing and is not an      *)
(* action.  Operators named Bad... are plausible mistakes in the           *)
(* definition that follows them; no action uses them.  They show that the  *)
(* properties tell the code from its faulty variants.                      *)
(*                                                                         *)
(* expires_at is kept as the time left, so that time needs no bound; None  *)
(* is 0, because every reader treats None as a deadline that has passed.   *)
(***************************************************************************)
EXTENDS Naturals

CONSTANTS Owners,          \* Tailnet node identities that may call the agent
          NoSession,       \* active = None
          Lease,           \* DEFAULT_LEASE in ticks
          EffectTimeout,   \* the time limit of one hyprctl call, in ticks
          MaxGeneration,   \* u64::MAX, where saturating_add stops
          MaxAttaches,     \* bound: session identifiers drawn in a behaviour
          MaxFaults,       \* bound: failing hyprctl calls and crashes
          MaxCancels       \* bound: handlers dropped by a disconnecting client

VARIABLES status,          \* the agent process
          active,          \* CoordinatorState.active
          timer,           \* CoordinatorState.expires_at, as the time left
          generation,      \* CoordinatorState.generation
          op,              \* the operation that holds the mutex
          keybinds,        \* Hyprland: whose session key bindings are bound
          followFocus,     \* the session whose follow-focus tasks run
          nextId,          \* identifiers drawn so far (SessionId::new)
          grants,          \* every claim handed to a client
          faults,          \* faults so far
          cancels          \* cancellations so far

vars == <<status, active, timer, generation, op, keybinds, followFocus,
          nextId, grants, faults, cancels>>

None == 0                  \* no key bindings, no follow-focus

Roles == {"controller", "remote"}
Session == [id : Nat \ {0}, generation : Nat, owner : Owners,
            role : Roles, callback : BOOLEAN]
Claim == [id : Nat \ {0}, generation : Nat]

Kinds == {"idle", "reconcile", "attach", "detach", "expire", "release"}
Steps == {"none", "clear", "install", "rollback"}
Operation == [kind : Kinds, step : Steps, session : Session \cup {NoSession},
              spent : Nat, waited : Nat]

ASSUME NoSessionAssumption == NoSession \notin Session
ASSUME BoundAssumption ==
    /\ Lease \in Nat
    /\ EffectTimeout \in Nat
    /\ MaxGeneration \in Nat \ {0}
    /\ MaxAttaches \in Nat
    /\ MaxFaults \in Nat
    /\ MaxCancels \in Nat
\* An attach awaits two hyprctl calls before it publishes: 2 * 10 s < 45 s.
ASSUME TimingAssumption == 2 * EffectTimeout < Lease

-----------------------------------------------------------------------------
Op(kind, step, session, spent, waited) ==
    [kind |-> kind, step |-> step, session |-> session,
     spent |-> spent, waited |-> waited]
Idle == Op("idle", "none", NoSession, 0, 0)
Busy(kind, session) == Op(kind, "clear", session, 0, 0)
NextStep(step) == Op(op.kind, step, op.session, op.spent, 0)

Serving == status = "serving"
LeaseElapsed == timer = 0
Snapshot == IF LeaseElapsed THEN NoSession ELSE active
HeldByOther(o) == active # NoSession /\ active.owner # o /\ ~LeaseElapsed
ClaimOf(s) == [id |-> s.id, generation |-> s.generation]
BadMatchesGeneration(c) == active.generation = c.generation
Matches(c) == active.id = c.id /\ active.generation = c.generation
\* The session that a request of o carrying claim c speaks for.
Named(o, c) ==
    [id |-> c.id, generation |-> c.generation, owner |-> o,
     role |-> active.role, callback |-> active.callback]

(***************************************************************************)
(* What Hyprland holds once the pending hyprctl call has run.  The install *)
(* script removes the previous bindings first, and registers none for a    *)
(* remote session without a controller to call back.                       *)
(***************************************************************************)
InstalledBinds(s) ==
    IF s.role = "remote" /\ ~s.callback THEN None ELSE s.id
EffectBinds ==
    IF op.step = "install" THEN InstalledBinds(op.session) ELSE None

RunOk == keybinds' = EffectBinds /\ UNCHANGED faults
\* hyprctl fails or times out; Hyprland may have run the script all the same.
RunErr ==
    /\ faults < MaxFaults
    /\ faults' = faults + 1
    /\ keybinds' \in {keybinds, EffectBinds}

\* KeybindSessionEffects::clear stops follow-focus before it runs hyprctl.
BadClearKeepsFollowFocus == UNCHANGED followFocus
ClearBegins == followFocus' = None

\* The follow_focus call at the end of a successful install.
BadFollowsAnyRole(s) == IF s.callback THEN s.id ELSE None
FollowAfterInstall(s) ==
    IF s.role = "remote"
    THEN IF s.callback THEN s.id ELSE None
    ELSE followFocus

-----------------------------------------------------------------------------
Init ==
    /\ status = "down"
    /\ active = NoSession
    /\ timer = 0
    /\ generation = 0
    /\ op = Idle
    /\ keybinds = None
    /\ followFocus = None
    /\ nextId = 0
    /\ grants = {}
    /\ faults = 0
    /\ cancels = 0

(* main: a new process reconciles before it listens, and listens even when *)
(* the clean-up failed.                                                     *)
Start ==
    /\ status = "down"
    /\ status' = "starting"
    /\ active' = NoSession
    /\ timer' = 0
    /\ generation' = 0
    /\ op' = Busy("reconcile", NoSession)
    /\ followFocus' = None
    /\ UNCHANGED <<keybinds, nextId, grants, faults, cancels>>

Reconciled ==
    /\ op.kind = "reconcile"
    /\ RunOk \/ RunErr
    /\ status' = "serving"
    /\ op' = Idle
    /\ UNCHANGED <<active, timer, generation, followFocus, nextId, grants,
                   cancels>>

(* SessionCoordinator::attach up to its first await.  The generation is    *)
(* spent even when the attach fails later.                                 *)
AttachBegin(o, role, callback) ==
    /\ Serving /\ op = Idle
    /\ nextId < MaxAttaches
    /\ ~HeldByOther(o)
    /\ generation' = IF generation < MaxGeneration THEN generation + 1
                                                   ELSE MaxGeneration
    /\ nextId' = nextId + 1
    /\ op' = Busy("attach",
                  [id |-> nextId', generation |-> generation', owner |-> o,
                   role |-> role, callback |-> callback])
    /\ ClearBegins
    /\ UNCHANGED <<status, active, timer, keybinds, grants, faults, cancels>>

\* A failed clean-up of the previous session is only logged.
AttachCleared ==
    /\ op.kind = "attach" /\ op.step = "clear"
    /\ RunOk \/ RunErr
    /\ op' = NextStep("install")
    /\ UNCHANGED <<status, active, timer, generation, followFocus, nextId,
                   grants, cancels>>

\* now was read before the effects ran: they use up a part of the lease.
RemainingLease(spent) == IF spent < Lease THEN Lease - spent ELSE 0

AttachInstalled ==
    /\ op.kind = "attach" /\ op.step = "install"
    /\ RunOk
    /\ active' = op.session
    /\ timer' = RemainingLease(op.spent)
    /\ followFocus' = FollowAfterInstall(op.session)
    /\ grants' = grants \cup {ClaimOf(op.session)}
    /\ op' = Idle
    /\ UNCHANGED <<status, generation, nextId, cancels>>

BadAttachWithoutRollback ==
    /\ op.kind = "attach" /\ op.step = "install"
    /\ RunErr
    /\ active' = NoSession
    /\ timer' = 0
    /\ op' = Idle
    /\ UNCHANGED <<status, generation, followFocus, nextId, grants, cancels>>

AttachInstallFailed ==
    /\ op.kind = "attach" /\ op.step = "install"
    /\ RunErr
    /\ op' = NextStep("rollback")
    /\ ClearBegins
    /\ UNCHANGED <<status, active, timer, generation, nextId, grants, cancels>>

\* Whatever the second clean-up reports, the session is dropped.
AttachRolledBack ==
    /\ op.kind = "attach" /\ op.step = "rollback"
    /\ RunOk \/ RunErr
    /\ active' = NoSession
    /\ timer' = 0
    /\ op' = Idle
    /\ UNCHANGED <<status, generation, followFocus, nextId, grants, cancels>>

(* SessionCoordinator::detach.  The lease is not consulted.                *)
DetachBegin(o, c) ==
    /\ Serving /\ op = Idle
    /\ active # NoSession
    /\ active.owner = o
    /\ Matches(c)
    /\ op' = Busy("detach", Named(o, c))
    /\ ClearBegins
    /\ UNCHANGED <<status, active, timer, generation, keybinds, nextId, grants,
                   faults, cancels>>

\* SessionCoordinator::expire_due, called by run_lease_expiry.
ExpireBegin ==
    /\ Serving /\ op = Idle
    /\ active # NoSession
    /\ LeaseElapsed
    /\ op' = Busy("expire", NoSession)
    /\ ClearBegins
    /\ UNCHANGED <<status, active, timer, generation, keybinds, nextId, grants,
                   faults, cancels>>

BadEndForgetsOnError(kind) ==
    /\ op.kind = kind
    /\ RunOk \/ RunErr
    /\ active' = NoSession
    /\ timer' = 0
    /\ op' = Idle
    /\ UNCHANGED <<status, generation, followFocus, nextId, grants, cancels>>

\* Detach and expiry forget the session only once hyprctl reports success.
EndFinished(kind) ==
    /\ op.kind = kind
    /\ \/ RunOk /\ active' = NoSession /\ timer' = 0
       \/ RunErr /\ UNCHANGED <<active, timer>>
    /\ op' = Idle
    /\ UNCHANGED <<status, generation, followFocus, nextId, grants, cancels>>

DetachFinished == EndFinished("detach")
ExpireFinished == EndFinished("expire")

BadRenewAfterDeadline(o, c) ==
    /\ Serving /\ op = Idle
    /\ active # NoSession
    /\ active.owner = o
    /\ Matches(c)
    /\ timer' = Lease
    /\ UNCHANGED <<status, active, generation, op, keybinds, followFocus,
                   nextId, grants, faults, cancels>>

\* SessionCoordinator::renew.
Renew(o, c) ==
    /\ Serving /\ op = Idle
    /\ active # NoSession
    /\ active.owner = o
    /\ Matches(c)
    /\ ~LeaseElapsed
    /\ timer' = Lease
    /\ UNCHANGED <<status, active, generation, op, keybinds, followFocus,
                   nextId, grants, faults, cancels>>

(* main: serving ends once the requests in flight have; the expiry task is *)
(* aborted, maybe in the middle of its hyprctl call, and the session is    *)
(* released.  Without a session the process just exits.                    *)
Shutdown ==
    /\ Serving
    /\ \/ op = Idle /\ UNCHANGED keybinds
       \/ op.kind = "expire" /\ keybinds' \in {keybinds, EffectBinds}
    /\ IF active = NoSession
       THEN status' = "down" /\ op' = Idle
       ELSE status' = "stopping" /\ op' = Busy("release", NoSession)
    /\ followFocus' = None
    /\ UNCHANGED <<active, timer, generation, nextId, grants, faults, cancels>>

Released ==
    /\ op.kind = "release"
    /\ RunOk \/ RunErr
    /\ active' = NoSession
    /\ timer' = 0
    /\ status' = "down"
    /\ op' = Idle
    /\ UNCHANGED <<generation, followFocus, nextId, grants, cancels>>

(* The process dies.  Hyprland keeps its bindings; a hyprctl call in       *)
(* flight may or may not have reached it.                                  *)
Crash ==
    /\ status # "down"
    /\ faults < MaxFaults
    /\ faults' = faults + 1
    /\ status' = "down"
    /\ active' = NoSession
    /\ timer' = 0
    /\ op' = Idle
    /\ followFocus' = None
    /\ keybinds' \in IF op = Idle THEN {keybinds} ELSE {keybinds, EffectBinds}
    /\ UNCHANGED <<generation, nextId, grants, cancels>>

(* The client of an attach or a detach disconnects (its own limit is 10 s, *)
(* as long as one hyprctl call): the HTTP server drops the handler at its  *)
(* await, which unlocks the mutex and kills hyprctl.                       *)
Cancel ==
    /\ op.kind \in {"attach", "detach"}
    /\ cancels < MaxCancels
    /\ cancels' = cancels + 1
    /\ keybinds' \in {keybinds, EffectBinds}
    /\ op' = Idle
    /\ UNCHANGED <<status, active, timer, generation, followFocus, nextId,
                   grants, faults>>

(* Time passes, but no hyprctl call outlives its time limit.               *)
Tick ==
    /\ op # Idle => op.waited < EffectTimeout
    /\ timer' = IF timer = 0 THEN 0 ELSE timer - 1
    /\ op' = IF op = Idle THEN Idle
             ELSE Op(op.kind, op.step, op.session, op.spent + 1, op.waited + 1)
    /\ UNCHANGED <<status, active, generation, keybinds, followFocus, nextId,
                   grants, faults, cancels>>

-----------------------------------------------------------------------------
\* A client may present any claim ever granted, late or to the wrong agent.
Client ==
    \/ \E o \in Owners, role \in Roles, callback \in BOOLEAN :
           AttachBegin(o, role, callback)
    \/ \E o \in Owners, c \in grants : DetachBegin(o, c) \/ Renew(o, c)

Effects ==
    \/ Reconciled
    \/ AttachCleared
    \/ AttachInstalled
    \/ AttachInstallFailed
    \/ AttachRolledBack
    \/ DetachFinished
    \/ ExpireFinished
    \/ Released

Next ==
    \/ Start
    \/ Client
    \/ Effects
    \/ ExpireBegin
    \/ Shutdown
    \/ Crash
    \/ Cancel
    \/ Tick

Spec == Init /\ [][Next]_vars

(* Time passes, a hyprctl call ends (it has a time limit), and the expiry  *)
(* task, which queues for the mutex every LEASE_SWEEP_INTERVAL and gets it *)
(* in turn, runs.  Clients, shutdowns and faults owe nothing.              *)
Fairness ==
    /\ WF_vars(Tick)
    /\ WF_vars(Effects)
    /\ SF_vars(ExpireBegin)

FairSpec == Spec /\ Fairness

-----------------------------------------------------------------------------
(* Correctness.                                                            *)

(* Types; a lease never has more left than attach or renew gives it.       *)
TypeOK ==
    /\ status \in {"down", "starting", "serving", "stopping"}
    /\ active \in Session \cup {NoSession}
    /\ timer \in 0 .. Lease
    /\ generation \in 0 .. MaxGeneration
    /\ op \in Operation
    /\ keybinds \in Nat
    /\ followFocus \in Nat
    /\ nextId \in 0 .. MaxAttaches
    /\ grants \subseteq Claim
    /\ faults \in 0 .. MaxFaults
    /\ cancels \in 0 .. MaxCancels

Live == Snapshot # NoSession

(* Follow-focus tasks, which switch the display of the controller's        *)
(* stream, run only for the session that is published, and only when that  *)
(* session has a controller to call: whichever of the clean-ups fail, get  *)
(* cancelled or never happen (KeybindSessionEffects::clear stops them      *)
(* before it runs hyprctl).                                                *)
FollowFocusBelongsToSession ==
    followFocus # None =>
        /\ active # NoSession
        /\ followFocus = active.id
        /\ active.role = "remote" /\ active.callback

(* As long as hyprctl works, the agent survives and no client disconnects, *)
(* the bindings and the follow-focus tasks of the desktop are those of the *)
(* published session whenever no operation is under way, through any       *)
(* sequence of attach, re-attach, detach, expiry, shutdown and restart.    *)
FaultFreeInputMatchesSession ==
    Serving /\ op = Idle /\ faults = 0 /\ cancels = 0 =>
        IF active = NoSession
        THEN keybinds = None /\ followFocus = None
        ELSE /\ keybinds = InstalledBinds(active)
             /\ followFocus = IF active.role = "remote" /\ active.callback
                              THEN active.id ELSE None

(* Key bindings belong to the published session, or the agent is replacing *)
(* them: no orphaned bindings (session.rs attach rolls back; detach and    *)
(* expire_due keep a session they could not clean up).                     *)
NoOrphanedKeybinds ==
    Serving /\ op.kind # "attach" /\ keybinds # None =>
        active # NoSession /\ keybinds = active.id

(* One failing hyprctl call or one crash, wherever it strikes, orphans no  *)
(* bindings; a second one may (session.rs attach ignores a failing         *)
(* rollback), and so may a client that disconnects.                        *)
OneFaultOrphansNothing == faults <= 1 /\ cancels = 0 => NoOrphanedKeybinds

(* A session whose lease runs is ended by nobody but its owner: by a new   *)
(* attach of that device, or by a detach that names exactly this session.  *)
(* The only other end is that of the agent process.                        *)
SessionEndsOnlyByRight ==
    [][Live /\ active' # active =>
          \/ op.kind = "attach" /\ op.session.owner = active.owner
          \/ op.kind = "detach" /\ op.session = active
          \/ status' = "down"]_vars

(* The coordinator implements SessionLease: one holder, no takeover, no    *)
(* revival of an ended or lapsed session, and no grant that has lapsed     *)
(* before it is handed out.                                                *)
Holder == IF Live THEN [id |-> active.id, owner |-> active.owner]
                  ELSE NoSession
GrantedIds == {c.id : c \in grants}
Promise == INSTANCE SessionLease WITH
               Ids <- 1 .. MaxAttaches, NoHolder <- NoSession,
               holder <- Holder, granted <- GrantedIds
ImplementsLease == Promise!Spec

(* Bindings that outlive the lease of their session do not stay: expire_due*)
(* removes them, or the device or another one is granted the session, even *)
(* if one of the calls that should remove them fails.                      *)
StaleInputRestored ==
    (Serving /\ keybinds # None /\ ~Live)
        ~> (keybinds = None \/ Live \/ ~Serving \/ faults > 1 \/ cancels > 0)
=============================================================================
