# A TLA+ model of omdesky

omdesky lets one Omarchy/Hyprland desktop (the *controller*) stream and operate
another (the *remote*) through Sunshine and Moonlight.  An agent runs on every
desktop; the controller's `omdesky connect` talks to the remote's agent over the
tailnet.  This directory models the parts of the program that keep state and
share it: the desktop session and its lease, the controller's life cycle, what
the programs of one desktop share, the admission of requests, commands and the
desktops they act on, pairing, access and discovery, follow-focus, and the user
interface.  Line numbers are in `PROJECT.json` ("map"), which names the source of
every definition.

## 1. Inventory

| Part (crate) | State | Operations | Talks to |
|---|---|---|---|
| Session coordinator (agent `session.rs`) | active session, deadline, generation, behind one tokio mutex | reconcile, attach, detach, renew, expire_due, release, snapshot | key bindings, follow-focus supervisor |
| Agent life cycle (agent `main.rs`, systemd unit) | process up / down | start-up clean-up, serve, shutdown, restart on failure | session coordinator |
| Session key bindings (platform `input.rs`) | bindings held by Hyprland, outside the process | install, clear (one `hyprctl` call each, 10 s limit) | Hyprland |
| Replay guard (agent `replay.rs`) | identifiers seen, with the instant | admit | `run_command` |
| Pairing challenges (agent `pairing.rs`, `lib.rs`) | open challenges, issue counters (two mutexes) | issue, consume, then submit the PIN | Sunshine |
| Authorizer (agent `authorize.rs`) | identity cache, allowlist cache, lookup permits | authorize: identify, allowlist | Tailscale, access file |
| Rate limiter (agent `authorize.rs`) | token buckets by address | admit, prune | authorizer |
| Connect (application `services.rs`) | stage of the stream, grant, heartbeat, failure counters | launch, attach, renew, monitor, detach | both agents, local key bindings |
| Follow-focus (application and platform `display.rs`, agent `lib.rs`) | streamed, pending and deadline of the router; the source of signals | signal, reevaluate, commit; on the controller: resolve, send shortcut | Hyprland, the controller's agent, Moonlight |
| Session record, connect / disconnect commands (platform `session_record.rs`, CLI) | one file for all commands | write, remove if owned | processes by identity |
| Access store (platform `access.rs`) | one file for agent, CLI and interface; a mutex in each process | list, allow, revoke | authorizer, discovery, connect |
| Command relay (agent `lib.rs`) | none | check a command, forward it to the session's controller or carry it out | another agent, shortcuts |
| Shortcuts (platform `input.rs`) | focus, keys and timers of Hyprland | send a shortcut, close a window | Hyprland |
| Stream pairing (application `services.rs`, platform `moonlight.rs`, `sunshine.rs`) | a `moonlight pair` process | ask, challenge, spawn, read the PIN, submit, complete, ask again | agent, Moonlight, Sunshine |
| Discovery, readiness, target resolution (application) | none kept | probe every device, name what stands in the way; find a device by name | agents, access store |
| Terminal user interface (tui `lib.rs`) | device list, stream and pending device, readiness, overlay, in one loop | apply a report, handle a key, start a stream that waits | background tasks through a channel: discovery, checks, connect, access store |
| CLI, doctor, adapters, configuration | files | parse, run one command | everything above |

What is hard in this program, and what would make each part wrong:

* **Session.**  The mutex is held across `hyprctl` calls that may fail, time out
  *after* having taken effect, or be dropped with the handler when the client
  disconnects; the process may die at each of these points while the bindings
  live on in Hyprland.  Correct means: a live lease cannot be taken or ended by
  somebody else, bindings and follow-focus tasks belong to the published session,
  and what remains of a dead session goes away.
* **Connect.**  Answers are lost, requests arrive after their sender has given
  up, the heartbeat is aborted in mid-request, either side is killed.  Correct
  means: a healthy stream keeps its session, the controller's own shortcuts come
  back, a late message ends nothing newer, an abandoned session ends.
* **Admission** (replay, pairing, authorizer, limiter).  Every handler reads the
  clock *before* it waits for a mutex or a lookup and works with that stale
  instant afterwards; tables are pruned at their limits.  Correct means: limits
  hold, a challenge or request identifier is used once, decisions rest on facts
  that are not older than the caches promise.
* **Follow-focus.**  The router keeps a belief about what is streamed; requests
  fail or take effect late, displays come and go between two reads, signals
  arrive during an await.  Correct means: the belief is right, and the stream ends
  up where the focus is.
* **One desktop, many programs.**  `omdesky connect`, the interface, `omdesky
  disconnect` and the desktop's own agent write one session file and one table of
  bindings, without a lock, and know processes by numbers that are reused.  Correct
  means: no record outlives its session, no stranger is signalled, bindings belong
  to a session that goes on, and disconnect ends the stream.
* **Commands.**  An agent answers for the agent it relays to; sessions may form a
  circle; a shortcut runs by timers after its answer.  Correct means: "executed" is
  true, every command is answered, focus and keys are as before.
* **Pairing.**  Five waits, each with its limit, around a child process.  Correct
  means: the process goes with the attempt, the challenge lives long enough, and
  success is a pairing that its owner approved.
* **Access.**  Several processes edit one file; discovery and connect judge access by
  different questions at different times.  Correct means: no change is lost, nobody
  is granted anything by accident, and the two judgements agree.
* **User interface.**  Tasks report in any order, and between two reports the user
  presses keys.  Correct means: what it tells the user to wait for is under way,
  streams never overlap, and a device the user switched to gets its turn.

`PROJECT.json` lists these places line by line under "hazards".

## 2. Modules

| Module | Models | Lines of argument |
|---|---|---|
| `SessionLease` | abstract: what any agent promises about who holds the desktop | refined by the next two |
| `SessionCoordinator` | coordinator, effects, agent life cycle | TLC, TLAPS (`SessionCoordinatorProofs`) |
| `ConnectSession` | controllers, network and the agent's side of the session | TLC, TLAPS (`ConnectSessionProofs`) |
| `ReplayGuard` | `ReplayGuard::admit` | TLC, TLAPS (`CommandProofs`) |
| `Gate` | `RateLimiter` and `ReplayGuard` composed, as a command meets them | TLC, TLAPS (`CommandProofs`) |
| `PairingChallenges` | issue, consume, submit | TLC in `PairStream`, TLAPS (`PairStreamProofs`) |
| `PairStream` | a pairing attempt, composed with `PairingChallenges` | TLC, TLAPS (`PairStreamProofs`) |
| `ControllerDesktop` | connects, disconnect and the agent of one desktop | TLC, TLAPS (`ControllerDesktopProofs`) |
| `Shortcuts` | a desktop: focus, keys, scripts | TLC in `CommandRelay`, TLAPS (`CommandProofs`) |
| `CommandRelay` | commands sent, checked, relayed, carried out, answered; extends `Shortcuts` | TLC, TLAPS (`CommandProofs`) |
| `Access` | allowlist and its editors, discovery, a connection's checks | TLC, TLAPS (`AccessProofs`) |
| `Authorizer` | identify and allowlist with their caches | TLC, TLAPS (`AccessProofs`) |
| `RateLimiter` | admit and prune | TLC, TLAPS (`CommandProofs`) |
| `FollowFocus` | focus signals, router, the controller's switch | TLC, TLAPS (`FollowFocusProofs`) |
| `Tui` | the interface's loop, keys and background tasks | TLC, TLAPS (`TuiProofs`) |

The `MC...` modules extend these for TLC and add only constants and symmetry
sets.  Operators called `Bad...` are plausible mistakes; no action uses them.
`PROJECT.json` ("mutants") says which property each of them breaks.

### SessionLease

One variable, the holder of the desktop.  A step may let a free desktop be taken
or a held one become free; a desktop that is held changes hands only to the same
device, and a session that has ended never comes back: every grant draws a new
identifier.  Both
`SessionCoordinator` (holder = `snapshot()`) and `ConnectSession` implement it.

### SessionCoordinator

`active`, `timer`, `generation` are the fields of `CoordinatorState` (the deadline as
time left, so time needs no bound); `op` is the operation that holds the mutex
and the `hyprctl` call it awaits; `keybinds` is what Hyprland has bound;
`followFocus` is whose tasks run.  `AttachBegin`, `AttachCleared`, `AttachInstalled`,
`AttachInstallFailed`, `AttachRolledBack` are the stretches of `attach` between its
awaits, and likewise for `detach`, `expire_due`, `reconcile`, `release`; `Renew` never
awaits and is one step.  `RunErr` is a call that fails *or* times out, so its
script may have run.  `Cancel` drops the handler at its await and unlocks the
mutex, `Crash` ends the process, `Shutdown` and `Released` are the orderly end.  A
request that is refused changes nothing and is not an action.  Abstracted: the
Lua text of the bindings, window selectors, and endpoints (only whether there is
a controller to call back).

### ConnectSession

For each controller the stage of `execute_with_started` (`pc`), its local
bindings, its grant, the heartbeat and the health counters; `net` holds requests and
answers.  A message with a tag is one nobody waits for any more but that may
still arrive (`LateAs`).  The agent side is `SessionCoordinator` seen from outside,
with calls that do not fail.  The checks before Moonlight is launched change no
session state and are collapsed.  `spoiled` marks devices whose own `hyprctl`
failed or whose controller was killed.

### ReplayGuard, PairingChallenges, Authorizer, RateLimiter

Handlers are slots; a call records the instant it read and moves through the
critical sections of the code one action at a time, so that others may come in
between.  `MaxDelay` and `MaxWait` bound how long a handler may wait for a mutex or
a lookup: the properties state their limits in terms of it instead of pretending
the wait is zero.  `RateLimiter` counts whole tokens where the code has `f64`, which
is exact for whole seconds.  `Gate` puts the bucket, the authorization (a wait of at
most `MaxCheck`, which may end in a refusal) and the memory of identifiers one behind
the other; `MaxPasses` bounds the arrivals that get a token.  In `Authorizer`, addresses change hands (`Reassign`) and
the access file is edited (`ChangeEntry`) at any time; history variables record when a
fact was last true, and are read by the properties only.

### PairStream

`attempt` is where `PairStream::execute` is, since when, with which challenge and which
handler of the agent; `child` is `moonlight pair`; `trusted` is whom Sunshine streams
to.  The agent's steps are those of `PairingChallenges` with what the attempt makes
of their answer: accepted, refused, or lost, and then the attempt waits for its
limit.  A return of `execute` drops the pending pairing and kills the process.  Time
does not pass a limit before the attempt has acted on it.  Other requests come from any
device: they ask for challenges of their own and present any identifier that was drawn,
one that an attempt holds included, its own device once more and at the same time as the
attempt as well.  Whoever submits a PIN with a challenge gets its owner trusted, if that
device shows a PIN (`SunshinePairs`).  `doubled` is history: the identifiers that their
own devices have presented outside the attempt.

### ControllerDesktop

`pc` is the stage of each connect, `table` the processes (with a birth number for the
start time), `record` the session file, `binds` whose bindings Hyprland has, `disc` the
run of `omdesky disconnect` between its reads, its kill and its removal.  The agent of
the desktop installs and clears the same bindings for sessions of its own.
`stale`, `alone` and `spoiled` are history: who looked at the file before it was
replaced, which session nothing has overlapped, whose `hyprctl` failed.  The remote
agent is reduced to its answer; `ConnectSession` has the rest.  A write of the record
may report an error with the new file in place.  A removal that fails, whose error the
code drops, is not modelled: it leaves the file as a program does that is killed there.

### Shortcuts and CommandRelay

A desktop has a window of its user's and one per stream.  A shortcut reads the active
window (`ReadActive`), runs its script (`Evaluate`: focus and first key) and leaves the
rest to timers, whose contents `Timers` takes from `timed_shortcut_lua`; `After` is what
one dispatcher does and `RunAll` what one timer does with its dispatchers in their order.
`CommandRelay` adds the way there: `path` is the chain of agents a
command has gone through, `step` what the last one does with it.  `Relay` makes a new
request to the session's controller, `Return` passes the answer back.  Tokens make
every hop cost something; a refill is the time in which every bucket gains one.
An agent at the remote end of a session always has a controller to relay to: an attach
without one is refused before it reaches the coordinator (`RemoteCommand::validate`).
`home` and `calm` are history: the window before the shortcuts, and whether nothing but
one shortcut happened since.

### Access

`granted` is the file, `edit` what each editor does with its copy, `scan` and `shown` the
discovery under way and the last one, of this computer (`Here`) and of the others.
`attempt` and `outcome` are a connection's checks and their result: is this computer's agent there
and of our release (`CheckReady`), do both sides grant what is needed (`CheckCallbacks`,
`CheckStatus`), are both agents there (`CheckAgents`, where the local one goes first).
`hosts` is what the other computers grant this one (whether its
entry has `read-metadata`, which both discovery and a connection ask for first) and
`agent` the agents of all of them.  An edit fails at its read, before the new file has replaced the
old one, or after it, when the directory is synced: then it is done and reports an error
(`WriteFails`).  History: `intended` is what an entry may be by what its edits
reported, one possibility after a success, one more after an error; `wanted` the same of the device the
user had in mind, and `asked` all that was ever asked for that device; `crossed`,
`stable` and the `clean` fields say what has been disturbed.

### FollowFocus

`displays`, `focus` and `shown` are the desktop and Sunshine; `source` is where focus
signals come from (event socket, polling, or nothing once the socket has ended);
`pc`, `streamed`, `pending` are the router; `requests` are switches between the
router and the controller's agent, which first reads the list of displays
(`Resolve`) and later sends the shortcut with that number (`SendShortcut`) to *a* window
of Moonlight's class.  `GiveUp` is the request's time limit: the switch may still
happen.  `misled` records the routers that cannot know what is shown (initial belief
wrong, late or misdirected switch, number resolved against an old list, the
believed display plugged in again), `unheard` those with news that no signal will
bring.  Both are history and guard no action.

### Tui

`pc` is where `run_loop` is: applying reports (`drain`), waiting for a key (`event`), or
awaiting `hyprctl` inside a key (`closing`), during which tasks go on and the loop does
not.  `tasks` counts the simple tasks that have yet to report, `streams` and `edits` are
those of `start_connect` and of the access store, `channel` is the bounded channel
between them and the loop.  Each arm of `apply_message` and of the two key handlers is
an action.  What is only drawn is left out; `crowded` is history.

## 3. Runs

| Run | Expect | Shows |
|---|---|---|
| `session` | pass | `SessionEndsOnlyByRight`, `ImplementsLease`, `FollowFocusBelongsToSession`, `FaultFreeInputMatchesSession`; one fault orphans nothing (`OneFaultOrphansNothing`); bindings of a lease that ran out are removed eventually (`StaleInputRestored`) |
| `session_disconnect` | violation | a client that disconnects while `attach` awaits `install` leaves bindings without a session (`NoOrphanedKeybinds`) |
| `gate` | pass | nobody exceeds burst plus refill, whatever is pruned (`RateBounded`); two applications of one identifier are a window apart, less the longest wait (`ApplicationsAreApart`); one source cannot fill the memory for all others (`OneSourceCannotFill`) |
| `replay_single_use` | violation | a sender whose clock is ahead has its request applied twice (`SingleUse`) |
| `pairing` | pass | one submission per challenge, whoever presents it and how often, by its owner, issues limited (`SingleApproval`, `ApprovedByOwner`, `IssueRateBounded`); Moonlight's process goes with the attempt (`ChildReaped`), the challenge outlives the wait for the PIN (`ChallengeOutlivesPin`), success is an approved pairing (`PairedIsApproved`) |
| `connect` | pass | `LeaseKept`, `LocalInputRestored`, `HeldSessionStands`, `SessionLease` again (`ImplementsLease`); an abandoned session ends (`AbandonedSessionEnds`), and so does a stream whose remote agent stays away (`DeadAgentEndsStream`) |
| `authorizer` | pass | identity and allowlist decisions are no older than lifetime plus wait (`IdentityRecent`, `RevocationTakesEffect`) |
| `follow_focus` | pass | a router that was not misled knows what is streamed (`BeliefMatchesStream`); the stream settles on the focus (`SettlesOnFocus`) |
| `tui` | pass | `WaitIsWarranted`, `OneStreamAtATime`, `AccessShownIsCurrent`, and a device switched to gets its turn (`PendingGetsItsTurn`) |
| `desktop` | pass | `NoStaleRecord`, `RemovedByOwner`, `SparesStrangers`, `BindingsMatchSessions`, `DisconnectEndsStream` |
| `commands` | pass | `SuccessMeansExecuted`, `CommandIsAnswered` (circles included), `FocusRestored` |
| `access` | pass | an edit that was reported done stays done, one that was reported failed is done as a whole or not at all (`ChangesAreKept`); a device has only what was asked for it (`OnlyMeantIsGranted`); what discovery shows is what a connection meets (`ListingExplainsOutcome`) |

The type invariants are stated in every module and proved in every module (that of
`CommandRelay` types the state of `Shortcuts`, too); the runs spend their time on the
properties above.

### Bounds, and why they are enough

* `session`: two devices; three attaches, so that a session can be replaced and its
  claim arrive late; generations saturate at 2; lease 3 and call limit 1, in the
  proportion of 45 s and 10 s; two faults, so that a call and its rollback can
  both fail; one dropped handler.
* `gate`: a busy source with three requests and two others with one each, for two
  buckets and a memory of three; burst and rate 1, a window of 2.  So a bucket is
  pruned, a source refused, a request duplicated and the memory filled by all
  together.
* `replay_single_use`: window equal to skew, as in the code; two handlers for one
  duplicate and one other request; time for a window to pass twice over.
* `pairing`: one attempt beside another device's requests; one open challenge and one
  issue allowed, one counter in the table, so that each limit is met by the second
  request; two identifiers, so that one is the attempt's and both can be presented by
  either device.  Every limit is 1 and a challenge lives 4: it must
  outlive a lost answer's wait, the start, the PIN and a handler's wait (120 s for
  10 s, 20 s and 10 s in the code).
* `connect`: lease 6, renewal every 2, requests of at most 1 (45 s, 15 s, 10 s); two
  devices, two launches, so that messages of the first stream meet the second; two
  faults.
* `authorizer`: two addresses, two identities, a cache of one, one permit, one change of
  the world; time for both caches to expire.
* `follow_focus`: three displays of which two can be switched to (the limit of 13 in
  small), two focus moves, two plug events, one fault; one desktop, since routers share
  nothing but Moonlight's window class (the theorems hold for any number).
* `tui`: this device and two others, three keys that start tasks (start, switch and one
  more; or menu, list and change), a channel of two so that senders wait, one fault.
* `desktop`: two connects (two commands, or a command without shortcuts beside the
  interface), two pids for three births, so that one is reused; one run of
  disconnect, session or restart of the agent; one fault.
* `commands`: two agents in a circle or one controlling the other, one desktop with a
  second stream; four pairs of commands as the bindings, the router and a user send
  them; burst 2 and one refill, so that a circle ends in the limiter; one move of a
  user, one fault.  `MaxHops` is never reached.
* `access`: two devices that share a host name beside this computer, two tasks of the
  interface and one command, so that edits meet within a process and across two; two
  changes in all, here or elsewhere, one fault.

Deadlock is checked where the system never stops (`session`, `connect`).  The other
runs end at their bounds of time or moves.

### Fairness

* `SessionCoordinator`: time passes, and an operation's `hyprctl` call returns, because
  the runner enforces a limit (weak fairness).  The expiry task gets the mutex
  infinitely often: tokio's mutex is first come, first served and the task asks for
  it at every sweep (strong fairness of `ExpireBegin`).  Clients are not fair.
* `ConnectSession`: time, the sweep, each controller's own progress, its health checks,
  and the agent serving a request somebody waits for.  Nothing makes the network
  deliver late messages, restart an agent, or end a stream.
* `FollowFocus`: the tasks run, polling polls, the controller answers (weak).  `Commit`
  is strongly fair: a deadline passes although signals keep coming, because the
  debounce (50 ms) is shorter than the polling interval (750 ms) and `select!`
  picks a ready branch at random.
* `ControllerDesktop`: programs that are under way go on, and a process that was
  signalled ends (weak).  Nobody owes a start or the ordinary end of a stream.
* `CommandRelay`: agents go on with the requests they have (weak); neither the
  time limit nor a refill is relied upon.
* `Tui`: the loop goes round, tasks report (their calls have time limits), Moonlight
  ends once its window is closed.  A stream may run for ever, and no key need be
  pressed.

## 4. Proofs

All theorems hold for every value of the constants under the named assumptions, which
TLC evaluates in every run: sets that must be finite are, numbers are natural, the
"none" values are not sessions or calls, no display is listed twice, the caches'
lifetimes are positive.  Three assumptions relate the code's time limits:

* `SessionCoordinator`: two `hyprctl` calls fit into a lease (2 * 10 s < 45 s);
* `ConnectSession`: a request takes less than a third of a lease, the interval of
  renewal (10 s < 15 s of 45 s);
* `PairStream`: a challenge outlives the wait for the PIN and two waits of a handler
  (20 s and twice 10 s < 120 s).

The bounds (`MaxAttaches`, `MaxFaults`, `MaxTime` ...) are arbitrary naturals.  Each
inductive invariant was checked by TLC on the instance of its run before it was proved.

**SessionCoordinatorProofs.**  `IInv` is `TypeOK` with six conjuncts.  `OpInv` says which
step of which operation goes with which state of the process and of `active`.
`IdInv`: the identifiers of the active session and of every grant were drawn
already, and that of the attach under way was not granted yet; without it a new
session could carry an old claim's identifier.  `TimingInv`: the time spent in an
attach is at most two calls, so the lease published is positive.  `FollowInv` and
`FaultFreeInv` extend the two properties about tasks and bindings into the middle of
operations, where the properties themselves say nothing.  `OneFaultInv` says
what state a *first* fault may have left behind at each step; it is what makes
"one fault orphans nothing" inductive.  From `IInv` follow `TypeCorrectness`,
`FollowFocusSafety`, `FaultFreeInput`, `OneFaultTolerated`, the action property
`EndsOnlyByRight`, and `Refinement` (`SessionLease` is implemented).

**ConnectSessionProofs.**  The parts of `IInv` follow a session from launch to end.
`OneCall`: a controller awaits one answer at a time, and its heartbeat one more.
`MessageInv` says what each message on the network knows of its sender; `LateInv`, that a
late detach names a session that nobody has or will have again.  `OwnerInv`: an identifier
belongs to one device, and `CountInv` that every session stems from an attach and every
attach from a launch.  `PhaseInv` ties the stage of a connect to what it has; `LeaseInv` says
how much of the lease is left while the grant is under way, between renewals, and while a
renewal is.  The last is the heart of `LeaseSafety` (`LeaseKept`): a renewal starts with the lease less
an interval and a request left, and takes at most a request more.  `HeldSafety` (`HeldSessionStands`)
and `Refinement` rest on `LateInv` and `OwnerInv`, `LocalInputSafety` on `LocalInv`, which
says whose key bindings there are at every stage, not only in a stream and at the end.

**CommandProofs, the gate.**  The limiter alone: `CreditInv` says that what an address was admitted, plus the
tokens it has *or would have, refilled to this instant*, is, counted from any earlier
instant, at most burst plus refill since then.  An address without a bucket counts as
one with a full bucket, so pruning a full bucket is free; that is the whole argument of
`RateSafety`.  The memory alone: `WaitInv` bounds how old the instant of a waiting handler
is, `ApartInv` says that what was applied less than a window (less the wait) ago is still
remembered; `CapacitySafety` and `ApartSafety` follow.  `RepeatSafety`
(`RepeatedOnlyIfStampedLate`) adds the check of the time stamp, which every waiting
handler passed not longer ago than its wait: a request that is applied again was fresh when a
window, less a wait, had passed since its application, and so is stamped later than
that application by the window less the skew and two waits.  With the code's equal 120 s
this leaves the senders whose clock is ahead, which is what `replay_single_use` exhibits,
and requests applied within two waits of their time stamp.  No run checks this property.
Composed: `GateIsBoth` says that every behaviour of `Gate` is one of either part, which
carries `RateBounded` and `ApplicationsAreApart` over.  `FloodSafety` (`OneSourceCannotFill`)
needs both parts at once, and three facts that neither has.  `StretchInv`: the bucket
bounds every stretch of time, also one that ended long ago.  `SpreadInv`: the instants
that are remembered lie within a window, or a wait if that is longer.  `TokenInv`: every request in the memory, on its way
through the authorization or waiting for the mutex has had a token of its own at most `MaxCheck` before
its instant; it counts the handlers at each place, so that none counts twice when requests
overtake each other.

**CommandProofs, the way of a command.**  `OnceInv` follows one request: until an agent
answers nothing was executed, and an "ok" on its way back means once, however many agents
pass it on.  `SuccessSafety` (`SuccessMeansExecuted`) follows,
circles and lost answers included.  `FocusSafety` (`FocusRestored`) needs to know where
a script is: `Alone` says what the only script on an undisturbed desktop has done so far.  Either
its release is still to come and exactly its key is held on the active window (`Pressed`),
or only the old focus is left to restore and nothing is held; and `CalmAt` says that the
window it will go back to is still open, because only the end of a stream closes one, and
that disturbs the desktop.  A timer of the code has at most two actions, so `RunAll` needs no
recursion, and the lemmas evaluate it on the few lists that `Timers` makes.

**PairStreamProofs.**  The agent's side first, for any clients of its two routes
(`ChallengesInvariance`).  `SubmitInv`: who submits a PIN has consumed the challenge, and
alone; `ApprovalInv` that what was approved is spent and was approved once.  These give
`SingleApprovalSafety` and `OwnerSafety`.  For `IssueRateSafety` the latest two windows of a
device's counter are enough: a handler may bring an instant that is `MaxDelay` old, so windows begin
at least `Spacing` apart, and a stretch of that length meets two of them.
`PairingImplementsChallenges` shows that an attempt is such a client.  The attempt's own
part, `DeviceInv`, says of each stage which handler serves it and which process it has, and, from
the answer that brings a challenge until it is consumed, that the challenge is there and how long it lives yet,
unless its own device has presented it in another request too (`doubled`): no other
device's request can use it up, because `Consume` looks at the owner first.  That is
`LifetimeSafety`.
`TrustInv` links Sunshine's trust to an approval with the device's own challenge, hence
`PairedSafety`.

**ControllerDesktopProofs.**  What matters is who a pid belongs to.  `OwnInv`: a connect with
a stream has the process it launched, because a child that ended stays in the table
until its parent reaps it; so what `on_started` records is its own.  `Known`: the process a record names,
in the file or in a disconnect's hands, belongs to the recorded session whenever the process
with that pid has the recorded birth; births are numbered without repetition
(`BirthsInv`), so a reused pid never matches.  `KillInv` carries this over the gap
between `is_still_running` and `kill`.  Every step of every program does one of three
things to an entry of the process table (`TableStep`), and one lemma shows that those keep all
this.  `RecordInv` adds that only a connect of the command line has a record, which is
why one started from the interface may finish without a look at the file.
`RecordsEnd` (`NoStaleRecord`) and `StrangersSpared` (`SparesStrangers`) follow, for any number
of connects, pids and processes.  `BindInv` adds that a grant lasts from the attach to the
detach, which `BindingsSafety` (`BindingsMatchSessions`) needs when a connect
clears.  `LookInv` says that a remover whose look is still current holds what is in the file; so
the only record removed by a stranger is one written after the look (`RemovalSafety`,
`RemovedByOwner`).  `TypeCorrectness` adds to these arguments the types that none of them needs.

**AccessProofs, the access file.**  `MeantInv`: an edit carries the device that was
meant from the moment the name is resolved, through every wait for the file, and the two
histories agree.  `CopyInv`: unless edits of two processes have overlapped, at most one edit is
between its read and its write, its copy is the file, and each entry of the file is one that the reports
allow for.  `ChangesKept` follows, errors after the replacement included.  `AskedInv` gives
up none of this to crossed writes: every list there is, the file and each copy however
old, holds only what was asked for the very device, because an edit changes one entry
of its copy, that of the device it was meant for.  Hence `OnlyMeant`, for any number of devices, names and editors.
`ScanInv`: an undisturbed scan has read the file as it is and found what a probe would find now, of
this computer too; `AttemptInv`: the checks that an undisturbed connection has passed would be
passed again, that of this computer's agent first.
Together they give `ListingSafety` (`ListingExplainsOutcome`): two judgements at two times
are compared through the state that has not changed between them.

**AccessProofs, the authorizer.**  `WorldInv`: the history of who had which address is not in the future.
`IdentitiesInv`: a cached fact was true at the instant it is dated with *or later*.  This is why
dating an entry with a clock read before the lookup is safe.  `CallOK` carries it
through a request: what it has found out was true not long before the clock it read last, and it
is no older than its waits allow.  `IdentitySafety`, `RevocationSafety` and
`CacheBounded` follow.

**FollowFocusProofs.**  `TagInv`: a switch that nobody waits for any longer may take effect
behind the router's back, so its router has counted as misled since it gave up.
`BeliefInv`: the belief is right also while a switch is under way, because the router
changes its mind with the controller's answer and not when it asks, and a belief in a
display that is gone says nothing.  `ShapeOK` says that no list names a display twice, without
which a number resolved against a list would not be *a* display.  `BeliefSafety`
(`BeliefMatchesStream`) holds for any number of desktops, displays and faults.

**TuiProofs.**  The loop knows of its tasks only by their reports, so every part of `IInv`
relates what is shown to the tasks *and* the reports in the channel.  `WaitInv` counts both: while the
device list is awaited exactly one discovery has yet to report, in the middle of the loop's work as
well.  `StreamInv` follows a stream from its task over its two reports to the state the loop
makes of them: all carry the number of the latest stream, "started" comes before "ended",
and nothing is left of it when the interface shows no stream.  `CostInv` bounds these numbers by the
keys spent.  `AccessInv`: unless two tasks were at the access store at once or something failed, one task
at a time is there, what it is about to report is the file, and after it the
last list in the channel is.  The channel is a queue, so lemmas say how each kind of
report moves when one is sent or taken.  `WaitSafety` (`WaitIsWarranted`), `StreamSafety`
(`OneStreamAtATime`) and `AccessSafety` (`AccessShownIsCurrent`) follow, for any number of devices and
keys and any capacity of the channel.

The specifications that share a module of proofs share no variable.

Every safety invariant and every action property that a passing run checks is thus proved, and
the two abstract specifications' refinements.  Only model-checked is liveness
(`StaleInputRestored`, `AbandonedSessionEnds`, `DeadAgentEndsStream`, `SettlesOnFocus`,
`PendingGetsItsTurn`, `DisconnectEndsStream`, `CommandIsAnswered`): `ENABLED`, on which
fairness rests, is outside TLAPS' reach.

## 5. Where the code and its documents disagree

1. `attach` neither publishes nor rolls back when its handler is dropped at an await
   (`session.rs`), against the changelog, which rules out orphaned keybindings.
2. Request identifiers are not single-use for a sender whose clock is ahead
   (`replay.rs`), against the changelog.  For a sender whose clock is right it needs a request
   that is applied within two waits for the mutex of its time stamp
   (`RepeatedOnlyIfStampedLate`).

Also seen while modelling, without a run of their own:

* The router starts from the focused display as if it were the streamed one
  (`application/display.rs:40`), where `docs/configuration.md:50` says that the stream is
  kept on the focused monitor.  `FollowFocus` counts such a router as misled.
* A display switch addresses Moonlight's window class instead of one stream's window
  (`platform/display.rs:149`), where `CHANGELOG.md:45` says that a second stream is no
  longer switched by mistake.  `SendShortcut` and `Meant` let it reach any stream.
* With two faults in `SessionCoordinator`, an install that times out after it took
  effect, followed by a rollback that fails, leaves bindings without a session.
  `OneFaultOrphansNothing` states the limit of what holds.
* `remove_if_owned` reads and then removes: a record that is written in between is
  lost (`RemovedByOwner` excepts exactly this).  Two processes that edit the allowlist
  at once lose one of the changes (`ChangesAreKept` excepts it).
* An edit of the allowlist may report an error although it was done: the new file replaces
  the old one before the directory is synced (`platform/state.rs:103`).  A user who is told
  that an allow failed may have allowed the device (`WriteFails`).
* `omdesky access revoke` of a name that it cannot resolve, a shared one included, says
  "Revoked" and removes nothing (`CliRevoke`).  What `omdesky devices` tells the user to
  run may contain such a shared name.
* The interface allows only a device that is shown ready (`TuiAllow`), so a device that
  is blocked because it is not allowed has to be allowed on the command line.
* Discovery shows a device as ready when the request for its description fails
  otherwise than by a refusal (`Probe`).

## 6. Not modelled

* The drawing, the messages and the stream settings of the user interface: a thousand
  lines without an effect on what is shared.
* Adapters that run one command or request and parse its output (Tailscale's status,
  Hyprland's lists, Sunshine's configuration and credentials), configuration, identity,
  launcher and theme files, the doctor, the routes that only read a desktop:
  they keep no shared state.
* Formatting, validation of strings, logging, notifications and error texts.
* The limit on the number of peers discovery probes, and latencies.
* Signals of Hyprland other than focus; the search for Moonlight's window.
* Three hazards are modelled, but no property covers them, because the code
  promises nothing there: a router that starts on a display that is not streamed, a switch whose
  number was resolved against an old list (both routers count as misled), and lists of allowed
  devices that are shown out of order after overlapping changes (`crowded`).
