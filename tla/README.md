# QuadControl: formal models

TLA+ modules, TLC configurations and TLAPS proofs about the concurrent core of
QuadControl (desktop control of Android phones and iPhones). Paths below are
relative to the repository; `session.rs` is `crates/quadcontrol-ios/src/session.rs`,
`mjpeg.rs` and `wda.rs` are its neighbours, `process` is
`crates/quadcontrol-process/src/lib.rs`, `gui` is
`crates/quadcontrol-gui/src-tauri/src/lib.rs`, `android` is
`crates/quadcontrol-android/src/lib.rs`, `wireless.rs` its neighbour, `probe` is
`agents/android-shell/adb-probe/src/lib.rs`.

## 1. The system

| Component | State it keeps | Operations | What makes it correct |
|---|---|---|---|
| iOS session supervisor (`session.rs`) | children in start order, status, client, proxy, channels stop/done | start tunnel, runwda, two forwards; wait for WDA; open session; watch; exit sequence | nothing survives the end; `Running` is complete; a failure names its part; a stop or a dead link ends it |
| MJPEG proxy (`mjpeg.rs`) | newest frame with sequence number, counters, stop flag, socket registry | pump, accept, one writer per viewer, `stop` | drops are frames nobody saw; counters and registry are exact; `stop` returns and frees writers; nobody is evicted |
| WDA client (`wda.rs`) | session id, MJPEG settings behind a mutex | calls with one retry on an invalid session | one re-creation per loss; settings replayed |
| Process ladder (`process`) | — | SIGINT 3 s, SIGTERM 2 s, SIGKILL over process groups; bounded stderr | all reaped on return; one shared budget; gentle first; returns |
| GUI iOS store (`gui`) | slot, `device_id`, `IosMeta` | `start_ios_session`, `stop_ios_session`, `ios_session_status`, name load, reclaim | at most one session, never ownerless; data belongs to the session shown |
| GUI Android store (`gui`) | map serial → handle | start, stop, list, drain | no session that controls a phone is out of reach |
| GUI pairing store (`gui`) | `PairingState` with generation, cancel token | start QR, manual, cancel, result | one attempt at a time; no stale result |
| GUI shutdown (`gui`) | two flags | `begin_shutdown`, exit event | runs once; waits for what it took; never hangs |
| Android supervisor (`android`) | status, signal counter | spawn, supervise, `shutdown_all` | an end that is shown is an end |
| Wireless pairing (`wireless.rs`) | round state, adb children, secret | QR round, manual pair, wait, fallback connect, cancel | one outcome per round; children collected, secret wiped; a pair in flight gets its chance; a cancel is answered |
| Bounded commands (`probe`, `wireless.rs`, `ios apps`) | child, two pipes, reader threads | spawn, poll, kill at the deadline, join | child collected; a cut answer is told; it returns |
| Apple diagnostic server/client (`apple/Sources`) | admission, sequence numbers | accept, authenticate, exchange | one client, no replay |
| Listing, parsing, command lines (`devices.rs`, `crates/quadcontrol-ios/src/lib.rs`) | — | pure | — |
| Front end (`main.js`) | DOM, poll timers | calls the commands above | overlapping polls are harmless |
| Placeholder crates, design hand-off, probes | — | — | — |

**How they interact.** A GUI command (async, many at once) locks a store, spawns
a supervised session on the blocking pool, and locks again. The session's
supervisor thread owns all child processes and the proxy; the GUI sees it only
through its handle: status and client under mutexes, a stop channel, a done
channel. The supervisor polls; it is never called back. The proxy's pump tells
the supervisor of errors through two shared cells (`failure`, then `stopping`).
A pairing worker runs bounded adb commands one after the other and looks at its
cancel token between some of them; the store learns of it only by its result.
At exit `reclaim_sessions` raises the pairing token, drains both session stores,
tells every session to stop and waits, sessions 7 s and pairing 13 s from the
same start; the final event waits 15 s for it. Sessions end by the ladder.

**What is hard.** Commands that interleave between two critical sections;
state read before an `await` and used after it; a supervisor that polls several
sources one after the other; threads joined without a timeout; sockets
registered while another thread shuts the registry down; processes that die,
ignore signals or leave helpers while they are being killed; time budgets that
have to nest; candidates of one pairing round that fail in different turns of
its loop. `PROJECT.json`
lists each such place with its line under `hazards`.

## 2. Modules

| Module | Models | Depends on |
|---|---|---|
| `SessionLifecycle` | abstract: what a session's handle promises | — |
| `IosSession` | `session.rs` supervisor, child deaths, the pump's flags, stop requests | refines `SessionLifecycle` |
| `IosSessionProofs` | theorems about `IosSession` | `IosSession`, `TLAPS` |
| `MjpegProxy`, `MCMjpegProxy` | `mjpeg.rs` threads | — |
| `MjpegProxyProofs` | theorems about `MjpegProxy` | `MjpegProxy`, `TLAPS` |
| `IosGuiStore`, `MCIosGuiStore` | GUI store and the commands sharing it | — |
| `IosGuiStoreProofs` | theorems about `IosGuiStore` | `IosGuiStore`, `TLAPS` |
| `WdaClient`, `MCWdaClient` | `wda.rs`: the client shared by supervisor and GUI calls | — |
| `WdaClientProofs` | theorems about `WdaClient` | `WdaClient`, `TLAPS` |
| `PairingStore` | the GUI's pairing state, token, generations, commands | — |
| `AndroidSessions` | the GUI's Android map and the supervisors behind it | — |
| `GuiShutdown`, `MCGuiShutdown` | the exit, with a clock | composes `PairingStore` and `AndroidSessions` |
| `GuiShutdownProofs` | theorems about the composition and its two parts | `GuiShutdown`, `TLAPS` |
| `PairingRound` | one pairing attempt of `wireless.rs` | — |
| `PairingRoundProofs` | theorems about `PairingRound` | `PairingRound`, `TLAPS` |
| `BoundedCommand` | the four runners of bounded commands | — |
| `BoundedCommandProofs` | theorems about `BoundedCommand` | `BoundedCommand`, `TLAPS` |
| `TerminateLadder` | `terminate_all` on unix | — |
| `TerminateLadderProofs` | theorems about `TerminateLadder` | `TerminateLadder`, `TLAPS` |

### SessionLifecycle and IosSession

`IosSession` has one `pc` label per observable step of the supervisor thread:
a spawn, an HTTP call or a bounded wait is a step with a free result, and two
successive reads (stop channel, child, tunnel or WDA; `failure()`, `is_alive()`)
are two steps. `await_tunnel` and `await_status` poll at most `PollBudget + 1`
times; `spawn_forward` tries `FORWARD_PORT_ATTEMPTS` ports. `child[k]` tells
whether a process exists, `owned` whether it is in the `children` vector: the
difference is the forward on trial in `spawn_forward`. `stops` counts stop
messages in the channel; one is consumed by returning, so presence is what
matters. The proxy appears as the pump's `failure` and `stopping`, written in
that order.

`SessionLifecycle` has only a status, the set of held resources and the done
flag: resources are taken while starting, announced, given back while stopping,
and a final status needs all of them back. The refinement maps `held` to the
live or unreaped children plus proxy and client (`Held`).

### MjpegProxy

A step is what a thread does between two points where another can get in.
Frames are numbers; what a part contains is abstracted. A writer's places are
`queued` (in the listen backlog), `accepted`, `starting`, `request`, `head`,
`next`, `write`, `leave`, `forget`, `gone`. A writer leaves when either side shut its
connection, and may also leave because its own reading or writing fails
(`WriterErrs`: the socket cannot be cloned, the request is not text, a write fails),
which a live viewer can meet at `request`, `head` and `write`; nothing forces that
step, so `stop` does not owe its progress to it. `taken` and `cause` are history. The
registry mutex appears as `lock` only where `stop` holds it over several steps;
every other critical section is one action. Relaxed and acquire/release atomics
are modelled as sequentially consistent. `Proxy::stats` is not modelled: it puts
a snapshot together from reads under different locks, and nothing is decided on
the figures.

### IosGuiStore

Each command is a program counter over its critical sections. Sessions are
their status, phone and pending stop, and move as `SessionLifecycle` allows.
`meta.window` stands for everything a poll brings from the phone, as the phone
it came from; `meta.installed` for the names. Front-end polls may overlap, since
a poll that waits for WDA can outlast the interval.

### WdaClient

The phone keeps one session. `wda` is its id when a clone made it and
`NoSession` otherwise (another client's, or none after a restart: both answer
404). An HTTP call is one step with a free outcome: served and answered, served
with its answer lost, or not served; in between other threads and the phone
move. `session_call` is `read`, `request`, and after a 404 `lock`, `recheck`,
`post`, `store`, `replay`, `reread`, `retry`. An operation is the sequence of
its calls: `poll` stands for the operations of one call, `tap` for those that
ask `locked()` first; `text` and `wake` are themselves. `session()` fails only
before the first `create_session`, when no clone exists. `losses`, `typed`,
`unlocked` and `untuned` are history. `status` and `screenshot_png` use no
session and are left out.

### TerminateLadder

Every child leads a group that may hold one helper, which stands for any
number. `ignores` is what the group ignores; SIGKILL never. A poll of
`wait_all_for` reaps in order up to the first live child, as `all` does. Time
is the number of sleeps. `terminate`, for one child, climbs the same rungs and is
not modelled separately.

### PairingStore

`pstate` is `PairingStore.state`, `token` the generation whose `PairCancel` is
held, `cancelled` the raised ones whose worker is still out. `TakeGeneration` is
the `fetch_add`, which happens before the lock: `PairRefused` and `EnterPairing`
are the two branches under it, so a later generation may enter before an earlier
one. QR and manual attempts differ in what their worker does (`PairingRound`),
not here; a worker is running or has an outcome. `pairing_status` only reads.
Every critical section is one action: state and token are only ever nested in
that order, and where the exit takes the token's mutex alone, what it sees is
what it would see before or after the whole section.

### AndroidSessions

`StartCheck`, `SpawnSupervised` or `SpawnFails`, and `StartInsert` are the three
parts of `start_session`: looked up, spawned with no lock held, looked up again.
`sess[i]` is one supervisor: `loop` (stop channel, then `try_wait`), `ladder`,
`ended` (stderr settles), `send` (done message), `over`. `WaitFails` is any error
of `try_wait` or of the ladder, after which the status is `Failed` and scrcpy may
be alive; the properties except that. The ladder is one step that ends scrcpy
(`TerminateLadder` is about its inside). A dropped handle is one no map, call or
exit holds.

### GuiShutdown

`BeginShutdown` (close button, ExitRequested) and `ExitEvent` (RunEvent::Exit)
swap `SHUTDOWN_STARTED`; the first runs `reclaim_sessions` on a thread of its own,
the second on the event loop, or waits. The steps of `reclaim_sessions` are
`CancelWorker`, `Drain`, `RequestStops`, `AwaitDone` for each handle,
`SessionsDown`, `PairingDown`, in the order of the code. All commands, workers and
supervisors go on meanwhile, as they do in the program; when the process is gone
nothing moves. Time is a count of ticks since the clean-up began. A tick waits for
whoever is due (`NothingDue`): a thread past its deadline or between two calls that
do not block, and a stopped session past `Ladder`, which is what
`TerminateLadder` shows of a stop. Without a clean-up on the way there is no
clock. The iOS half of `reclaim_sessions` is in `IosGuiStore`.

### PairingRound

`mode` tells the three attempts apart: QR in the GUI, QR on the command line
(whose `PairCancel` is never raised; Ctrl-C is read by the loops only) and
manual. The two of the GUI end with `PairedDeviceName`, the `adb devices -l` their
worker runs before it sets its result. A bounded adb command is one step with a free
result; the look at the token that follows it directly is in the same step, the commands in which nobody
looks are steps of their own. `proc[e]` is the `adb pair` process of endpoint `e`,
which runs by itself and may outlive its 10 s; `pairs` is the vector that owns
them, `loop` the locals of `run_pairing_round_with_cancel` (the turn's endpoints
still to try, the index of the poll, the first failure: a query may add its own
`timed_out` to it, the same error as that of a pair that ran out of time), `round` the `RoundState`.
`Observe` and `ClassifyRoundFailure` are the functions of those names, `CloseReason`
is what `round_close` answers. The last listing gives each device a connection and an
identity, 0 for one that could not be read; `deduplicate_devices` then runs as a loop
over it, one device per `DeduplicateDevices` step (`AddDevice` is its body, `visible` its
result, `seen` how far it is): so every prefix of the listing is a state, and its claim is an
invariant of the loop that can be proved for every length. `late` counts commands
that ended after the interrupt, for the two cancel properties. Endpoints of a
turn are tried in any order; the code has that of adb's answer. An error of
`try_wait` is left out here and is in `BoundedCommand`.

### BoundedCommand

One command of `SystemRunner::run` (`probe`), `collect_child` (`adb`),
`PairProcess` (`pair`) or `run_capture_stdout` (`apps`). Output is counted in
chunks; a pipe holds `PipeCap`, a reader keeps `Limit` and drops the rest
(`truncated`), except that of `ios apps`, which stops and closes its pipe. A
helper may hold the write ends after the child is gone, as the comment on
`drain_stderr` tells of adb; then there is no end of file and the joins wait.
A reader may fail at any point (`ReaderFails`: an error of the read, or a panic) and
closes its pipe. `JoinOut`, `JoinOutFails` and `JoinErr` are the joins, stdout's
thread first: the probe and `run_adb` return its error at once and leave stderr's
thread to itself, a pair is dropped and so joins it after all, `ios apps` takes what
there is for the answer.

## 3. Runs

| Run | Bounds | Shows |
|---|---|---|
| `ios_session` | 2 port attempts, 2 poll rounds, 2 stops | safety, exit order, refinement; a stop and a dead link end the session |
| `mjpeg_proxy` | 2 viewers up to permutation, 3 frames | counters, registry, error order; no viewer is shut by another |
| `mjpeg_proxy_live` | 1 viewer, 2 frames | `stop` returns and frees registered writers |
| `ios_gui_store` | 1 phone, 2 starts, 1 poll, 2 sessions | one session, owned; placeholder carried; failure visible |
| `wda_client` | supervisor, 2 callers up to permutation, 3 sessions, 1 more look in `wake` | no eviction, one loss healed, settings replayed, ok verified |
| `ladder` | 3 children, 1 + 1 sleeps | reaping, budget, rungs; it returns; helpers after SIGKILL |
| `gui_shutdown` | 1 pairing call, 2 generations, 1 phone, 2 starts up to permutation, 2 sessions, budgets 1 < 2 < 3 < 4 ticks | one worker, a cancel stands; a live scrcpy is reachable; the exit keeps its budgets, waits, brings down what it took, never hangs |
| `pairing_round` | 3 endpoints, 3 devices and 2 identities in the listing | processes collected, secret wiped; the strongest event and one of its errors; killed for cause; prompt cancel; each device once; it ends |
| `bounded_command` | pipe of 2, limit of 2, up to 4 chunks per pipe | caller, child and readers agree, also when a reader fails; what is left at the end; complete; returns |

The proxy's liveness runs on its own: with two viewers it takes minutes, and
symmetry is not sound for it. One viewer is what it is about, a thread that
`stop` has to free.

Two port attempts distinguish first, retry and last; two poll rounds
distinguish "again" and "late"; one stop is a request and a second one a
repeated request. Two viewers give an old and a new one (eviction, counter
above one); three frames give a frame dropped between two seen ones. Two starts
with two ids give a session after a session and two that compete; three
children give a reaped prefix, a live one in the middle and a dead one behind
it. Three WDA sessions give the first, its replacement and a second loss.
Two generations give a new attempt after a cancelled one, two sessions on one
phone the competing starts and a start at exit; the budgets keep the order of the
code's 5, 7, 13 and 15 s. Three endpoints give one that fails, one that times
out and one still in flight; three devices a cable row between two network rows, two
identities devices that are the same, that differ and that are unknown.
Four chunks are more than pipe and limit hold.
`MaxStops`, `MaxFrames` and `MaxSessions` bound counters that
are unbounded in the code; deadlock is not checked where such a bound, or a
user who does nothing, may stop the model (`MCMjpegProxy`, `IosGuiStore`), or
where the program ends (`GuiShutdown`, `PairingRound`, `BoundedCommand`).

Each property has a seeded fault: an operator commented as such next to the
definition it stands in for, changed the way a bug there would; with it in
place the property fails under the same configuration.

### Where the code does less than its text says

Runs that find one property violated, each stating a sentence of the source:

- `ios_gui_stop_lost`: a stop during the placeholder is lost (gui:888-890).
- `ios_gui_reclaim`: a start in flight at exit is not reclaimed (gui:2114).
- `pairing_exit_budget`: the 13 s for a cancelled pairing worker are reckoned
  from one adb command of 10 s; the precheck runs two without a look at the token,
  the last listing one per device, and the look-up of the name one more
  (wireless.rs:22-26, 634, 758-759, gui:192-201).

Known from the models, without a run of their own:

- event and error of a round are said to have one origin (wireless.rs:588), but a
  query that runs into its own 10 s leaves `TimedOut` as the error of a plain failure
  (wireless.rs:502-509, 1026-1033), and the GUI shows the code of a pair that timed
  out. What does hold is `AttributionIsRight`: the event is the strongest one, and
  every event but the plain failure has its one error;
- the thread that reads `ios apps` is said to end for certain once the child is gone
  (`crates/quadcontrol-ios/src/lib.rs`:407), which a process that inherited stdout
  prevents; the join has no limit (408). `Returns` therefore assumes that nobody
  holds the pipes for good;
- a stop during `create_session`, `configure_mjpeg` or `Proxy::start` may end in
  `Failed` (session.rs:732 says it is no fault);
- `Proxy::stop` may miss a connection accepted before it and registered after it
  went through the registry (mjpeg.rs:23-24, 590);
- a refused `start_ios_session` has already overwritten the UDID of the running
  session (gui:372, 795);
- a text may go to a new WDA session with an element id of the old one
  (wda.rs:496-499);
- on the command line Ctrl-C ends the wait for the device and then goes on to the
  fallback connect, since it raises no token (wireless.rs:691, 1117);
- an Android start in flight at exit is inserted into the drained map, as the iOS
  one is lost (gui:1914, 2102);
- `ios apps` is cut at its limit or by an error of the read, and is empty after a
  panic of the reader, without a word; it lets go of its child when `try_wait` fails
  (`crates/quadcontrol-ios/src/lib.rs`:389-391, 397, 408);
- when stdout's reader fails, the probe and `run_adb` return before they join
  stderr's, which then ends by itself (probe:181, wireless.rs:1011-1013).

## 4. Fairness

- `IosSession`: weak fairness of the supervisor, a thread that never blocks
  without a bound (HTTP calls, sleeps and waits have timeouts), and of the pump
  raising the flag after recording an error. Nothing is assumed of phones,
  children or the user.
- `MjpegProxy`: threads run; a read from a live upstream or a write to a live
  viewer may block for good, and returns once the socket is shut; an error of it
  (`WriterErrs`) need never come. A `stop` that
  began goes on; nobody must call it.
- `IosGuiStore` (in `ios_gui_stop_lost` only, so that the counterexample is not
  a GUI that hangs): a command that was issued goes on, and so does a session
  that starts, is asked to stop or is stopping (`StopEndsSession` of
  `IosSession` justifies that); clicks and polls need not happen.
- `PairingRound`: the worker's thread runs. adb and its processes may do nothing;
  `AttemptEnds` assumes that a cancel or the deadline comes, as the clock provides.
- `BoundedCommand`: caller and readers run and the deadline comes; nothing is
  assumed of the child. An error of `try_wait` or of a read is not under fairness, so that
  progress never rests on it. `Returns` assumes that nobody holds the pipes for good.
- `GuiShutdown` states no fairness: `ExitIsNeverStuck` says instead that the exit can
  always move, by a step that no user, phone or error has to provide, and `ShutdownInv`
  that its clock is bounded.
- `TerminateLadder`: the ladder's thread runs, and a process that received a
  signal it does not ignore dies.

## 5. Proofs

`IosSessionProofs` proves, for every `FORWARD_PORT_ATTEMPTS >= 1`, every
`PollBudget` and every `MaxStops` (`ConstantsAssumption`):

- `SupervisorInvariant`: `Spec => []SupervisorInv`. `NothingLeftBehind` and
  `RunningIsComplete` are not inductive: that nothing is left when the end is
  published depends on what the exit sequence found, which depends on where the
  start-up broke off. `SupervisorInv` says it per program point: which status
  is shown (`StatusFollowsPc`), which children are in the vector
  (`OwnedFollowsPc`), that a process outside it can only be the forward on
  trial (`NoStrayChild`), and where proxy, client and WDA session exist
  (`PartsFollowPc`). `InitInv` and `StepInv` prove it inductive, one step per
  action.
- `NothingLeftBehindHolds`, `RunningIsCompleteHolds`: from it.
- `OrderlyExitHolds`: only the ladder reaps owned children (`OnlyLadderReaps`),
  and where it stands the invariant says proxy and client are gone.
- `ImplementsLifecycleHolds`: the refinement of `SessionLifecycle`. The initial
  state holds nothing; each step of the supervisor, a child or the pump becomes a step of the
  lifecycle or leaves status, `Held` and the done flag alone. The invariant
  is needed where the lifecycle asks for more than a step shows: `Running` with
  proxy and client, a final status with nothing held.
- `BlameIsRightHolds`: an action property; the outcome is set at the places where
  a wait or a spawn failed or a dead owned child was found, and nowhere else.

`TerminateLadderProofs` proves, for every number of children and every budget
(`LadderAssumption`: all three are naturals):

- `LadderInvariant`: `Spec => []LadderInv`. That nothing is killed without
  SIGTERM first is not inductive: `GentleFirst` needs to know at `Kill` that
  every group had its SIGTERM, and at `Terminate` that SIGINT was skipped only
  by an escalation. `SentFollowsPc` says so per rung; `PollsAreBounded` ties the
  polls left to the rung's budget, which `BudgetIsShared` counts down from.
- `ReturnsWithAllReapedHolds`, `BudgetIsSharedHolds`, `GentleFirstHolds`: from it.

`WdaClientProofs` proves, for any set of callers and any `MaxSessions`
(`ClientAssumption`):

- `RecreateInvariant`: `Spec => []RecreateInv`. To know at `Post` that the shared
  session is dead one needs that it was dead when the 404 came, that ids never
  come back (`Ids`, `StaleIsDead`), and that nobody stored another id since the
  comparison: everybody who could holds the mutex (`HolderRecreates`), but for
  the first session, made before any clone exists (`FirstIsAlone`). Most steps
  change none of this; `QuietKeepsInv` says so once for all of them.
- `NoSelfEvictionHolds`: only `Post` makes sessions (`OnlyPostMakes`), and there
  the invariant says the shared one is gone.
- `ClientInvHolds`: `SettingsSurvive` speaks of the moments when the mutex is free;
  inductive is that the shared session is tuned unless somebody stands at the
  replay (`TunedUnlessReplaying`), which only the holder can.
- `OneLossIsHealedHolds`: a retry that meets a dead id counted two losses. A loss is
  counted when it happens, the id is read earlier and again later, so the invariant
  carries the count along: at a dead id one loss, at a dead id with a dead
  successor two, the successor being the shared id or the one a re-creator has yet to
  store (`LossesAreCounted`). It needs that only the last session made can live and
  that the shared id never goes back (`SharedIdGrows`).
- `OkIsVerifiedHolds`: an operation makes its own calls only (`CallsFit`) and has
  noted every moment the screen was unlocked (`UnlockIsSeen`).

`GuiShutdownProofs` proves about the composition, for any sets of pairing calls,
phones and start calls, any number of generations and of sessions
(`PairingAssumption`, `AndroidAssumption`), and any budgets in the order of the code's
5 < 7 <= 13 < 15 s (`BudgetAssumption`, which the exit's theorems use):

- `PairingInvariant`: `Spec => []PairingInv`. That one worker runs at a time
  (`OneWorker`) rests on the state's generation being its own, which rests on no
  generation being handed out twice or left behind by an earlier attempt
  (`GenerationsAreFresh`), and the cancel needs the token to be that worker's
  (`TokenIsOfWorker`). One lemma per operation of the store; of the rest only
  `CancelWorker` touches it, the others leave `pairVars` alone.
- `CancelStandsHolds`: an action property; with a state that is cancelling no
  attempt enters, no cancel is repeated, and the only result that counts is that
  of its own worker.
- `LiveIsReachableHolds`, `ExitedIsGoneHolds`: from `AndroidInv`, shown inductive by
  the lemma `AndroidInvariant`. A start that finds no session Running or Stopping
  clears the slot, so one has to know that what it clears is gone: where the
  supervisor stands determines the status it shows and whether scrcpy can be there
  (`SessionShape`). The second look compares serials, so one has to know that the id
  a call carries is its own and that the map holds a session under its own serial
  (`IdsAreOwn`). There is one lemma per operation; steps that
  rewrite one record go through `SessionStepInv`, the exit's stops and the clock
  through `StopsRaisedInv`, its drain through `DrainedInv`.

- `ShutdownInvHolds`, `ExitWaitsForReclaimHolds`, `DrainedAreDownHolds`: that nothing
  times out is a race of two clocks, the clean-up's and the session's own, so the
  invariant compares them: a session that is awaited has been stopped for at least as
  long as the clean-up has waited (`AwaitedEndInTime`), and its ladder is
  shorter than the budget. The final event may begin to wait at any moment; its
  deadline is beyond `PairBudget`, which the clock never passes while one thread, and
  only one, reclaims (`ReclaimIsOnTime`). `AndroidInv` gives that a done message means
  a scrcpy that is gone.

`IosGuiStoreProofs` proves, for any sets of phones, commands and polls and any number of
sessions (`StoreAssumption`):

- `StoreInvHolds`, `LiveIsOwnedHolds`: that at most one session lives is inductive only
  together with who may make the next one. A start spawns with no lock held; that the
  slot is still its placeholder when it comes back (`CarrierHasSlot`) rests on ids
  being handed out once and having no session before their command spawned it
  (`IdsAreOwn`), and on a poll or a stop touching the slot only for the id it saw
  (`PollsKnowTheirs`). One lemma per command's critical section.
- `FailureStaysVisibleHolds`: an action property; only a start replaces a failed slot.

`MjpegProxyProofs` proves, for any finite set of viewers and any number of frames
(`ProxyAssumption`):

- `ProxyInvHolds`: counter and registry are exact because a connection is the
  acceptor's alone until it is registered, and a writer shuts it before its guard
  runs; the pump records its error before the flag, and `stop` raises the flag first
  (`ThreadsAgree`). The proof treats connections, the slot and the two threads apart.
- `DropsWereNotSeenHolds`: publishing charges a drop for the frame it overwrites unless
  it was consumed, and a frame some writer took was (`ThreadsAgree`); the set of unseen
  frames grows by that frame. Uses the library's facts on cardinality.
- `NoEvictionHolds`: an action property. Apart from `stop` and the accept loop, which
  shuts what nobody accepted, only `WriterLeaves` shuts a connection: the thread's own,
  with all the errors its reading and writing may meet.

`BoundedCommandProofs` proves, for any size of pipe, limit and output
(`CommandAssumption`):

- `CommandInvHolds`: where the caller stands tells how far child and readers are
  (`CallerKnows`), and that a reader that failed is passed over only by a caller that
  has an error to return, or by `ios apps`; a chunk is in the pipe, kept, or its reader
  says that it was dropped or that it failed (`NoChunkIsLost`).
- `CollectedAtReturnHolds`, `OkIsCompleteHolds`: from it. That a reader which did not
  fail ended only at the end of its pipe, after the child, is what makes a whole answer
  whole. Both say exactly what an error of a reader may leave behind.

`PairingRoundProofs` proves, for any set of endpoints, any length of the last listing
(`MaxDevices`) and any number of identities (`PairingRoundAssumption`; the two time limits
matter only to the run that is violated):

- `RoundInvHolds`: `Spec => []RoundInv`, inductive (the run checks the properties that
  follow from it). That nothing is left behind needs the vector to be exact
  at every moment (`ChildrenAreHeld`: an endpoint is tried once, so appending keeps it free of
  repetitions, and removing at the poll's index takes out just that endpoint). The lemmas
  `RemoveAtInjective` and `AppendInjectiveTo` say so of sequences.
- `NothingIsLeftHolds`: from it. Besides, the loop's locals and `RoundState` agree
  (`LoopIsTracked`): the service counts as lost in both or in neither, and a turn begins with
  `pair_in_flight` saying whether the vector is empty. Without that a lost service could
  close the round in the middle of a turn, and `round_close` would then call it cancelled.
- `AttributionIsRightHolds`: the event is the strongest that befell the round and the
  error one of its own; a plain failure is named only if neither a timeout nor a
  lost service was seen; the invariant carries both flags from the turn in which they
  were set to the one that ends the round (`FailRoundIs`, `CloseReasonIs`).
- `EachDeviceOnceHolds`: `AddDeviceIs` shows that one turn of the loop keeps one row for each
  device seen so far: a newcomer's identity has at most one row, and taking that row over
  is taking it over for all of that identity.
- `KilledOnlyForCauseHolds`: an action property; only a poll and `round_close` collect a
  running process, and a round that ended in a failure has none (`RoundIsTracked`).
- `CancelIsPromptHolds`: an action property; `LateFits` bounds at each step of the worker
  how many commands can have ended since the interrupt, `SecondCommandIsKnown` goes
  through the commands: precheck, last listing and look-up of the name are left.

`ReturnsWithAllReaped`, `BudgetIsShared`, `GentleFirst` and `RunningIsComplete` are
proved from the inductive invariants that the runs check, `ExitWaitsForReclaim` and
`CollectedAtReturn` are conjuncts of theirs; the runs do not list them again.

Only model-checked: `ExitIsNeverStuck`, which is about ENABLED, and every liveness
property, `AttemptEnds` and `KillReachesHelpers` among them (fairness is out of the
prover's reach).

## 6. Not modelled

Contents of frames and the multipart framing, of command lines and of tool
output; device selection, argument filtering and other pure functions on
strings, which have fixtures; the wall-clock sum of the iOS exit sequence; the
command line's wait for scrcpy and `scrcpy --version` and `ios list`, which run
without a deadline; the Windows branches; the Swift programs, which are separate
products; the components marked `not_modelled` in `PROJECT.json`, each with its
reason there. A poisoned mutex (a panic inside a critical section) is not
modelled. Atomics are sequentially consistent.

## 7. Plan

What is left: the multipart framing as operators against a reference splitting.
