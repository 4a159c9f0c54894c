# Throne: a TLA+ development

Throne is a desktop proxy client: a Qt program (the GUI, `src/src`, `src/include`) that supervises a
Go process (the core, `src/core`) which runs sing-box and Xray. The models here cover the part of the
program whose failures a user notices last and a test reaches least: who runs which process, who may
start what and when, how the two processes talk, and what is left behind when a step fails or a process
dies. Ten components are modelled and model-checked with TLC, and each of them has its safety properties proved with
TLAPS for every value of the constants; one of them speaks of ENABLED and is proved in terms of the guards.

`PROJECT.json` is the machine-readable half of this document: components, runs, mutants, the map from
every definition to the source lines it models, hazards and theorems.

## 1. The system

### Components that are modelled

**Kill switch** (`src/src/sys/KillSwitch.cpp`, `src/core/internal/guard`). *State:* the setting and its
override, `state_` (Disabled, Arming, Armed, Failed), an active and a pending guard process, guards being
closed, callbacks waiting for the outcome. *Operations:* apply, spawn, onReady, armFailed, lose, finish,
closeGuard, the timers, noteIdentityUnsupported, permitExtraCore, shutdown; on the guard's side read the
configuration, arm, report, disarm. *Interaction:* two pipes per guard; ConnectionManager asks
`allowsStart()` and waits through `whenSettled`. *Hard:* guards are replaced make-before-break, so the
output of two or three guards arrives interleaved and late. *Correct when:* it never claims protection it
does not have, forgets no guard (a forgotten one blocks the machine), and fails closed.

**Core supervisor** (`src/src/engine/supervisor/CoreSupervisor.cpp`, `src/src/sys/Process.cpp`). *State:*
`m_state`, the generations handled, accepted and timed out, backoff counters and timers on the main
thread; the QProcess and its generation on the thread DS_cores; the profile to resume. *Operations:*
start, accept a connection, probe, exit, backoff, restart, "Restart Core", privilege change, shutdown.
*Interaction:* tasks one way, posted calls the other; the handlers on DS_cores wait in nested event loops
for a profile to stop. *Hard:* reports of a replaced core arrive after its successor was spawned, or never.
*Correct when:* the core is never forgotten, an exit counts once, a hung core is noticed, a stop during a
restart is honoured.

**Connection manager** (`src/src/engine/connection/ConnectionManager.cpp`, `ConnectionModes.cpp`, with the
parts of `AutoSelector`, `DnsAutoSelect` and the supervisor it waits for). *State:* five places a start
request may wait in, two locks, two workers, `m_running` and `started_id`. *Operations:* start and its
checks, the deferral to the DNS selection, the kill switch, the core and the ranking, the resumption of
each, stop, the end of a worker, the cleanup of a dead core, the restart for a guard. *Hard:* `start()` is
run again on the same request after every wait; a second request, a stop, a dying core or an exit may
supersede it anywhere. *Correct when:* every request has exactly one outcome and starts and stops do not
meet in the core.

**Core session lifecycle** (`src/core/internal/rpc/lifecycle.go`, `xray.go`, `state.go`, `src/core/main.go`).
*State:* package variables for the box, the Xray instances, the gates, the extra process, the watch, the
relay; `lifecycleMu`; the auto-redirect mark, the pinned addresses, the state of the system DNS.
*Operations:* the RPCs Start and Stop, Teardown on a signal, shutdown with its timeout, the exit when the
connection drops. *Hard:* nine steps of Start can each fail after the earlier ones are up; pollers read the
slots without the lock; the caller gives up before Start is done. *Correct when:* no error path forgets
what it started, what other goroutines read is alive, every call returns.

**Xray gate** (`src/core/internal/xray/gate.go`). *State:* an instance started on demand, the connections
relayed to it, a cooldown after failures. *Operations:* accept and relay, ensure, sweep, Close. *Hard:*
connections, the sweeper and Close race over the instance and the connection table. *Correct when:* no
instance is orphaned or closed under a connection, Close misses nobody, a failing start is not repeated by
everyone waiting for it.

**System DNS of macOS** (`src/core/internal/sysdns/sysdns_darwin.go`). *State:* the DNS servers of each network
service, an alias address, a record on disk. *Operations:* Prepare, Apply, follow, Release, RestoreStale.
*Hard:* the core may be killed between any two commands. *Correct when:* whatever was changed can be put
back by the next core.

**RPC channel** (`src/src/api/RPC.cpp`, `src/core/internal/rpc/dispatch.go`). *State:* `connected_`, the map of
pending calls, a `PendingCall` per call with its own lock, the socket, the read buffer and the queue of the I/O
thread. *Operations:* `Call` with its two waits, `Reconnect`, `wakeAllWithError`, `processBuffer`, and the core's
reader, goroutines and `writeResponse`. *Interaction:* every worker calls through it; the supervisor reconnects it
when a core connects. *Hard:* a timeout, an answer and the loss of the socket race for one slot; the next core's
socket is swapped in behind queued writes; two locks are taken by three kinds of threads. *Correct when:* an
executed call was not refused, is executed once and its answer goes to its own caller; no slot leaks; nobody
waits for ever.

**Test sessions** (`src/src/engine/tests/TestRunner.cpp`, `src/core/internal/probe`). *State:* the session lock, its
generation, `stopRequested_`, the batch in work, pollers that are never joined, the core's buffer of results.
*Operations:* run, queue, refuse, the batches, stop, the polls, the end. *Hard:* tags are used again in the next
batch while a poll of the last one still sits in its RPC. *Correct when:* a result reaches the profile it was
measured on, a stop counts once the session is set up, and every request is told its end.

**VPN authentication** (`src/src/engine/vpn/VpnAuthController.cpp`). *State:* what a run has shown and answered, and
budgets for automatic restarts and prompts that outlast a run. *Operations:* poll, answer with a code, restart
for a new one, prompt, the notes of a run's start, of its stop and of a refused start. *Hard:* its own restarts stop the run
through the same handler as the user's stop. *Correct when:* there is no restart loop and no failure is forgotten.

**Headless runtime** (`src/src/engine/headless/ResumeGuard.cpp`, `HeadlessRuntime.cpp`, `HeadlessMain.cpp`). *State:* the
record on disk (which profile is on trial, its strikes, unstable boots, the last exit), the phase of the boot.
*Operations:* settle the previous boot, decide, arm, strike, survive, give up, stay up, exit, exec. *Hard:* the
program may be killed anywhere and the record is all the next boot knows. *Correct when:* a profile that kills
the program is suppressed in the end, and never without cause.

### Components that are not modelled yet, or not at all

| Component | What it keeps and does | What would make it correct |
|---|---|---|
| Auto selector's monitor | pool of candidates, health, exhaustion | switches only to a healthy candidate, stops when the pool is exhausted |
| Subscription update | reconciliation of profiles, the running one kept | equals a reference function; never deletes the running profile |
| Scanner | workers and their rows | a row is owned by one worker |
| Single instance, data directory | lock file, local server | one owner |
| System state journal | record of changes to the system | what a crash leaves is on record |
| Updater | extract, replace, start | an interrupted update leaves a program that starts |
| Guard backends | nftables, WFP, pf | external; `KillSwitch` assumes rules up before READY |
| Remote API, services, statistics, database, configuration and parsing, UI, mobile core, vendored code | see `PROJECT.json` | little control of their own, or pure data |

### How the components interact

```
 HeadlessRuntime --boot start-->        TestRunner --Test, QueryURLTest--+
                                |                                       v
 user, tray, API --start/stop--> ConnectionManager --Start/Stop--> RpcChannel --> CoreLifecycle --> XrayGate
                                |  |   ^     ^                          ^               |
       VpnAuth --restart--------+  |   |     | coreStarted, coreGaveUp  | Reconnect     +--> SysDns
                     whenSettled() v   |     |                          |
                              KillSwitch   CoreSupervisor --------------+
                                   |             |
                           guard processes    spawn, kill: the core process
```

Each module models one box in full and shows its neighbours only by what the box sees of them, with
every outcome the neighbour's own module allows left open: in `ConnectionManager`, for instance, the
kill switch moves between its states, the supervisor restarts, gives up and shuts down, and an RPC
succeeds, fails, or is answered after its caller gave up. For calls this seam is a specification of its own:
`RemoteCall` says what any caller may rely on, the modules above it assume no more, and `RpcChannel` is shown to
implement it.

## 2. The modules

| Module | Lines it stands for | State and actions |
|---|---|---|
| `KillSwitch` | `KillSwitch.cpp`, `guard.go` | the fields of `Sys::KillSwitch` are the record `ks`; its private members are operators from record to record (`spawn`, `closeGuard`, `fail`, `settle`, ...), each signal handler is an action; a guard is a slot with a process state and an ordered output |
| `KillSwitchProofs` | | the theorems about it |
| `CoreSupervisor` | `CoreSupervisor.cpp`, `Process.cpp` | `sup` (main thread), `process`, `tasks`, `frame` (DS_cores: the handler waiting in a nested loop), `posted` between them; history variables for what the user asked last and which exits were counted |
| `CoreSupervisorProofs` | | the theorems about it |
| `ConnectionManager` | `ConnectionManager.cpp`, `ConnectionModes.cpp`, `StopRunningProfile`, the early start and rebuild of `AutoSelector` | one `start` action per exit of `start()`; the workers are small program counters; `posted` is the main thread's queue, in which the report of an exit that a restart has made moot stays until it is dropped |
| `ConnectionManagerProofs` | | the theorems about it |
| `CoreLifecycle` | `lifecycle.go`, `xray.go`, `state.go`, `main.go` | `slot` (what a package variable names) against `up` (what really runs): a leak is a difference between the two; every `sysdns.Release` may succeed or leave a service pointed at the core (`dns = "left"`) |
| `CoreLifecycleProofs` | | the theorems about it |
| `XrayGate` | `gate.go` | a program counter per connection, one for the sweeper, one for Close |
| `SysDns` | `sysdns_darwin.go` | one step per external command or file write; `disk` is the record, `owned` each core's memory of it |
| `SysDnsProofs` | | the theorems about it |
| `RemoteCall` | the contract of `API::Client` | what each call came to, what the core did, whose answer was returned |
| `RpcChannel` | `RPC.cpp`, `dispatch.go` | a program counter per caller, one each for the I/O thread and `Reconnect`; both locks are explicit where they are held over several steps; answers are two fragments each; `RC == INSTANCE RemoteCall WITH payload <- ...` is the refinement |
| `RpcChannelProofs` | | the theorems about it |
| `TestRunner` | `TestRunner.cpp`, `urltest.go`, `probe.go` | a program counter per request, with the lock of the session, the move of the generation and the reset of the flag as steps of their own; a poller per batch, the core's job and its buffer |
| `VpnAuth` | `VpnAuthController.cpp` | fields by lifetime: of the poll, of the run (`tracking`), of the session (`budget`); history variables count what happened since the user last acted |
| `GateTestAuthProofs` | | the theorems about `XrayGate`, `TestRunner` and `VpnAuth`, three small parts in one module |
| `HeadlessRuntime` | `ResumeGuard.cpp`, `HeadlessRuntime.cpp`, `HeadlessMain.cpp` | `disk` against `g`, the same record in memory; `Killed` may follow any step; every way out of `RunHeadless` is an action (`ProcessEnds`, `StartsAgain`, `EndsEarly`, after `StrayQuit` too) and `returned` says which it was; history variables count harmful boots and what each strike was for |
| `HeadlessRuntimeProofs` | | the theorems about it |

`GateTestAuthProofs` extends three components that have nothing to do with one another, so two of them prefix their
formulas: `RunnerInit`, `RunnerNext` and `RunnerSpec` in `TestRunner`, `AuthInit`, `AuthNext`, `AuthSpec` and
`AuthTypeOK` in `VpnAuth`.

`MC*.tla` instantiate these for TLC (symmetry sets and the sets of requests); bounds are in the `.cfg` files.
An operator whose name begins with `Mut` is a plausible mistake in the definition that follows it; it is not
part of the specification. Each property of a passing run is violated when its mutant takes the place of
the definition.

## 3. What is checked

| Run | Bounds | Shows |
|---|---|---|
| `killswitch` | 3 guards, 2 configurations, 2 events | `ArmedIsEnforced`: while Armed is shown the active guard's rules are installed, or their loss is on its way. `NoStrayGuard`: every live guard is active, pending or told to leave. `FailsClosed`: a start is allowed only behind an armed guard, and never to a core that could not join its group. `ReplacedOnlyByReady`: make before break. Live: `ArmingSettles`, `ClosedGuardLeaves` |
| `supervisor` | 3 generations, 2 queued tasks, 2 events, give up after 2 | `CoreIsTracked`: while the supervisor operates, a process whose exit it will act on lives, or a respawn, a timer or a report is under way; and a core that has not connected has its timer or an end on the way. `CountedOncePerCore`, `StopCancelsResume` |
| `supervisor_live` | 4 generations, 1 task, 1 event | `Settles`: a core that hangs, fails or exits leads to a connected core or to giving up |
| `xray_gate` | 2 connections, 3 instances, 2 attempts | `NoOrphanInstance`, `HandedInstanceStays`, `FailureIsShared`; live: `ClosedGateDrains`, `UnusedIsSwept` |
| `lifecycle` | 2 calls and a Teardown, all kinds of request, 3 platforms | `NothingForgotten`, `XraySlotsAreLive`. `ResolverHasListener`: what is pointed at the core without a box that stays up is what a failing Release left; no path closes the box ahead of the Release. Live: `CallsReturn`, `ShutdownExits` |
| `sysdns` | 3 processes one after another, 3 services | `Recoverable`: at every moment, so wherever a kill comes, a changed service and the alias address are on record with what the user had. `PointsOnlyInSession` |
| `connection` | 2 profiles, 2 requests with a serial and the engine's own, 1 event | `OnceEach`: a request is in exactly one place until it is answered, and is answered once. `CoreOwesAnswer`: a start that waits for the core waits for something the supervisor owes. `StartsOnCleanCore` |
| `connection_live` | 1 profile, 1 request, 1 event, 1 overtaken call | `RequestsAnswered` |
| `rpc` | 2 calls, 2 cores one after the other | `SlotsMatch`: a slot of the map has a caller that needs it, and a caller without one is being told. `TimedOutIsUnanswered`: an answer that meets the timeout is used. `FramesAligned`: what a dead core left half-written never shifts the next one's frames. `ClientNeverStuck`: the two locks, three threads and the callers never all wait. `ImplementsRemoteCall`: the refinement |
| `tests` | 2 requests, one of them of 2 batches, 1 tag, 1 stop | `RightProfile`: a poll that outlived its batch stores nothing under the tags of the next. `StopIsHonoured`: from the reset of the flag on, a stop ends the session it meets, although other requests come and go. `RequestsFinish` (live) |
| `vpnauth` | 1 endpoint, 2 profiles that use it, 2 restarts, 1 prompt, 1 rejection | `RecoveryIsBounded`: between two acts of the user an endpoint gets no more restarts and prompts than the budgets, although each restart stops the run; exempt is a run whose mark was lost because a second restart was refused while the first was under way (section 6). `FailureIsSeen` (live): a refused endpoint is shown, or the run ends, whatever poll was under way |
| `headless` | 2 profiles, 2 strikes, 2 boots | `NoCrashLoop`, `StrikesAreEarned`, `GiveUpsAreBounded`, over any number of boots: the state space closes without a bound on them. `ExitIsRecorded`: last_exit is the code returned when an exit was decided, the restart when a successor was started, none after a kill or an early return, and none or the refused restart after a stray quit |

Every module but `TestRunner` and `RemoteCall` also defines a type invariant, `TypeOK` (`AuthTypeOK` in `VpnAuth`). It, or
the part of it the argument needs (`Types`), is a conjunct of the inductive invariants.

### Why the bounds are enough

* *Kill switch.* Three slots let one guard be active, one pending and one closing at the same time; a
  fourth could only be another closing one, which is independent of the rest. Two configurations make a
  replacement necessary and make reverting it possible. Two events are a change or a failure and a second one
  before the first is settled. All invariants, and `ReplacedOnlyByReady`, are also proved without bounds.
* *Supervisor.* Three generations are an old core, the current one and the next; two tasks are one being run
  and one overtaking it in a nested loop. `Settles` needs one generation more than it takes to give up. The
  invariants are proved for any number of generations, tasks and events.
* *Gate.* Two connections meet in every pair of steps, and three instances allow a sweep and a restart before
  Close. All invariants are proved for any number.
* *Lifecycle.* Two calls and a Teardown reach every step after every failure. `MCRequests` combines every kind of
  resource with and without those started before and after it. The invariants are proved for any number of calls
  and any set of requests.
* *System DNS.* Three processes are the one that leaves something behind, one that dies replaying it and one
  that replays what is left. Three services are the old default, the new one and one that could not be put
  back. Services are interchangeable, hence the symmetry. Both properties are proved for any number of processes
  that live one after the other, and any services.
* *Connection manager.* Two requests supersede one another; one event interrupts at any step. `MaxOvertaken`
  bounds the queued calls that an input event may overtake; the race between a worker's unlock and the
  queued end of its start is reachable with 0, since taking up a request and running `start()` on it are
  two steps. Profiles are interchangeable, hence the symmetry; the live run has none. The invariants are proved
  for any number of profiles, requests, events and overtaken calls.
* *RPC channel.* Two calls race for the map and for the core's write lock; two cores are the one that dies with a
  half-written answer and the one that is swapped in. The slots, the frames and the refinement are also proved for any
  number of both. Calls are interchangeable; nothing live is checked under that symmetry.
* *Tests.* A session of two batches and another one let a poll outlive its batch into the next batch and into the next
  session. One stop meets every step. Both invariants are proved for any number of requests, batches, tags and stops.
* *VPN.* One endpoint under two profiles: a restart of the same profile, a switch to another one that shares the
  endpoint, and a stop of either. Two restarts let a second one meet the first under way; one prompt and one
  rejection make their limits reachable at once. The bound on recovery is proved for any budgets.
* *Headless.* Two strikes and two boots are the first that counts and the one that reaches the limit; two profiles
  are the one on trial and the one it is replaced by. All four properties are proved for any limits.

`CHECK_DEADLOCK FALSE` stands where a quiet system is a proper end: everything idle and the events used up.
`CoreLifecycle`, `RpcChannel`, `TestRunner`, `VpnAuth` and `HeadlessRuntime` check deadlock, the first three with an
explicit step for the state in which everything has ended.

### Fairness

Nobody has to connect, call, change a setting or hang up, and no core or guard has to come up. What is
assumed is that threads that can run do run:

* `KillSwitch`: the UI thread serves its queue, each guard's pipe and each guard's timer (`onReadyTimeout`,
  `stopHard`); a guard process goes on when its input has ended or its configuration is there.
* `CoreSupervisor`: both event loops run, their timers fire, a killed process dies in the end.
* `XrayGate`: goroutines run, idle time passes, a relay whose sockets are closed ends.
* `CoreLifecycle`: the goroutine that holds `lifecycleMu` runs and a Go mutex is handed on; the timeout of
  `shutdown()` fires. A box that hangs while it closes stays hung.
* `ConnectionManager` (`FairSpec`): both loops and both workers run; every RPC, the DNS selection, arming, the
  probe and the connection of a core end within the timeouts the code gives them. The last three are what
  `ArmingSettles` and `Settles` show of the components that owe the answer.
* `TestRunner`: the worker of each request runs and the core answers a Test (its deadline covers the worst case);
  pollers and `stop()` promise nothing.
* `VpnAuth`: the main thread goes on with a poll, a report, a stop and a start that are under way, the cooldown ends;
  the user and the endpoints promise nothing.
* `SysDns`, `RpcChannel` and `HeadlessRuntime` have no liveness property and no fairness. That nobody waits for ever
  in the channel is the invariant `ClientNeverStuck`: the clock of a caller is one of the steps it looks for.

## 4. What is proved

TLAPS proves the following from the specifications and from the constants' assumptions alone: null values are not
members of the sets they stand beside, bounds are naturals, and those are positive that the code has as positive
constants (`gateStartAttempts`, `kGiveUpAfter`, the strikes and boots of the headless record) or that would leave no
behaviour at zero (`MaxGen`, `MaxCalls`). In `VpnAuth` a profile uses endpoints that exist. No particular value of a
bound is used. Every inductive invariant was first checked with TLC on the instance of the component's run.

**`KillSwitchProofs`** (`TypeCorrect`, `ArmingPending`, `NoStray`, `FailClosed`, `IdentitySticky`, `FailsClosedAlways`,
`WaitersServed`, `ArmedAlwaysEnforced`, `OnlyReadyReplaces`).
None of the invariants is inductive. That Arming has a pending guard, say, depends on a guard that ends
being taken out of `pending_` in the handler that changes the state. The invariant `IndInv` (defined and
explained in `KillSwitch`) says how state, guards and waiters fit together between two handlers (`Coherent`),
that the refusal for the guard's identity survives (`Refusing`), which slots hold a guard and in which role
(`Slots`), and that a switched-on setting that is applied is not Disabled. `Slots` is what `NoStrayGuard`
needs: a guard may be forgotten by overwriting a pointer, so the pointers, the closing set and the used
slots must partition. A second conjunct, `OutputEnds`, says that a guard's exit is the last line of its
output; without it a slot could be freed with output still unread and a new guard be credited with it. The
lemmas follow the member functions (what `settle`, `fail`, `closeGuard`, `spawn`, `turnOff`, `apply`, `lose`,
`onReady`, `finish` do to a coherent record); `StepLemma` and `OutputLemma` have one step per action.
`ArmedIsEnforced` and `ReplacedOnlyByReady` relate the GUI's belief to another process, with a pipe in between.
`Truthful` is that relation: a guard without rules has reported nothing (`Silent`), an unread READY is the first line
and stands for rules that are installed or whose loss is reported behind it (`ReadyFirst`), and so does the active
guard (`ActiveBacked`). The two properties then need to know what each handler does to `active_` and `closing` only:
no handler but `onReady` makes a guard active, and with the setting on none lets the active one go except to replace
it or because its loss was read (`HandlerRoles`, `LoseKeepsActive`, `OnReadyActive`).

**`GateTestAuthProofs`, the gate** (`TypeCorrect`, `NoOrphan`, `HandedStays`, `CloseReachesAll`, `FailuresShared`).
`IndInv` is the conjunction of `Locking` (who holds `g.mu`, and that a start happens only in an open gate without an
instance), `Ownership` (the gate, the sweeper and Close hold different instances), `Counted` (a connection is in
`active` from before `ensure` until it leaves, which is why the sweeper's second look under the lock suffices),
`HandedInstanceStays`, `Phases` (what Close has done), `Tracked` (a relayed connection's sockets are in the table, or
Close has closed them) and `Tries`.

**`CoreSupervisorProofs`** (`CoreAlwaysTracked`, `CountedOnceAlways`, `StopAlwaysCancelsResume`). `CoreIsTracked` says
that something is always under way for the core; the invariant follows one generation through both threads to say
what. `Startup` and `FirstTask` fix what precedes the first core; `Numbered` that nobody has heard of a generation not
yet spawned; `InOrder` that spawn reports arrive in order (exit reports do not: a handler that waits in a nested loop
posts its own behind those of the tasks that ran meanwhile); `Reported`, `Followed` and `Watched` that a core which is
gone was reported, a core whose exit was handled is followed by another, and a core that has not connected has its
timer or an end on its way. `Failures` bounds the counters by the generations handled, which is why an exit counts
once; `Cancelled` says that after a cancelled resume neither place a resume is taken from names a profile.

**`CoreLifecycleProofs`** (`NothingEverForgotten`, `XraySlotsAlwaysLive`, `ResolverAlwaysHasListener`). While the core
runs, what is about to be closed is named (`Doomed`), and the resolver points at a box that is being closed only if a
Release could not put it back (`Aimed`). As long as no Start was refused as "already started", a session that is over
has left no slot of its own (`Cleared`) and everything that runs has a slot or is about to be closed (`Accounted`).
The exemption is the property's own: such a refusal forgets the running box (section 6).

**`RpcChannelProofs`** (`SlotsAlwaysMatch`, `GivingUpIsFinal`, `TypeInvariance`, `FramesAlwaysAligned`,
`ChannelImplements`,
`ClientAlwaysMoves`). `SlotsMatch` alone is not inductive: the slot that `processBuffer()` has taken is neither in the
map nor answered, and nothing in it says that its caller is still there. `SlotInv` adds `ClaimedIsOwed` (a claimed
slot is out of the map, unanswered, and its caller waits) and `DoneWasWaiting` (a call is told only after it
registered and before it gave up). `ChainInv` follows an answer backwards to its call: what a caller was told is what
the reader claimed for it (`Told`); what each core has written and the client has not cut from its buffer is a run of
whole frames with at most one begun, each of which carries what the core did (`Streams`); a request is served by one
goroutine of one core (`Serving`, `Outcomes`) and written at most once (`Queued`), over cores and sockets that only
get newer (`Generations`). `FramesAligned` is part of it. `ChannelImplements` is the refinement `Spec =>
ImplementsRemoteCall`: a caller that returns maps to `Answer` with its own execution's result or to `Fail`, a refused
or accepted call to `Refuse` or `Begin`, a goroutine of the core that is done to `Execute`, and every other step to a
stutter.

**`GateTestAuthProofs`, the test sessions** (`RightProfileAlways`, `StopAlwaysHonoured`). The code states none of the
three facts in one place: whoever works through batches holds the session (`Holders`), what the core has published and
nobody has drained belongs to the Test in progress (`Published`), and a poller of the current generation is that of
the current batch, or the last of the session before while the new one is locked and its generation has not moved,
when there is nothing to drain (`Current`). `Stopped` keeps the flag set for as long as a run that was stopped after
its own reset holds the session; a stop before the reset is out of the theorem's reach because it is lost (section 6).

**`GateTestAuthProofs`, the VPN controller** (`RecoveryAlwaysBounded`). The history never gets ahead of the
controller's own counters (`CountsAgree`), since the stop inside a restart is recognised: `m_vpnAuthRestartID` names
the running profile while the controller's own start is under way (`Marked`). The attempt to prove `Marked` without an
exemption failed for a good reason: a second restart that is refused clears the mark of the first. `history.lost`
records that case, the theorem exempts it, and section 6 has the trace.

**`HeadlessRuntimeProofs`** (`NeverACrashLoop`, `StrikesAlwaysEarned`, `GiveUpsAlwaysBounded`, `ExitAlwaysRecorded`).
A boot knows of earlier ones only what is on disk, so the invariant says what the record means in every phase: it
equals the one in memory except for an unsaved candidate (`Synced`), concerns the profile of the row (`Owner`), and is
armed only after the one dispatch of the boot start (`Trial`). `Paid`: every harm is a strike, or the record is armed
and the next settling will make it one; an armed record has a strike to spare. `Owed` is the converse: no strike
without a cause. `FirstCrash` and `Kept` tell the crash that counts from the one that follows it and say which exits
leave the record armed; `Counted` and `Written` do the same for boots given up and for the last exit:
`Written` says what last_exit holds at every stage of a life, on the way through `runTerminate()` and on the way of a
stray quit.

**`SysDnsProofs`** (`RecoverableAlways`, `PointsInSession`). `Recoverable` speaks of the disk and of the system: what is
changed now is on record. That is kept because of what a live core has in memory. Everything that is not as the user
had it is in its own record (`Remembers`) or in the one it replays (`Replays`), with a case for the moment when
`Prepare` has taken the leftovers over and has not written them yet; the record is on disk before a change and leaves it
after the change is undone (`Saved`); a service is changed in a session only, also by a follower that Release has
overtaken (`InSession`); and only what the user had ever gets into a record (`UsersOnly`), so that putting back never
points a service at a core again. A kill then loses the memory and nothing else. Both theorems assume `~Overlap`, one
core alive at a time: with two, `Recoverable` is false of the code (section 6), and the runs make the same assumption.

**`ConnectionManagerProofs`** (`TypeCorrect`, `AnsweredOnce`, `CoreOwes`, `CleanStart`). `OnceEach` counts the places
and outcomes of the serials given out. `Tracked` says of every serial where it is: not given out, in one of six places
that are spelled out, queued once, or answered; and that nothing but an outcome carries a serial through the queue
(`Unnumbered`). Each handler then moves a serial or answers it, and the cardinalities are computed once, at the end.
What makes the moves safe is `Vacant`: the places the code overwrites without a look, the ranking's and the worker's,
are empty at that time. `CoreOwesAnswer` is not inductive by itself: a start that comes while the guard restart window
is open joins that restart and asks for none, so the supervisor must owe an answer for as long as the window is open,
request or not (`Owing`). `StartsOnCleanCore` needs to know who is responsible for the profile in the core at every
step of three threads: the starter that has started it and not recorded it, `m_running`, or the stopper that is taking
it away (`Runs`); the stopper works on a profile that runs, and one for a core that died or is about to be replaced
sends no RPC (`Stops`). `PostLemma`, `TakeLemma`, `RestartLemma`, `OutcomeLemma` and `OutcomeTaken` say what the
operations on the queue do to the serials in it; there is one lemma per action.

**Only model-checked.** Liveness, and `ClientNeverStuck`, which is stated with ENABLED: the prover handles neither.
`ClientAlwaysMoves` proves what the latter is about with the guards of the client's steps written out
(`NeverAllWait`): whoever holds `pending_mu` is waking callers (`Held`), none of which holds its own lock while it asks
for `pending_mu`, and a caller in its second wait has been claimed by a reader that is about to answer it. That the
guards are those of the actions was checked with TLC on the instance of the run; the theorem itself does not say it.

## 5. Abstractions and assumptions

* *All.* Time is not measured: a timer that runs may fire at any moment. Payloads, names, texts and logging are
  left out. Data races are not assumed: shared settings are read and written atomically.
* *Kill switch.* A guard's rules vanish with the process, as on Linux (socket-owned table) and Windows (dynamic
  session); macOS's pf is cleaned by the guard itself and is not distinguished. `noteIdentityUnsupported` does
  not overtake a queued apply, because both go through the UI thread's queue in order.
* *Supervisor.* Retries of the privilege probe only refresh a cached answer and are left out; on Windows the probe
  is local and always answers. `killForExit` is folded into `shutdown`. Parsing of the core's stderr is left out.
* *Connection manager.* The geo-asset retry, the retry after a leftover Tun and the setters of modes end in a
  start without a serial and are folded into `InternalStart`. `direct_dns_auto` is on; a server given by address
  shows the case where it is off. "Restart Core" and the privilege change are in `CoreSupervisor` only.
  Clearing `started_id` when the profile or its group is deleted is not modelled. A headless program exits
  when it cannot listen, so a boot request never meets that state.
* *Lifecycle.* The platform is chosen in `Init`. The GUI is reduced to its discipline: one call at a time, unless it
  gave up on one. A Release that cannot put a service back leaves it pointed and on record; which of several services
it was is `SysDns`'s. The relay covers one default interface. On Linux the extra process dies with the core
  (Pdeathsig). `dnspins` and `sysrelay` are only what Start and Stop do with them.
* *System DNS.* The lock file and the record can be opened and read when they exist; the user does not edit the DNS
  servers during a session; a PID is not used again. The helper `--restore-dns` is a process that ends after
  its startup. `Apply` is taken in a prepared session only; the code asks for `owned.PID` (line 80), which is also set
  after a Release with leftovers. The two differ when the main goroutine's Release (`main.go:161`) comes between
  Prepare and Apply of a Start and keeps leftovers, in the instant before `log.Fatal`; `CoreLifecycle` has that case.
* *RPC channel.* Requests are not cut, since `Serve` reads each to its end; a payload is the name of the execution that
  produced it. A caller that times out after the reader took its slot waits once more, and the reader's next
  statement comes within that second timeout. Ids do not wrap around.
* *Tests.* The latency test with tagged probes. The speed test holds the session and moves the generation in the same
  way; the address test has a buffer of its own. Measuring is one step per tag.
* *VPN.* A start is taken, refused with a word, or refused without one; whether a code differs from the last, which
  depends on the clock, is left open. A poll's status RPC answers; one that fails (`VpnAuthController.cpp:217`) is an
  empty report, which blanks the status shown until the next poll and touches no budget. The cancellation of a challenge
  at its deadline is left out.
* *Headless.* Every save succeeds and replaces the file as a whole. The core and the connection manager are the order
  of their signals. `endSession()` (the end of a Windows session) is `AskExit("ok")` followed by `runTerminate`. What
  nothing reads any more in a teardown (a start that waits, the crash window) is dropped when it begins, and the rest of
  the engine's state when it has ended, which keeps the state space small. Ways out
  before the record is loaded (the command line, the lock, the database) are not modelled. The code of an early return
  and of the bind retry is "fatal", whichever it is; a restart in place returns nothing (execve) or 0 (Windows).

## 6. Where the code and its words disagree

Configurations that refute what the repository says of itself are kept beside the runs; each checks one definition
and ends with a trace.

* `MCCoreSupervisorExit.cfg` (`NoCoreAfterShutdown`): `shutdown()` is documented to stop every restart, but a restart
  task that waits for a profile to stop when the exit begins checked `prepare_exit` before that wait, and spawns a
  core afterwards.
* `MCCoreLifecycleStop.cfg` (`StopEndsSession`): `Teardown` and `Stop` are documented to take the tunnel down and to stop
  the child processes. A Start that fails in its Xray sidecar leaves the extra process, and the Stop after it
  returns early because no box runs. (A second way there: a Start the GUI gave up on succeeds, the next one fails
  as "already started" and its deferred function forgets the running box.)
* `MCCoreLifecycleDns.cfg` (`ResolverNeverStale`): Stop releases the DNS before it closes the box, "so the system resolver
  never points at a listener that is already gone" (`lifecycle.go:235`). A Release that cannot put a service back logs it
  (`sysdns_darwin.go:188`) and returns nothing; Stop, and Start when Apply fails, close the box all the same. The
  service stays pointed at the core until the next session's Release, or the next core, puts it back.
* `MCSysDnsOverlap.cfg` (`DeadRecoverable`): the record holds one core's changes. A core launched while another is alive
  overwrites the record of the other, whose changes are then on no record when it is killed.
* `MCRpcChannelDropped.cfg` (`DroppedMeansGone`): "A dropped channel means the core is exiting (it never redials)"
  (`CoreSupervisor.cpp:442`). The old socket's `disconnected()` may be handled on the I/O thread after `Reconnect()`
  has set `connected_` and before the queued swap: the channel then reports itself dropped with a live core behind
  it, until the next core connects.
* `MCTestRunnerClear.cfg` (`InterruptedNeverClears`): profiles that look unavailable are deleted at the end of a session,
  but "not after an interruption" (`TestRunner.cpp:449`). `stopRequested_` is read after `session_.unlock()`; the next
  session may have cleared it by then.
* `MCTestRunnerStop.cfg` (`EveryStopCounts`): "a stop() that lands before the worker runs must still count"
  (`TestRunner.cpp:374`). A queued request and the ranking take the session on a thread of their own; a `stop()` between
  `session_.lock()` (line 359) and `stopRequested_.store(false)` (line 375) is erased, and the run does all its batches.
  From the reset on the comment is right (`StopIsHonoured`).
* `MCVpnAuthMark.cfg` (`OnlyTheUserDropsBudgets`): "start() stops the old run first, so only a stop outside a restart is
  the user's" (`VpnAuthController.cpp:111`). A second automatic restart that is refused while the first is under way
  clears `m_vpnAuthRestartID` (`noteStartRefused`, line 106); the first restart's own stop is then taken for the user's,
  the budgets are dropped, and the endpoint gets more restarts than they allow.

Further disagreements were met while modelling and are within the models' reach, but have no run of their own:

* `failedForIdentity()` is documented to hold "while a guard still runs and blocks"; `failIdentity()` is also reached
  with a guard that is only pending (`KillSwitch.cpp:549`).
* "Restart Core" resumes nothing, except when the core exits on its own just before the reset kills it
  (`CoreSupervisor.cpp:246`).
* A core exits without `Teardown` when the GUI's connection drops first, so the extra process survives on macOS and
  Windows (`main.go:160`); pinned addresses outlive a Start that fails after `dnspins.Set` (`lifecycle.go:142`); a
  Start whose `Apply` fails closes the box while it is published (`lifecycle.go:169`).
* A headless program that returns before its loop (the API cannot be bound, the core's listener fails,
  `HeadlessMain.cpp:588-599`) or after a stray quit (626-632) leaves no last_exit; one that restarts in place on Windows
  returns 0 and leaves 75 (line 319). `ExitIsRecorded` states these cases as they are.
* A core that gets the PID of the dead one takes its record for its own (`sysdns_darwin.go:204`).
* A switch whose Start fails keeps the old `started_id`, so the panel shows Connected with nothing running
  (`ConnectionManager.cpp:495`); a start made between `mu_starting.unlock()` and the queued end of the previous
  start loses its Connecting state to that end (`ConnectionManager.cpp:385`).
* A refused restart is documented not to leave its mark, so that a stop by the user forgets the credentials typed for
  the session (`VpnAuthController.h:42`, `noteStartRefused`). A restart
  refused without a word (an archived group, an inactive kill switch) leaves `m_vpnAuthRestartID` set, and the
  user's next stop is then taken for the restart's own (`StopDropsCredentials` in `VpnAuth` states it).

## 7. Not modelled, and why

The implementation is some 130 000 lines. By far the most of it is windows and dialogs, the generation of sing-box
and Xray configurations, the parsing of links and subscriptions, validation, and repositories over SQLite: code
with one thread, no protocol and a value as its result, whose model would repeat it line by line. The models cover
the part with processes, threads, timers and failures, which is a few thousand lines; the share of all lines that
the map can name stays small for that reason.

Of the part with control, these are left out for now:

* `SystemStateJournal` and its writers in the platform helpers: the same question (is what was changed on record?) is
  modelled for the core's record in `SysDns`.
* `DataDirLock`, `InstanceServer`, `ExitController`: the process that `HeadlessRuntime` models has passed them.
* In modelled components: the deadline of an unanswered VPN challenge, a damaged headless record and `Preflight`, the
  speed and address tests, the monitor and pool of the auto selector, the mode setters of the connection manager.
* Subscription update, scanner, updater, mobile core.

## 8. Plan

Done: `KillSwitch`, `CoreSupervisor`, `XrayGate`, `CoreLifecycle`, `SysDns`, `ConnectionManager`, `RpcChannel` over
`RemoteCall`, `TestRunner`, `VpnAuth`, `HeadlessRuntime`: what protects the user first, then what runs the core, then
what uses it.

Next modules, most important first:

1. The monitor of `AutoSelector`: its pool, and the switches it makes through `ConnectionManager`.
2. `SystemStateJournal` with the stop path that forgets its records.
3. `SubscriptionReconcile`: the reconciliation as a function, against a reference definition over small groups;
   `GroupUpdater` and the running profile.
4. `DataDirLock`, `InstanceServer`, `ExitController`; `ScanManager`, the updater, the mobile core.

Abstract specifications worth stating besides `RemoteCall`: a one-variable *session* (nothing, a profile running, in
transition, one outcome per request) that `ConnectionManager` implements; a *protected switch* (off, arming, on,
failed) that `KillSwitch` implements; *at most one core, and one soon* for `CoreSupervisor`.

Theorems to come: the refinements of these abstract specifications. With them the seams between the modules would be
proved as the one at `RemoteCall` is. Every safety invariant of the runs has its theorem, `ClientNeverStuck` by its
guards.
