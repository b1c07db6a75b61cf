# Q-Browser in TLA+

Q-Browser is a Windows-first runtime for signed QML applications.  A trusted
Host process owns windows, packages and capabilities; application code runs in
Worker processes inside a sandbox and talks to the Host over framed IPC.  What
makes the program hard is not the user interface but the authority it hands
out: which version of a package may run, which Worker process may speak for a
tab, when that right ends, and what is left running when something fails.
These modules model that part of the code, check it with TLC on small
instances, and prove most of their safety properties with TLAPS for every value
of the constants.

Paths below are relative to the repository; `PROJECT.json` maps every
definition that models code to its lines.

## 1. The system

| Component | State it keeps | Operations | Interacts with |
| --- | --- | --- | --- |
| `runtime/package/AuthorityAdmissionToken` | closed, activeUses, a mutex, a condition variable | acquire a use, publish under the lock, release, revoke, wait for the drain | every thread that serves a Worker; the coordinator revokes, a drain thread waits |
| `runtime/worker/WorkerSupervisor` | activation, attempt, times of start, handshake and heartbeat, restart budget, rollback | begin activation/attempt, handshake, heartbeat, health check, exit | owned by a tab of the coordinator (or by the update lifecycle) |
| `runtime/package/PackageStore` | `activation.json`: current, previous, last known good, generation; version directories; a lock file | commit, activate, mark known good, recover, roll back, confirm, compare, read | several Host processes on one disk |
| `runtime/package/PackageInstaller` | none of its own | install (commit, activate, verify again), verify installed, reverify | store, archive and signature code |
| `runtime/package/AppRuntimeCoordinator` | current / candidate / known good descriptors, a record per tab incarnation, the pending drain, failed-closed and shutdown flags | install, offline start, launch requests, cancel, admit, heartbeat, health check, exits, cleanup failures, drain reports, close, shutdown | supervisor, store, installer, tokens; called from the Host's queue |
| `runtime/package/UpdateLifecycleCoordinator` | the same for one Worker | the same for one Worker | superseded: the Host no longer launches through it |
| `apps/host/HostApplication` | queue to the runtime thread, tab controllers, windows | posts calls, executes their actions, runs a drain thread per rollback | coordinators, controllers, launcher |
| `apps/host/AppTabRuntimeController`, `InstalledPackageWorkerLauncher`, `HostWorkerSession*`, `WorkerRetirementManager` | one tab's launch, its process, its session, its cleanup | launch, attach, stop, retire, retry | coordinator through the Host, sandbox, IPC |
| `runtime/ipc` | session state, sequence numbers, bounded send queue, frame buffer | handshake, send, receive, close | Host session and Worker |
| `runtime/broker`, `apps/host/HostCapabilityRuntime`, `HostGestureRouter` | one-shot gesture grants, pending dialogs, storage files and quotas, network requests | request, grant, consume, expire, cancel | tokens, policy, IPC |
| `apps/host/BrowserTabModel`, `TabController`, `BrowserSessionStore`, `MainWindow` | tabs and the active one, navigation state, the session file | open, close, move, restore, save | controllers |
| `apps/worker` | pending capability queue, the loaded page | start, handshake, request, reply | IPC |
| `runtime/policy`, `runtime/router`, archive, manifest, signature, JSON and QML checks | none between calls | parse, verify | installer, brokers |
| `runtime/sandbox/windows`, stable I/O, `runtime/webengine`, `runtime/telemetry`, tools | operating-system objects | launch, ACLs, files, web pages, logs | launcher, store |

Hard behaviours, in the order in which they are dealt with:

* a token is used, revoked, drained and waited for by several threads;
* reports about a Worker cross threads, so they are late, repeated, or about a
  Worker that was replaced;
* two Host processes share the activation record and may die inside a
  transaction;
* a candidate version fails in one tab while others run it, start it, or run
  its predecessor; its authority has to be fenced everywhere before the store
  moves, and drained before a recovery is launched;
* a deadline races the release it waits for;
* a write is cancelled, timed out or closed over while another thread writes
  it, and its completion runs before its submission has returned;
* two event loops and a writer thread serve one session with a Worker that may
  stop, misbehave or close at any moment, while the GUI thread replaces, unbinds
  or shuts the session down;
* a package file, a staging directory or an installed version is changed by
  another program between two looks at it, and a process dies while it holds a
  lock, a seal or a half-published directory;
* a launch is replaced, cancelled, fails or times out at any step of a thread
  that is detached from the tab that asked for it, and what it changed on disk
  has to be put back by somebody;
* five kinds of thread share one file dialog, and a result arrives when the
  request, the runtime or the Host is gone;
* a user input authorises one request in one tab, while tabs are switched and
  events are queued;
* a tab shows a page, a site or a Worker while its address, its launch and its
  history change, and late notifications of what it showed before arrive;
* the session file is written by a timer and by exits, and read by a start that
  may find it torn, too large or gone.

The properties that make each component correct are listed with the runs
(section 4); `PROJECT.json` lists the hazards they are for, at their lines,
and those no property covers with the reason.

## 2. Modules

| Module | Models | Kind |
| --- | --- | --- |
| `AdmissionGate` | what clients rely on: a gate that is open, closed, drained | abstract specification |
| `AuthorityAdmissionToken` | the token with its mutex, condition variable and guards, threads interleaved | component; implements `AdmissionGate` |
| `WorkerSupervisorOps` | the supervisor's operations as functions of a record | operators |
| `WorkerSupervisor` | one supervisor, late and repeated reports | component |
| `WorkerAuthorityProofs` | the token, that it implements the gate, the supervisor, and the pipe writer | proofs |
| `ActivationStateOps` | the store's transactions as functions of the record | operators |
| `PackageStore` | several processes, the lock, crashes, lost directories | component |
| `ArchiveOps` | what the archive reader accepts: order of the checks, limits, names | operators |
| `PackageInstaller` | installations and guarded launches on the store, with interference | composition of the two above |
| `PackageInstallerProofs` | the store, the installer above it, and that it implements the store | proofs |
| `AppRuntimeOps` | the coordinator's operations, on the supervisor's and the store's operators | operators |
| `AppRuntimeCoordinator` | coordinator, Host queue, drain threads, token uses, clock, damage to the store, restarts of the Host | composition |
| `AppRuntimeCoordinatorProofs` | | proofs |
| `WorkerRetirementManager` | the owner of cleanups: callers, retirement threads, main's checked shutdown | component |
| `HostLifecycle` | package operations of the Host, its lifecycle thread, and its end with the retirement manager | composition |
| `HostLifecycleProofs` | the retirement manager, the end of the Host above it, and that it implements the manager | proofs |
| `SandboxOps` | which grants a launch makes, and who owes their restoration | operators |
| `WorkerLaunchOps` | tab runtime controller and Worker launcher on the GUI thread | operators |
| `TabRuntime` | the two with launch, observer and retirement threads and the Worker process | composition |
| `TabRuntimeProofs` | | proofs |
| `PipeWriter` | the sending half of the pipe: writer thread, client, cancellations, close, with the completion `IpcSession` arms | component |
| `HostWorkerSession` | controller (GUI thread), Io object (its own thread), session, writer and an untrusted Worker | composition |
| `HostWorkerSessionProofs` | | proofs |
| `FileDialogOps` | the process-wide file dialog: reservation, apartment thread, callback thread | operators |
| `GestureOps` | gesture router and one-shot grants | operators |
| `CapabilityRuntime` | capability runtimes over the two, with lanes, retirement and shutdown | composition |
| `StorageBroker` | brokers of several apps and processes on one storage directory | component |
| `BrokerProofs` | storage brokers and capability runtimes | proofs |
| `RouteOps` | route registry, resolution of an address | operators |
| `WebSurfaceOps` | one web surface and the notifications of its page | operators |
| `BrowserTabOps` | tab model and tab controllers | operators |
| `BrowserRuntimeOps` | the window's and the Host's handling of a tab's Worker | operators |
| `SessionStoreOps` | loading and saving the session file, failing or dying at each step | operators |
| `BrowserWindow` | the window over the five above, with user, queues, Workers, pages, timer and restarts | composition |
| `BrowserWindowProofs` | | proofs |
| `MC...` | constant definitions the configurations need | model checking |

Where a component has several situations worth exploring that would be too
large together, `Init` chooses one of a set of *plans* (`Plans`, `Budgets`,
`Starts`), a record that bounds what may happen in that behaviour; the plans are
in the `MC` module and the actions read the chosen one.  One run then covers
all of them.

### AuthorityAdmissionToken

`closed`, `activeUses` and the owner of the mutex are the fields of
`AuthorityAdmissionToken::State`; `owner` says which thread holds each
`UseGuard`.  `std::condition_variable` is external: `notify_all` wakes whoever
is blocked at that moment, and a waiter may wake spuriously.  One action per
member function; a function that takes the mutex and leaves it again in the
same call is one step, `publishIfStillAdmitted` is two because it runs a
callback under the mutex.  `waitUntil` and `waitUntilDrained` refuse to wait
on the GUI thread, as the code does.

### WorkerSupervisorOps, WorkerSupervisor

The supervisor is a record.  A call returns the new record and the answer the
code returns; the two callbacks carry nothing but the fact that they were
called, which the answer tells.  Times are small integers; ids are counted by
`nextId` with its wrap-around.  In `WorkerSupervisor` every report may carry
the key of any attempt ever started and a time stamp up to `MaxDelay` old.
History variables (`failed`, `repeated`, `rollbacks`, `healthyAt`, `failedAt`)
record what was answered; the code does not have them.

### ActivationStateOps, PackageStore

The activation record has three directory names and a generation.  A
transaction is three steps: lock and load, decide and write, unlock and return
the binding.  The commit of the save file may fail, a process may die at any
step and its lock is then broken by the next `tryLock`, and version
directories may be lost.  `held` is the binding a process was given last and
passes to the next conditional operation.  The digest of a binding is the
suffix of the directory name, so comparing directories compares digests.

### ArchiveOps, PackageInstaller

An archive is what the reader makes of its bytes: its size, whether its end
record is well formed, its entries in order, whether they account for every
byte, and whether they are the deterministic encoding.  Sizes are added with
the guards the code has against overflow, in a machine word of `QWordMax`.  A
path is a sequence of components, each with its folded name and its spelling,
which is what the checks for reserved, non-canonical and colliding names look
at.

`inst[h].step` is where a Host is inside `install` or inside a guarded launch;
every step between two of the code's system calls that others can interfere
with is an action: precheck of the package file, copy to staging, verification
of the copy, extraction, second extraction, comparison, seal, publication,
activation, verification in place behind a guard.  `seal` is the access list
that denies changes to a version directory; a Host that dies leaves it to
`Orphan`, and its staging directory to `litter`.  The signature, manifest,
import and source checks are the `Flaws` of a package, each found by the check
the code makes for it and not before.  Other programs change `source`, put
members into a staging directory and damage versions that are not sealed.
The transactions of the activation record are the actions of `PackageStore`.

### AppRuntimeOps, AppRuntimeCoordinator

`co` is the coordinator object as a record, with what it reaches by reference:
the activation record, the directories, the tokens that are closed.  All its
calls run on one thread, so each is one step, and the operators follow the
order of the code: early returns first, then revocation, then the store, then
launches.  Tabs are visited in the order of the map (`AuthorityLess`): the loops
of `checkHealth` and `finishDrain` are recursive functions on sets of tabs, which
take the last tab of a set off.  A launch is named by its lease epoch, and so is its token.

Around it, `AppRuntimeCoordinator` has the Host's side: launches handed out
(`issued`), drain threads (`waiting`) and their undelivered outcomes
(`reports`), uses of tokens (`inUse`), the clock.  An event may be delivered
for any launch ever issued, any number of times.  `fenced`, `failed` and
`spared` are history.  A plan says which version is known good at first and which rarer
events may happen (`incidents`); nothing else changes with it.

Left out of the coordinator: routes and permissions of a lease, texts of
errors, the actions that only move the user interface (crash page, isolate),
telemetry.  `heartbeat` and the others that take a clock value are called with
one captured at most `MaxDelay` ago.

### WorkerRetirementManager

Every action is one critical section of the manager's mutex, or one thing a
thread does between two of them: a caller is `starting`, `spawning` or
`reporting`, a retirement thread is `attempting`, `sleeping`, `completing` or
`ending`.  The cleanup attempt succeeds or fails as it likes; a thread may
refuse to start `MaxStartFailures` times.  `shutdown` is where main is inside
`shutdownChecked`: woken, blocked in the condition variable, or returned.
`reported` is history.  `Retriers` are the callers of `retryFatal`: with two
of them at once `OneAttemptAtATime` fails (the second finds a record, which it
collected as Fatal, waiting for its next attempt, and starts it again), so
`RetriersAssumption` allows one, as the Host's test hooks do.

### HostLifecycle

`app` is the part of `HostApplication` that queues package operations to the
lifecycle thread (`life`, with `HostLifecycleRuntime`'s flags and its event
queue) and takes their results from `events`.  `stopApplication` and
`queueShutdown` are the destructor, cut where the retirement manager's `retire`
runs; `shutdownCoordinators` is the runtime's `shutdown`, called by the queued
event or, if that could not be queued, by the end of the thread.  `handoff` is
`HostLifecycleShutdownHandoff`; `guard` says who owns the package guards the
coordinators could not close: the handoff, the runtime (which submits them
itself when no handoff was registered), a retirement, or nobody any more.  The
retirement manager is the module above: its actions are conjoined with what the
cleanup of this Host requires, so every behaviour is one of `Spec`.  Calls that
find no memory are bounded by `MaxIncidents`.  In behaviours that begin with
`app.at = "absent"` there is only the manager, with the callers it likes.

### SandboxOps, WorkerLaunchOps, TabRuntime

`TabRuntime` is one app tab.  `ctl` is `AppTabRuntimeController`, `lch`
`InstalledPackageWorkerLauncher`, `ctx[r]` the launch context of request `r`
with its launch thread, observer thread, admission, package guard, temporary
directory, sandbox and its record at the retirement manager; `sess` is what
both see of the session, `queue` the events posted to the GUI thread.  The
calls the two classes make of each other on the GUI thread are direct, hence
operators of `WorkerLaunchOps`; a call that can fail half way is the set of the
states it can leave.  One action per event of the GUI thread and per step of a
launch, observer or retirement thread.  `SandboxOps` keeps, for each of the
three access lists a launch changes, whether the change is in force and which
object holds its restoration.  Of the retirement manager only its promise is
used: attempts until one succeeds or `MaxAttempts` failed, with a ticket for
every record.  `requestTerminateNoWait` is taken to get the lock it tries.

### FileDialogOps, GestureOps, CapabilityRuntime

`d` is `FileDialogCoordinator`: the one active operation, the queues of the
apartment thread and of the callback thread, and where the apartment thread is,
which pumps messages while the dialog is on the screen.  `PostMessage` from
another thread may be refused; the apartment thread's own message to its window
is taken not to be.  A lane that has been told to quit drops the job that is
still queued to it.  `g` is `HostGestureRouter` with `UserGestureGrantStore`: bindings,
active tab, input evidence with its age, grants that were given.  `rt` are the
`HostCapabilityRuntime`s: each with its lane thread and its one request.
`gui` says where the GUI thread is when it shuts down, since it blocks in
there; otherwise its handlers are atomic.  `reads`, `arrived`, `commands` and
`turn` are history: which input each granted clipboard read was paid with, and
in which tab a command key was pressed and ran.

### StorageBroker

A broker is created, which first protects the directory and its files (freeze,
match, apply, put back on failure) and then serves get, set and remove.  Both
locks, the mutex of the process and the one between processes, are taken in the
order of the code; a crash gives up both, in the middle of anything.  A file's
size is its number of keys, so quotas are reached.  `promise` is history: what
the answers so far say of each key.

### RouteOps, WebSurfaceOps, BrowserTabOps, BrowserRuntimeOps, SessionStoreOps, BrowserWindow

`w` is everything the GUI thread owns: `w.m` the `BrowserTabModel`, `w.ctl[t]`
the `TabController` of a tab with its surfaces, `w.rt[t]` the tab's runtime as
its callers see it (its inside is `TabRuntime`), the Host's maps of runtime
incarnations and pending navigations, the coordinator's queue `w.jobs` and
the events posted back, `w.events`.  `auth` is the coordinator's record of a
tab, as far as it answers launches, cancellations and closings; which version
it launches and when it rolls back is `AppRuntimeCoordinator`.  A session file is
any value `normalizedSnapshot` accepts (`isSessionFile`), so it may name
addresses no command could go to.  `disk` is the
state directory with its four leaves.  Each handler of the GUI thread is one
action, with every call it makes: a navigation includes the model's history,
the controller's switch of surface, the launch or stop request and the mark
that starts the save timer.  `awaited(t)` says that something is on its way for
a tab: a queued job or event, a Worker that is starting or ending, a load of
the page.

A web page may report the start and the end of a load in any order the engine
can, including the end of a load that was replaced.  `RouteOps` resolves an
address over the registry the Host builds, with precedence of literals over
parameters and the refusal of a second pattern of the same shape.

Left out: titles, progress, visual state, window geometry, the single-Worker
mock mode, a Host that has failed closed.

### PipeWriter

The variables of the first two groups are `PipeWriterState` and
`PipeWriteOperation`; `armed`, `result` and `calls` are the completion that
`IpcSession::submitAsync` arms as its last step.  The writer thread takes an
operation, asks its gate, marks it started, writes two pieces and finishes it;
the client submits, waits in `writeAll` and closes; cancellations arrive at any
moment, and so do a close from inside a completion and the death of the peer.
`WriteFile` and `CancelSynchronousIo` are external: a write may block for ever
unless it is cancelled, and a cancelled one ends after none, some or all of its
bytes.  `settled` (what was reported as cancelled) and `pipe` are history.

### HostWorkerSession

`ctl` is `HostWorkerSessionController` with the event queues of the two
threads, `io` is `HostWorkerSessionIo` with the part of `IpcSession` it uses
(tracked route loads, request ids already seen), `writes` what the writer
still has to write: of `PipeWriter` only its promise is used, that writes
happen in order and each is completed once.  The publication gate of a result
and its write are two actions, `passGate` and `writeNext`: `io.passed` is the
`admitted` of `writeOperation`, which is not asked again when the token's mutex
has been released.  Each queued event is one action.
A signal that hands control to clients is two actions: between them, while
`call` is set, a client may call the controller again, as the code must allow.
A deadline (route load, send, shutdown) may pass whenever its timer is armed.
The Worker answers as `apps/worker` does (`handleMessage`), sends requests of
its own, closes, or misbehaves once: repeats an id, answers what was not asked,
sends a message a Worker never sends.  `Incident` groups the rarer events; the
`budget` of a behaviour says how many of them, of sessions, route loads and
requests it has.

Left out: heartbeats and page metadata (forwarded, no state), destruction of
the controller from inside a callback, submissions the transport refuses for
lack of room, texts of errors other than the ones properties name.

## 3. Plan

1. *(done)* token, supervisor, store, coordinator, retirement manager, pipe
   writer, Host Worker session.
2. *(done)* archive reader and installer on the store; tab runtime controller
   with launcher and sandbox; capability runtime with file dialog and gestures;
   storage broker; host lifecycle; browser window with tabs, web surfaces, routes and session
   file.
3. *(done)* theorems about the token, the supervisor, the store and the
   installer, the retirement manager and the end of the Host, the storage
   broker, the pipe writer, the tab runtime, the Host Worker session, the app
   runtime coordinator, the capability runtime and the browser window.
4. Still worth modelling: reassembly of frames (`FrameCodec`) against a
   reference definition, the reading half of `IpcSession`, the pending
   capability queue of the Worker, redirects and limits of `NetworkBroker`.

`UpdateLifecycleCoordinator` is not on the list: the Host creates it with a
launch callback that always refuses and never installs or starts through it.

Abstract specifications: `AdmissionGate`, which the token implements.  Planned:
an ordered, exactly-once channel that `PipeWriter` implements and
`HostWorkerSession` uses.

## 4. Runs

Every run finishes in two to three minutes or less with two workers.  The bounds are
constants of the specifications or fields of a plan, named and commented where
they are declared; the configurations and `MC` modules give their values.

| Run | Properties | Bounds, and why they are enough |
| --- | --- | --- |
| `token` | `NoPublicationAfterRevoke`: a revocation is a barrier. `DrainIsFinal`, `NoLostWakeup`, `WaitersReturn` (liveness), `ImplementsGate` (refinement), `TypeOK` | a GUI thread and two others, two guards: two waiters at once, and a release that is not the last |
| `supervisor` | `VerdictsAreRight`: failures counted once, a rollback final, restart budget, crash loop and health window as they should be. `StaleReportsAreHarmless` | two activations of up to three attempts, delays up to one tick: every order of two failures around the health window |
| `store` | `RecordIsSound`: no update lost, a binding names one selection, pointers earned. `SelectionIsDeliberate`: a stale binding cannot win, a rollback reaches the last known good. `PublishedIsAuthentic`; `InstallationIsSound`: what runs behind a guard was authenticated, staging is taken back; `ArchiveIsBounded`: extraction is bounded | four plans: the record alone with every transaction of two Hosts, three versions and enough generations for A, B, A; one installation of each of some thousand archives around every limit, with sums that wrap around a machine word; two installations racing; one installation and launches beside another Host; up to two faults |
| `app_tabs` | `AuthorityIsLive`: one open authority per tab, and an admitted Worker holds one. `RollbackIsFenced`: a failed candidate is fenced in every tab, drained before recovery. `StaleEventsAreHarmless` | two tabs, three launches, one token in use |
| `app_drain` | `AuthorityIsLive`, `StepsAreEarned`: only a healthy tab promotes, nothing is launched once closed. `DrainResolves` (liveness) | three plans: first installation with failures at each stage, two incarnations and a restart of the Host; damaged versions; a drain with everything that can fail in it, closing and shutdown; three launches are before, candidate, recovery |
| `retirement` | `RetirementIsOrderly`: one attempt at a time, no lost wake-up, a clean shutdown is complete. `HostEndsCleanly`: what the coordinators could not close always has an owner, and is closed when main reports success. `EverythingIsReported` (liveness) | the manager alone, or with a Host: two callers, one of which retries, two cleanups, three threads, one retry, one refused thread; a call is made only while a thread is left for it, so the bound on threads never delays a start: a retry overlaps the report of the thread before it; three package operations, a queue of one, another client's cleanup while the Host ends, two calls that find no memory |
| `pipe` | `WritesAreAccountedFor`: counted, completed once, whole, nothing left by a close. `SettledIsFinal`: what was cancelled is never written. `CloseReturns` (liveness) | four writes, at most three pending: one in progress, two behind it, one refused; one waits in `writeAll`, one has a gate |
| `session` | `SessionIsConsistent`: the threads never find each other in a state they do not expect, no request is answered twice. `UnboundIsSilent`: no result passes its gate once the runtime is unbound, and at most the one that had passed it before is still written. `SessionMovesOn` (liveness): route loads resolve, polling resumes, sessions end | two or three of: a second session, a second route load, a second request (one is then answered as busy), a rarer event |
| `tab_runtime` | `WorkerIsOneAndConfined`: one Worker, with all its grants for as long as it lives. `NothingLeaks`, `RetiredMeansGone`, `NothingIsStuck` | two launches, the second of which replaces, cancels or follows the first at every step; two incidents; a retirement that fails is fatal at once |
| `capability` | `DialogAndRuntimesAreAccountedFor`: the dialog is never lost and every operation reports once; a runtime is retired only when its lane has ended and the callback it waits for has run, and none is gone while an outcome is queued for it. `GesturesAreSpentOnce`, `NothingIsStuck` | two tabs with a runtime each; two requests to slow services, two switches of tabs and ends of runtimes; or two clipboard requests, three switches, one input and one command key; or three files: an open dialog nobody waits for, one that fails behind it and one that waits |
| `storage` | `AnswersAreKept`: what was answered is what the file holds. `RefusedCreateRestores` | one app in two processes and another app in the first, two keys with a quota of two, two operations, one crash |
| `browser` | `WindowShowsTheActiveTab`: the active tab's view is shown, and exactly the open tabs have controllers. `TabsAreTruthful`: a spinner only where something comes, and a tab ends on what its address says, but for a tab that a refused launch stranded (Observations). `SessionIsKept`: never torn, never overwritten unread, restored as it was left | two open tabs, one recently closed, histories of two entries, three launches; fourteen starts with up to three commands or two and a fault: an exit, a death, a failing disk, a crash, a renderer failure, a refused site, a rejected launch (from an empty session, and from a restored Worker with the way back to it) |

The conjunctions have their parts as named definitions next to them, each with
its own comment.  Deadlock is not checked where the system may really stop: a
destroyed token without guards, a Host that has shut down, an instance whose
bounds are used up, a process whose checked shutdown has returned, a closed
transport, a detached session, a retired tab.

**Fairness.**  `token`: every thread keeps running (weak fairness of releasing,
of returning from the callback and of waking), which the scheduler of the
operating system gives; nobody is obliged to acquire or to revoke.
`app_drain`: drain threads run, their reports are delivered, and the clock
advances.  `retirement`: calls in progress go on, attempts and callbacks
return; nobody is obliged to retire or to shut down; both event loops
of the Host run.  `pipe`: the writer and
the client keep running and a write that is cancelled returns; the peer need
not read.  `session`: both event loops run, callbacks return, timers that are
armed fire; nothing is assumed of the Worker or of the writer.

`tab_runtime` and `capability` assume no fairness.  Their `NothingIsStuck` says
in every state that either nothing is left to do (`Settled`) or some step of
the program's own threads, timers or queues (`Progress`) is possible; steps of
the user, of the Worker and incidents do not count.  It finds lost wake-ups,
forgotten requests and threads waiting for each other; it does not show that
progress ends, which those threads, having no loops but the bounded retries,
hardly put in doubt.

**Mutants.**  Every property of a run has a mutant in `PROJECT.json`: an operator
named `Bug...`, defined before the one it would replace, that changes it as a
plausible error in that code would and breaks the property.

### Observations

What the models show of the code and no run states as a property, mostly where
documents and code differ:

* A tab on the pinned version crashes while another tab's candidate drains: its
  restart is refused (`authority_drain_pending`) and nothing repeats it, so it
  waits for a reload (`docs/plans/2026-08-23-browser-shell-design.md:239`).
* The Worker's answer to a route load crosses the Shutdown: the IO thread stops
  polling for a GUI thread that is `ShuttingDown` and drops the event, so the
  acknowledgement is not read and the session ends by its deadline, as `Failed`,
  where `tests/integration/host/tst_unified_navigation.cpp:2355` expects
  `Detached` of an acknowledged shutdown.
* A Worker whose version was replaced while it started is admitted with its
  pinned lease (`docs/architecture/runtime.md:39`); an offline start refuses a
  record one of whose directories is missing though the last known good is
  intact (`docs/plans/2026-08-18-q-browser-mvp-design.md:254`); a drain that
  timed out is never cleaned up, though every guard is released later
  (`docs/plans/2026-08-23-browser-shell.md:1134`).
* A tab that was relaunched on the recovered version is not marked as one of its
  candidate's (`AppRuntimeCoordinator.cpp:727`).  When nothing was known good, a
  later offline start makes that version the candidate once more
  (`AppRuntimeCoordinator.cpp:488`); if it then fails in another tab, the
  rollback spares the unmarked tab and may select the version that failed first.
  `docs/plans/2026-08-23-browser-shell.md:1273` asks for revocation of "all and
  only active leases issued for that failed candidate", which this is;
  `FailedCandidateIsFenced` names the exception (`spared`).
* Two concurrent callers of `retryFatal` may start the same record twice: the
  second finds it, collected as Fatal, waiting for its next attempt.  The model
  assumes one caller (`RetriersAssumption`), as the Host's test hooks do.
* When `retire` throws in the destructor of the Host (no memory), main's
  `shutdownChecked` may find the manager idle and report success before the
  lifecycle thread has closed its package guards; what it submits then is
  refused.  `HostEndsCleanly` therefore speaks of a registered handoff only.
* The storage quota is that of the whole root, not of an app: the files of all
  apps are counted (`StorageBroker.cpp:775`; the design says "app-private with
  a 1 MiB quota").  A process that dies between writing a temporary file and
  renaming it leaves a file that the next creation's layout check rejects.
* A seal denies changing the access list too, so a second guard of the same
  version fails while the first is open, and one left by a dead process stays.
  A death after publication and before activation leaves a version that cannot
  be installed again (`VersionExists`); a death during an installation leaves
  its staging directory.
* A launch request that is rejected after `closeTab` drops the stop actions
  that the call had collected (`AppRuntimeCoordinator.cpp:541`).
* A tab runs the Worker of one package, the launch of another is refused, and
  the user goes back: the window asks for a launch, since the controller's
  package is no longer the first one's, and the coordinator, whose record still
  has the first Worker as admitted, takes the tab for served and answers nothing
  (`AppRuntimeCoordinator.cpp:547-556`).  The tab shows its spinner and no
  content until it is reloaded, navigated, stopped or closed.  The `browser`
  starts include the sequence; `strandedByRefusal` says exactly when a tab is in
  that state, and is the one exception `SpinnerIsJustified` and
  `ContentMatchesAddress` make.
* A result that has passed its publication gate is written though its session is
  unbound, revoked or shut down before `WriteFile`: the gate is asked under the
  token's mutex, which is released before the frame goes out
  (`WinPipeTransport.cpp:166` and 189).  Revocation is a barrier for the gate, not
  for the pipe; `UnboundIsSilent` says no more than that.
* The callback thread keeps a runtime alive until its callback has returned
  (`HostCapabilityRuntime.cpp:637-654`).  Once the GUI thread has taken up the
  outcome (`completeFile`, 710) a retirement no longer waits for that callback
  (350), so the runtime may be gone for the Host while that thread drops the last
  reference to it; its destructor then has nothing left to do.
* An address of a saved session that no longer resolves is shown as a trusted
  error (`MainWindow.cpp:1250-1279`), though the session keeps it as an app's.
* A tab whose Worker was told to end may show it again for a moment
  (`MainWindow.cpp:1193`); Stop during a web load in a tab that once ran an app
  cancels the app launch instead (`MainWindow.cpp:1618`); the late end of a
  replaced entry load may complete a newer load of the same entry early
  (`WebSurface.cpp:488`), which the newer load's own end puts right.
* The age of a gesture is computed in 32-bit milliseconds
  (`HostGestureRouter.cpp:405`), so an input is fresh again after 49.7 days.

## 5. Proofs

Every theorem is about the specification the runs check, for every value of the
constants that satisfies the named assumptions of the modules: any number of
Hosts, threads, callers, operations, brokers, requests, any bound on faults,
retries and generations.  Each proof has the same shape.  An inductive
invariant, a conjunction of named parts that each say one thing about the code,
holds initially; one lemma per action shows that the action preserves it; the
last lines of the module read the properties of the runs off it.  An action
property is proved step by step under the same invariant.  Facts about the
operators (what closing a grant leaves, what a queue without its head contains)
are lemmas at the front of each module.

The assumptions beyond ranges of bounds and names that stand for "none":

* `RetriersAssumption`: at most one caller of `retryFatal`; the theorem is
  false with two (section 4, Observations);
* `PackagesAssumption`: the packages of an instance carry flaws and versions of
  the declared sets;
* `StorageAssumption`: "no file" is not the contents of a file, nor a value;
* `RequestsAssumption`: launch requests are positive numbers, which the code
  counts up from one;
* `NoVersionAssumption`, `SitesAssumption`: "no version" is not a version, and
  the packages of sites are not versions of the app;
* `TabsAssumption`, `StartsAssumption`: tabs are numbered from one, the new-tab
  address resolves, an app's address has a package, and a start finds a session
  file the reader accepts, refuses, or none;
* finite sets of tabs, of guards, of threads and callers of the manager, and of pipe
  operations, where the code counts them.

**`WorkerAuthorityProofs`.**  For the token: the type invariant,
`NoPublicationAfterRevoke`, `DrainIsFinal`, `NoLostWakeup`, and that the token
implements `AdmissionGate`.  The inductive invariant is `TypeOK /\ Accounting /\
NoLostWakeup /\ DrainIsFinal`.  `Accounting` is what makes it inductive:
`activeUses` is the number of guards that hold a use, and the mutex is held
exactly by a thread that is inside a callback.  Without it a release could bring
the counter of a closed token to zero while a guard is active, and neither the
drain nor the wake-up would follow.  The refinement needs it again, since the
gate's phase "drained" is read off the counter.

For the supervisor: `VerdictsAreRight` and `StaleReportsAreHarmless`.  That a failure is counted once is inductive only
with `AttemptsAreFresh`: ids grow, so the attempt that runs has not failed
before.  This is where the bounds on attempts below the wrap-around of the ids
are used.  `FailuresAreRecorded` remembers that a used restart was paid by a
failure of this activation, which is the second failure a crash loop needs.

For the pipe writer: `WritesAreAccountedFor` and `SettledIsFinal`.  Between
the critical sections an operation is in exactly one of four places: queued,
held by the writer's thread, taken out by a canceller, finished
(`EachIsSomewhere`); whoever takes it from one to the next is the one that
completes it (`CompletionsMatch`).  `SettledIsOver` says that the writer is past
writing an operation that was reported as cancelled, `CutIsLast` that a frame
cut in two is the end of the pipe.

**`PackageInstallerProofs`.**  For the store: `RecordIsSound` and
`SelectionIsDeliberate`.  The lock excludes (`LockIsExclusive`), so what a
transaction loaded is still the record when it writes and what it wrote is still
the record when it answers (`ResultIsCurrent`, `CompareConfirms`).  Then
`InstallSpec => Spec`: each step of an installation, a launch or a death is a
step of the store or leaves it alone, and the two theorems hold under the
installer by that alone.  `InstallationIsSound` and `PublishedIsAuthentic` need
what a Host knows at each step: which checks its package has passed
(`PackageIsChecked`), what is in its staging directory (`StagingIsKnown`), and
that a sealed version does not change (`GuardHolds`).

**`HostLifecycleProofs`.**  For the manager: `RetirementIsOrderly`.  A ticket has
one owner at a time, a caller that will start it, a thread that works on it, or
the record that waits (`ClaimsAreExclusive`, `WorkIsExclusive`), and
`CountIsRight` ties the counter `isIdle` reads to the threads; that a clean
shutdown misses nothing is `TicketsAreAccounted`: a ticket without record has
been reported as a success.  Then `HostSpec => Spec`: the GUI thread and the
lifecycle thread are callers the manager allows.  `HostEndsCleanly` follows the
package guards from owner to owner (`GuardMatches`, `SubmissionMatches`) and
uses of the manager only that the handoff's record is retained until its cleanup
has found everything closed (`HandoffIsRetained`).

**`BrokerProofs`.**  For the storage: `AnswersAreKept` and
`RefusedCreateRestores`.  A broker inside a transaction holds the lock of the
root, so what it loaded is the file until it commits (`ChangeIsCurrent`), and a
promise changes only with the answer that makes it.

For the capability runtimes: `DialogAndRuntimesAreAccountedFor` and
`GesturesAreSpentOnce`.  The invariant has a part for each group of variables.
`DialogPart`: the queue of the apartment thread is empty or holds the active
operation alone, an active operation that does not wait is the one on the screen
(`ReservationOK`), and an operation is terminal from the moment its one outcome
is queued (`ReportsOK`).  A request cancelled on the screen gives up the
reservation while the dialog is still open, so another may wait behind it, and
its start message may be delivered inside the modal loop and be ignored: the
property asks for a message only of an idle thread, since a busy one looks at the
queue before it waits again (`StartOK`).  `RuntimePart` relates the phase of a
runtime to that of its lane and to the callback its retirement waits for
(`RuntimeOK`).  `OutcomePart` follows the outcome of a file request from the
callback that queues it to `completeFile`: an outcome stands in the queue before
the release of its runtime (`InOrder`), so none is queued for a runtime that is
gone (`Awaited`); and the callback that runs is not yet among those a retirement
has nothing to wait for, and alone keeps a runtime (`CallbackTold`).  `GesturePart`: evidence is of the active binding alone (`Fresh`),
of an input that arrived in the present turn (`EvidenceOK`), and once it is spent
the router knows (`SpentOK`); a queued command of the present epoch was pressed
in the present turn (`QueuedOK`).  `Moves` is what every call but an input and a
grant does with the router: the active binding changes only with the epoch, and
evidence is kept or forgotten, never moved to another binding.

**`TabRuntimeProofs`.**  `WorkerIsOneAndConfined`, `NothingLeaks` and
`RetiredMeansGone`.  The calls of controller and launcher are functions of a
state record, so the invariant is a predicate of such a record and each call has
a lemma that carries it from the record before to the records after, through
every way the call can fail half way.  The main point is `LaunchesOK`: a launch
that was started and not cleaned up is in one of the launcher's three places (in
flight, current, fatal), and there is only one such launch; `EventOK` says what
each queued event may still rely on when it is delivered, whatever was called
in between.

**`HostWorkerSessionProofs`.**  `SessionIsConsistent` and `UnboundIsSilent`.
The controller's calls are functions of its record, so here too the invariant is
a predicate of a record and of the callback the GUI thread is in, and holds
while a client calls the controller again.  It follows what is on its way: a
request of the Worker is in one place at a time, from its event to the answer
the Worker reads (`RequestsOK`, which gives `AnsweredOnce`), and so is a pending
route load (`RoutesOK`); the command in hand is the active one (`ActiveIsSent`).
`Heard` is why no command is found too late by a controller that believes its
session runs: an IO thread that has ended the session has queued that event
first.  `AuthorityMatches` says that a token admits only while the session runs
and its runtime is bound.  `UnboundIsSilent` follows because only the writer's
thread puts anything into the pipe, a gated frame only when it has passed, and
one frame has passed at most (`io.passed` is the first write's).

**`AppRuntimeCoordinatorProofs`.**  `AuthorityIsLive`, `RollbackIsFenced`,
`StaleEventsAreHarmless` and `StepsAreEarned`.  A call may launch, revoke, roll
back and launch again before it returns, so the invariant `Sound` is one of the
coordinator as a value, and holds after each part of a call.
`TokensFollowTabs` says that epochs are issued once and that the token of a
tab's launch is closed exactly when the tab has ended; late events are harmless
for that reason alone.  `OneIncarnation` counts the tabs that wait for a drain
as held, because they will be launched again when it ends.  `FailedIsGone` is
what makes the fencing inductive: nothing that failed is the current version, a
candidate on trial or what a drain will recover to (`SelectionIsGood`), unless
the app has failed closed; and a tab that runs the candidate is either marked as
its launch or ran the version before (`TabIsFenced`), so a rollback misses none.
`FencedIsAwaited` keeps every use of a fenced token in the tickets of the drain.
What a call may change is graded: `Quiet`, `Calm`, `Keeps`, `Allowed`, the last
for the one call that promotes.  Two loops visit a set of tabs, `checkHealth`
until the first rollback and the recovery after a drain.  The library's
induction cannot be used here, so `LeastSubset` and `LoopInduction` argue from a
minimal counterexample among the sets of tabs, which are finite, and
`LoopExists` shows that the recursive function the model writes is one.

**`BrowserWindowProofs`.**  `WindowShowsTheActiveTab` and `SessionIsKept`.  The
window is a record and a handler a composition of functions of it, so the
invariant is again one of a record, in two strengths.  `Well` holds after each
call inside a handler: ids in the strip are unique and older than the next one,
model and controllers agree on the life of each tab (`Agrees`), only a web
address has a page whose signals count (`Placed`), and a site on its way is for
a navigation that is over or an app's (`SiteOK`).  `Stable` is `Well` with the
active tab shown and started, and holds between handlers.  `Well` takes the tab
that is on the screen and the tab whose address has just changed as parameters,
since a navigation passes through states in which the page of the former address
is still there.  A page's signals count only for the navigation that connected
them (`PageCounts`), so a late one changes nothing of a tab that moved on.  For
the session,
`LeftInv` relates the file to whether this run may write: a run that could not
read does not save, and what a clean exit left is the file.  That restoring gives
back what was saved needs that resolving a session's addresses a second time
changes nothing and that a window writes only sessions the reader accepts
(`isSessionFile`).

What remains with TLC:

* liveness (`WaitersReturn`, `DrainResolves`, `EverythingIsReported`,
  `CloseReturns`, `SessionMovesOn`) and the two `NothingIsStuck`, which use
  `ENABLED`: out of the prover's reach;
* `ArchiveIsBounded`: sizes are summed over the entries of an archive, which is
  an induction over data;
* `TabsAreTruthful`: that a spinner ends needs, beyond the invariant proved here,
  the agreement of the window, the tab's runtime and the coordinator's record
  over everything queued between them.

## 6. Not modelled

Bytes: the zip structures, manifests, signatures, digests, JSON, QML sources,
frames and protocol messages, addresses and URLs appear as what their parsers
make of them, or as a verdict; creating archives is a tool.  Operating-system
objects (pipes, ACLs, job objects, files, hooks, the clipboard) appear as what
the code relies on, with their failures.  The POSIX variants, the verification
of an installed version without a guard, the audio broker, policy documents,
telemetry, the single-Worker mock mode with its start-up, and the developer
tools are left out; so are titles, progress, visual state and geometry of the
user interface.  The Worker process is its messages: the Host trusts nothing
else of it.  Not in one module: the window and the coordinator's rollback, a
tab runtime and the inside of its session; each side uses what the other
promises.  `PROJECT.json` gives the status of each part.
