----------------------------- MODULE BrowserWindow -----------------------------
(***************************************************************************)
(* The browser window: apps/host/MainWindow over its tab model and tab     *)
(* controllers, the Host's handling of the package Workers the tabs show,  *)
(* the part of the runtime coordinator that answers it, and the session    *)
(* the window saves and is restored from.                                  *)
(*                                                                         *)
(* Every handler of the GUI thread is one action: nothing interleaves with *)
(* it.  What does interleave are the user's commands, the coordinator's    *)
(* thread (it takes one job at a time from its queue), the events that are *)
(* posted to the GUI thread, the Workers, the web pages, the save timer    *)
(* and the death of the Host's process.                                    *)
(***************************************************************************)
EXTENDS BrowserRuntimeOps, SessionStoreOps, FiniteSets

CONSTANTS Starts,        \* what the state directory may hold at first, with
                         \* the user's commands and the faults to come
          MaxFaults,     \* bound on the failures and deaths of processes
          MaxEpochs      \* bound on the coordinator's launches

\* What normalizedSnapshot accepts, of a file it read or of what it is to write.
Snapshots ==
    {s \in [kind : {"host", "web", "app", "error"}, address : Addresses,
            history : Seq(Addresses), at : Nat] :
       /\ s.at \in DOMAIN s.history /\ s.history[s.at] = s.address
       /\ Len(s.history) <= MaxHistoryEntries}
Sessions ==
    {s \in [tabs : Seq([id : TabIds, snap : Snapshots]), active : TabIds] :
       /\ Len(s.tabs) <= MaxOpenTabs
       /\ \E i \in DOMAIN s.tabs : s.tabs[i].id = s.active
       /\ \A i, j \in DOMAIN s.tabs : s.tabs[i].id = s.tabs[j].id => i = j}
isSessionFile(f) ==
    \/ f \in {NoFile, Garbage, Huge}
    \/ f.is = "session" /\ f = File(f.snapshot) /\ f.snapshot \in Sessions

ASSUME StartsAssumption ==
    /\ \A s \in Starts : /\ DOMAIN s.disk = DOMAIN EmptyDisk
                         /\ isSessionFile(s.disk.session)
                         /\ s.visits \subseteq Addresses
    /\ \A a \in Addresses : KindOf[a] = "app" => PackageOf[a] # NoPackage

VARIABLES
    w,       \* the window and the Host, the GUI thread's state
    auth,    \* the coordinator's record of each tab's authority
    epoch,   \* the last launch it made
    disk,    \* the state directory
    life,    \* "start", "running", "closing": of the Host's process
    saves,   \* whether this run of the Host may write the session
    inputs,  \* the user's commands still to come
    visits,  \* the addresses they go to
    kinds,   \* the faults that may happen
    faults,  \* and how many did
    left     \* ghost: the session a clean exit left, or a start could not read

vars == <<w, auth, epoch, disk, life, saves, inputs, visits, kinds,
          faults, left>>

NoAuthority == [r |-> 0, l |-> 0, route |-> << >>, admitted |-> FALSE,
                open |-> FALSE]
EmptyWindow ==
    [m |-> NoTabs, ctl |-> [t \in TabIds |-> NoController],
     rt |-> [t \in TabIds |-> NoRuntime],
     runtimeOf |-> [t \in TabIds |-> 0], pendingNav |-> [t \in TabIds |-> 0],
     nextR |-> 1, visible |-> NoTab, retiring |-> {}, jobs |-> << >>,
     events |-> << >>, timer |-> FALSE, sites |-> {}]

Nothing == [on |-> FALSE, is |-> NoFile]

Init ==
    /\ w = EmptyWindow
    /\ auth = [t \in TabIds |-> NoAuthority] /\ epoch = 0
    /\ \E s \in Starts : /\ disk = s.disk /\ inputs = s.inputs
                         /\ visits = s.visits /\ kinds = s.kinds
    /\ life = "start" /\ saves = FALSE /\ faults = 0
    /\ left = Nothing

-----------------------------------------------------------------------------
\* MainWindow.

\* tabInserted and tabRemoved reach the controllers at once, activeTabChanged
\* through the event queue.
createController(x, t) == SetCtl(x, t, NewController)
announce(x, before) ==
    IF activeId(x.m) # activeId(before)
      THEN Post(x, [e |-> "activate", t |-> activeId(x.m)]) ELSE x

\* persistenceNeeded: every command that changes what a session holds.
Touch(x) ==
    [x EXCEPT !.timer =
       @ \/ (saves /\ sessionSnapshot(x.m) # sessionSnapshot(w.m))]

\* startResolved, for the tab's own descriptor.
reusesWorker(x, t, package) ==
    hasWorkerContext(x, t) /\ x.ctl[t].pkg = package

startApp(x, t, address, reload) ==
    LET reused == setLoadState(bindAppWorkerSurface(
                      [x EXCEPT !.rt[t].cur.route = RouteOf[address],
                                !.rt[t].ack = TRUE], t), t, TRUE)
        http == Parsed[address].http
    IN  IF ~http /\ ~reload /\ reusesWorker(x, t, PackageOf[address])
          THEN IF x.ctl[t].worker = 0
                 THEN showTrustedErrorForNavigation(x, t, x.ctl[t].inc)
                 ELSE handleAppLaunchRequested(reused, t, address, FALSE, FALSE)
          ELSE handleAppLaunchRequested(
                 prepareAppLaunch(x, t, PackageOf[address], x.ctl[t].inc),
                 t, address, reload /\ ~http, FALSE)

startResolved(x, t, address, reload) ==
    LET x1 == setActive(x, t, activeId(x.m) = t)
    IN  CASE KindOf[address] = "host" -> startHost(x1, t)
          [] KindOf[address] = "web" -> startWeb(x1, t)
          [] KindOf[address] = "app" -> startApp(x1, t, address, reload)

showTrustedError(x, t) ==
    enterTrustedError(setActive(x, t, activeId(x.m) = t), t, TRUE)

\* An address of a saved session may be one no command could go to.
startCurrentDescriptor(x, t, reload) ==
    LET snap == snapshotOf(x.m, t)
        x1 == beginNavigation(x, t)
    IN  IF snap.kind = "error"
          THEN showTrustedErrorForNavigation(x1, t, x1.ctl[t].inc)
          ELSE IF KindOf[snap.address] = "none" THEN showTrustedError(x, t)
          ELSE startResolved(x1, t, snap.address, reload)

BugActivatesStaleTab(x, t) ==
    LET x1 == IF x.visible # t /\ x.visible # NoTab /\ inMap(x, x.visible)
                THEN setActive(x, x.visible, FALSE) ELSE x
        x2 == setActive([x1 EXCEPT !.visible = t], t, TRUE)
    IN  IF t = NoTab \/ ~inMap(x, t) THEN x
          ELSE IF x2.ctl[t].life = "Dormant"
          THEN startCurrentDescriptor(x2, t, FALSE) ELSE x2
activateStableTab(x, t) ==
    LET x1 == IF x.visible # t /\ x.visible # NoTab /\ inMap(x, x.visible)
                THEN setActive(x, x.visible, FALSE) ELSE x
        x2 == setActive([x1 EXCEPT !.visible = t], t, TRUE)
    IN  IF t = NoTab \/ activeId(x.m) # t \/ ~inMap(x, t) THEN x
          ELSE IF x2.ctl[t].life = "Dormant"
          THEN startCurrentDescriptor(x2, t, FALSE) ELSE x2

\* navigateTab and traverseHistory from the committed model on: leaving a
\* package ends its Worker.
commitNavigation(x, t, before, address, launch) ==
    LET x1 == startResolved(beginNavigation(x, t), t, address, FALSE)
    IN  IF before # "app" \/ KindOf[address] = "app" THEN x1
          ELSE handleAppStopRequested(
                 cancelLaunchIfCurrent(x1, t, launch.l), t, launch.r)

navigateTab(x, t, address) ==
    LET i == indexOfId(x.m, t)
    IN  IF KindOf[address] = "none"
          THEN showTrustedError(x, t)
          ELSE commitNavigation([x EXCEPT !.m.tabs[i] = navigated(@, address)],
                                t, x.m.tabs[i].snap.kind, address, x.rt[t].cur)

traverseHistory(x, t, target) ==
    LET i == indexOfId(x.m, t)
        address == x.m.tabs[i].snap.history[target]
    IN  IF KindOf[address] = "none"
          THEN showTrustedError(x, t)
          ELSE commitNavigation([x EXCEPT !.m.tabs[i] = traversed(@, target)],
                                t, x.m.tabs[i].snap.kind, address, x.rt[t].cur)

\* A controller with a runtime is kept until the runtime has retired.
retireController(x, t) ==
    LET x1 == closeRuntime(beginClosing(handleTabClosing(x, t), t), t)
    IN  [x1 EXCEPT !.ctl[t] = NoController,
                   !.retiring = IF x.rt[t].made THEN @ \cup {t} ELSE @]

\* The last tab is replaced by a new one.
closeStableTab(x, t) ==
    LET x1 == retireController(x, t)
        closed == [x1 EXCEPT !.m = closeTab(@, indexOfId(x.m, t))]
        replaced == [closed EXCEPT !.m = createTab(@)]
    IN  IF Len(x.m.tabs) = 1
          THEN LET n == activeId(replaced.m)
               IN  activateStableTab(
                     announce(createController(replaced, n), x.m), n)
          ELSE activateStableTab(announce(closed, x.m), activeId(closed.m))

\* createTab and reopenMostRecentlyClosed, when they made a tab.
insertTab(x, m) ==
    IF Len(m.tabs) = Len(x.m.tabs) THEN x
      ELSE activateStableTab(
             announce(createController([x EXCEPT !.m = m], activeId(m)), x.m),
             activeId(m))

selectTab(x, i) ==
    LET x1 == [x EXCEPT !.m = activateTab(@, i)]
    IN  activateStableTab(announce(x1, x.m), activeId(x1.m))

moveStableTab(x, from, to) ==
    LET x1 == [x EXCEPT !.m = moveTab(@, from, to)]
    IN  activateStableTab(
          IF x1.m.active = x.m.active THEN x1
            ELSE Post(x1, [e |-> "activate", t |-> activeId(x1.m)]),
          activeId(x1.m))

\* A launch that is awaited is given up, a page's load is stopped.
cancelsAppLaunch(x, t) == x.rt[t].made /\ x.ctl[t].life = "Loading"
cancelAppLaunch(x, t) ==
    LET x1 == stop(x, t)
    IN  Settle(setLoadState(
          SetCtl(x1, t, [x1.ctl[t] EXCEPT !.inc = @ + 1, !.current = "none",
                                          !.kind = "error"]),
          t, FALSE), t)
stopPage(x, t) ==
    IF x.ctl[t].current = "web" THEN [x EXCEPT !.ctl[t].ws = stopLoad(@)] ELSE x
stopCommand(x, t) ==
    IF cancelsAppLaunch(x, t)
      THEN handleAppStopRequested(cancelAppLaunch(x, t), t, x.rt[t].r)
      ELSE stopPage(x, t)

\* A route its own Worker asks for: the descriptor moves, nothing is launched.
navigateFromWorker(x, t, address) ==
    LET i == indexOfId(x.m, t)
        x1 == [x EXCEPT !.m.tabs[i] = navigated(@, address),
                        !.rt[t].cur.route = RouteOf[address],
                        !.rt[t].ack = TRUE]
    IN  handleAppLaunchRequested(beginNavigation(x1, t), t, address, FALSE,
                                 FALSE)

-----------------------------------------------------------------------------
\* Starting, saving, stopping and dying.

\* What validateAndResolve makes of a saved session.
resolvedTab(tab) ==
    [tab EXCEPT !.snap.kind = RestoredKind[tab.snap.address]]
resolvedSession(snapshot) ==
    [snapshot EXCEPT !.tabs = [i \in DOMAIN @ |-> resolvedTab(@[i])]]

cleanSession == insertTab(EmptyWindow, createTab(NoTabs))
restoredSession(snapshot) ==
    LET m == restored(resolvedSession(snapshot))
        x == [EmptyWindow EXCEPT
                !.m = m,
                !.ctl = [t \in TabIds |-> IF contains(m, t) THEN NewController
                                                            ELSE NoController]]
    IN  activateStableTab(Post(x, [e |-> "activate", t |-> activeId(m)]),
                          activeId(m))

Die ==
    /\ w' = EmptyWindow /\ auth' = [t \in TabIds |-> NoAuthority]
    /\ epoch' = 0 /\ life' = "start" /\ saves' = FALSE
    /\ faults' = faults + 1

Fault(kind) == kind \in kinds /\ faults < MaxFaults

\* load and applyBrowserSessionLoadResult: only a session that was read, or
\* set aside, or was never there, may be written over.
mayWrite(status) == status # "IoFailure"

Start ==
    /\ life = "start"
    /\ \E o \in load(disk) :
        /\ disk' = o.disk
        /\ IF o.dies
             THEN /\ Fault("die") /\ Die
                  /\ UNCHANGED left
             ELSE /\ o.status = "IoFailure" => Fault("disk")
                  /\ w' = IF o.status = "Loaded"
                            THEN restoredSession(disk.session.snapshot)
                            ELSE cleanSession
                  /\ life' = "running" /\ saves' = mayWrite(o.status)
                  /\ faults' = faults + (IF o.status = "IoFailure" THEN 1 ELSE 0)
                  /\ left' = IF o.status = "IoFailure"
                               THEN [on |-> TRUE, is |-> o.disk.session]
                               ELSE Nothing
                  /\ UNCHANGED <<auth, epoch>>
    /\ UNCHANGED inputs

performBrowserSessionSave(x) == save(disk, sessionSnapshot(x.m))
Failures(o) == IF o.status = "Saved" THEN 0 ELSE 1

SaveTimer ==
    /\ life = "running" /\ w.timer /\ saves
    /\ \E o \in performBrowserSessionSave(w) :
        /\ disk' = o.disk
        /\ IF o.dies
             THEN Fault("die") /\ Die
             ELSE /\ o.status = "Failed" => Fault("disk")
                  /\ w' = [w EXCEPT !.timer = FALSE]
                  /\ faults' = faults + Failures(o)
                  /\ UNCHANGED <<auth, epoch, life, saves>>
    /\ UNCHANGED <<inputs, left>>

\* The last save, of the session as it is when the window begins to close.
freezeBrowserSessionAndFlush ==
    IF ~saves THEN left' = Nothing /\ UNCHANGED <<disk, faults>>
      ELSE \E o \in performBrowserSessionSave(w) :
             /\ ~o.dies
             /\ o.status = "Failed" => Fault("disk")
             /\ disk' = o.disk
             /\ faults' = faults + Failures(o)
             /\ left' = IF o.status = "Saved"
                          THEN [on |-> TRUE, is |-> File(sessionSnapshot(w.m))]
                          ELSE Nothing

\* The session is frozen and flushed, then every tab closes.
Shutdown ==
    /\ life = "running" /\ "exit" \in kinds
    /\ freezeBrowserSessionAndFlush
    /\ life' = "closing"
    /\ w' = [FoldLeft(LAMBDA x, tab : retireController(x, tab.id),
                      [w EXCEPT !.timer = FALSE], w.m.tabs) EXCEPT
               !.visible = NoTab]
    /\ UNCHANGED <<auth, epoch, saves, inputs>>

\* The window is gone once every runtime has retired; the Host starts again.
FinishShutdown ==
    /\ life = "closing" /\ w.retiring = {}
    /\ w' = EmptyWindow /\ auth' = [t \in TabIds |-> NoAuthority]
    /\ epoch' = 0 /\ life' = "start" /\ saves' = FALSE
    /\ UNCHANGED <<disk, inputs, faults, left>>

\* The Host's process is killed between two handlers.
HostDies ==
    /\ life \in {"running", "closing"} /\ Fault("die") /\ Die
    /\ left' = IF life = "running" THEN Nothing ELSE left
    /\ UNCHANGED <<disk, inputs>>

-----------------------------------------------------------------------------
\* The user's commands.

Gui(x) ==
    /\ life \in {"running", "closing"}
    /\ w' = Touch(x)
    /\ UNCHANGED <<disk, life, saves, left>>
Command(x) ==
    /\ life = "running" /\ inputs > 0 /\ inputs' = inputs - 1
    /\ Gui(x) /\ UNCHANGED <<auth, epoch, faults>>

active == activeId(w.m)
activeSnap == snapshotOf(w.m, active)

Navigate(address) == Command(navigateTab(w, active, address))
GoBack ==
    /\ life = "running" /\ activeSnap.at > 1
    /\ Command(traverseHistory(w, active, activeSnap.at - 1))
GoForward ==
    /\ life = "running" /\ activeSnap.at < Len(activeSnap.history)
    /\ Command(traverseHistory(w, active, activeSnap.at + 1))
Reload == life = "running" /\ Command(startCurrentDescriptor(w, active, TRUE))
Stop == life = "running" /\ Command(stopCommand(w, active))
OpenTab ==
    /\ w.m.nextId \in TabIds
    /\ Command(insertTab(w, createTab(w.m)))
CloseTab(t) ==
    /\ contains(w.m, t)
    /\ Len(w.m.tabs) = 1 => w.m.nextId \in TabIds
    /\ Command(closeStableTab(w, t))
ReopenTab ==
    /\ w.m.nextId \in TabIds
    /\ Command(insertTab(w, reopenMostRecentlyClosed(w.m)))
SelectTab(i) ==
    /\ i \in DOMAIN w.m.tabs /\ i # w.m.active
    /\ Command(selectTab(w, i))
MoveTab(from, to) ==
    /\ {from, to} \subseteq DOMAIN w.m.tabs /\ from # to
    /\ Command(moveStableTab(w, from, to))

UserCommand ==
    \/ \E address \in visits : Navigate(address)
    \/ GoBack \/ GoForward \/ Reload \/ Stop \/ OpenTab \/ ReopenTab
    \/ \E t \in TabIds : CloseTab(t)
    \/ \E i, j \in 1 .. MaxOpenTabs : SelectTab(i) \/ MoveTab(i, j)

-----------------------------------------------------------------------------
\* What is posted to the GUI thread, in order.

handleEvent(x, e) ==
    CASE e.e = "activate" -> activateStableTab(x, e.t)
      [] e.e = "retired" -> [x EXCEPT !.retiring = @ \ {e.t},
                                      !.rt[e.t] = NoRuntime]
      [] e.e = "rejected" ->
           IF inMap(x, e.t) THEN showTrustedErrorForNavigation(x, e.t, e.nav)
                            ELSE x
      [] e.e = "actions" -> handleAppRuntimeResult(x, e.t, e.actions)
      [] e.e = "admitted" -> completeLaunch(x, e.t, e.l)
      [] e.e = "refused" ->
           IF x.rt[e.t].proc # e.l \/ x.rt[e.t].dying THEN x
             ELSE refuseAttach(x, e.t, e.l)
      [] e.e = "installed" ->
           IF e.done THEN siteInstalled(x, e.site) ELSE siteFails(x, e.site)
      [] e.e = "page" ->
           IF ~inMap(x, e.t) \/ x.ctl[e.t].web # e.web THEN x
             ELSE SetSurface(x, e.t, handleLoadingChange(x.ctl[e.t].ws, e))
      [] e.e = "renderer" -> retireFailedWeb(x, e.t, e.web)

GuiEvent ==
    /\ w.events # << >>
    /\ Gui(handleEvent([w EXCEPT !.events = Tail(@)], Head(w.events)))
    /\ UNCHANGED <<auth, epoch, inputs, faults>>

-----------------------------------------------------------------------------
\* The coordinator's thread: one job, and what it posts.  A launch it keeps
\* only moves to the new route; any other is stopped and made again.

LaunchAction(l, r, route, recovery) ==
    [kind |-> "Launch", r |-> r, recovery |-> recovery,
     launch |-> [l |-> l, r |-> r, route |-> route]]
StopAction(r) == [kind |-> "Stop", r |-> r]
CrashAction(r) == [kind |-> "Crash", r |-> r]

Actions(t, actions) == <<[e |-> "actions", t |-> t, actions |-> actions]>>

keepsWorker(a, job) ==
    /\ ~job.reload /\ a.admitted /\ a.open /\ a.r = job.r
    /\ PackageOfRoute[a.route] = PackageOfRoute[job.route]

launched(a, job) ==
    LET launch == LaunchAction(epoch + 1, job.r, job.route, FALSE)
    IN  [auth |-> [r |-> job.r, l |-> epoch + 1, route |-> job.route,
                   admitted |-> FALSE, open |-> TRUE],
         events |-> Actions(job.t, IF a.open THEN <<StopAction(a.r), launch>>
                                             ELSE <<launch>>),
         made |-> 1, faults |-> 0]

Answer(a, events) == [auth |-> a, events |-> events, made |-> 0, faults |-> 0]

\* A refusal after the tab's other incarnation was closed forgets that one's
\* Stop.
requestTabLaunch(a, job) ==
    LET refused(x) == Answer(x, <<[e |-> "rejected", t |-> job.t,
                                   nav |-> job.nav]>>)
        closed == IF a.r = job.r THEN a ELSE [a EXCEPT !.open = FALSE]
    IN  IF a.r = job.r /\ ~a.open THEN {refused(a)}
          ELSE {IF keepsWorker(a, job)
                  THEN Answer([a EXCEPT !.route = job.route], << >>)
                  ELSE launched(a, job)}
               \cup {[refused(x) EXCEPT !.faults = 1] :
                       x \in IF Fault("reject") THEN {a, closed} ELSE {}}

workerExited(a, job) ==
    IF ~a.open \/ a.l # job.l THEN {Answer(a, << >>)}
      ELSE {Answer([a EXCEPT !.open = FALSE],
                   Actions(job.t, <<StopAction(a.r), CrashAction(a.r)>>))}
           \cup (IF epoch >= MaxEpochs THEN {}
                   ELSE {[auth |-> [a EXCEPT !.l = epoch + 1,
                                             !.admitted = FALSE],
                          events |-> Actions(job.t,
                            <<LaunchAction(epoch + 1, a.r, a.route, TRUE)>>),
                          made |-> 1, faults |-> 0]})

installSitePackage(a, job) ==
    LET answer(done) == Answer(a, <<[e |-> "installed", t |-> job.t,
                                     site |-> job.site, done |-> done]>>)
    IN  {answer(TRUE)} \cup {[answer(FALSE) EXCEPT !.faults = 1] :
                               x \in IF Fault("site") THEN {1} ELSE {}}

coordinatorJob(a, job) ==
    CASE job.j = "launch" -> requestTabLaunch(a, job)
      [] job.j = "close" ->
           {IF a.r # job.r \/ ~a.open THEN Answer(a, << >>)
              ELSE Answer([a EXCEPT !.open = FALSE],
                          Actions(job.t, <<StopAction(a.r)>>))}
      [] job.j = "cancel" ->
           {Answer(IF a.l = job.l /\ ~a.admitted THEN NoAuthority ELSE a, << >>)}
      [] job.j = "exited" -> workerExited(a, job)
      [] job.j = "install" -> installSitePackage(a, job)
      [] job.j = "admit" ->
           {IF a.open /\ a.l = job.l
              THEN Answer([a EXCEPT !.admitted = TRUE],
                          <<[e |-> "admitted", t |-> job.t, l |-> job.l]>>)
              ELSE Answer(a, <<[e |-> "refused", t |-> job.t, l |-> job.l]>>)}

CoordinatorJob ==
    /\ w.jobs # << >>
    /\ LET job == Head(w.jobs)
       IN  \E r \in coordinatorJob(auth[job.t], job) :
             /\ auth' = [auth EXCEPT ![job.t] = r.auth]
             /\ epoch' = epoch + r.made
             /\ faults' = faults + r.faults
             /\ Gui([w EXCEPT !.jobs = Tail(@),
                              !.events = @ \o r.events])
    /\ UNCHANGED inputs

-----------------------------------------------------------------------------
\* The Workers and the pages.

Environment(x, count) ==
    /\ Gui(x) /\ faults' = faults + count
    /\ UNCHANGED <<auth, epoch, inputs>>

Handshake(t) ==
    /\ w.rt[t].proc # 0 /\ ~w.rt[t].dying /\ ~w.rt[t].asked
    /\ Environment(Enqueue([w EXCEPT !.rt[t].asked = TRUE],
                           [j |-> "admit", t |-> t, l |-> w.rt[t].proc]), 0)

WorkerGone(t) ==
    /\ w.rt[t].dying
    /\ Environment(processGone(w, t), 0)
WorkerCrashes(t) ==
    /\ w.rt[t].proc # 0 /\ ~w.rt[t].dying /\ Fault("crash")
    /\ Environment(processGone(w, t), 1)

\* Acknowledged: the tab stops loading if it is still at that route.
acknowledged(x, t) ==
    IF /\ inMap(x, t) /\ contains(x.m, t)
       /\ x.runtimeOf[t] = x.rt[t].cur.r
       /\ showsRoute(x, t, x.rt[t].cur.route)
      THEN setLoadState(x, t, FALSE) ELSE x
RouteLoadAcknowledged(t) ==
    /\ w.rt[t].ack /\ hasWorkerContext(w, t)
    /\ Environment(acknowledged([w EXCEPT !.rt[t].ack = FALSE], t), 0)
WorkerNavigates(t, address) ==
    /\ inMap(w, t) /\ w.ctl[t].kind = "worker" /\ hasWorkerContext(w, t)
    /\ KindOf[address] = "app" /\ ~Parsed[address].http
    /\ w.ctl[t].pkg = PackageOf[address]
    /\ address # snapshotOf(w.m, t).address
    /\ Command(navigateFromWorker(w, t, address))

\* The page of a web surface.  It reports the start of a load it was told to
\* make, except, now and then, of a local document that takes the place of a
\* live one; it may report the end of the load it gave up for that one.  It
\* may reload itself, fail, or be denied a redirection.
ws(t) == w.ctl[t].ws
Notify(x, t, status, url) ==
    Post(x, [e |-> "page", t |-> t, web |-> x.ctl[t].web, status |-> status,
             url |-> url, nav |-> x.ctl[t].ws.nav])
Page(t) == inMap(w, t) /\ w.ctl[t].web # 0

PageStarts(t, own) ==
    LET page == [ws(t).page EXCEPT !.load = "started", !.old = "none"]
        x == SetSurface(w, t, observeStart([ws(t) EXCEPT !.page = page]))
    IN  /\ Page(t)
        /\ IF own THEN /\ ws(t).page.load = "none" /\ ws(t).page.doc = "entry"
                       /\ Fault("page")
             ELSE ws(t).page.load = "requested"
        /\ Environment(Notify(x, t, "Started", page.url),
                       IF own THEN 1 ELSE 0)

ended(page) == [page EXCEPT !.load = "none", !.doc = page.url,
                            !.stopping = FALSE]
observed(t, s, url, status) ==
    LET x == [w EXCEPT !.ctl[t].ws = s]
    IN  IF acceptsEnd(s, url)
          THEN Notify([x EXCEPT !.ctl[t].ws = observeEnd(s)], t, status, url)
          ELSE x
PageEnds(t, status) ==
    LET page == ws(t).page
        count == IF status = "Succeeded" \/ page.stopping THEN 0 ELSE 1
    IN  /\ Page(t)
        /\ \/ page.load = "started"
           \/ page.load = "requested" /\ page.url = "error" /\ page.doc = "entry"
        /\ status = "Stopped" => page.stopping
        /\ status = "Failed" => page.stopping \/ (Fault("page") /\ page.url = "entry")
        /\ Environment(observed(t, [ws(t) EXCEPT !.page = ended(page)],
                                page.url, status), count)
ReplacedLoadEnds(t) ==
    LET s == [ws(t) EXCEPT !.page.old = "none"]
    IN  /\ Page(t) /\ ws(t).page.old # "none" /\ ws(t).page.load = "requested"
        /\ Environment(observed(t, s, ws(t).page.old, "Stopped"), 0)
handleDeniedMainFrameNavigation(t) ==
    /\ Page(t) /\ ws(t).page.load = "started" /\ ws(t).page.url = "entry"
    /\ ws(t).awaits \/ ws(t).started
    /\ Fault("page")
    /\ Environment(Notify(w, t, "Denied", "entry"), 1)

RendererFails(t) ==
    LET x == IF webIsCurrent(w, t)
               THEN Post([w EXCEPT !.ctl[t].failed = TRUE],
                         [e |-> "renderer", t |-> t, web |-> w.ctl[t].web])
               ELSE w
    IN  /\ Page(t) /\ ~w.ctl[t].failed /\ Fault("renderer")
        /\ Environment(SetSurface(x, t, loadTrustedError(ws(t))), 1)

\* The demo gallery a demo's own Worker goes back to.
WorkerGoesHome(t) ==
    /\ inMap(w, t) /\ w.ctl[t].kind = "worker" /\ hasWorkerContext(w, t)
    /\ isQmlDemoPackage(w.ctl[t].pkg)
    /\ Command(navigateTab(w, t, NewTab))

\* A reply to a site's loader: the descriptor, then the archive it names.  A
\* loader whose navigation is over is dropped with whatever it brings.
SiteReplies(site) ==
    LET x == [w EXCEPT !.sites = @ \ {site}]
    IN  \/ /\ site.step = "descriptor" /\ isCurrentSite(w, site)
           /\ Environment([x EXCEPT !.sites = @ \cup
                                       {[site EXCEPT !.step = "archive"]}], 0)
        \/ /\ site.step = "archive" \/ ~isCurrentSite(w, site)
           /\ Environment(siteArrives(x, site), 0)
        \/ /\ Fault("site")
           /\ Environment(siteFails(x, site), 1)

OutsideEvent(t) ==
    \/ Handshake(t) \/ WorkerGone(t) \/ WorkerCrashes(t)
    \/ RouteLoadAcknowledged(t)
    \/ \E address \in visits : WorkerNavigates(t, address)
    \/ WorkerGoesHome(t)
    \/ \E own \in BOOLEAN : PageStarts(t, own)
    \/ \E status \in {"Succeeded", "Failed", "Stopped"} : PageEnds(t, status)
    \/ ReplacedLoadEnds(t) \/ handleDeniedMainFrameNavigation(t)
    \/ RendererFails(t)

Next ==
    /\ \/ Start \/ SaveTimer \/ Shutdown \/ FinishShutdown \/ HostDies
       \/ UserCommand \/ GuiEvent \/ CoordinatorJob
       \/ \E t \in TabIds : OutsideEvent(t)
       \/ \E site \in w.sites : SiteReplies(site)
    /\ UNCHANGED <<visits, kinds>>

Spec == Init /\ [][Next]_vars

-----------------------------------------------------------------------------
running == life = "running"

\* While the window is open it shows the tab its model says is active, that
\* tab's controller is the only active one and has started its content, and
\* model and controllers agree on the tabs and on the life of each, whatever
\* was queued when a tab was opened, closed, moved or selected.
WindowShowsTheActiveTab ==
    running =>
      /\ w.visible = active
      /\ \A t \in TabIds :
           /\ inMap(w, t) <=> contains(w.m, t)
           /\ inMap(w, t) =>
                /\ w.ctl[t].active <=> t = active
                /\ w.ctl[t].life = w.m.tabs[indexOfId(w.m, t)].life
                /\ t = active => w.ctl[t].life # "Dormant"

awaited(t) ==
    \/ \E i \in DOMAIN w.jobs : w.jobs[i].t = t
    \/ \E i \in DOMAIN w.events : w.events[i].t = t
    \/ w.rt[t].dying \/ w.rt[t].proc # w.rt[t].ctx \/ w.rt[t].ack
    \/ webIsCurrent(w, t) /\ ws(t).page.load # "none"
    \/ \E s \in w.sites : s.t = t /\ s.nav = w.ctl[t].inc

\* The one exception: the launch of another package was refused, which leaves
\* the Worker of the first running and admitted but off the screen, and then
\* the user went back.  The coordinator takes the tab for served and answers
\* nothing (AppRuntimeCoordinator.cpp:547-556), so the tab waits until it is
\* reloaded, navigated or closed.
strandedByRefusal(t) ==
    LET a == auth[t]
    IN  /\ "reject" \in kinds /\ faults > 0
        /\ a.open /\ a.admitted /\ a.r = w.runtimeOf[t]
        /\ a.l # 0 /\ a.l = w.rt[t].ctx /\ a.l = w.ctl[t].worker
        /\ w.ctl[t].current = "none" /\ w.ctl[t].life = "Loading"
        /\ a.route = RouteOf[snapshotOf(w.m, t).address]

\* A tab that shows its spinner waits for something that will come: a job of
\* the coordinator, an event, a Worker on its way or going, an answer to a
\* route, or a page; only a tab stranded by a refusal waits for nothing.
SpinnerIsJustified ==
    running => \A i \in DOMAIN w.m.tabs :
      LET t == w.m.tabs[i].id
      IN  w.m.tabs[i].loading => awaited(t) \/ strandedByRefusal(t)

\* Once nothing is awaited for a tab, what it shows is what its address
\* says: a page for a web address, the Worker of the address's own package
\* for an app, and a trusted error only as an error; only a tab stranded by a
\* refusal shows nothing.
ContentMatchesAddress ==
    running => \A i \in DOMAIN w.m.tabs :
      LET t == w.m.tabs[i].id
          c == w.ctl[t]
          snap == w.m.tabs[i].snap
      IN  awaited(t) \/ strandedByRefusal(t) \/
            CASE c.current = "host" -> snap.kind = "host"
              [] c.current = "web" -> snap.kind = "web" /\ c.life # "Loading"
              [] c.current = "worker" ->
                   /\ snap.kind = "app"
                   /\ w.rt[t].cur.route = RouteOf[snap.address]
                   /\ w.rt[t].ctx = c.worker /\ c.worker # 0
                   /\ auth[t].open /\ auth[t].l = c.worker
                   /\ PackageOfRoute[auth[t].route] = PackageOf[snap.address]
              [] c.current = "error" -> c.life = "TrustedError"
              [] c.current = "none" -> c.life # "Loading"

\* A session that could not be read is never written over by the run that
\* failed to read it, bytes that are no session leave their place only when a
\* copy is set aside, and no save leaves half a session there, whenever the
\* process dies.
UnreadSessionIsKept ==
    [][ /\ running /\ left.on => disk'.session = disk.session
        /\ disk.session = Garbage /\ disk'.session # Garbage =>
             disk'.corrupt # NoFile
        /\ disk'.session = Garbage => disk.session = Garbage ]_vars

\* What a clean exit saved is what the next start restores: the same tabs
\* with their addresses and histories in the same order, the same one active.
RestartRestoresTheSession ==
    [][ life = "start" /\ life' = "running" /\ left.on /\ saves' =>
          sessionSnapshot(w'.m) = resolvedSession(left.is.snapshot) ]_vars

\* The session survives: a start restores what a clean exit saved, and nothing
\* that could not be read is lost.
SessionIsKept == UnreadSessionIsKept /\ RestartRestoresTheSession

\* What the tabs show is true: a spinner only where something is on its way,
\* and in the end what the address says, but for the tab that a refused launch
\* left without an answer.
TabsAreTruthful == SpinnerIsJustified /\ ContentMatchesAddress
================================================================================
