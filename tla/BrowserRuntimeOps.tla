--------------------------- MODULE BrowserRuntimeOps ---------------------------
(***************************************************************************)
(* What the window and the Host do for the Worker of a tab, on the GUI     *)
(* thread, as functions of the window w: HostApplication's handlers of     *)
(* launch and stop requests and of the coordinator's results, and the      *)
(* tab's AppTabRuntimeController, here what its callers see of it (module  *)
(* TabRuntime has its insides).                                            *)
(*                                                                         *)
(* w.rt[t] is that runtime: `cur' currentRequest_, `r' runtimeIncarnation_,*)
(* `target' the navigation its launch is for, `proc' the launch whose      *)
(* process exists or is being made, `dying' when it was told to end,       *)
(* `ctx' the launch with a running session, `pend' the request that waits  *)
(* for proc to be gone, `ack' a RouteLoad that is not answered yet.        *)
(* w.runtimeOf and w.pendingNav are appRuntimeIncarnations_ and            *)
(* pendingAppNavigationIncarnations_; w.jobs is the coordinator's queue    *)
(* and w.events what is posted to the GUI thread.                          *)
(***************************************************************************)
EXTENDS BrowserTabOps

NoLaunch == [l |-> 0, r |-> 0, route |-> << >>]
NoTarget == [l |-> 0, nav |-> 0, address |-> NewTab]
NoRuntime ==
    [made |-> FALSE, closing |-> FALSE, cur |-> NoLaunch, r |-> 0,
     target |-> NoTarget, proc |-> 0, dying |-> FALSE, asked |-> FALSE,
     ctx |-> 0, pend |-> NoLaunch, ack |-> FALSE]

Enqueue(w, job) == [w EXCEPT !.jobs = Append(@, job)]
Post(w, e) == [w EXCEPT !.events = Append(@, e)]

hasWorkerContext(w, t) == w.rt[t].ctx # 0

\* MainWindow::isAppLaunchTargetCurrent.
isAppLaunchTargetCurrent(w, t, nav, package, route, address) ==
    /\ inMap(w, t)
    /\ w.ctl[t].inc = nav /\ w.ctl[t].life \notin {"Closing", "Retired"}
    /\ w.ctl[t].pkg = package
    /\ contains(w.m, t)
    /\ snapshotOf(w.m, t).kind = "app" /\ snapshotOf(w.m, t).address = address
    /\ RouteOf[address] = route /\ PackageOf[address] = package

-----------------------------------------------------------------------------
\* AppTabRuntimeController.

stopCurrent(w, t) ==
    LET w1 == [w EXCEPT !.rt[t].ctx = 0, !.rt[t].ack = FALSE]
    IN  IF w.rt[t].closing THEN w1 ELSE detachLegacyWorkerSurface(w1, t)

stop(w, t) ==
    LET w1 == stopCurrent(w, t)
    IN  IF w.rt[t].proc = 0 THEN w1 ELSE [w1 EXCEPT !.rt[t].dying = TRUE]

forget(w, t, l) ==
    [w EXCEPT !.rt[t].cur = IF @.l = l THEN NoLaunch ELSE @,
              !.rt[t].target = IF @.l = l THEN NoTarget ELSE @]

cancelLaunchIfCurrent(w, t, l) ==
    LET w1 == [w EXCEPT !.rt[t].pend = IF @.l = l THEN NoLaunch ELSE @,
                        !.rt[t].dying = @ \/ w.rt[t].proc = l]
    IN  IF l = 0 \/ w.rt[t].cur.l # l THEN w
          ELSE forget(stopCurrent(w1, t), t, l)

started(rt, launch) ==
    [rt EXCEPT !.proc = launch.l, !.dying = FALSE, !.asked = FALSE,
               !.pend = NoLaunch]

requestLaunch(w, t, launch, nav, address) ==
    LET w1 == [w EXCEPT !.rt[t] = [@ EXCEPT !.cur = launch, !.r = launch.r,
                                            !.target = [l |-> launch.l,
                                                        nav |-> nav,
                                                        address |-> address]]]
    IN  IF w.rt[t].proc # 0
          THEN stop([w1 EXCEPT !.rt[t].pend = launch], t)
          ELSE [w1 EXCEPT !.rt[t] = started(@, launch)]

retargetPendingLaunch(w, t, nav, address) ==
    IF /\ w.rt[t].target.l # 0 /\ w.rt[t].target.l = w.rt[t].cur.l
       /\ isAppLaunchTargetCurrent(w, t, nav,
                                   PackageOfRoute[w.rt[t].cur.route],
                                   RouteOf[address], address)
      THEN [w EXCEPT !.rt[t].cur.route = RouteOf[address],
                     !.rt[t].target.nav = nav, !.rt[t].target.address = address]
      ELSE w

closeRuntime(w, t) ==
    LET w1 == [w EXCEPT !.rt[t] = [@ EXCEPT
                 !.closing = TRUE, !.target = NoTarget, !.pend = NoLaunch,
                 !.cur = NoLaunch, !.ctx = 0, !.ack = FALSE,
                 !.dying = w.rt[t].proc # 0]]
    IN  IF ~w.rt[t].made \/ w.rt[t].closing THEN w
          ELSE IF w.rt[t].proc = 0 THEN Post(w1, [e |-> "retired", t |-> t])
          ELSE w1

BugForgetsPending(rt) == FALSE
startsPending(rt) == rt.pend # NoLaunch

\* The process of t is gone, or never came to be: what the launcher reports,
\* and the request that waited for it.
processGone(w, t) ==
    LET rt == w.rt[t]
        exits == [j |-> "exited", t |-> t, l |-> rt.proc]
        w1 == IF rt.dying THEN w ELSE Enqueue(w, exits)
        w2 == IF rt.cur.l = rt.proc THEN stopCurrent(w1, t) ELSE w1
        w3 == [forget(w2, t, rt.proc) EXCEPT !.rt[t].proc = 0,
                                             !.rt[t].dying = FALSE]
    IN  IF startsPending(rt)
          THEN [w3 EXCEPT !.rt[t] = started(@, rt.pend)]
          ELSE IF rt.closing THEN Post(w3, [e |-> "retired", t |-> t])
          ELSE w3

\* The launcher refuses what it could not attach.
refuseAttach(w, t, l) ==
    LET w1 == [Enqueue(w, [j |-> "exited", t |-> t, l |-> l]) EXCEPT
                 !.rt[t].dying = TRUE]
    IN  IF w.rt[t].cur.l = l THEN stopCurrent(w1, t) ELSE w1

\* The admitted Worker's surface is shown only by the tab it was launched
\* for, still waiting for it (attachAppWorkerSurfaceIfCurrent).
attachable(w, t, l) ==
    LET target == w.rt[t].target
    IN  /\ ~w.rt[t].closing
        /\ target.l = l /\ w.rt[t].cur.l = l
        /\ isAppLaunchTargetCurrent(w, t, target.nav,
                                    PackageOfRoute[w.rt[t].cur.route],
                                    w.rt[t].cur.route, target.address)
        /\ w.ctl[t].worker = 0 /\ w.ctl[t].life = "Loading"
        /\ w.ctl[t].kind = "worker" /\ w.ctl[t].current = "none"

completeLaunch(w, t, l) ==
    IF w.rt[t].proc # l \/ w.rt[t].dying THEN w
      ELSE IF ~attachable(w, t, l) THEN refuseAttach(w, t, l)
      ELSE bindAppWorkerSurface(
             [w EXCEPT !.ctl[t].worker = l,
                       !.rt[t] = [@ EXCEPT !.ctx = l, !.target = NoTarget,
                                           !.ack = TRUE]], t)

-----------------------------------------------------------------------------
\* HostApplication.

runtimeIncarnationForTab(w, t) ==
    IF w.runtimeOf[t] # 0 THEN w
      ELSE [w EXCEPT !.runtimeOf[t] = w.nextR, !.nextR = @ + 1]
advanceRuntimeIncarnationForTab(w, t) ==
    LET w1 == runtimeIncarnationForTab(w, t)
    IN  [w1 EXCEPT !.runtimeOf[t] = w1.nextR, !.nextR = @ + 1]

\* runtime is the incarnation the window names, or 0 for whatever is there.
handleAppStopRequested(w, t, runtime) ==
    LET r == IF runtime # 0 THEN runtime ELSE w.runtimeOf[t]
    IN  IF r = 0 \/ w.runtimeOf[t] # r THEN w
          ELSE Enqueue([w EXCEPT !.runtimeOf[t] = 0, !.pendingNav[t] = 0],
                       [j |-> "close", t |-> t, r |-> r])

supersedesUnmaterializedLaunch(w, t) ==
    w.pendingNav[t] # 0 /\ w.rt[t].cur = NoLaunch /\ ~hasWorkerContext(w, t)

queueLaunch(w, t, address, reload) ==
    LET w1 == IF reload \/ supersedesUnmaterializedLaunch(w, t)
                THEN advanceRuntimeIncarnationForTab(w, t)
                ELSE runtimeIncarnationForTab(w, t)
        nav == w.ctl[t].inc
        w2 == [Enqueue(w1, [j |-> "launch", t |-> t, r |-> w1.runtimeOf[t],
                            route |-> RouteOf[address], reload |-> reload,
                            nav |-> nav]) EXCEPT !.pendingNav[t] = nav]
    IN  IF ~reload /\ w.rt[t].cur # NoLaunch
           /\ w.rt[t].cur.r = w2.runtimeOf[t]
          THEN retargetPendingLaunch(w2, t, nav, address) ELSE w2

\* A site is downloaded and installed first; what ran in the tab ends now.
loadSite(w, t, address) ==
    [handleAppStopRequested(w, t, 0) EXCEPT
       !.sites = @ \cup {[t |-> t, nav |-> w.ctl[t].inc,
                          address |-> address, step |-> "descriptor"]}]

\* verified once the site's package is installed.
handleAppLaunchRequested(w, t, address, reload, verified) ==
    LET w1 == [w EXCEPT !.rt[t].made = TRUE]
    IN  IF Parsed[address].http /\ ~verified THEN loadSite(w1, t, address)
          ELSE queueLaunch(w1, t, address, reload)

\* The tabClosing handler.
handleTabClosing(w, t) ==
    LET r == w.runtimeOf[t]
        w1 == [w EXCEPT !.runtimeOf[t] = 0, !.pendingNav[t] = 0]
    IN  IF r = 0 THEN w1 ELSE Enqueue(w1, [j |-> "close", t |-> t, r |-> r])

\* The tab is at an address of that route.
showsRoute(w, t, route) ==
    /\ snapshotOf(w.m, t).kind = "app"
    /\ RouteOf[snapshotOf(w.m, t).address] = route

isCurrentLaunchTarget(w, t, nav, launch) ==
    /\ canTransitionResources(w, t)
    /\ nav # 0 /\ w.ctl[t].inc = nav
    /\ w.runtimeOf[t] = launch.r
    /\ showsRoute(w, t, launch.route)

dropPendingLaunch(w, t, launch) ==
    Enqueue(w, [j |-> "cancel", t |-> t, l |-> launch.l])

\* A recovery binds to the tab as it is, an ordinary launch to the navigation
\* that asked for it.
applyLaunch(w, t, launch, recovery) ==
    LET nav == IF recovery \/ w.pendingNav[t] = 0 THEN w.ctl[t].inc
                                                  ELSE w.pendingNav[t]
        w1 == IF recovery THEN [w EXCEPT !.pendingNav[t] = nav] ELSE w
        w2 == prepareAppLaunch(w1, t, PackageOfRoute[launch.route], nav)
    IN  IF recovery /\ ~( /\ canTransitionResources(w, t)
                          /\ showsRoute(w, t, launch.route))
          THEN w
          ELSE IF ~isCurrentLaunchTarget(w1, t, nav, launch)
                  \/ w.rt[t].closing
          THEN dropPendingLaunch(w1, t, launch)
          ELSE requestLaunch(w2, t, launch, nav, snapshotOf(w.m, t).address)

\* One action of a coordinator's result: for the runtime the Host expects, or
\* to retire the one it observes.
handleAction(w, t, a) ==
    LET observed == IF w.rt[t].cur # NoLaunch THEN w.rt[t].cur.r
                                              ELSE w.rt[t].r
        expected == /\ w.runtimeOf[t] = a.r
                    /\ a.kind = "Launch" \/ observed \in {0, a.r}
        retires == a.kind = "Stop" /\ observed # 0 /\ observed = a.r
    IN  IF ~inMap(w, t) \/ ~(expected \/ retires) THEN w
          ELSE CASE a.kind = "Launch" ->
                      applyLaunch(w, t, a.launch, a.recovery)
                 [] a.kind = "Stop" -> stop(w, t)
                 [] a.kind = "Crash" ->
                      enterTrustedError(SetCtl(w, t, dropWeb(w.ctl[t])), t, TRUE)

\* One action or two.
handleAppRuntimeResult(w, t, actions) ==
    LET x == handleAction(w, t, actions[1])
    IN  IF Len(actions) < 2 THEN x ELSE handleAction(x, t, actions[2])

-----------------------------------------------------------------------------
\* A site on its way, for the navigation that asked for it.

isCurrentSite(w, site) ==
    inMap(w, site.t) /\ w.ctl[site.t].inc = site.nav

siteFails(w, site) ==
    IF isCurrentSite(w, site)
      THEN showTrustedErrorForNavigation(w, site.t, site.nav) ELSE w

\* The loader's completion: the archive is saved and its installation queued.
siteArrives(w, site) ==
    IF ~isCurrentSite(w, site) THEN w
      ELSE Enqueue(w, [j |-> "install", t |-> site.t, site |-> site])

siteInstalled(w, site) ==
    IF ~isCurrentSite(w, site) THEN w
      ELSE handleAppLaunchRequested(
             prepareAppLaunch(w, site.t, PackageOf[site.address], site.nav),
             site.t, site.address, TRUE, TRUE)
================================================================================
