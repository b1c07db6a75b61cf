----------------------------- MODULE BrowserTabOps -----------------------------
(***************************************************************************)
(* apps/host/BrowserTabModel and apps/host/TabController as functions of a *)
(* window w: w.m is the model of the tab strip (tabs, the index of the     *)
(* active one or 0, the recently closed snapshots), w.ctl[t] the           *)
(* controller of tab t, which owns the surfaces the tab can show.          *)
(*                                                                         *)
(* Titles, progress, the visual state and geometry are left out; an        *)
(* address is a model value with the kind and the package its route        *)
(* resolves to.  Both classes keep a lifecycle for a tab: the model's is   *)
(* tabs[i].life, the controller's ctl[t].life.                             *)
(***************************************************************************)
EXTENDS RouteOps, WebSurfaceOps, FiniteSets

CONSTANTS TabIds,             \* 1 .. n; ids are given out in this order
          NewTab,             \* the address qbrowser://newtab
          MaxOpenTabs, MaxRecentlyClosed, MaxHistoryEntries

ASSUME TabsAssumption ==
    /\ TabIds # {} /\ IsFiniteSet(TabIds) /\ TabIds = 1 .. Cardinality(TabIds)
    /\ NewTab \in Addresses /\ Parsed[NewTab].kind = "newtab"
    /\ {MaxOpenTabs, MaxRecentlyClosed, MaxHistoryEntries} \subseteq Nat \ {0}

NoTab == 0

-----------------------------------------------------------------------------
\* BrowserTabModel.

indexOfId(m, t) == SelectInSeq(m.tabs, LAMBDA x : x.id = t)
contains(m, t) == indexOfId(m, t) # 0
activeId(m) == IF m.active = 0 THEN NoTab ELSE m.tabs[m.active].id
snapshotOf(m, t) == m.tabs[indexOfId(m, t)].snap

NewSnapshot(address) ==
    [kind |-> KindOf[address], address |-> address, history |-> <<address>>,
     at |-> 1]
dormantState(t, snap) ==
    [id |-> t, snap |-> snap, life |-> "Dormant", loading |-> FALSE]
NoTabs == [tabs |-> << >>, active |-> 0, closed |-> << >>, nextId |-> 1]

full(m) == Len(m.tabs) >= MaxOpenTabs
insert(m, snap) ==
    [m EXCEPT !.tabs = Append(@, dormantState(m.nextId, snap)),
              !.active = Len(m.tabs) + 1, !.nextId = @ + 1]
createTab(m) == IF full(m) THEN m ELSE insert(m, NewSnapshot(NewTab))

activateTab(m, i) == [m EXCEPT !.active = i]

moveTab(m, from, to) ==
    LET moved == [m EXCEPT !.tabs = InsertAt(RemoveAt(@, from), to, @[from])]
    IN  [moved EXCEPT !.active = indexOfId(moved, activeId(m))]

\* The neighbour that takes the closed tab's place becomes the active one.
closeTab(m, i) ==
    LET left == [m EXCEPT !.tabs = RemoveAt(@, i),
                          !.closed = LET s == Append(@, m.tabs[i].snap)
                                     IN  IF Len(s) > MaxRecentlyClosed
                                           THEN Tail(s) ELSE s]
    IN  [left EXCEPT !.active =
           IF i # m.active THEN indexOfId(left, activeId(m))
           ELSE IF i <= Len(left.tabs) THEN i ELSE Len(left.tabs)]

reopenMostRecentlyClosed(m) ==
    IF m.closed = << >> \/ full(m) THEN m
      ELSE insert([m EXCEPT !.closed = Front(@)], Last(m.closed))

\* A tab whose kind changes has no content yet.
applyValidatedKind(tab, kind) ==
    IF tab.snap.kind = kind THEN tab
      ELSE [tab EXCEPT !.snap.kind = kind, !.life = "Dormant",
                       !.loading = FALSE]

\* The entries ahead are dropped, the oldest makes room.
navigated(tab, address) ==
    LET history == Append(SubSeq(tab.snap.history, 1, tab.snap.at), address)
        kept == IF Len(history) > MaxHistoryEntries THEN Tail(history)
                                                    ELSE history
        moved == [tab EXCEPT !.snap.history = kept, !.snap.at = Len(kept),
                             !.snap.address = address]
    IN  applyValidatedKind(IF tab.snap.history[tab.snap.at] = address
                             THEN tab ELSE moved,
                           KindOf[address])

traversed(tab, target) ==
    LET address == tab.snap.history[target]
    IN  applyValidatedKind([tab EXCEPT !.snap.at = target,
                                       !.snap.address = address],
                           KindOf[address])

\* replaceFromValidatedSnapshot.
BugRestoresFirst(snapshot) ==
    [tabs |-> [i \in DOMAIN snapshot.tabs |->
                 dormantState(snapshot.tabs[i].id, snapshot.tabs[i].snap)],
     active |-> 1, closed |-> << >>, nextId |-> 1 + Len(snapshot.tabs)]
restored(snapshot) ==
    [tabs |-> [i \in DOMAIN snapshot.tabs |->
                 dormantState(snapshot.tabs[i].id, snapshot.tabs[i].snap)],
     active |-> CHOOSE i \in DOMAIN snapshot.tabs :
                  snapshot.tabs[i].id = snapshot.active,
     closed |-> << >>,
     nextId |-> 1 + Max({snapshot.tabs[i].id : i \in DOMAIN snapshot.tabs})]

\* browserSessionSnapshot.
sessionSnapshot(m) ==
    [tabs |-> [i \in DOMAIN m.tabs |-> [id |-> m.tabs[i].id,
                                        snap |-> m.tabs[i].snap]],
     active |-> activeId(m)]

-----------------------------------------------------------------------------
\* TabController.  `current' names the surface it shows; `web' and `worker'
\* are the surfaces it owns, shown or not (a web surface is named by the
\* incarnation that made it and is ctl.ws, a Worker's by its launch); `pkg' is
\* workerPackageId_; `webInc' the incarnation its web signals were connected
\* at.

NoController ==
    [inc |-> 0, life |-> "none", kind |-> "none", current |-> "none",
     web |-> 0, webInc |-> 0, failed |-> FALSE, ws |-> NewSurface,
     worker |-> 0, pkg |-> NoPackage, active |-> FALSE]
NewController ==
    [NoController EXCEPT !.life = "Dormant", !.kind = "error"]

inMap(w, t) == w.ctl[t] # NoController
SetCtl(w, t, c) == [w EXCEPT !.ctl[t] = c]
SetModel(w, t, life, loading) ==
    LET i == indexOfId(w.m, t)
    IN  IF i = 0 THEN w
          ELSE [w EXCEPT !.m.tabs[i] = [@ EXCEPT !.life = life,
                                                 !.loading = loading]]
Loading(w, t) == w.m.tabs[indexOfId(w.m, t)].loading

transitionTo(w, t, life) ==
    LET w1 == [w EXCEPT !.ctl[t].life = life]
    IN  IF contains(w.m, t) THEN SetModel(w1, t, life, Loading(w, t)) ELSE w1
setLoadState(w, t, loading) ==
    IF contains(w.m, t)
      THEN SetModel(w, t, w.m.tabs[indexOfId(w.m, t)].life, loading) ELSE w
Settle(w, t) ==
    transitionTo(w, t, IF w.ctl[t].active THEN "Active" ELSE "Background")

canTransitionResources(w, t) ==
    inMap(w, t) /\ w.ctl[t].life \notin {"Closing", "Retired"}
    /\ contains(w.m, t)

setActive(w, t, active) ==
    LET w1 == [w EXCEPT !.ctl[t].active = active]
    IN  IF w.ctl[t].life \in {"Dormant", "Loading", "TrustedError"}
          THEN w1 ELSE Settle(w1, t)

beginNavigation(w, t) ==
    [w EXCEPT !.ctl[t].inc = @ + 1,
              !.ctl[t].life = w.m.tabs[indexOfId(w.m, t)].life]

dropWeb(c) ==
    [c EXCEPT !.web = 0, !.webInc = 0, !.failed = FALSE, !.ws = NewSurface,
              !.current = IF @ = "web" THEN "none" ELSE @]

enterTrustedError(w, t, advance) ==
    IF ~canTransitionResources(w, t) THEN w
      ELSE LET w1 == SetCtl(w, t,
                       [w.ctl[t] EXCEPT
                                 !.inc = IF advance THEN @ + 1 ELSE @,
                                 !.ws = IF w.ctl[t].web = 0 THEN @
                                          ELSE stopLoad(@),
                                 !.current = "error",
                                 !.kind = "error"])
           IN  transitionTo(setLoadState(w1, t, FALSE), t, "TrustedError")

showTrustedErrorForNavigation(w, t, nav) ==
    IF w.ctl[t].inc = nav THEN enterTrustedError(w, t, FALSE) ELSE w

startHost(w, t) ==
    Settle(setLoadState(
             SetCtl(w, t, [dropWeb(w.ctl[t]) EXCEPT
                             !.current = "host", !.kind = "host",
                             !.pkg = NoPackage]), t, FALSE), t)

prepareAppLaunch(w, t, package, nav) ==
    IF w.ctl[t].inc # nav \/ ~canTransitionResources(w, t) THEN w
      ELSE transitionTo(
             setLoadState(SetCtl(w, t, [dropWeb(w.ctl[t]) EXCEPT
                                          !.pkg = package, !.kind = "worker",
                                          !.current = "none"]), t, TRUE),
             t, "Loading")

bindAppWorkerSurface(w, t) ==
    Settle([w EXCEPT !.ctl[t].current = "worker", !.ctl[t].kind = "worker"], t)

detachLegacyWorkerSurface(w, t) ==
    LET c == w.ctl[t]
        w1 == SetCtl(w, t, [c EXCEPT !.worker = 0, !.pkg = NoPackage,
                                     !.current = IF @ = "worker" THEN "none"
                                                                 ELSE @])
    IN  IF ~inMap(w, t) \/ c.worker = 0 THEN w
          ELSE IF c.current = "worker" /\ c.life # "Closing"
          THEN enterTrustedError(w1, t, TRUE) ELSE w1

-----------------------------------------------------------------------------
\* Signals of a web surface, which count for the navigation that connected
\* them.

webIsCurrent(w, t) ==
    inMap(w, t) /\ w.ctl[t].web # 0 /\ w.ctl[t].webInc = w.ctl[t].inc

loadingChanged(w, t, loading) ==
    LET w1 == setLoadState(w, t, loading)
    IN  IF loading THEN transitionTo(w1, t, "Loading")
          ELSE IF w.ctl[t].life = "TrustedError" THEN w1 ELSE Settle(w1, t)
navigationFinished(w, t) == loadingChanged(w, t, FALSE)

onWebSignal(w, t, signal) ==
    IF ~webIsCurrent(w, t) THEN w
      ELSE IF signal = "finished" THEN navigationFinished(w, t)
      ELSE loadingChanged(w, t, signal = "loading")

\* What an operation of t's surface leaves, with its signals, of which there
\* are two at most.
SetSurface(w, t, r) ==
    LET x == [w EXCEPT !.ctl[t].ws = r.s]
        y == IF r.emits = << >> THEN x ELSE onWebSignal(x, t, r.emits[1])
    IN  IF Len(r.emits) < 2 THEN y ELSE onWebSignal(y, t, r.emits[2])

\* A surface whose renderer has just failed is not started again.  There is
\* one web entry, and its configuration is valid.
startWeb(w, t) ==
    LET c == w.ctl[t]
        w1 == SetCtl(w, t, [c EXCEPT !.current = "web", !.kind = "web",
                                     !.pkg = NoPackage,
                                     !.web = IF @ = 0 THEN c.inc ELSE @,
                                     !.webInc = c.inc])
        w2 == transitionTo(setLoadState(w1, t, FALSE), t, "Loading")
    IN  IF c.web # 0 /\ c.failed THEN w
          ELSE SetSurface(w2, t, navigate(w2.ctl[t].ws))

\* The queued part of rendererFailed.
retireFailedWeb(w, t, web) ==
    IF ~inMap(w, t) \/ w.ctl[t].web # web \/ ~w.ctl[t].failed THEN w
      ELSE enterTrustedError(SetCtl(w, t, [dropWeb(w.ctl[t]) EXCEPT
                                             !.inc = @ + 1]),
                             t, FALSE)

beginClosing(w, t) ==
    transitionTo([w EXCEPT !.ctl[t].inc = @ + 1, !.ctl[t].active = FALSE],
                 t, "Closing")
================================================================================
