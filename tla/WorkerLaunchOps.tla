--------------------------- MODULE WorkerLaunchOps ---------------------------
(***************************************************************************)
(* The calls that apps/host/AppTabRuntimeController (the `ctl' of a state) *)
(* and its InstalledPackageWorkerLauncher (`lch', with one launch context  *)
(* per request in `ctx') make of each other on the GUI thread, as          *)
(* functions of the state of a tab's runtime.  A signal between the two is *)
(* a direct connection, hence an operator call; what is queued goes to     *)
(* `queue'.  A call with several outcomes is the set of the states it can  *)
(* leave, or of records [s, ok] when it returns a value.                   *)
(*                                                                         *)
(* The session (HostWorkerSession) is here what its callers see of it: its *)
(* state, its generation and whether its thread still exists.              *)
(***************************************************************************)
EXTENDS SandboxOps, Integers, Sequences

CONSTANT Requests       \* launch requests: 1 .. n, in the order they are made

ASSUME RequestsAssumption == Requests \subseteq Nat \ {0}

None == [req |-> 0, nav |-> 0, gen |-> 0, cap |-> "none"]

\* LaunchRetirementContext; `mgr' is its record at the WorkerRetirementManager
\* and `adm' its ReadyPayload.
NoContext ==
    [serial |-> 0, thread |-> "none", submitted |-> FALSE, attached |-> FALSE,
     canceled |-> FALSE, fatalCleanupObserved |-> FALSE,
     observationFailed |-> FALSE, terminationRequested |-> FALSE,
     observer |-> "none", session |-> FALSE, adm |-> "none", guard |-> FALSE,
     temp |-> FALSE, sb |-> NoSandbox, mgr |-> "none", attempts |-> 0]

Launching(c) == c.thread \notin {"none", "finished"}
Post(s, e) == [s EXCEPT !.queue = Append(@, e)]

\* LaunchRetirementContext::retireAsync.
retireAsync(s, r) ==
    IF s.ctx[r].submitted THEN s
      ELSE [s EXCEPT !.ctx[r].submitted = TRUE, !.ctx[r].mgr = "active"]

kill(s, r) == [s EXCEPT !.ctx[r].sb = terminate(@)]

\* requestTerminateNoWait: a launch thread that has no process yet honours it
\* once it has.
requestTerminateNoWait(s, r) ==
    kill([s EXCEPT !.ctx[r].terminationRequested = TRUE], r)

\* Applies op to every context of a set; the contexts do not affect each other.
RetireAll(s, rs) ==
    [s EXCEPT !.ctx = [r \in Requests |->
                         IF r \in rs THEN retireAsync(s, r).ctx[r] ELSE @[r]]]
TerminateAll(s, rs) ==
    [s EXCEPT !.ctx = [r \in Requests |->
                         IF r \in rs THEN requestTerminateNoWait(s, r).ctx[r]
                                     ELSE @[r]]]

-----------------------------------------------------------------------------
\* HostWorkerSessionController as its callers see it.

shutdown(s) ==
    IF s.sess.state = "Running" THEN [s EXCEPT !.sess.state = "ShuttingDown"]
                                ELSE s
canAttachImmediately(s) == ~s.sess.io
attach(s) == [s EXCEPT !.sess = [state |-> "Running",
                                 generation |-> s.sess.generation + 1,
                                 io |-> TRUE]]

-----------------------------------------------------------------------------
\* AppTabRuntimeController.

\* MainWindow::isAppLaunchTargetCurrent: nothing was navigated since.
isExpectedLaunchTarget(s, req, nav) ==
    /\ s.ctl.target.req = req /\ s.ctl.target.nav = nav
    /\ nav = s.nav

clearPendingAttach(s) ==
    IF s.ctl.pending = None THEN s
      ELSE [kill(s, s.ctl.pending.req) EXCEPT !.ctl.pending = None]

\* The runtime's process is left to the launcher when the tab closes.
ctlStopCurrent(s) ==
    LET runtime == s.ctl.runtime
        s1 == clearPendingAttach(
                shutdown([s EXCEPT !.ctl.runtime = 0, !.ctl.generation = 0]))
    IN  IF runtime # 0 /\ ~s.ctl.closing THEN kill(s1, runtime) ELSE s1

clearIfCurrent(s, r) ==
    LET s1 == IF s.ctl.current = r
                THEN [s EXCEPT !.ctl.current = 0, !.ctl.generation = 0] ELSE s
    IN  IF s.ctl.target.req = r THEN [s1 EXCEPT !.ctl.target = None] ELSE s1

\* launchFailedForRequest: InstalledPackageWorkerLauncher::fail.
fail(s, r) == IF s.ctl.current = r THEN ctlStopCurrent(s) ELSE s

workerExited(s, r) == IF s.ctl.current = r THEN ctlStopCurrent(s) ELSE s

hasPendingActivity(s) ==
    s.lch.current # 0 \/ s.lch.pending # 0 \/ s.lch.inflight # {}
    \/ s.lch.fatal # {}

BugRetiredTooEarly(s) ==
    IF s.ctl.closing /\ s.ctl.current = 0 /\ s.ctl.pending = None
      THEN [s EXCEPT !.ctl.retired = TRUE] ELSE s

\* `retired' is emitted once, when the launcher has nothing left.
emitRetired(s) ==
    IF s.ctl.closing /\ s.ctl.current = 0 /\ s.ctl.pending = None
       /\ ~hasPendingActivity(s)
      THEN [s EXCEPT !.ctl.retired = TRUE] ELSE s

\* retirementCompletedForRequest.
retirementCompleted(s, r) ==
    LET s1 == clearIfCurrent(s, r)
    IN  emitRetired(IF s1.ctl.pending.req = r THEN clearPendingAttach(s1)
                                              ELSE s1)

\* terminalFailure; the Host closes the transport gate at once and fails every
\* runtime closed from its event queue.
terminalFailure(s) ==
    LET s1 == ctlStopCurrent([s EXCEPT !.ctl.accepting = FALSE,
                                       !.ctl.target = None,
                                       !.ctl.current = 0])
    IN  IF s1.ctl.gate
          THEN Post([s1 EXCEPT !.ctl.gate = FALSE], [t |-> "failClosed", r |-> 0])
          ELSE s1

-----------------------------------------------------------------------------
\* InstalledPackageWorkerLauncher.

running(s, r) == r # 0 /\ Executing(s.ctx[r].sb)

expectStop(s) ==
    IF running(s, s.lch.current)
      THEN [s EXCEPT !.lch.expectedStop = s.lch.current] ELSE s

lchStopCurrent(s) ==
    LET s1 == ctlStopCurrent(expectStop(s))
        s2 == IF s.lch.current # 0 THEN kill(s1, s.lch.current) ELSE s1
    IN  TerminateAll(s2, s.lch.inflight)

cancel(s) ==
    LET s1 == ctlStopCurrent(expectStop(
                [s EXCEPT !.lch.accepting = FALSE, !.lch.serial = @ + 1,
                          !.lch.pending = 0]))
    IN  RetireAll(s1, s.lch.inflight \cup ({s.lch.current} \ {0}))

cancelLaunch(s, r) ==
    LET mine == {q \in s.lch.inflight : q = r}
        s1 == IF s.lch.pending = r THEN [s EXCEPT !.lch.pending = 0] ELSE s
        s2 == IF s.lch.current = r
                THEN requestTerminateNoWait(
                       [s1 EXCEPT !.lch.expectedStop = r,
                                  !.ctx[r].canceled = TRUE], r)
                ELSE s1
        s3 == IF r \in mine THEN [s2 EXCEPT !.ctx[r].canceled = TRUE] ELSE s2
    IN  RetireAll(TerminateAll(s3, mine), mine)

\* A context for r, started or, when its thread or its configuration fails,
\* retired at once; or no temporary directory, and no context.
startLaunch(s, r) ==
    LET s1 == [s EXCEPT !.lch.serial = @ + 1]
        s2 == [s1 EXCEPT !.lch.inflight = @ \cup {r},
                         !.ctx[r] = [NoContext EXCEPT
                                       !.serial = s1.lch.serial,
                                       !.temp = TRUE, !.thread = "prepare"]]
        s3 == [s2 EXCEPT !.ctx[r].thread = "finished"]
    IN  {[s |-> s2, ok |-> TRUE],
         [s |-> fail(retireAsync(s3, r), r), ok |-> FALSE],
         [s |-> fail(s1, r), ok |-> FALSE]}

busy(s) == s.lch.current # 0 \/ s.lch.inflight # {}

\* A request that finds a Worker, or a launch, stops it and waits for its end.
lchRequestLaunch(s, r) ==
    IF ~s.lch.accepting THEN {[s |-> s, ok |-> FALSE]}
      ELSE IF busy(s)
             THEN {[s |-> lchStopCurrent([s EXCEPT !.lch.pending = r]),
                    ok |-> TRUE]}
             ELSE startLaunch(s, r)

publishFatalRetirement(s, r, terminal) ==
    LET s1 == fail(retirementCompleted(s, r), r)
    IN  IF terminal THEN terminalFailure(s1) ELSE s1

forget(s, r) ==
    [s EXCEPT !.lch.current = IF @ = r THEN 0 ELSE @]

BugDropsPending(s) == {s}

\* The request that waited for the last Worker to be gone.
launchPending(s) ==
    IF s.lch.accepting /\ ~busy(s) /\ s.lch.pending # 0
      THEN {o.s : o \in lchRequestLaunch([s EXCEPT !.lch.pending = 0],
                                         s.lch.pending)}
      ELSE {s}

handleRetirement(s, r, succeeded) ==
    LET c  == s.ctx[r]
        s1 == forget([s EXCEPT !.lch.inflight = @ \ {r}], r)
        quiet == c.fatalCleanupObserved \/ ~c.attached
        s2 == [s1 EXCEPT !.lch.fatal = @ \ {r}, !.lch.expectedStop = 0]
    IN  IF ~succeeded
          THEN {publishFatalRetirement(
                  [s1 EXCEPT !.ctx[r].fatalCleanupObserved = TRUE,
                             !.lch.accepting = FALSE, !.lch.pending = 0,
                             !.lch.fatal = @ \cup {r}],
                  r, s.lch.accepting)}
          ELSE IF ~quiet /\ c.observationFailed
          THEN {publishFatalRetirement(
                  [s2 EXCEPT !.lch.accepting = FALSE, !.lch.pending = 0],
                  r, s.lch.accepting)}
          ELSE launchPending(retirementCompleted(
                 IF quiet THEN s2 ELSE workerExited(s2, r), r))

-----------------------------------------------------------------------------
\* Attaching an admitted Worker.

\* completeAttach: the last checks, the surface, and the commit.
rollback(s, p) ==
    kill(IF s.sess.generation = p.gen THEN shutdown(s) ELSE s, p.req)

completeAttach(s, p) ==
    IF \/ ~isExpectedLaunchTarget(s, p.req, p.nav)
       \/ s.sess.state # "Running" \/ s.sess.generation # p.gen
       \/ ~s.ctl.gate
      THEN {[s |-> rollback(s, p), ok |-> FALSE]}
      ELSE LET s1 == [s EXCEPT !.ctl.runtime = p.req, !.ctl.current = p.req,
                               !.ctl.generation = p.gen]
           IN  {[s |-> rollback(s, p), ok |-> FALSE],
                [s |-> ctlStopCurrent(s1), ok |-> FALSE],
                [s |-> [s1 EXCEPT !.ctl.target = None], ok |-> TRUE]}

\* The navigation the attach is bound to, retargeted while it waited.
retargeted(s, p) ==
    IF s.ctl.target.req = p.req THEN [p EXCEPT !.nav = s.ctl.target.nav] ELSE p

attachRefused(s, r) ==
    \/ ~s.ctl.accepting \/ s.ctl.closing \/ ~s.ctl.gate
    \/ s.ctl.runtime # 0 \/ s.ctl.current # r
    \/ ~isExpectedLaunchTarget(s, r, s.ctl.target.nav)

\* With a capability runtime whose own Worker is ready, failed, or not there
\* yet; a session whose thread is still ending makes the attach wait too.
realizeAttach(s, r) ==
    IF attachRefused(s, r) THEN {[s |-> s, ok |-> FALSE]}
      ELSE UNION {
        LET p == [req |-> r, nav |-> s.ctl.target.nav,
                  gen |-> s.sess.generation + 1, cap |-> cap]
        IN  CASE cap = "failed" ->
                   {[s |-> kill(s, r), ok |-> FALSE]}
              [] cap # "failed" /\ (cap = "init" \/ ~canAttachImmediately(s)) ->
                   IF s.ctl.pending # None THEN {[s |-> s, ok |-> FALSE]}
                     ELSE {[s |-> shutdown([s EXCEPT !.ctl.pending = p]),
                            ok |-> TRUE]}
              [] OTHER ->
                   completeAttach(attach(s), retargeted(s, p))
        : cap \in {"init", "ready", "failed"}}

ctlCancelLaunch(s, r) ==
    IF s.ctl.current # r THEN s
      ELSE clearIfCurrent(ctlStopCurrent(cancelLaunch(s, r)), r)

\* completePendingAttach, from sessionDetached and from the capability's Worker.
completePendingAttach(s) ==
    LET p  == s.ctl.pending
        s1 == [s EXCEPT !.ctl.pending = None]
        failed(o) == IF o.s.ctl.current = p.req /\ o.s.ctl.pending = None
                       THEN ctlStopCurrent(o.s) ELSE o.s
    IN  CASE p = None -> {s}
          [] p # None /\ (s.ctl.closing \/ ~s.ctl.accepting \/ ~s.ctl.gate) ->
               {clearPendingAttach(s)}
          [] OTHER ->
               IF ~isExpectedLaunchTarget(s, p.req, p.nav)
                 THEN {ctlCancelLaunch(clearPendingAttach(s), p.req)}
                 ELSE IF p.cap = "init" THEN {s}
                 ELSE IF p.cap = "failed" THEN {clearPendingAttach(s)}
                 ELSE IF ~canAttachImmediately(s) THEN {s}
                 ELSE IF s.sess.generation + 1 # p.gen
                 THEN {failed([s |-> kill(attach(s1), p.req)])}
                 ELSE {IF o.ok THEN o.s ELSE failed(o) :
                         o \in completeAttach(attach(s1), retargeted(s, p))}

\* completeLaunch, once per launch: the answer, the timeout or a refusal.
\* The token may have been revoked, and then nothing is published.
completeLaunch(s, r, answer) ==
    LET c  == s.ctx[r]
        s1 == [s EXCEPT !.ctx[r].adm = "resolved"]
        refuse(x) == fail(retireAsync(x, r), r)
        s2 == [s1 EXCEPT !.ctx[r].observer = "watching", !.ctx[r].session = FALSE]
    IN  IF c.adm = "resolved" THEN {s}
        ELSE IF c.canceled \/ answer = "stale" THEN {retireAsync(s1, r)}
        ELSE IF answer # "accepted" THEN {refuse(s1)}
        ELSE IF ~s.lch.accepting \/ c.serial # s.lch.serial
        THEN {retireAsync(s1, r)}
        ELSE IF c.observer # "held"
        THEN {refuse([s1 EXCEPT !.ctx[r].observationFailed = TRUE])}
        ELSE {refuse(requestTerminateNoWait(      \* no observer thread
                [s1 EXCEPT !.ctx[r].observationFailed = TRUE,
                           !.ctx[r].observer = "none"], r)),
              refuse(s2)}                         \* no surface, or revoked
             \cup {IF ~o.ok THEN refuse(o.s)
                     ELSE [o.s EXCEPT
                             !.ctx[r].attached = TRUE,
                             !.lch.inflight = @ \ {r}, !.lch.current = r,
                             !.lch.expectedStop = 0] :
                     o \in realizeAttach(s2, r)}
=============================================================================
