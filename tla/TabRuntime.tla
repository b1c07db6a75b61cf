----------------------------- MODULE TabRuntime -----------------------------
(***************************************************************************)
(* The runtime of one app tab: AppTabRuntimeController and its             *)
(* InstalledPackageWorkerLauncher on the GUI thread, the detached launch   *)
(* and observer threads, the retirement thread that closes what a launch   *)
(* opened, the sandboxed Worker process itself.  One action per event of   *)
(* the GUI thread and per step of another thread.                          *)
(***************************************************************************)
EXTENDS WorkerLaunchOps

CONSTANTS MaxIncidents,     \* bound on failed clean-ups, crashes and navigations
          MaxAttempts       \* attempts before a retirement is fatal

ASSUME TabAssumption == MaxIncidents \in Nat /\ MaxAttempts \in Nat \ {0}

VARIABLES
    ctl,        \* AppTabRuntimeController
    lch,        \* InstalledPackageWorkerLauncher
    ctx,        \* its launch contexts, one per request
    sess,       \* the session controller as seen from here
    queue,      \* events posted to the GUI thread
    nav,        \* the tab's navigation incarnation
    requested,  \* the last request the Host made
    incidents

vars == <<ctl, lch, ctx, sess, queue, nav, requested, incidents>>

Here == [ctl |-> ctl, lch |-> lch, ctx |-> ctx, sess |-> sess,
         queue |-> queue, nav |-> nav]
Become(s) ==
    /\ ctl' = s.ctl /\ lch' = s.lch /\ ctx' = s.ctx /\ sess' = s.sess
    /\ queue' = s.queue /\ nav' = s.nav
Gui(s) == Become(s) /\ UNCHANGED <<requested, incidents>>
Incident == incidents < MaxIncidents /\ incidents' = incidents + 1

Init ==
    /\ ctl = [accepting |-> TRUE, closing |-> FALSE, retired |-> FALSE,
              gate |-> TRUE, current |-> 0, target |-> None, pending |-> None,
              runtime |-> 0, generation |-> 0]
    /\ lch = [accepting |-> TRUE, serial |-> 0, inflight |-> {}, current |-> 0,
              pending |-> 0, expectedStop |-> 0, fatal |-> {}]
    /\ ctx = [r \in Requests |-> NoContext]
    /\ sess = [state |-> "Detached", generation |-> 0, io |-> FALSE]
    /\ queue = <<>> /\ nav = 1 /\ requested = 0 /\ incidents = 0

-----------------------------------------------------------------------------
\* The Host's calls.

isAccepting == ctl.accepting /\ ~ctl.closing /\ ctl.gate /\ lch.accepting

\* A refused launch that left nothing behind is forgotten.
RequestLaunch ==
    /\ requested + 1 \in Requests /\ isAccepting
    /\ LET r == requested + 1
           s1 == [Here EXCEPT !.ctl.current = r,
                              !.ctl.target = [None EXCEPT !.req = r,
                                                          !.nav = nav]]
       IN  \E o \in lchRequestLaunch(s1, r) :
             Become(IF ~o.ok /\ ~hasPendingActivity(o.s)
                      THEN clearIfCurrent(o.s, r) ELSE o.s)
    /\ requested' = requested + 1 /\ UNCHANGED incidents

RetargetPendingLaunch ==
    /\ isAccepting /\ ctl.current # 0 /\ ctl.target.req = ctl.current
    /\ ctl.target.nav # nav
    /\ Gui([Here EXCEPT !.ctl.target.nav = nav,
                        !.ctl.pending = IF @.req = ctl.current
                                          THEN [@ EXCEPT !.nav = nav] ELSE @])

CancelLaunchIfCurrent ==
    /\ ctl.current # 0 /\ ~ctl.closing
    /\ Incident /\ Become(ctlCancelLaunch(Here, ctl.current))
    /\ UNCHANGED requested

Stop ==
    /\ ~ctl.closing /\ (ctl.runtime # 0 \/ lch.inflight # {})
    /\ Incident /\ Become(lchStopCurrent(Here)) /\ UNCHANGED requested

\* HostApplication::failClosedAppRuntime: the gate first, the rest later.
HostFailClosed ==
    /\ ctl.gate
    /\ Incident /\ UNCHANGED requested
    /\ Become(Post([Here EXCEPT !.ctl.gate = FALSE],
                   [t |-> "failClosed", r |-> 0]))

failClosed(s) ==
    LET s1 == Post(clearPendingAttach(s), [t |-> "cancel", r |-> 0])
    IN  lchStopCurrent(shutdown(s1))

Close ==
    /\ ~ctl.closing
    /\ LET s1 == cancel([Here EXCEPT !.ctl.closing = TRUE,
                                     !.ctl.accepting = FALSE,
                                     !.ctl.target = None])
       IN  Gui(emitRetired([s1 EXCEPT !.ctl.current = 0,
                                      !.ctl.generation = 0]))

Navigate ==
    /\ ~ctl.closing /\ (ctl.target # None)
    /\ Incident /\ Become([Here EXCEPT !.nav = @ + 1]) /\ UNCHANGED requested

-----------------------------------------------------------------------------
\* The launch thread.  Its objects are its own until it has finished: nobody
\* retires a context that is launching.

\* The thread ends without handing its payload on: the context is retired.
endFailed(s, r) ==
    Post(retireAsync([s EXCEPT !.ctx[r].thread = "finished"], r),
         [t |-> "fail", r |-> r])

At(r, pc) == ctx[r].thread = pc
AdvanceTo(s, r, pc) == [s EXCEPT !.ctx[r].thread = pc]

Prepare(r) ==
    /\ At(r, "prepare")
    /\ \/ Gui(endFailed(Here, r))
       \/ Gui(AdvanceTo([Here EXCEPT !.ctx[r].sb = prepare(@)], r, "validate"))

\* A refused binding may still carry a guard that has to be closed.
ValidateBinding(r) ==
    /\ At(r, "validate")
    /\ \/ \E held \in BOOLEAN :
            Gui(endFailed([Here EXCEPT !.ctx[r].guard = held], r))
       \/ Gui(AdvanceTo([Here EXCEPT !.ctx[r].guard = TRUE], r, "launch"))

LaunchProcess(r) ==
    /\ At(r, "launch")
    /\ LET started == [Here EXCEPT !.ctx[r].sb = launched(@)]
           ready == [started EXCEPT !.ctx[r].observer = "held",
                                    !.ctx[r].session = TRUE]
       IN  \/ \E sb \in launchFailures(ctx[r].sb) :
                Gui(endFailed([Here EXCEPT !.ctx[r].sb = sb], r))
           \/ Gui(endFailed(requestTerminateNoWait(started, r), r))
           \/ Gui(endFailed(started, r))      \* no handle to observe it by
           \/ Gui(AdvanceTo(IF ctx[r].terminationRequested
                              THEN kill(ready, r) ELSE ready, r, "handshake"))

\* The Worker's messages, each within thirty seconds; those it sent before it
\* died are still read.
Handshake(r) ==
    /\ At(r, "handshake")
    /\ Gui(endFailed(Here, r)) \/ Gui(AdvanceTo(Here, r, "revalidate"))

Revalidate(r) ==
    /\ At(r, "revalidate")
    /\ \/ Gui(endFailed(Here, r))
       \/ Gui(Post(AdvanceTo(Here, r, "finished"), [t |-> "admit", r |-> r]))

LaunchThread(r) ==
    Prepare(r) \/ ValidateBinding(r) \/ LaunchProcess(r) \/ Handshake(r)
    \/ Revalidate(r)

-----------------------------------------------------------------------------
\* The Worker process, and the thread that watches it once it is attached.

WorkerDies(r) ==
    /\ ctx[r].sb.exec = "running"
    /\ Incident /\ Become([Here EXCEPT !.ctx[r].sb.exec = "dead"])
    /\ UNCHANGED requested

TerminationEnds(r) ==
    /\ ctx[r].sb.exec = "dying"
    /\ Gui([Here EXCEPT !.ctx[r].sb.exec = "dead"])

\* The process is seen to have ended, or watching it failed.
Observe(r) ==
    /\ ctx[r].observer = "watching" /\ ctx[r].sb.exec \in {"dead", "closed"}
    /\ Gui(retireAsync([Here EXCEPT !.ctx[r].observer = "done"], r))

ObserveError(r) ==
    /\ ctx[r].observer = "watching"
    /\ Incident /\ UNCHANGED requested
    /\ Become(retireAsync(requestTerminateNoWait(
                [Here EXCEPT !.ctx[r].observer = "done",
                             !.ctx[r].observationFailed = TRUE], r), r))

-----------------------------------------------------------------------------
\* The retirement thread.

\* What an attempt can leave of a context: the execution first; the guard and
\* the grants only once it has ended; the temporary directory last.
closePackage(c) ==
    UNION {UNION {{[c EXCEPT !.sb = sb2, !.guard = g] :
                     g \in {FALSE} \cup {c.guard}}
                  : sb2 \in closeGrants(sb1, "process")}
           : sb1 \in closeGrants(c.sb, "prepared")}

BugClosesGuardFirst(c) ==
    {[c EXCEPT !.sb = sb, !.guard = FALSE] : sb \in closeExecution(terminate(c.sb))}

closeSandbox(c) ==
    UNION {LET c1 == [c EXCEPT !.sb = sb]
           IN  IF Executing(sb) \/ sb.exec = "dead" THEN {c1}
                                                    ELSE closePackage(c1)
           : sb \in UNION {closeGrants(x, "cleanup") :
                             x \in closeExecution(terminate(c.sb))}}

Clean(c) ==
    ~Executing(c.sb) /\ c.sb.exec # "dead" /\ Owned(c.sb) = {} /\ ~c.guard

attemptRetirement(c) ==
    LET c0 == [c EXCEPT !.session = FALSE,
                        !.observer = IF @ = "held" THEN "none" ELSE @]
    IN  UNION {IF Clean(c1) THEN {c1, [c1 EXCEPT !.temp = FALSE]} ELSE {c1}
               : c1 \in closeSandbox(c0)}

\* A failed attempt is followed by another, and reported after MaxAttempts.
attemptFailed(s, r) ==
    LET s1 == [s EXCEPT !.ctx[r].attempts = @ + 1]
    IN  IF s1.ctx[r].attempts < MaxAttempts THEN s1
          ELSE Post([s1 EXCEPT !.ctx[r].mgr = "fatal"],
                    [t |-> "lost", r |-> r])

Attempt(r) ==
    /\ ctx[r].mgr = "active" /\ ~Launching(ctx[r])
    /\ \E c \in attemptRetirement(ctx[r]) :
         LET s == [Here EXCEPT !.ctx[r] = c]
         IN  \/ /\ Clean(c) /\ ~c.temp
                /\ Gui(Post([s EXCEPT !.ctx[r].mgr = "done"],
                            [t |-> "retired", r |-> r]))
             \/ /\ ~(Clean(c) /\ ~c.temp)
                /\ Incident /\ UNCHANGED requested
                /\ Become(attemptFailed(s, r))

\* The attempt gave up waiting for the launch thread.
AttemptTooEarly(r) ==
    /\ ctx[r].mgr = "active" /\ Launching(ctx[r])
    /\ Incident /\ UNCHANGED requested
    /\ Become(attemptFailed(Here, r))

RetryFatal(r) ==
    /\ ctx[r].mgr = "fatal"
    /\ Gui([Here EXCEPT !.ctx[r].mgr = "active", !.ctx[r].attempts = 0])

-----------------------------------------------------------------------------
\* Events of the GUI thread.

requestAdmission(s, r) ==
    IF ~s.lch.accepting \/ s.ctx[r].serial # s.lch.serial \/ s.ctx[r].canceled
      THEN retireAsync(s, r)
      ELSE [s EXCEPT !.ctx[r].adm = "waiting"]

HandleEvent ==
    /\ queue # <<>>
    /\ LET e == Head(queue)
           s == [Here EXCEPT !.queue = Tail(@)]
       IN  CASE e.t = "fail"       -> Gui(fail(s, e.r))
             [] e.t = "admit"      -> Gui(requestAdmission(s, e.r))
             [] e.t = "cancel"     -> Gui(cancel(s))
             [] e.t = "failClosed" -> Gui(failClosed(s))
             [] e.t = "retired"    ->
                  \E x \in handleRetirement(s, e.r, TRUE) : Gui(x)
             [] e.t = "lost"       ->
                  \E x \in handleRetirement(s, e.r, FALSE) : Gui(x)
             [] OTHER              ->
                  \E x \in completeLaunch(s, e.r, e.t) : Gui(x)

\* The coordinator's answer comes as an event, unless the queue refused the
\* question and the launcher was told at once.
Answer(r) ==
    /\ ctx[r].adm = "waiting"
    /\ \E a \in {"accepted", "rejected", "stale"} :
         Gui(Post([Here EXCEPT !.ctx[r].adm = "answered"], [t |-> a, r |-> r]))

AdmissionTimeout(r) ==
    /\ ctx[r].adm \in {"waiting", "answered"}
    /\ \E s \in completeLaunch(Here, r, "timeout") : Gui(s)

SessionFails ==
    /\ sess.state = "Running"
    /\ Incident /\ UNCHANGED requested
    /\ LET s == [Here EXCEPT !.sess.state = "Failed"]
       IN  Become(IF /\ \/ sess.generation = ctl.generation
                        \/ sess.generation = ctl.pending.gen
                     /\ ctl.current # 0
                    THEN ctlStopCurrent(s) ELSE s)

\* sessionDetached.
SessionDetaches ==
    /\ sess.state \in {"ShuttingDown", "Failed"} /\ sess.io
    /\ \E s \in completePendingAttach(
                  [Here EXCEPT !.sess.io = FALSE,
                               !.sess.state = IF @ = "Failed" THEN @
                                                ELSE "Detached"]) : Gui(s)

CapabilityInitialized ==
    /\ ctl.pending.cap = "init"
    /\ \E cap \in {"ready", "failed"} :
         \E s \in completePendingAttach([Here EXCEPT !.ctl.pending.cap = cap]) :
           Gui(s)

-----------------------------------------------------------------------------
Threads(r) ==
    LaunchThread(r) \/ TerminationEnds(r) \/ Observe(r) \/ Attempt(r)

Next ==
    \/ RequestLaunch \/ RetargetPendingLaunch \/ CancelLaunchIfCurrent
    \/ Stop \/ HostFailClosed \/ Close \/ Navigate
    \/ HandleEvent \/ SessionFails \/ SessionDetaches \/ CapabilityInitialized
    \/ \E r \in Requests :
         \/ Threads(r) \/ WorkerDies(r) \/ ObserveError(r)
         \/ AttemptTooEarly(r) \/ RetryFatal(r) \/ Answer(r)
         \/ AdmissionTimeout(r)

\* What the program does by itself: its threads run, queued events are handled,
\* timers fire and a terminated process ends.
Progress ==
    \/ HandleEvent \/ SessionDetaches \/ CapabilityInitialized
    \/ \E r \in Requests : Threads(r) \/ AdmissionTimeout(r)

Spec == Init /\ [][Next]_vars
-----------------------------------------------------------------------------
TypeOK ==
    /\ requested \in {0} \cup Requests /\ nav \in Nat \ {0}
    /\ \A r \in Requests :
         /\ ctx[r].sb.acl \subseteq Grants
         /\ ctx[r].mgr \in {"none", "active", "fatal", "done"}
    /\ lch.inflight \subseteq Requests /\ lch.fatal \subseteq Requests

\* A Worker that executes holds everything it was launched with: its package
\* guard is closed and its access is withdrawn only after it has ended, though
\* failed launches, crashes and retries close them in any combination.
WorkerIsConfined ==
    \A r \in Requests :
      Executing(ctx[r].sb) => /\ ctx[r].guard \/ Launching(ctx[r])
                              /\ ctx[r].temp
                              /\ ctx[r].sb.process = Grants
                              /\ ctx[r].sb.acl = Grants

\* No access right outlives its owner: what a launch changed on disk always
\* has an object that will restore it, and a context that reports a
\* successful retirement has left nothing: no right, no process, no guard, no
\* directory.
NothingLeaks ==
    \A r \in Requests :
      /\ ctx[r].sb.acl = Owned(ctx[r].sb)
      /\ ctx[r].mgr = "done" =>
           /\ ctx[r].sb.acl = {} /\ ctx[r].sb.exec \in {"none", "closed"}
           /\ ~ctx[r].guard /\ ~ctx[r].temp /\ ~ctx[r].session
      /\ ctx[r].mgr = "none" /\ ctx[r].temp =>
           Launching(ctx[r]) \/ r \in lch.inflight \/ r = lch.current

\* At most one Worker of the tab lives; the one that the controller serves is
\* the launcher's current one, it is attached, it is the Worker of the tab's
\* current request, and the session's generation is its own.
OneWorkerPerTab ==
    /\ Cardinality({r \in Requests : Executing(ctx[r].sb)}) <= 1
    /\ ctl.runtime # 0 =>
         /\ ctl.runtime = lch.current /\ ctx[ctl.runtime].attached
         /\ ctl.current = ctl.runtime
         /\ ctl.generation = sess.generation
    /\ ctl.pending # None => ctl.runtime = 0

\* A controller that announced its retirement, after which the tab deletes it,
\* has no Worker, no launch and no clean-up left.
RetiredMeansGone ==
    ctl.retired => /\ ~hasPendingActivity(Here) /\ ctl.runtime = 0
                   /\ \A r \in Requests :
                        ctx[r].sb.acl = {} /\ ~Executing(ctx[r].sb) /\ ~ctx[r].temp

Settled ==
    /\ \A r \in Requests : ctx[r].thread # "none" =>
                             ctx[r].attached \/ ctx[r].mgr \in {"done", "fatal"}
    /\ lch.pending = 0 /\ ctl.pending = None
    /\ ctl.closing => ctl.retired \/ lch.fatal # {}

\* Every launch ends: attached, or cleaned up, or reported as not cleanable;
\* a request or an attach that waits does not wait for ever; a closed tab
\* retires unless a clean-up failed for good.  Where that is not so yet, some
\* thread, timer or queued event goes on.
NothingIsStuck == Settled \/ queue # <<>> \/ ENABLED Progress

\* The tab has one Worker at most, the one it serves, and that one is confined
\* for as long as it lives.
WorkerIsOneAndConfined == TypeOK /\ WorkerIsConfined /\ OneWorkerPerTab
=============================================================================
