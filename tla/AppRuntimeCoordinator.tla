------------------------ MODULE AppRuntimeCoordinator ------------------------
(***************************************************************************)
(* The AppRuntimeCoordinator of one Host process.  Its calls run one at a  *)
(* time on the app runtime thread (HostApplication::enqueueAppRuntime),    *)
(* but what they report was observed elsewhere: events of any launch ever  *)
(* issued may be delivered late, twice, or after the launch was replaced,  *)
(* and a drain thread waits for the uses of revoked tokens.                *)
(***************************************************************************)
EXTENDS AppRuntimeOps

CONSTANTS Plans,         \* the situations to explore, see plan
          MaxDelay,      \* how old the time stamp of an event may be
          MaxRequests    \* bound on launch requests

ASSUME PlansAssumption ==
    \A p \in Plans :
      /\ p.knownGood \in Versions \cup {NoVersion}
      /\ p.sites \subseteq Sites
      /\ p.incidents \subseteq
           {"writeFails", "guardFails", "installFails", "admissionFails",
            "cleanupFails", "cancel", "close", "shutdown"}

VARIABLES
    plan,       \* the situation: knownGood, what an earlier session left
                \* current and last known good, or NoVersion for an empty
                \* store; tabs, incarnations and sites, who asks; incidents,
                \* what may happen besides launches, admissions, heartbeats,
                \* exits and health checks; and the bounds on time (while no
                \* drain is pending), launches (drains excepted), tokens in
                \* use at a time, damaged versions and restarts of the Host
    co,         \* the coordinator, see NewCoordinator
    now,        \* the monotonic clock
    inUse,      \* epochs whose token has a use guard outstanding
    waiting,    \* batches a drain thread waits for
    reports,    \* outcomes of drain threads that were not delivered yet
    issued,     \* keys of every launch of this process
    fenced,     \* epochs revoked by a candidate rollback
    failed,     \* versions that were rolled back and not selected again
    spared,     \* versions that became the candidate while a tab was running
                \* them already, not as its candidate
    requests, restarts   \* counters for the bounds

vars == <<plan, co, now, inUse, waiting, reports, issued, fenced, failed,
          spared, requests, restarts>>
host == <<now, inUse, requests, restarts>>

Called == {a \in Authorities : a.tab <= plan.tabs
                               /\ a.incarnation <= plan.incarnations}

InitialStore ==
    IF plan.knownGood = NoVersion
      THEN Store!EmptyState
      ELSE [current |-> plan.knownGood, previous |-> NoVersion,
            lastKnownGood |-> plan.knownGood, generation |-> 2]

Init ==
    /\ plan \in Plans
    /\ co = NewCoordinator(InitialStore, {plan.knownGood} \ {NoVersion}, {}, {})
    /\ now = 0
    /\ inUse = {} /\ waiting = {} /\ reports = {}
    /\ issued = {} /\ fenced = {} /\ failed = {} /\ spared = {}
    /\ requests = 0 /\ restarts = 0

CapturedTimes == {t \in 0 .. now : now - t <= MaxDelay}

-----------------------------------------------------------------------------
\* Calls.

\* A call leaves the coordinator as c.  New launches are handed to the Host
\* and a new drain batch to a drain thread.
NewLaunches(c) ==
    {keyOfTab(c, a) : a \in {b \in Authorities :
                               c.tabs[b].lease.epoch >= co.nextEpoch}}
NewDrains(c) == IF c.nextDrain > co.nextDrain THEN {c.drain} ELSE {}

NewlySelected(c) ==
    IF c.store.current # co.store.current THEN {c.store.current} ELSE {}

\* A candidate was selected, newly or again.
Selects(c) ==
    /\ ~c.candidatePromoted /\ c.candidate # NoDescriptor
    /\ c.candidate # co.candidate \/ co.candidatePromoted
runsUnmarked(t, v) ==
    hasRequest(t) /\ ~ended(t) /\ ~t.candidate /\ t.lease.version = v
NewlySpared(c) ==
    {v \in {c.candidate.version} :
       Selects(c) /\ \E a \in Authorities : runsUnmarked(c.tabs[a], v)}

Call(c) ==
    /\ co' = c
    /\ issued' = issued \cup NewLaunches(c)
    /\ waiting' = waiting \cup
         {[id |-> d.id, tickets |-> d.tickets, deadline |-> d.deadline]
            : d \in NewDrains(c)}
    /\ fenced' = fenced \cup UNION {d.tickets : d \in NewDrains(c)}
    /\ failed' = (failed \ NewlySelected(c))
                   \cup {c.candidate.version : d \in NewDrains(c)}
    /\ spared' = spared \cup NewlySpared(c)

\* A call from the Host's queue; one that changes nothing is a stutter.
Event(c) ==
    /\ c # co
    /\ c.nextEpoch <= plan.launches + 1
    /\ Call(c)
    /\ UNCHANGED <<now, inUse, reports, restarts>>

InstallAndActivate(v, reach, settles, closes) ==
    /\ Event(installAndActivate(co, v, reach, settles, closes))
    /\ UNCHANGED requests

InstallSitePackage(site, succeeds, settles) ==
    /\ Event(installSitePackage(co, site, succeeds, settles))
    /\ UNCHANGED requests

StartOffline(settles, closes) ==
    /\ Event(startOffline(co, settles, closes))
    /\ UNCHANGED requests

RequestTabLaunch(a, intent, package, settles) ==
    /\ requests < MaxRequests
    /\ requests' = requests + 1
    /\ Event(requestTabLaunch(co, a, intent, package, settles, now))

\* HostApplication drops a launch whose tab moved on.
CancelPendingLaunch(key) ==
    /\ "cancel" \in plan.incidents
    /\ Event(cancelPendingLaunch(co, key))
    /\ UNCHANGED requests

AdmitAuthenticatedWorker(key, received) ==
    /\ Event(admitAuthenticatedWorker(co, key, received))
    /\ UNCHANGED requests

Heartbeat(key, io, received) ==
    /\ Event(heartbeat(co, key, io, received))
    /\ UNCHANGED requests

WorkerExited(key, reason, io) ==
    /\ Event(workerExited(co, key, reason, io, now))
    /\ UNCHANGED requests

WorkerAdmissionFailed(key, io) ==
    /\ "admissionFails" \in plan.incidents
    /\ Event(workerAdmissionFailed(co, key, io, now))
    /\ UNCHANGED requests

WorkerCleanupFailed(key) ==
    /\ "cleanupFails" \in plan.incidents
    /\ Event(workerCleanupFailed(co, key))
    /\ UNCHANGED requests

CheckHealth(io, captured) ==
    /\ Event(checkHealth(co, io, captured))
    /\ UNCHANGED requests

CloseTab(a) ==
    /\ "close" \in plan.incidents
    /\ Event(closeTab(co, a))
    /\ UNCHANGED requests

BeginShutdown ==
    /\ "shutdown" \in plan.incidents
    /\ Event(beginShutdown(co))
    /\ UNCHANGED requests

BeginHostShutdownCleanup ==
    /\ co.shuttingDown
    /\ Event(beginHostShutdownCleanup(co))
    /\ UNCHANGED requests

-----------------------------------------------------------------------------
\* The drain thread of HostApplication::handleAppRuntimeResult.

drained(batch) == batch.tickets \cap inUse = {}

BugReportsObservedTime(batch) == now
\* A failed wait is reported with a time after the deadline.
completionTime(batch) ==
    IF drained(batch) \/ now > batch.deadline THEN now
                                              ELSE batch.deadline + 1

DrainWaitReturns(batch) ==
    /\ drained(batch) \/ now >= batch.deadline
    /\ waiting' = waiting \ {batch}
    /\ reports' = reports \cup {[id |-> batch.id, drained |-> drained(batch),
                                 at |-> completionTime(batch)]}
    /\ UNCHANGED <<co, host, issued, fenced, failed, spared>>

DeliverDrainReport(r) ==
    /\ reports' = reports \ {r}
    /\ Call(IF r.drained
              THEN authorityDrainCompleted(co, r.id, inUse, r.at)
              ELSE authorityDrainTimedOut(co, r.id, r.at))
    /\ UNCHANGED host

-----------------------------------------------------------------------------
\* The environment.

\* AuthorityAdmissionToken::tryAcquireUse and the destruction of the guard.
AcquireUse(key) ==
    /\ key.epoch \notin co.closed \cup inUse
    /\ Cardinality(inUse) < plan.uses
    /\ inUse' = inUse \cup {key.epoch}
    /\ UNCHANGED <<co, now, waiting, reports, issued, fenced, failed,
                   spared, requests, restarts>>

ReleaseUse(epoch) ==
    /\ inUse' = inUse \ {epoch}
    /\ UNCHANGED <<co, now, waiting, reports, issued, fenced, failed,
                   spared, requests, restarts>>

Tick ==
    /\ now < plan.time \/ (waiting # {} /\ now < plan.time + DrainTimeout)
    /\ now' = now + 1
    /\ UNCHANGED <<co, inUse, waiting, reports, issued, fenced, failed,
                   spared, requests, restarts>>

\* A version directory is altered, or goes away; corrupt also remembers the
\* ones that are gone.
DamageVersion(v) ==
    /\ v \in co.present \ co.corrupt
    /\ Cardinality(co.corrupt) < plan.corrupt
    /\ co' = [co EXCEPT !.corrupt = @ \cup {v}]
    /\ UNCHANGED <<host, waiting, reports, issued, fenced, failed, spared>>

LoseVersion(v) ==
    /\ v \in co.present
    /\ v \in co.corrupt \/ Cardinality(co.corrupt) < plan.corrupt
    /\ co' = [co EXCEPT !.present = @ \ {v}, !.corrupt = @ \cup {v}]
    /\ UNCHANGED <<host, waiting, reports, issued, fenced, failed, spared>>

\* The Host process ends, cleanly or not, and a new one opens the store.
RestartHost ==
    /\ restarts < plan.restarts
    /\ restarts' = restarts + 1
    /\ co' = NewCoordinator(co.store, co.present, co.corrupt, co.sites)
    /\ inUse' = {} /\ waiting' = {} /\ reports' = {}
    /\ issued' = {} /\ fenced' = {} /\ spared' = {}
    /\ failed' = failed \ {co.store.current}
    /\ UNCHANGED <<now, requests>>

-----------------------------------------------------------------------------

Outcomes == {"ok"} \cup (plan.incidents \cap {"writeFails", "guardFails"})
Stages == IF "installFails" \in plan.incidents THEN InstallStages ELSE {"installed"}
Guards == IF "guardFails" \in plan.incidents THEN BOOLEAN ELSE {TRUE}
InstallGuards == IF "guardFails" \in plan.incidents
                   THEN {"ok", "beforeFails", "installedFails"} ELSE {"ok"}
Packages == {App} \cup plan.sites

PackageCall ==
    \/ \E v \in Versions, reach \in Stages, settles \in InstallGuards,
          closes \in Guards : InstallAndActivate(v, reach, settles, closes)
    \/ \E site \in plan.sites, succeeds \in BOOLEAN, settles \in Guards :
          InstallSitePackage(site, succeeds, settles)
    \/ \E settles \in Guards, closes \in Guards :
          StartOffline(settles, closes)

TabCall ==
    \/ \E a \in Called, intent \in Intents, package \in Packages,
          settles \in Guards : RequestTabLaunch(a, intent, package, settles)
    \/ \E a \in Called : CloseTab(a)
    \/ BeginShutdown
    \/ BeginHostShutdownCleanup

WorkerEvent ==
    \/ \E key \in issued :
          \/ CancelPendingLaunch(key)
          \/ WorkerCleanupFailed(key)
          \/ \E at \in CapturedTimes : AdmitAuthenticatedWorker(key, at)
          \/ \E io \in Outcomes :
                \/ WorkerAdmissionFailed(key, io)
                \/ \E at \in CapturedTimes : Heartbeat(key, io, at)
                \/ \E reason \in Sup!ExitReasons :
                      WorkerExited(key, reason, io)
    \/ \E io \in Outcomes, at \in CapturedTimes : CheckHealth(io, at)

DrainThread ==
    \/ \E batch \in waiting : DrainWaitReturns(batch)
    \/ \E r \in reports : DeliverDrainReport(r)

Environment ==
    \/ \E key \in issued : AcquireUse(key)
    \/ \E epoch \in inUse : ReleaseUse(epoch)
    \/ Tick
    \/ \E v \in Versions : DamageVersion(v) \/ LoseVersion(v)
    \/ RestartHost

Next ==
    /\ PackageCall \/ TabCall \/ WorkerEvent \/ DrainThread \/ Environment
    /\ UNCHANGED plan

Spec == Init /\ [][Next]_vars

\* Drain threads run and their reports are delivered; the clock advances.
FairSpec == Spec /\ WF_vars(DrainThread /\ UNCHANGED plan)
            /\ WF_vars(Tick /\ UNCHANGED plan)
-----------------------------------------------------------------------------
\* Properties.

\* Authority is never orphaned: a token that is still open belongs to the
\* current launch of a tab, and a browser tab has at most one, whatever
\* launches, restarts, cancellations and incarnations came before.
OneOpenAuthorityPerTab ==
    LET open == {k \in issued : k.epoch \notin co.closed}
    IN  /\ \A k \in open : /\ co.tabs[k.authority].lease.epoch = k.epoch
                            /\ ~ended(co.tabs[k.authority])
        /\ \A j, k \in open : j.authority.tab = k.authority.tab => j = k

\* An admitted Worker holds an open token and a handshaken attempt.
AdmittedAuthorityIsLive ==
    \A a \in Authorities : co.tabs[a].admitted =>
        /\ co.tabs[a].lease.epoch \in 1 .. co.nextEpoch - 1
        /\ co.tabs[a].lease.epoch \notin co.closed
        /\ ~ended(co.tabs[a])
        /\ co.tabs[a].sup.handshaken

\* A version whose rollback has begun holds no open authority: not in a tab
\* that was still starting, not by a later launch or restart, not after a
\* restart of the Host.  A rollback spares the tabs that ran the version
\* before it became the candidate, and no launch as the candidate escapes it.
FailedCandidateIsFenced ==
    \A k \in issued :
        LET t == co.tabs[k.authority]
        IN  k.epoch \notin co.closed /\ t.lease.version \in failed
            => t.lease.version \in spared /\ ~t.candidate

\* beginCandidateRollback "linearizes authority revocation before any store
\* transition or drain": until the last use of a revoked authority is
\* released, the drain stays pending and nothing is launched for its tab.
DrainPrecedesRecovery ==
    fenced \cap inUse # {} => co.drain # NoDrain

\* The last known good changes only to the version a tab is running, admitted
\* and healthy, when that version is the candidate.
PromotionIsEarned ==
    [][restarts' = restarts /\ co'.store.lastKnownGood # co.store.lastKnownGood
       => \E a \in Authorities :
            /\ co'.tabs[a].admitted /\ co'.tabs[a].healthy
            /\ ~co.tabs[a].healthy
            /\ co'.tabs[a].lease.version = co'.store.lastKnownGood]_vars

\* Once the app has failed closed or is shutting down, and as long as a drain
\* is pending, no launch is issued; the first two are for ever.
NoLaunchWhenClosed ==
    [][restarts' = restarts =>
         /\ co.failedClosed => co'.failedClosed
         /\ co.shuttingDown => co'.shuttingDown
         /\ co.failedClosed \/ co.shuttingDown
               \/ (co.drain # NoDrain /\ co'.drain # NoDrain)
            => co'.nextEpoch = co.nextEpoch]_vars

\* An event of a launch whose authority was revoked changes nothing, though a
\* new supervisor counts its attempts from one again: the epoch tells the
\* launches of a tab apart.  (workerCleanupFailed is the exception.)
StaleEventsAreHarmless ==
    \A k \in {j \in issued : j.epoch \in co.closed} :
        /\ cancelPendingLaunch(co, k) = co
        /\ admitAuthenticatedWorker(co, k, now) = co
        /\ heartbeat(co, k, "ok", now) = co
        /\ workerAdmissionFailed(co, k, "ok", now) = co
        /\ \A reason \in Sup!ExitReasons :
              workerExited(co, k, reason, "ok", now) = co

\* A rollback ends: its authorities drain and the tabs are recovered, or the
\* deadline passes and the app fails closed.
DrainResolves ==
    co.drain # NoDrain ~> co.drain = NoDrain \/ co.failedClosed

\* Every authority that is open is held by a tab that lives, and every tab that
\* runs an admitted Worker holds one.
AuthorityIsLive == OneOpenAuthorityPerTab /\ AdmittedAuthorityIsLive

\* A rollback fences the failed version everywhere before it recovers any tab.
RollbackIsFenced == FailedCandidateIsFenced /\ DrainPrecedesRecovery

\* What the coordinator may never do in a step: promote a version nobody ran
\* healthily, or launch after it has closed.
StepsAreEarned == PromotionIsEarned /\ NoLaunchWhenClosed
=============================================================================
