---------------------------- MODULE AppRuntimeOps ----------------------------
(***************************************************************************)
(* runtime/package/AppRuntimeCoordinator as functions of its state.  The   *)
(* object is a record c; an operation takes it with its arguments and      *)
(* returns the record after the call, unchanged where the code answers     *)
(* Rejected or IgnoredStale.  c also holds what the code reaches through   *)
(* its references: the activation record and the version directories of    *)
(* the store, and which admission tokens are closed.                       *)
(*                                                                         *)
(* A launch is identified by its lease epoch, and so is its token: both    *)
(* are created by launchForTab.  Routes, permissions and error texts are   *)
(* left out.                                                               *)
(***************************************************************************)
EXTENDS Integers, FiniteSets

CONSTANTS TabIds,            \* browser tabs, ordered as their ids are
          MaxIncarnation,    \* bound on the runtime incarnations of a tab
          Versions, NoVersion, MaxGeneration,   \* as in ActivationStateOps
          Sites,             \* packages other than the app, one version each
          HealthWindow, HeartbeatTimeout, IdMax,   \* as in WorkerSupervisorOps
          DrainTimeout       \* authorityDrainTimeoutMs

ASSUME TabIdsAssumption == TabIds \subseteq Nat /\ IsFiniteSet(TabIds)
ASSUME MaxIncarnationAssumption == MaxIncarnation \in Nat
ASSUME NoVersionAssumption == NoVersion \notin Versions
ASSUME SitesAssumption == Sites \cap (Versions \cup {NoVersion}) = {}
ASSUME DrainTimeoutAssumption == DrainTimeout \in Nat \ {0}

Sup == INSTANCE WorkerSupervisorOps
Store == INSTANCE ActivationStateOps

-----------------------------------------------------------------------------
\* State.

\* TabLaunchAuthority, ordered by AuthorityLess.
Authorities == [tab : TabIds, incarnation : 1 .. MaxIncarnation]
AuthorityLess(a, b) ==
    a.tab < b.tab \/ (a.tab = b.tab /\ a.incarnation < b.incarnation)
firstOf(S) == CHOOSE a \in S : \A b \in S \ {a} : AuthorityLess(a, b)
lastOf(S) == CHOOSE a \in S : \A b \in S \ {a} : AuthorityLess(b, a)

\* VersionDescriptor: a verified version and the binding it was read with.
NoDescriptor == [version |-> NoVersion, generation |-> 0]
Descriptor(v, generation) == [version |-> v, generation |-> generation]
bindingOf(d) == [directory |-> d.version, generation |-> d.generation]

\* VerifiedPackageLease; epoch 0 is the default-constructed one.
NoLease == [version |-> NoVersion, generation |-> 0, epoch |-> 0]

\* TabState; NoTab stands for an authority that is not in the map.
NoTab ==
    [sup |-> Sup!NewSupervisor, attempt |-> Sup!NoKey, lease |-> NoLease,
     admitted |-> FALSE, healthy |-> FALSE, candidate |-> FALSE,
     revoked |-> FALSE, retired |-> FALSE, failedClosed |-> FALSE,
     start |-> 0]
hasRequest(t) == t.lease.epoch # 0
ended(t) == t.revoked \/ t.retired \/ t.failedClosed

NoDrain ==
    [id |-> 0, tickets |-> {}, deadline |-> 0, affected |-> {},
     timedOut |-> FALSE, terminalFailure |-> FALSE]

\* A coordinator that was just constructed on a store.
NewCoordinator(store, present, corrupt, sites) ==
    [store |-> store, present |-> present, corrupt |-> corrupt,
     sites |-> sites, closed |-> {},
     current |-> NoDescriptor, candidate |-> NoDescriptor,
     lkg |-> NoDescriptor, tabs |-> [a \in Authorities |-> NoTab],
     drain |-> NoDrain, cleanupPending |-> FALSE,
     nextEpoch |-> 1, nextDrain |-> 1,
     candidatePromoted |-> FALSE, rollbackStarted |-> FALSE,
     shuttingDown |-> FALSE, failedClosed |-> FALSE]

\* FullAttemptKey of the launch a tab holds.
keyOfTab(c, a) ==
    [authority |-> a, attempt |-> c.tabs[a].attempt,
     epoch |-> c.tabs[a].lease.epoch]

-----------------------------------------------------------------------------
\* Lookup.

BugKeyWithoutEpoch(t, key) == t.attempt = key.attempt
keyMatches(t, key) ==
    t.attempt = key.attempt /\ t.lease.epoch = key.epoch

\* findTab(key) returns a tab.
isLive(c, key) ==
    LET t == c.tabs[key.authority]
    IN  hasRequest(t) /\ ~ended(t) /\ keyMatches(t, key)

\* sameLeaseIdentity compares the version's identity and content, not the
\* generation and not the epoch.
sameLeaseIdentity(left, right) == left.version = right.version

candidateLease(c, lease) ==
    /\ c.candidate # NoDescriptor
    /\ sameLeaseIdentity(c.candidate, lease)
    /\ ~c.candidatePromoted

BugAnyCandidateTab(c, t) ==
    t.candidate /\ ~c.candidatePromoted /\ c.candidate # NoDescriptor
currentCandidateTab(c, t) ==
    /\ t.candidate
    /\ ~c.candidatePromoted
    /\ c.candidate # NoDescriptor
    /\ sameLeaseIdentity(t.lease, c.candidate)

-----------------------------------------------------------------------------
\* Revocation and launch.

BugRevokesRecordOnly(c, a) ==
    [c EXCEPT !.tabs[a].revoked = TRUE, !.tabs[a].admitted = FALSE]
revokeSilently(c, a) ==
    [c EXCEPT !.closed = @ \cup ({c.tabs[a].lease.epoch} \ {0}),
              !.tabs[a].revoked = TRUE,
              !.tabs[a].admitted = FALSE]

launchAllowed(c) ==
    ~c.shuttingDown /\ ~c.failedClosed /\ c.drain = NoDrain

issueLeaseEpoch(c) == [c EXCEPT !.nextEpoch = @ + 1]

\* A fresh supervisor, or the next attempt of the activation that is stopped.
launchForTab(c, a, descriptor, reuseActivation, now) ==
    LET known == c.tabs[a] # NoTab
        old == IF known THEN revokeSilently(c, a) ELSE c
        begun == IF reuseActivation
                   THEN c.tabs[a].sup
                   ELSE Sup!beginActivation(Sup!NewSupervisor, now)
        sup == Sup!beginAttempt(begun, now)
        lease == [version |-> descriptor.version,
                  generation |-> descriptor.generation,
                  epoch |-> c.nextEpoch]
    IN  IF ~launchAllowed(c)
          THEN c
          ELSE IF ~Sup!attemptAllowed(begun, begun.activation)
            THEN [old EXCEPT !.tabs[a].sup = begun,
                             !.tabs[a].failedClosed = TRUE]
            ELSE [issueLeaseEpoch(old) EXCEPT
                    !.tabs[a] = [NoTab EXCEPT
                        !.sup = sup, !.attempt = Sup!keyOf(sup),
                        !.lease = lease,
                        !.candidate = candidateLease(c, lease),
                        !.start = now]]

restartTab(c, a, now) ==
    LET t == c.tabs[a]
    IN  IF ~hasRequest(t)
          THEN [c EXCEPT !.tabs[a].failedClosed = TRUE]
          ELSE launchForTab(c, a, t.lease, t.sup.state = "Stopped", now)

failClosedTab(c, a) ==
    IF c.tabs[a].failedClosed
      THEN c
      ELSE [revokeSilently(c, a) EXCEPT !.tabs[a].failedClosed = TRUE]

closeTab(c, a) ==
    IF c.tabs[a] = NoTab \/ c.tabs[a].retired
      THEN c
      ELSE [revokeSilently(c, a) EXCEPT !.tabs[a].retired = TRUE]

-----------------------------------------------------------------------------
\* Verification of installed content.  A successful verification holds an
\* immutable guard on the directory; closing it may fail, and the guard is
\* then kept for a later retry.

verifies(c, v) == v \in c.present \ c.corrupt

\* settleTemporaryVerification returned false.
Unsettled(c) == [c EXCEPT !.cleanupPending = TRUE, !.failedClosed = TRUE]

\* retryPendingImmutableCleanup, closes telling whether the guard closes now.
retryCleanup(c, closes) ==
    IF c.cleanupPending /\ ~closes
      THEN [c EXCEPT !.failedClosed = TRUE]
      ELSE [c EXCEPT !.cleanupPending = FALSE]

-----------------------------------------------------------------------------
\* Installation and startup.

\* PackageInstaller::install: commit the version directory, activate it,
\* verify it again.  reach is the last of these stages that succeeds.
InstallStages == {"rejected", "committed", "activated", "installed"}
install(c, v, reach) ==
    LET committed == [c EXCEPT !.present = @ \cup {v}, !.corrupt = @ \ {v}]
        activated == Store!activateVerified(c.store, committed.present, v)
    IN  IF reach = "rejected" \/ v \in c.present
          THEN [c |-> c, ok |-> FALSE]
          ELSE IF reach = "committed" \/ ~activated.ok
            THEN [c |-> committed, ok |-> FALSE]
            ELSE [c |-> [committed EXCEPT !.store = activated.next],
                  ok |-> reach = "installed"]

\* settles tells which temporary verification cannot be closed, if any: that
\* of the version selected before, or that of the installed one.
installAndActivate(c, v, reach, settles, closes) ==
    LET ready == retryCleanup(c, closes)
        before == c.store
        hadCurrent == /\ Store!targetsValid(before, c.present)
                      /\ before.current # NoVersion
                      /\ verifies(c, before.current)
        done == install(ready, v, reach)
        installed == Descriptor(v, done.c.store.generation)
    IN  IF c.shuttingDown
          THEN c
          ELSE IF ~launchAllowed(ready)
            THEN ready
            ELSE IF settles = "beforeFails" /\ hadCurrent
              THEN Unsettled(ready)
              ELSE IF settles = "installedFails" /\ done.ok
                THEN Unsettled(done.c)
                ELSE IF ~done.ok
                  THEN done.c
                  ELSE [done.c EXCEPT
                          !.lkg = IF @ = NoDescriptor /\ hadCurrent
                                    THEN Descriptor(before.current,
                                                    before.generation)
                                    ELSE @,
                          !.current = installed, !.candidate = installed,
                          !.candidatePromoted = FALSE,
                          !.rollbackStarted = FALSE]

installSitePackage(c, site, succeeds, settles) ==
    IF ~launchAllowed(c)
      THEN c
      ELSE IF ~settles
        THEN Unsettled(c)
        ELSE IF succeeds THEN [c EXCEPT !.sites = @ \cup {site}] ELSE c

Started(c, store, current, lkg, promoted) ==
    [c EXCEPT !.store = store, !.current = current, !.candidate = current,
              !.lkg = lkg, !.candidatePromoted = promoted]

\* The record as startOffline loads it: all its directories must be there.
offlineStateUsable(c) ==
    Store!targetsValid(c.store, c.present) /\ c.store.current # NoVersion

\* What startOffline selects once no guard is pending; a refusal is c itself.
selectOffline(c) ==
    LET s == c.store
        otherLkg == s.lastKnownGood \notin {NoVersion, s.current}
        recovered == Store!recoverLastKnownGood(s, c.present,
                                                Store!bindingForState(s))
        back == Descriptor(recovered.next.current, recovered.next.generation)
        current == Descriptor(s.current, s.generation)
    IN  IF ~offlineStateUsable(c)
          THEN c
          ELSE IF verifies(c, s.current)
            THEN CASE otherLkg /\ verifies(c, s.lastKnownGood) ->
                        Started(c, s, current,
                                Descriptor(s.lastKnownGood, s.generation),
                                FALSE)
                   [] otherLkg /\ ~verifies(c, s.lastKnownGood) -> c
                   [] s.lastKnownGood = s.current ->
                        Started(c, s, current, current, TRUE)
                   [] OTHER -> Started(c, s, current, NoDescriptor, FALSE)
            ELSE IF otherLkg /\ verifies(c, s.lastKnownGood) /\ recovered.ok
              THEN Started(c, recovered.next, back, back, TRUE)
              ELSE c

startOffline(c, settles, closes) ==
    LET ready == retryCleanup(c, closes)
    IN  IF c.shuttingDown
          THEN c
          ELSE IF ~launchAllowed(ready)
            THEN ready
            ELSE IF ~settles /\ offlineStateUsable(ready)
              THEN Unsettled(ready)
              ELSE selectOffline(ready)

-----------------------------------------------------------------------------
\* Launch requests.

Intents == {"ActivateCurrent", "ReloadCurrent", "RestartPinned"}
App == "app"   \* the package id of the coordinator's own application

otherIncarnations(c, a) ==
    {b \in Authorities : /\ b.tab = a.tab /\ b # a
                         /\ c.tabs[b] # NoTab
                         /\ ~c.tabs[b].retired /\ ~c.tabs[b].failedClosed}

leasesPackage(t, package) ==
    IF package = App THEN t.lease.version \in Versions
                     ELSE t.lease.version = package

\* settles concerns the verification of a site package; a guard that cannot
\* be closed is kept, and this time the app is not failed closed.
requestTabLaunch(c, a, intent, package, settles, now) ==
    LET replaced == IF otherIncarnations(c, a) = {}
                      THEN c
                      ELSE closeTab(c, firstOf(otherIncarnations(c, a)))
        t == replaced.tabs[a]
        keeps == /\ intent = "ActivateCurrent"
                 /\ hasRequest(t) /\ t.admitted /\ ~ended(t)
                 /\ leasesPackage(t, package)
    IN  IF ~launchAllowed(c) \/ c.tabs[a].retired \/ c.tabs[a].failedClosed
          THEN c
          ELSE IF keeps
            THEN replaced
            ELSE CASE intent = "RestartPinned" ->
                        IF hasRequest(t)
                          THEN launchForTab(replaced, a, t.lease, FALSE, now)
                          ELSE replaced
                   [] intent # "RestartPinned" /\ package # App ->
                        IF package \notin c.sites
                          THEN replaced
                          ELSE IF ~settles
                            THEN [replaced EXCEPT !.cleanupPending = TRUE]
                            ELSE launchForTab(replaced, a,
                                              Descriptor(package, 1),
                                              FALSE, now)
                   [] intent # "RestartPinned" /\ package = App ->
                        IF c.current = NoDescriptor
                          THEN replaced
                          ELSE launchForTab(replaced, a, c.current,
                                            FALSE, now)

BugCancelsRecordOnly(c, key) ==
    IF isLive(c, key) /\ ~c.tabs[key.authority].admitted
      THEN [c EXCEPT !.tabs[key.authority] = NoTab]
      ELSE c
cancelPendingLaunch(c, key) ==
    LET a == key.authority
    IN  IF isLive(c, key) /\ ~c.tabs[a].admitted
          THEN [revokeSilently(c, a) EXCEPT !.tabs[a] = NoTab]
          ELSE c

\* The token is used for the admission; the lease of the request is the one
\* the key names.
admitAuthenticatedWorker(c, key, received) ==
    LET a == key.authority
        t == c.tabs[a]
    IN  IF /\ isLive(c, key)
           /\ key.epoch \notin c.closed
           /\ ~t.admitted
           /\ received >= t.start
           /\ Sup!handshakeAllowed(t.sup, key.attempt, received)
          THEN [c EXCEPT !.tabs[a].admitted = TRUE,
                         !.tabs[a].sup = Sup!authenticatedHandshake(
                                             @, key.attempt, received)]
          ELSE c

-----------------------------------------------------------------------------
\* Rollback of the candidate.  io tells how the store and the verification of
\* the recovered version behave: "ok", the write of the record fails, or the
\* guard of the verification cannot be closed.

BugSparesPendingLaunches(c, t) ==
    /\ hasRequest(t) /\ ~ended(t) /\ t.candidate /\ t.admitted
    /\ sameLeaseIdentity(t.lease, c.candidate)
affectedByRollback(c, t) ==
    /\ hasRequest(t) /\ ~ended(t) /\ t.candidate
    /\ sameLeaseIdentity(t.lease, c.candidate)

affectedTabs(c) == {a \in Authorities : affectedByRollback(c, c.tabs[a])}

rolledBack(c, io) ==
    IF io = "writeFails"
      THEN Store!Refused(c.store)
      ELSE Store!rollback(c.store, c.present, bindingOf(c.candidate))

\* The recovered version is verified, and the guard of the verification closed.
recovers(c, io) ==
    /\ rolledBack(c, io).ok
    /\ verifies(c, rolledBack(c, io).next.current)
    /\ io # "guardFails"

\* Authority is revoked before the store is touched and the drain begins.
fenceCandidate(c, io, now) ==
    LET affected == affectedTabs(c)
        tickets == {c.tabs[a].lease.epoch : a \in affected}
    IN  [c EXCEPT
           !.closed = @ \cup tickets,
           !.tabs = [a \in Authorities |->
                       IF a \in affected
                         THEN [@[a] EXCEPT !.revoked = TRUE,
                                           !.admitted = FALSE,
                                           !.failedClosed = ~recovers(c, io)]
                         ELSE @[a]],
           !.store = rolledBack(c, io).next,
           !.drain = [id |-> c.nextDrain, tickets |-> tickets,
                      deadline |-> now + DrainTimeout,
                      affected |-> affected, timedOut |-> FALSE,
                      terminalFailure |-> ~recovers(c, io)],
           !.nextDrain = @ + 1,
           !.rollbackStarted = TRUE]

beginCandidateRollback(c, io, now) ==
    LET rolled == rolledBack(c, io)
        back == Descriptor(rolled.next.current, rolled.next.generation)
    IN  IF c.rollbackStarted \/ c.drain # NoDrain \/ c.candidate = NoDescriptor
          THEN c
          ELSE IF recovers(c, io)
            THEN [fenceCandidate(c, io, now) EXCEPT
                    !.current = back, !.lkg = back, !.candidatePromoted = TRUE]
            ELSE [fenceCandidate(c, io, now) EXCEPT
                    !.failedClosed = TRUE,
                    !.cleanupPending = @ \/ (rolled.ok /\ io = "guardFails"
                                             /\ verifies(c, rolled.next.current))]

promoteCandidate(c, io) ==
    LET marked == Store!markCurrentLastKnownGood(c.store, c.present,
                                                 bindingOf(c.candidate))
        known == Descriptor(c.candidate.version, marked.next.generation)
    IN  IF c.candidatePromoted \/ io = "writeFails" \/ ~marked.ok
          THEN c
          ELSE [c EXCEPT !.store = marked.next, !.candidatePromoted = TRUE,
                         !.candidate = known, !.current = known,
                         !.lkg = known]

-----------------------------------------------------------------------------
\* Worker events.

\* What a supervisor's answer makes of its tab.
supervise(c, a, answer, io, now) ==
    LET seen == [c EXCEPT !.tabs[a].sup = answer.sup]
    IN  CASE answer.action = "Restart" -> restartTab(seen, a, now)
          [] answer.action \in {"StartupRollback", "CrashLoopRollback"} ->
               IF currentCandidateTab(seen, seen.tabs[a])
                 THEN beginCandidateRollback(seen, io, now)
                 ELSE failClosedTab(seen, a)
          [] OTHER -> seen

heartbeat(c, key, io, received) ==
    LET a == key.authority
        t == c.tabs[a]
        answer == Sup!checkHealth(t.sup, key.attempt, received)
        beaten == Sup!heartbeat(t.sup, key.attempt, received)
        seen == [c EXCEPT !.tabs[a].sup = beaten]
        well == [seen EXCEPT !.tabs[a].healthy = TRUE]
    IN  IF ~isLive(c, key) \/ ~t.admitted
          THEN c
          ELSE IF answer.action # "None"
            THEN supervise(c, a, answer, io, received)
            ELSE IF t.healthy \/ ~Sup!isHealthy(beaten, key.attempt, received)
              THEN seen
              ELSE IF currentCandidateTab(well, well.tabs[a])
                THEN promoteCandidate(well, io)
                ELSE well

workerExited(c, key, reason, io, now) ==
    LET a == key.authority
        answer == Sup!workerExited(c.tabs[a].sup, key.attempt, reason, now)
    IN  IF \/ ~isLive(c, key)
           \/ answer.action \in {"IgnoredStaleAttempt",
                                 "IgnoredDuplicateFailure"}
          THEN c
          ELSE IF reason = "Clean"
            THEN [revokeSilently(c, a) EXCEPT !.tabs[a].sup = answer.sup,
                                              !.tabs[a].retired = TRUE]
            ELSE supervise(c, a, answer, io, now)

workerAdmissionFailed(c, key, io, now) ==
    IF ~isLive(c, key)
      THEN c
      ELSE IF currentCandidateTab(c, c.tabs[key.authority])
        THEN beginCandidateRollback(c, io, now)
        ELSE failClosedTab(c, key.authority)

\* Also for a key that was replaced: an unresolved sandbox retirement of the
\* same tab runtime fails the whole app closed.
workerCleanupFailed(c, key) ==
    IF c.tabs[key.authority] = NoTab
      THEN c
      ELSE [revokeSilently(c, key.authority) EXCEPT
              !.tabs[key.authority].failedClosed = TRUE,
              !.failedClosed = TRUE]

\* The timer at one tab of the walk, which stops after the first rollback.
checkTab(walk, a, io, now) ==
    LET t == walk.c.tabs[a]
        answer == Sup!checkHealth(t.sup, Sup!keyOf(t.sup), now)
    IN  IF walk.stop \/ ended(t) \/ ~hasRequest(t) \/ ~t.admitted
          THEN walk
          ELSE [c |-> supervise(walk.c, a, answer, io, now),
                stop |-> answer.action \in {"StartupRollback",
                                            "CrashLoopRollback"}]

\* walk[S] is what the loop has come to after the tabs in S.
checkHealth(c, io, now) ==
    LET walk[S \in SUBSET Authorities] ==
          IF S = {}
            THEN [c |-> c, stop |-> FALSE]
            ELSE checkTab(walk[S \ {lastOf(S)}], lastOf(S), io, now)
    IN  IF c.shuttingDown THEN c ELSE walk[Authorities].c

-----------------------------------------------------------------------------
\* The drain of revoked authorities.  uses is the set of tokens in use.

allTicketsDrained(c, uses) == c.drain.tickets \cap uses = {}

timeoutDrain(c) ==
    IF c.drain = NoDrain \/ c.drain.timedOut
      THEN c
      ELSE [c EXCEPT !.drain.timedOut = TRUE, !.failedClosed = TRUE]

relaunch(c, a, now) ==
    IF c.tabs[a] = NoTab \/ c.lkg = NoDescriptor
      THEN c
      ELSE launchForTab(c, a, c.lkg, FALSE, now)

\* after[S] is the coordinator after the tabs in S were launched again.
recover(c, affected, now) ==
    LET after[S \in SUBSET affected] ==
          IF S = {} THEN c
                    ELSE relaunch(after[S \ {lastOf(S)}], lastOf(S), now)
    IN  [after[affected] EXCEPT !.rollbackStarted = FALSE]

finishDrain(c, uses, now) ==
    LET affected == c.drain.affected
        finished == [c EXCEPT !.drain = NoDrain]
    IN  IF c.drain = NoDrain \/ ~allTicketsDrained(c, uses)
          THEN c
          ELSE IF \/ c.drain.timedOut \/ c.drain.terminalFailure
                  \/ c.shuttingDown \/ c.failedClosed
            THEN [finished EXCEPT !.tabs = [a \in Authorities |->
                     IF a \in affected THEN NoTab ELSE @[a]]]
            ELSE recover(finished, affected, now)

authorityDrainTimedOut(c, id, now) ==
    IF c.drain = NoDrain \/ c.drain.id # id \/ now <= c.drain.deadline
      THEN c
      ELSE timeoutDrain(c)

authorityDrainCompleted(c, id, uses, now) ==
    IF c.drain = NoDrain \/ c.drain.id # id
      THEN c
      ELSE IF now > c.drain.deadline
        THEN finishDrain(timeoutDrain(c), uses, now)
        ELSE finishDrain(c, uses, now)

-----------------------------------------------------------------------------

beginShutdown(c) ==
    LET retire == {a \in Authorities :
                     c.tabs[a] # NoTab /\ ~c.tabs[a].retired}
    IN  IF c.shuttingDown
          THEN c
          ELSE [c EXCEPT
                  !.shuttingDown = TRUE,
                  !.closed = @ \cup ({c.tabs[a].lease.epoch : a \in retire}
                                       \ {0}),
                  !.tabs = [a \in Authorities |->
                              IF a \in retire
                                THEN [@[a] EXCEPT !.revoked = TRUE,
                                                  !.admitted = FALSE,
                                                  !.retired = TRUE]
                                ELSE @[a]]]

\* The guard is closed, or handed over to the caller.
beginHostShutdownCleanup(c) == [c EXCEPT !.cleanupPending = FALSE]
=============================================================================
