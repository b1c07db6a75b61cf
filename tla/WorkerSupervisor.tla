-------------------------- MODULE WorkerSupervisor --------------------------
(***************************************************************************)
(* One WorkerSupervisor driven by its client.  Reports about an attempt    *)
(* (handshake, heartbeat, health check, exit) carry the key of any attempt *)
(* ever started and a time captured up to MaxDelay before they are         *)
(* applied: they cross threads through queues, so they arrive late, twice  *)
(* or after the attempt was replaced.                                      *)
(***************************************************************************)
EXTENDS WorkerSupervisorOps, FiniteSets

CONSTANTS MaxTime,          \* bound on the clock
          MaxDelay,         \* how old a captured time may be
          MaxActivations,   \* bound on beginActivation
          MaxAttempts       \* bound on beginAttempt

ASSUME BoundsAssumption ==
    /\ MaxTime \in Nat /\ MaxDelay \in Nat
    /\ MaxActivations \in Nat /\ MaxActivations < IdMax
    /\ MaxAttempts \in Nat /\ MaxAttempts < IdMax

VARIABLES
    sup,        \* the supervisor
    now,        \* the monotonic clock
    issued,     \* keys of the attempts that were started
    failed,     \* keys whose failure was answered with an action
    repeated,   \* keys answered more than once
    rollbacks,  \* calls of the rollback callback in this activation
    healthyAt,  \* times at which the running attempt was found healthy
    failedAt,   \* time stamp of the last failure that was acted on
    reported    \* the key of the report applied last, NoKey for another call

supVars == <<sup, now, issued, failed, repeated, rollbacks, healthyAt,
             failedAt, reported>>
history == <<issued, failed, repeated, rollbacks, healthyAt, failedAt>>

Supervisors ==
    [activation : Nat, attempt : Nat, hasAttempt : BOOLEAN,
     lastFailed : AttemptKey, state : SupervisorStates,
     attemptStart : Nat, handshake : Nat, lastHeartbeat : Nat,
     restartUsed : BOOLEAN, rollbackCalled : BOOLEAN,
     crashLoop : BOOLEAN, handshaken : BOOLEAN]

\* The fields of the supervisor and the history stay in their ranges.
SupTypeOK ==
    /\ sup \in Supervisors
    /\ now \in Nat
    /\ issued \subseteq AttemptKey
    /\ failed \subseteq issued
    /\ repeated \subseteq issued
    /\ rollbacks \in Nat
    /\ healthyAt \subseteq Nat
    /\ failedAt \in Nat
    /\ reported \in AttemptKey

SupInit ==
    /\ sup = NewSupervisor
    /\ now = 0
    /\ issued = {} /\ failed = {} /\ repeated = {}
    /\ rollbacks = 0
    /\ healthyAt = {}
    /\ failedAt = 0
    /\ reported = NoKey

\* Times a caller may have captured for a call that is applied now.
CapturedTimes == {t \in 0 .. now : now - t <= MaxDelay}

Tick ==
    /\ now < MaxTime
    /\ now' = now + 1
    /\ reported' = NoKey
    /\ UNCHANGED <<sup, history>>

BeginActivation(at) ==
    /\ sup.activation < MaxActivations
    /\ sup' = beginActivation(sup, at)
    /\ rollbacks' = 0
    /\ healthyAt' = {}
    /\ reported' = NoKey
    /\ UNCHANGED <<now, issued, failed, repeated, failedAt>>

BeginAttempt(activation, at) ==
    /\ sup.attempt < MaxAttempts
    /\ attemptAllowed(sup, activation)
    /\ sup' = beginAttempt(sup, at)
    /\ issued' = issued \cup {keyOf(sup')}
    /\ healthyAt' = {}
    /\ reported' = NoKey
    /\ UNCHANGED <<now, failed, repeated, rollbacks, failedAt>>

AuthenticatedHandshake(key, at) ==
    /\ sup' = authenticatedHandshake(sup, key, at)
    /\ reported' = key
    /\ UNCHANGED <<now, history>>

Heartbeat(key, at) ==
    /\ sup' = heartbeat(sup, key, at)
    /\ reported' = key
    /\ UNCHANGED <<now, history>>

\* The client asks isHealthy and acts on "yes" (promotion to last known good).
ObserveHealthy(key, at) ==
    /\ isHealthy(sup, key, at)
    /\ healthyAt' = healthyAt \cup {at}
    /\ reported' = key
    /\ UNCHANGED <<sup, now, issued, failed, repeated, rollbacks, failedAt>>

\* A failure report: the supervisor's answer and what the history keeps of it.
Report(key, at, result) ==
    LET acted == result.action \in {"Restart", "StartupRollback",
                                    "CrashLoopRollback"}
    IN  /\ sup' = result.sup
        /\ failed' = IF acted THEN failed \cup {key} ELSE failed
        /\ repeated' = IF acted /\ key \in failed
                         THEN repeated \cup {key} ELSE repeated
        /\ failedAt' = IF acted THEN at ELSE failedAt
        /\ rollbacks' = IF ~sup.rollbackCalled /\ result.sup.rollbackCalled
                          THEN rollbacks + 1 ELSE rollbacks
        /\ reported' = key
        /\ UNCHANGED <<now, issued, healthyAt>>

CheckHealth(key, at) == Report(key, at, checkHealth(sup, key, at))

WorkerExited(key, reason, at) ==
    Report(key, at, workerExited(sup, key, reason, at))

SupNext ==
    \/ Tick
    \/ \E at \in CapturedTimes :
          \/ BeginActivation(at)
          \/ \E a \in 1 .. MaxActivations : BeginAttempt(a, at)
          \/ \E key \in issued :
                \/ AuthenticatedHandshake(key, at)
                \/ Heartbeat(key, at)
                \/ ObserveHealthy(key, at)
                \/ CheckHealth(key, at)
                \/ \E reason \in ExitReasons : WorkerExited(key, reason, at)

SupSpec == SupInit /\ [][SupNext]_supVars

-----------------------------------------------------------------------------
\* Properties.

FailedInActivation == {k \in failed : k.activation = sup.activation}

\* A hung Worker is reported by the health check and again by its exit, in
\* either order: each attempt costs at most one restart or rollback.
FailureCountedOnce == repeated = {}

\* unexpectedFailure and workerExited call the rollback callback once in an
\* activation, and after that no attempt of the activation ever runs.
RollbackIsFinal ==
    /\ rollbacks <= 1
    /\ rollbacks = 1 => sup.state = "Retired" /\ sup.rollbackCalled

\* What the supervisor decides follows from what happened.  "One unexpected
\* worker restart is allowed": a crash loop needs two failed attempts of the
\* same activation, and a failure that is not later than the moment the last
\* attempt was found healthy (the windows of isHealthy and
\* unexpectedFailure meet in one instant).  Found healthy means: the running
\* attempt was handshaken at least a health window before.
VerdictsAreEarned ==
    /\ sup.crashLoop => /\ Cardinality(FailedInActivation) >= 2
                        /\ \A t \in healthyAt : failedAt <= t
    /\ healthyAt # {} =>
          /\ sup.handshaken
          /\ \A t \in healthyAt : t - sup.handshake >= HealthWindow

\* A report about a replaced attempt changes nothing.
StaleReportsAreHarmless ==
    [][reported' \notin {NoKey, keyOf(sup)} => sup' = sup]_supVars

\* What the supervisor counts, decides and reports is right, however late and
\* often the health check and the exits reach it.
VerdictsAreRight ==
    SupTypeOK /\ FailureCountedOnce /\ RollbackIsFinal /\ VerdictsAreEarned
=============================================================================
