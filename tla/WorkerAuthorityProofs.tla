----------------------- MODULE WorkerAuthorityProofs -----------------------
(***************************************************************************)
(* Proofs about what decides whether a Worker may run and act: its         *)
(* supervisor, for every policy, any delay of the reports and any bounds   *)
(* below the wrap-around of the ids, its admission token, for any set of   *)
(* threads and any finite set of guards, and the writer of its pipe, for   *)
(* any set of operations and any limit of pending ones.                    *)
(***************************************************************************)
EXTENDS WorkerSupervisor, AuthorityAdmissionToken, PipeWriter,
        FiniteSetTheorems, SequenceTheorems, TLAPS

-----------------------------------------------------------------------------
\* The supervisor.

\* Ids only grow, so an attempt that runs has not failed before.
AttemptsAreFresh ==
    /\ sup.activation <= MaxActivations /\ sup.attempt <= MaxAttempts
    /\ \A k \in issued :
          k.activation <= sup.activation /\ k.attempt <= sup.attempt
    /\ sup.state = "Running" =>
          sup.hasAttempt /\ keyOf(sup) \in issued /\ keyOf(sup) \notin failed

\* The callback was called if and only if the supervisor says so, and then
\* nothing runs.
RollbackIsRecorded ==
    /\ rollbacks = IF sup.rollbackCalled THEN 1 ELSE 0
    /\ sup.rollbackCalled => sup.state = "Retired"

\* A restart that was used is a failure of this activation, a crash loop a
\* second one; and nothing runs after it.
FailuresAreRecorded ==
    /\ IsFiniteSet(failed)
    /\ sup.restartUsed => FailedInActivation # {}
    /\ sup.crashLoop => /\ sup.state = "Retired"
                        /\ \E k, l \in FailedInActivation : k # l
                        /\ \A t \in healthyAt : failedAt <= t

\* The running attempt was handshaken a health window before it was found
\* healthy.
HealthIsEarned ==
    healthyAt # {} =>
        /\ sup.handshaken
        /\ \A t \in healthyAt : t - sup.handshake >= HealthWindow

\* The inductive invariant.
SupInv ==
    /\ SupTypeOK /\ FailureCountedOnce
    /\ AttemptsAreFresh /\ RollbackIsRecorded /\ FailuresAreRecorded
    /\ HealthIsEarned

\* An id below its bound is followed by the next number: it does not wrap.
LEMMA NextIdGrows ==
    ASSUME NEW m \in Nat, m < IdMax, NEW i \in Nat, i < m
    PROVE  nextId(i) = i + 1
BY IdAssumption DEF nextId

\* Times that are captured are natural numbers.
LEMMA CapturedTimesType == ASSUME SupTypeOK PROVE CapturedTimes \subseteq Nat
BY DEF CapturedTimes, SupTypeOK

\* A new supervisor has neither attempt nor failure.
LEMMA SupInitInv == SupInit => SupInv
<1> SUFFICES ASSUME SupInit PROVE SupInv
  OBVIOUS
<1>1. SupTypeOK
  BY DEF SupInit, SupTypeOK, NewSupervisor, NoKey, AttemptKey, Supervisors,
         SupervisorStates
<1>2. IsFiniteSet(failed)
  BY FS_EmptySet DEF SupInit
<1> QED
  BY <1>1, <1>2, BoundsAssumption
     DEF SupInit, SupInv, FailureCountedOnce, AttemptsAreFresh,
         RollbackIsRecorded,
         FailuresAreRecorded, HealthIsEarned, NewSupervisor

\* Nothing but the clock moves.
LEMMA TickStep == ASSUME SupInv, Tick PROVE SupInv'
<1>1. SupTypeOK'
  BY DEF SupInv, Tick, history, SupTypeOK, AttemptKey, NoKey
<1> QED
  BY <1>1 DEF SupInv, Tick, history, FailureCountedOnce, AttemptsAreFresh,
              RollbackIsRecorded, FailuresAreRecorded, FailedInActivation,
              HealthIsEarned, keyOf

\* A new activation starts with a fresh budget and no failures of its own.
LEMMA BeginActivationStep ==
    ASSUME SupInv, NEW at \in CapturedTimes, BeginActivation(at)
    PROVE  SupInv'
<1> USE DEF SupInv, BeginActivation
<1>1. at \in Nat
  BY CapturedTimesType
<1>2. nextId(sup.activation) = sup.activation + 1
  BY BoundsAssumption, NextIdGrows DEF SupTypeOK, Supervisors
<1>3. sup' \in Supervisors /\ sup'.activation = sup.activation + 1
      /\ sup'.attempt = sup.attempt /\ sup'.state = "Stopped"
      /\ ~sup'.rollbackCalled /\ ~sup'.restartUsed /\ ~sup'.crashLoop
  <2>1. sup' = beginActivation(sup, at) /\ sup \in Supervisors
    BY DEF SupTypeOK
  <2>2. nextId(sup.activation) \in Nat /\ NoKey \in AttemptKey
    BY <1>2, <2>1 DEF Supervisors, AttemptKey, NoKey
  <2>3. sup' \in Supervisors
    BY <1>1, <2>1, <2>2 DEF beginActivation, Supervisors, SupervisorStates
  <2> QED
    BY <1>2, <2>1, <2>3 DEF beginActivation, Supervisors
<1>4. SupTypeOK'
  BY <1>3 DEF SupTypeOK, AttemptKey, NoKey
<1>5. AttemptsAreFresh'
  BY <1>3, BoundsAssumption DEF AttemptsAreFresh, SupTypeOK, Supervisors,
                                AttemptKey
<1>6. RollbackIsRecorded' /\ FailuresAreRecorded' /\ HealthIsEarned'
  BY <1>3 DEF RollbackIsRecorded, FailuresAreRecorded, HealthIsEarned
<1> QED
  BY <1>4, <1>5, <1>6 DEF FailureCountedOnce

\* A new attempt has a key that was never issued, so it cannot have failed.
LEMMA BeginAttemptStep ==
    ASSUME SupInv, NEW a \in 1 .. MaxActivations, NEW at \in CapturedTimes,
           BeginAttempt(a, at)
    PROVE  SupInv'
<1> USE DEF SupInv, BeginAttempt
<1>1. at \in Nat
  BY CapturedTimesType
<1>2. nextId(sup.attempt) = sup.attempt + 1
  BY BoundsAssumption, NextIdGrows DEF SupTypeOK, Supervisors
<1>3. /\ sup' \in Supervisors /\ sup'.attempt = sup.attempt + 1
      /\ sup'.activation = sup.activation /\ sup'.hasAttempt
      /\ sup'.rollbackCalled = sup.rollbackCalled
      /\ sup'.restartUsed = sup.restartUsed /\ ~sup'.crashLoop
  <2>1. sup' = beginAttempt(sup, at) /\ sup \in Supervisors /\ ~sup.crashLoop
    BY DEF SupTypeOK, attemptAllowed
  <2>2. nextId(sup.attempt) \in Nat
    BY <1>2, <2>1 DEF Supervisors
  <2>3. sup' \in Supervisors
    BY <1>1, <2>1, <2>2 DEF beginAttempt, Supervisors, SupervisorStates
  <2> QED
    BY <1>2, <2>1, <2>3 DEF beginAttempt, Supervisors
<1>4. keyOf(sup') \in AttemptKey /\ keyOf(sup').activation = sup.activation
      /\ keyOf(sup').attempt = sup.attempt + 1
  BY <1>3 DEF keyOf, AttemptKey, SupTypeOK, Supervisors
<1>5. keyOf(sup') \notin issued
  BY <1>4 DEF AttemptsAreFresh, SupTypeOK, Supervisors
<1>6. SupTypeOK'
  BY <1>3, <1>4 DEF SupTypeOK, AttemptKey, NoKey
<1>7. AttemptsAreFresh'
  BY <1>3, <1>4, <1>5, BoundsAssumption
     DEF AttemptsAreFresh, SupTypeOK, Supervisors, AttemptKey
<1>8. RollbackIsRecorded'
  BY <1>3 DEF RollbackIsRecorded, attemptAllowed
<1>9. FailuresAreRecorded'
  BY <1>3 DEF FailuresAreRecorded, FailedInActivation
<1>10. HealthIsEarned'
  BY DEF HealthIsEarned
<1> QED
  BY <1>6, <1>7, <1>8, <1>9, <1>10 DEF FailureCountedOnce

\* Handshakes and heartbeats change times only, and a handshake comes once.
LEMMA AliveStep ==
    ASSUME SupInv, NEW at \in CapturedTimes, NEW key \in issued,
           AuthenticatedHandshake(key, at) \/ Heartbeat(key, at)
    PROVE  SupInv'
<1> USE DEF SupInv, AuthenticatedHandshake, Heartbeat, history
<1>1. at \in Nat
  BY CapturedTimesType
<1>2. /\ sup' \in Supervisors
      /\ sup'.activation = sup.activation /\ sup'.attempt = sup.attempt
      /\ sup'.hasAttempt = sup.hasAttempt /\ sup'.state = sup.state
      /\ sup'.rollbackCalled = sup.rollbackCalled
      /\ sup'.restartUsed = sup.restartUsed /\ sup'.crashLoop = sup.crashLoop
      /\ sup.handshaken => sup'.handshaken /\ sup'.handshake = sup.handshake
  BY <1>1 DEF authenticatedHandshake, handshakeAllowed, heartbeat, SupTypeOK,
              Supervisors
<1>3. SupTypeOK'
  BY <1>2 DEF SupTypeOK
<1>4. AttemptsAreFresh'
  BY <1>2 DEF AttemptsAreFresh, keyOf
<1>5. RollbackIsRecorded' /\ FailuresAreRecorded'
  BY <1>2 DEF RollbackIsRecorded, FailuresAreRecorded, FailedInActivation
<1>6. HealthIsEarned'
  BY <1>2 DEF HealthIsEarned
<1> QED
  BY <1>3, <1>4, <1>5, <1>6 DEF FailureCountedOnce

\* Only an attempt that runs is found healthy.
LEMMA ObserveHealthyStep ==
    ASSUME SupInv, NEW at \in CapturedTimes, NEW key \in issued,
           ObserveHealthy(key, at)
    PROVE  SupInv'
<1> USE DEF SupInv, ObserveHealthy
<1>1. at \in Nat
  BY CapturedTimesType
<1>2. SupTypeOK'
  BY <1>1 DEF SupTypeOK
<1>3. AttemptsAreFresh' /\ RollbackIsRecorded'
  BY DEF AttemptsAreFresh, RollbackIsRecorded, keyOf
<1>4. FailuresAreRecorded'
  BY DEF FailuresAreRecorded, FailedInActivation, isHealthy
<1>5. HealthIsEarned'
  BY <1>1, PolicyAssumption DEF HealthIsEarned, isHealthy, SupTypeOK,
                                Supervisors
<1> QED
  BY <1>2, <1>3, <1>4, <1>5 DEF FailureCountedOnce

\* What a report of a failure can do: nothing, or end the running attempt by a
\* restart, a rollback or a clean exit.
Endings(key, at) ==
    {[sup |-> [sup EXCEPT !.state = "Retired"], action |-> "None"],
     [sup |-> [sup EXCEPT !.lastFailed = key, !.state = "Retired",
                          !.rollbackCalled = TRUE],
      action |-> "StartupRollback"],
     unexpectedFailure(sup, key, at)}

\* A report about another attempt than the running one changes nothing.
LEMMA ReportOutcome ==
    ASSUME SupTypeOK, NEW key \in issued, NEW at \in Nat, NEW ending,
           \/ ending = checkHealth(sup, key, at)
           \/ \E reason \in ExitReasons :
                 ending = workerExited(sup, key, reason, at)
    PROVE  \/ ending.sup = sup /\ ending.action \in
                 {"None", "IgnoredStaleAttempt", "IgnoredDuplicateFailure"}
           \/ /\ sup.state = "Running" /\ isCurrent(sup, key)
              /\ ending \in Endings(key, at)
<1>1. CASE ending = checkHealth(sup, key, at)
  BY <1>1 DEF checkHealth, staleReport, Endings
<1>2. ASSUME NEW reason \in ExitReasons,
             ending = workerExited(sup, key, reason, at)
      PROVE  \/ ending.sup = sup /\ ending.action \in
                 {"None", "IgnoredStaleAttempt", "IgnoredDuplicateFailure"}
             \/ /\ sup.state = "Running" /\ isCurrent(sup, key)
                /\ ending \in Endings(key, at)
  BY <1>2 DEF workerExited, staleReport, currentExit, Endings, ExitReasons
<1> QED
  BY <1>1, <1>2

\* A report that is not acted on changes nothing that is recorded.
LEMMA IgnoredStep ==
    ASSUME SupInv, NEW at \in Nat, NEW key \in issued, NEW ending,
           Report(key, at, ending), ending.sup = sup,
           ending.action \in {"None", "IgnoredStaleAttempt",
                              "IgnoredDuplicateFailure"}
    PROVE  SupInv'
<1> USE DEF SupInv, Report
<1>1. SupTypeOK'
  BY DEF SupTypeOK
<1>2. AttemptsAreFresh' /\ RollbackIsRecorded' /\ FailuresAreRecorded'
      /\ HealthIsEarned' /\ FailureCountedOnce'
  BY DEF AttemptsAreFresh, RollbackIsRecorded, FailuresAreRecorded,
         FailedInActivation, HealthIsEarned, FailureCountedOnce, keyOf
<1> QED
  BY <1>1, <1>2

\* A clean exit ends the attempt and costs nothing.
LEMMA CleanExitStep ==
    ASSUME SupInv, NEW at \in Nat, NEW key \in issued,
           Report(key, at, [sup |-> [sup EXCEPT !.state = "Retired"],
                            action |-> "None"])
    PROVE  SupInv'
<1> USE DEF SupInv, Report
<1>1. /\ sup' \in Supervisors /\ sup'.state = "Retired"
      /\ sup'.activation = sup.activation /\ sup'.attempt = sup.attempt
      /\ sup'.rollbackCalled = sup.rollbackCalled
      /\ sup'.restartUsed = sup.restartUsed /\ sup'.crashLoop = sup.crashLoop
      /\ sup'.handshaken = sup.handshaken /\ sup'.handshake = sup.handshake
      /\ UNCHANGED <<issued, failed, repeated, rollbacks, healthyAt,
                     failedAt, now>>
      /\ reported' = key
  BY DEF SupTypeOK, Supervisors, SupervisorStates
<1>2. SupTypeOK'
  BY <1>1 DEF SupTypeOK
<1>3. AttemptsAreFresh' /\ RollbackIsRecorded' /\ FailuresAreRecorded'
      /\ HealthIsEarned' /\ FailureCountedOnce'
  BY <1>1 DEF AttemptsAreFresh, RollbackIsRecorded, FailuresAreRecorded,
              FailedInActivation, HealthIsEarned, FailureCountedOnce
<1> QED
  BY <1>2, <1>3

\* A failure that is acted on is the first of its attempt.  What the step keeps
\* of it, whichever action it was:
LEMMA FailureStep ==
    ASSUME SupInv, NEW at \in Nat, NEW key \in issued, NEW ending,
           Report(key, at, ending),
           sup.state = "Running", isCurrent(sup, key),
           ending.action \in {"Restart", "StartupRollback",
                              "CrashLoopRollback"},
           ending.sup \in Supervisors, ending.sup.state # "Running",
           ending.sup.activation = sup.activation,
           ending.sup.attempt = sup.attempt
    PROVE  /\ SupTypeOK' /\ FailureCountedOnce' /\ AttemptsAreFresh'
           /\ IsFiniteSet(failed')
           /\ failed' = failed \cup {key} /\ key \notin failed
           /\ key.activation = sup.activation
           /\ FailedInActivation' = FailedInActivation \cup {key}
<1> USE DEF SupInv, Report
<1>1. key = keyOf(sup) /\ key \notin failed /\ key.activation = sup.activation
  BY DEF isCurrent, AttemptsAreFresh, keyOf
<1>2. failed' = failed \cup {key} /\ repeated' = repeated /\ failedAt' = at
      /\ sup' = ending.sup /\ reported' = key
      /\ UNCHANGED <<now, issued, healthyAt>>
  BY <1>1
<1>3. rollbacks' \in Nat
  BY DEF SupTypeOK
<1>4. SupTypeOK'
  BY <1>2, <1>3 DEF SupTypeOK, FailureCountedOnce
<1>5. AttemptsAreFresh' /\ FailureCountedOnce'
  BY <1>2 DEF AttemptsAreFresh, FailureCountedOnce
<1>6. IsFiniteSet(failed')
  BY <1>2, FS_AddElement DEF FailuresAreRecorded
<1>7. FailedInActivation' = FailedInActivation \cup {key}
  BY <1>1, <1>2 DEF FailedInActivation
<1> QED
  BY <1>1, <1>2, <1>4, <1>5, <1>6, <1>7

\* A startup failure rolls back: the callback is called, the first time.
LEMMA StartupRollbackStep ==
    ASSUME SupInv, NEW at \in Nat, NEW key \in issued,
           sup.state = "Running", isCurrent(sup, key),
           Report(key, at,
                  [sup |-> [sup EXCEPT !.lastFailed = key, !.state = "Retired",
                                       !.rollbackCalled = TRUE],
                   action |-> "StartupRollback"])
    PROVE  SupInv'
<1> DEFINE next == [sup EXCEPT !.lastFailed = key, !.state = "Retired",
                               !.rollbackCalled = TRUE]
           ending == [sup |-> next, action |-> "StartupRollback"]
<1>1. /\ next \in Supervisors /\ next.state = "Retired"
      /\ next.activation = sup.activation /\ next.attempt = sup.attempt
      /\ next.rollbackCalled
      /\ next.restartUsed = sup.restartUsed /\ next.crashLoop = sup.crashLoop
      /\ next.handshaken = sup.handshaken /\ next.handshake = sup.handshake
  BY DEF SupInv, SupTypeOK, Supervisors, SupervisorStates
<1>2. Report(key, at, ending)
  OBVIOUS
<1>3. sup' = next /\ healthyAt' = healthyAt
      /\ rollbacks' = IF ~sup.rollbackCalled THEN rollbacks + 1 ELSE rollbacks
  BY <1>1, <1>2 DEF Report
<1> HIDE DEF next
<1>4. /\ SupTypeOK' /\ FailureCountedOnce' /\ AttemptsAreFresh'
      /\ IsFiniteSet(failed')
      /\ FailedInActivation' = FailedInActivation \cup {key}
  BY <1>1, <1>2, FailureStep
<1>5. RollbackIsRecorded'
  BY <1>1, <1>3 DEF SupInv, RollbackIsRecorded
<1>6. FailuresAreRecorded'
  BY <1>1, <1>3, <1>4 DEF SupInv, FailuresAreRecorded
<1>7. HealthIsEarned'
  BY <1>1, <1>3 DEF SupInv, HealthIsEarned
<1> QED
  BY <1>4, <1>5, <1>6, <1>7 DEF SupInv

\* An unexpected failure: the first is forgiven, a second one inside the health
\* window of its own attempt is a crash loop.  Found healthy and in a crash loop
\* meet in one instant, since the attempt was handshaken when found healthy.
LEMMA UnexpectedFailureStep ==
    ASSUME SupInv, NEW at \in Nat, NEW key \in issued,
           sup.state = "Running", isCurrent(sup, key),
           Report(key, at, unexpectedFailure(sup, key, at))
    PROVE  SupInv'
<1> DEFINE ending == unexpectedFailure(sup, key, at)
<1>1. /\ ending.sup \in Supervisors /\ ending.sup.state # "Running"
      /\ ending.sup.activation = sup.activation
      /\ ending.sup.attempt = sup.attempt
      /\ ending.sup.handshaken = sup.handshaken
      /\ ending.sup.handshake = sup.handshake
      /\ ending.sup.restartUsed
      /\ ending.action \in {"Restart", "CrashLoopRollback"}
  BY DEF unexpectedFailure, isCrashLoopFailure, SupInv, SupTypeOK, Supervisors,
         SupervisorStates
<1>2. \/ /\ isCrashLoopFailure(sup, at)
         /\ ending.sup.rollbackCalled /\ ending.sup.crashLoop
         /\ ending.sup.state = "Retired"
      \/ /\ ending.sup.rollbackCalled = sup.rollbackCalled
         /\ ending.sup.crashLoop = sup.crashLoop
  BY DEF unexpectedFailure, SupInv, SupTypeOK, Supervisors
<1>3. /\ sup' = ending.sup /\ healthyAt' = healthyAt /\ failedAt' = at
      /\ rollbacks' = IF ~sup.rollbackCalled /\ ending.sup.rollbackCalled
                        THEN rollbacks + 1 ELSE rollbacks
  BY <1>1 DEF Report
<1> HIDE DEF ending
<1>4. /\ SupTypeOK' /\ FailureCountedOnce' /\ AttemptsAreFresh'
      /\ IsFiniteSet(failed') /\ key \notin failed
      /\ FailedInActivation' = FailedInActivation \cup {key}
  BY <1>1, FailureStep DEF ending
<1>5. ~sup.crashLoop /\ ~sup.rollbackCalled
  BY DEF SupInv, FailuresAreRecorded, RollbackIsRecorded
<1>6. RollbackIsRecorded'
  BY <1>2, <1>3, <1>5 DEF SupInv, RollbackIsRecorded
<1>7. HealthIsEarned'
  BY <1>1, <1>3 DEF SupInv, HealthIsEarned
<1>8. ASSUME isCrashLoopFailure(sup, at)
      PROVE  /\ \E k, l \in FailedInActivation' : k # l
             /\ \A t \in healthyAt' : failedAt' <= t
  <2>1. PICK k \in FailedInActivation : TRUE
    BY <1>8 DEF isCrashLoopFailure, SupInv, FailuresAreRecorded
  <2>2. k # key
    BY <2>1, <1>4 DEF FailedInActivation
  <2>3. ASSUME NEW t \in healthyAt PROVE at <= t
    <3>1. sup.handshaken /\ t - sup.handshake >= HealthWindow
      BY <2>3 DEF SupInv, HealthIsEarned
    <3>2. at <= sup.handshake + HealthWindow
      BY <1>8, <3>1 DEF isCrashLoopFailure, healthWindowStart
    <3>3. t \in Nat /\ sup.handshake \in Nat /\ HealthWindow \in Nat
      BY <2>3, PolicyAssumption DEF SupInv, SupTypeOK, Supervisors
    <3> QED
      BY <3>1, <3>2, <3>3
  <2> QED
    BY <1>3, <1>4, <2>1, <2>2, <2>3
<1>9. FailuresAreRecorded'
  BY <1>2, <1>3, <1>4, <1>5, <1>8 DEF FailuresAreRecorded
<1> QED
  BY <1>4, <1>6, <1>7, <1>9 DEF SupInv

\* A report, late or repeated, is ignored or ends the running attempt.
LEMMA ReportStep ==
    ASSUME SupInv, NEW at \in CapturedTimes, NEW key \in issued,
           \/ CheckHealth(key, at)
           \/ \E reason \in ExitReasons : WorkerExited(key, reason, at)
    PROVE  SupInv'
<1>1. at \in Nat
  BY CapturedTimesType DEF SupInv
<1>2. PICK ending :
        /\ Report(key, at, ending)
        /\ \/ ending = checkHealth(sup, key, at)
           \/ \E reason \in ExitReasons :
                 ending = workerExited(sup, key, reason, at)
  BY DEF CheckHealth, WorkerExited
<1>3. \/ ending.sup = sup /\ ending.action \in
            {"None", "IgnoredStaleAttempt", "IgnoredDuplicateFailure"}
      \/ /\ sup.state = "Running" /\ isCurrent(sup, key)
         /\ ending \in Endings(key, at)
  BY <1>1, <1>2, ReportOutcome DEF SupInv
<1> QED
  BY <1>1, <1>2, <1>3, IgnoredStep, CleanExitStep, StartupRollbackStep,
     UnexpectedFailureStep DEF Endings

\* Every step of the supervisor and its client preserves the invariant.
LEMMA SupStepInv == SupInv /\ [SupNext]_supVars => SupInv'
<1> SUFFICES ASSUME SupInv, [SupNext]_supVars PROVE SupInv'
  OBVIOUS
<1>1. CASE UNCHANGED supVars
  BY <1>1 DEF SupInv, supVars, history, SupTypeOK, FailureCountedOnce,
              AttemptsAreFresh,
              RollbackIsRecorded, FailuresAreRecorded, FailedInActivation,
              HealthIsEarned, keyOf
<1>2. CASE Tick
  BY <1>2, TickStep
<1>3. ASSUME NEW at \in CapturedTimes,
             \/ BeginActivation(at)
             \/ \E a \in 1 .. MaxActivations : BeginAttempt(a, at)
      PROVE  SupInv'
  BY <1>3, BeginActivationStep, BeginAttemptStep
<1>4. ASSUME NEW at \in CapturedTimes, NEW key \in issued,
             \/ AuthenticatedHandshake(key, at)
             \/ Heartbeat(key, at)
             \/ ObserveHealthy(key, at)
      PROVE  SupInv'
  BY <1>4, AliveStep, ObserveHealthyStep
<1>5. ASSUME NEW at \in CapturedTimes, NEW key \in issued,
             \/ CheckHealth(key, at)
             \/ \E reason \in ExitReasons : WorkerExited(key, reason, at)
      PROVE  SupInv'
  BY <1>5, ReportStep
<1> QED
  BY <1>1, <1>2, <1>3, <1>4, <1>5 DEF SupNext

\* The inductive invariant says what the run checks: two different failures of
\* the activation are at least two.
LEMMA InvImpliesVerdicts == SupInv => VerdictsAreRight
<1> SUFFICES ASSUME SupInv PROVE VerdictsAreRight
  OBVIOUS
<1>1. RollbackIsFinal
  BY DEF SupInv, RollbackIsRecorded, RollbackIsFinal
<1>2. ASSUME sup.crashLoop PROVE Cardinality(FailedInActivation) >= 2
  <2>1. PICK k, l \in FailedInActivation : k # l
    BY <1>2 DEF SupInv, FailuresAreRecorded
  <2>2. IsFiniteSet(FailedInActivation)
    BY FS_Subset DEF SupInv, FailuresAreRecorded, FailedInActivation
  <2>3. IsFiniteSet({k}) /\ Cardinality({k}) = 1
    BY FS_Singleton
  <2>4. Cardinality({k} \cup {l}) = 2
    BY <2>1, <2>3, FS_AddElement
  <2>5. Cardinality({k} \cup {l}) <= Cardinality(FailedInActivation)
    BY <2>1, <2>2, FS_Subset
  <2>6. Cardinality(FailedInActivation) \in Nat
    BY <2>2, FS_CardinalityType
  <2> QED
    BY <2>4, <2>5, <2>6
<1>3. VerdictsAreEarned
  BY <1>2 DEF SupInv, FailuresAreRecorded, HealthIsEarned, VerdictsAreEarned
<1> QED
  BY <1>1, <1>3 DEF SupInv, VerdictsAreRight

\* For every policy, and however late and often the reports of a Worker arrive:
\* each failure is acted on once, a rollback is final, and health and crash
\* loops are what the policy says.
THEOREM SupervisorVerdicts == SupSpec => []VerdictsAreRight
<1>1. SupSpec => []SupInv
  BY SupInitInv, SupStepInv, PTL DEF SupSpec
<1> QED
  BY <1>1, InvImpliesVerdicts, PTL

\* A report about a replaced attempt changes nothing.
THEOREM SupervisorIgnoresStaleReports == SupSpec => StaleReportsAreHarmless
<1>1. [SupNext]_supVars =>
        [reported' \notin {NoKey, keyOf(sup)} => sup' = sup]_supVars
  <2> SUFFICES ASSUME SupNext, reported' \notin {NoKey, keyOf(sup)}
               PROVE  sup' = sup
    OBVIOUS
  <2>1. ASSUME NEW at \in CapturedTimes, NEW key \in issued,
               reported' = key, ~isCurrent(sup, key),
               \/ AuthenticatedHandshake(key, at) \/ Heartbeat(key, at)
               \/ ObserveHealthy(key, at) \/ CheckHealth(key, at)
               \/ \E reason \in ExitReasons : WorkerExited(key, reason, at)
        PROVE  sup' = sup
    BY <2>1 DEF AuthenticatedHandshake, authenticatedHandshake,
                handshakeAllowed, Heartbeat, heartbeat, ObserveHealthy,
                CheckHealth, checkHealth, WorkerExited, workerExited,
                staleReport, Report
  <2> QED
    BY <2>1 DEF SupNext, Tick, BeginActivation, BeginAttempt, isCurrent,
                AuthenticatedHandshake, Heartbeat, ObserveHealthy,
                CheckHealth, WorkerExited, Report
<1> QED
  BY <1>1, PTL DEF SupSpec, StaleReportsAreHarmless

-----------------------------------------------------------------------------
\* The admission token.

\* The inductive invariant: the accounting of guards, mutex and tickets with
\* the two facts a drained token keeps.
TokenInv == TypeOK /\ Accounting /\ NoLostWakeup /\ DrainIsFinal

\* Acquiring adds one active guard, so the counter can follow it.
LEMMA ActiveAdd ==
    ASSUME owner \in [Guards -> Threads \cup {NoThread}],
           NEW g \in Guards, NEW t \in Threads,
           owner[g] = NoThread,
           owner' = [owner EXCEPT ![g] = t]
    PROVE  Active' = Active \cup {g} /\ g \notin Active
BY NoneAssumption DEF Active

\* Releasing removes exactly one active guard.
LEMMA ActiveRemove ==
    ASSUME owner \in [Guards -> Threads \cup {NoThread}],
           NEW g \in Guards, NEW t \in Threads,
           owner[g] = t,
           owner' = [owner EXCEPT ![g] = NoThread]
    PROVE  Active' = Active \ {g} /\ g \in Active
BY NoneAssumption DEF Active

\* The set of active guards is finite: there are finitely many guards.
LEMMA ActiveFinite == IsFiniteSet(Active) /\ Cardinality(Active) \in Nat
<1>1. Active \subseteq Guards
  BY DEF Active
<1> QED
  BY <1>1, GuardsAssumption, FS_Subset, FS_CardinalityType

\* A counter that counts the active guards is zero exactly when none is left.
LEMMA ActiveEmpty == Cardinality(Active) = 0 <=> Active = {}
BY ActiveFinite, FS_EmptySet

\* A new token is open, unused and has no waiters.
LEMMA TokenInitInv == Init => TokenInv
<1> SUFFICES ASSUME Init PROVE TokenInv
  OBVIOUS
<1>1. Active = {} /\ Blocked = {}
  BY DEF Init, Active, Blocked
<1>2. Cardinality(Active) = 0
  BY <1>1, ActiveEmpty
<1>3. TypeOK
  BY DEF Init, TypeOK, Waits
<1> QED
  BY <1>1, <1>2, <1>3 DEF Init, TokenInv, Accounting, NoLostWakeup,
                          DrainIsFinal

\* A use is counted as it is acquired, and only while the token is open.
LEMMA AcquireStep ==
    ASSUME TokenInv, NEW t \in Threads, NEW g \in Guards, tryAcquireUse(t, g)
    PROVE  TokenInv'
<1> USE NoneAssumption DEF TokenInv, tryAcquireUse, CanLock, admitsUse
<1>1. Active' = Active \cup {g} /\ g \notin Active
  BY ActiveAdd DEF TypeOK
<1>2. Cardinality(Active') = Cardinality(Active) + 1
  BY <1>1, ActiveFinite, FS_AddElement
<1>3. TypeOK'
  BY DEF TypeOK
<1>4. Blocked' = Blocked
  BY DEF Blocked
<1>5. Accounting'
  BY <1>2, <1>4 DEF Accounting, TypeOK
<1>6. NoLostWakeup' /\ DrainIsFinal'
  BY <1>4 DEF NoLostWakeup, DrainIsFinal, Accounting
<1> QED
  BY <1>3, <1>5, <1>6

\* Moving a guard hands its use over to another thread.
LEMMA MoveStep ==
    ASSUME TokenInv, NEW t \in Threads, NEW g \in Guards, moveGuard(g, t)
    PROVE  TokenInv'
<1> USE NoneAssumption DEF TokenInv, moveGuard
<1>1. Active' = Active /\ Blocked' = Blocked
  BY DEF Active, Blocked, TypeOK
<1>2. TypeOK'
  BY DEF TypeOK
<1>3. Accounting'
  BY <1>1 DEF Accounting, TypeOK
<1>4. NoLostWakeup' /\ DrainIsFinal'
  BY <1>1 DEF NoLostWakeup, DrainIsFinal
<1> QED
  BY <1>2, <1>3, <1>4

\* The callback of a publication runs under the mutex of an open token.
LEMMA PublishStep ==
    ASSUME TokenInv, NEW t \in Threads, NEW g \in Guards,
           publishIfStillAdmitted(t, g)
    PROVE  TokenInv'
<1> USE NoneAssumption DEF TokenInv, publishIfStillAdmitted, CanLock,
                           admitsPublication
<1>1. Active' = Active /\ Blocked' = Blocked
  BY DEF Active, Blocked
<1>2. TypeOK'
  BY DEF TypeOK
<1>3. Accounting'
  BY <1>1 DEF Accounting, TypeOK
<1>4. NoLostWakeup' /\ DrainIsFinal'
  BY <1>1 DEF NoLostWakeup, DrainIsFinal
<1> QED
  BY <1>2, <1>3, <1>4

\* The callback returns and the mutex is free again.
LEMMA CommitStep ==
    ASSUME TokenInv, NEW t \in Threads, commitReturns(t)
    PROVE  TokenInv'
<1> USE NoneAssumption DEF TokenInv, commitReturns
<1>1. Active' = Active /\ Blocked' = Blocked
  BY DEF Active, Blocked
<1>2. TypeOK'
  BY DEF TypeOK
<1>3. Accounting'
  BY <1>1 DEF Accounting, TypeOK
<1>4. NoLostWakeup' /\ DrainIsFinal'
  BY <1>1 DEF NoLostWakeup, DrainIsFinal
<1> QED
  BY <1>2, <1>3, <1>4

\* The release that brings the counter of a closed token to zero is the one
\* that notifies: NoLostWakeup rests on it.
LEMMA ReleaseStep ==
    ASSUME TokenInv, NEW t \in Threads, NEW g \in Guards, release(t, g)
    PROVE  TokenInv'
<1> USE NoneAssumption
      DEF TokenInv, release, CanLock, withoutOwner, lastUseReleased, NotifyAll,
          NotifyTargets
<1>1. Active' = Active \ {g} /\ g \in Active
  BY ActiveRemove DEF TypeOK
<1>2. Cardinality(Active') = Cardinality(Active) - 1
  BY <1>1, ActiveFinite, FS_RemoveElement
<1>3. activeUses > 0 /\ activeUses' = Cardinality(Active')
  <2>1. Cardinality(Active) # 0
    BY <1>1, ActiveEmpty
  <2> QED
    BY <2>1, <1>2, ActiveFinite DEF Accounting
<1>4. Blocked' = Blocked /\ Blocked \subseteq Threads
  BY DEF Blocked
<1>5. TypeOK'
  BY <1>3, <1>4 DEF TypeOK
<1>6. Accounting'
  <2>1. committing = NoGuard /\ committing' = NoGuard /\ mutex' = NoThread
    BY DEF Accounting
  <2>2. notified' \subseteq Blocked'
    BY <1>4 DEF Accounting
  <2> QED
    BY <1>3, <1>4, <2>1, <2>2 DEF Accounting, TypeOK
<1>7. NoLostWakeup'
  BY <1>3, <1>4 DEF NoLostWakeup, TypeOK
<1>8. DrainIsFinal'
  BY <1>1 DEF DrainIsFinal
<1> QED
  BY <1>5, <1>6, <1>7, <1>8

\* beginRevoke and the destructor close the token; uses stay counted.
LEMMA RevokeStep ==
    ASSUME TokenInv, NEW t \in Threads, beginRevoke(t) \/ destroyToken(t)
    PROVE  TokenInv'
<1> USE NoneAssumption
      DEF TokenInv, beginRevoke, destroyToken, CanLock, NotifyAll,
          NotifyTargets
<1>1. Active' = Active /\ Blocked' = Blocked /\ Blocked \subseteq Threads
  BY DEF Active, Blocked
<1>2. TypeOK'
  BY <1>1 DEF TypeOK
<1>3. Accounting'
  BY <1>1 DEF Accounting, TypeOK
<1>4. NoLostWakeup' /\ DrainIsFinal'
  BY <1>1 DEF NoLostWakeup, DrainIsFinal, TypeOK
<1> QED
  BY <1>2, <1>3, <1>4

\* A wait that finds uses outstanding blocks under the mutex, so no release
\* can slip between its test and its sleep.
LEMMA WaitStep ==
    ASSUME TokenInv, NEW t \in Threads, NEW k \in Threads,
           waitUntil(t, k) \/ waitUntilDrained(t, k) \/ isDrained(t, k)
    PROVE  TokenInv'
<1> USE NoneAssumption
      DEF TokenInv, waitUntil, waitUntilDrained, isDrained, Wait, CanLock
<1>1. Active' = Active /\ notified' = notified /\ closed /\ closed'
      /\ activeUses' = activeUses
  BY DEF Active, Accounting
<1>2. Blocked \subseteq Blocked' /\ (activeUses = 0 => Blocked' = Blocked)
  BY DEF Blocked, TypeOK, Waits
<1>3. TypeOK'
  BY DEF TypeOK, Waits
<1>4. Accounting'
  BY <1>1, <1>2 DEF Accounting, TypeOK
<1>5. NoLostWakeup'
  BY <1>1, <1>2 DEF NoLostWakeup
<1>6. DrainIsFinal'
  BY <1>1, ActiveEmpty DEF DrainIsFinal, Accounting
<1> QED
  BY <1>3, <1>4, <1>5, <1>6

\* A waiter that wakes tests its condition again under the mutex.
LEMMA WakeStep ==
    ASSUME TokenInv, NEW t \in Threads,
           Wake(t) \/ WaitTimesOut(t) \/ SpuriousWake(t)
    PROVE  TokenInv'
<1> USE NoneAssumption DEF TokenInv, Wake, WaitTimesOut, SpuriousWake
<1>1. Active' = Active /\ closed' = closed /\ activeUses' = activeUses
  BY DEF Active
<1>2. TypeOK'
  BY DEF TypeOK, Waits, Blocked
<1>3. closed
  BY DEF Accounting, Blocked
<1>4. notified' \subseteq Blocked' /\ Blocked' \subseteq Blocked
  BY DEF Accounting, Blocked, TypeOK
<1>5. Accounting'
  BY <1>1, <1>3, <1>4 DEF Accounting, TypeOK
<1>6. NoLostWakeup'
  BY <1>1, <1>3 DEF NoLostWakeup, Blocked, TypeOK
<1>7. DrainIsFinal'
  BY <1>1, ActiveEmpty DEF DrainIsFinal, Accounting
<1> QED
  BY <1>2, <1>5, <1>6, <1>7

\* Every step of the token preserves the inductive invariant.
LEMMA TokenStepInv == TokenInv /\ [Next]_vars => TokenInv'
<1> SUFFICES ASSUME TokenInv, [Next]_vars PROVE TokenInv'
  OBVIOUS
<1>1. CASE UNCHANGED vars
  BY <1>1 DEF TokenInv, vars, TypeOK, Accounting, NoLostWakeup, DrainIsFinal,
              Active, Blocked
<1>2. ASSUME NEW t \in Threads, NEW g \in Guards,
             \/ tryAcquireUse(t, g) \/ moveGuard(g, t)
             \/ publishIfStillAdmitted(t, g) \/ release(t, g)
      PROVE  TokenInv'
  BY <1>2, AcquireStep, MoveStep, PublishStep, ReleaseStep
<1>3. ASSUME NEW t \in Threads,
             \/ commitReturns(t) \/ beginRevoke(t) \/ destroyToken(t)
             \/ Wake(t) \/ WaitTimesOut(t) \/ SpuriousWake(t)
      PROVE  TokenInv'
  BY <1>3, CommitStep, RevokeStep, WakeStep
<1>4. ASSUME NEW t \in Threads, NEW k \in Threads,
             waitUntil(t, k) \/ waitUntilDrained(t, k) \/ isDrained(t, k)
      PROVE  TokenInv'
  BY <1>4, WaitStep
<1> QED
  BY <1>1, <1>2, <1>3, <1>4 DEF Next

\* Every reachable state satisfies the inductive invariant.
THEOREM TokenInvariant == Spec => []TokenInv
BY TokenInitInv, TokenStepInv, PTL DEF Spec

\* The type invariant; in particular activeUses never drops below zero.
THEOREM TokenTypeOK == Spec => []TypeOK
<1>1. TokenInv => TypeOK
  BY DEF TokenInv
<1> QED
  BY <1>1, TokenInvariant, PTL

\* publishIfStillAdmitted never runs a callback of a closed token.
THEOREM TokenNoPublicationAfterRevoke == Spec => []NoPublicationAfterRevoke
<1>1. TokenInv => NoPublicationAfterRevoke
  BY DEF TokenInv, Accounting, NoPublicationAfterRevoke
<1> QED
  BY <1>1, TokenInvariant, PTL

\* A reported drain is final.
THEOREM TokenDrainIsFinal == Spec => []DrainIsFinal
<1>1. TokenInv => DrainIsFinal
  BY DEF TokenInv
<1> QED
  BY <1>1, TokenInvariant, PTL

\* No waiter sleeps on a drained token.
THEOREM TokenNoLostWakeup == Spec => []NoLostWakeup
<1>1. TokenInv => NoLostWakeup
  BY DEF TokenInv
<1> QED
  BY <1>1, TokenInvariant, PTL

\* A new token is an open gate.
LEMMA RefineInit == Init => Gate!GateInit
BY DEF Init, Gate!GateInit, Active

\* Steps on guards: admission, publication and leaving are the gate's.
LEMMA RefineGuardStep ==
    ASSUME TokenInv, NEW t \in Threads, NEW g \in Guards,
           \/ tryAcquireUse(t, g) \/ moveGuard(g, t)
           \/ publishIfStillAdmitted(t, g) \/ release(t, g)
    PROVE  [Gate!GateNext]_(Gate!gateVars)
<1> USE NoneAssumption DEF TokenInv, CanLock
<1>1. CASE tryAcquireUse(t, g)
  <2>1. Active' = Active \cup {g} /\ g \notin Active
    BY <1>1, ActiveAdd DEF tryAcquireUse, TypeOK
  <2>2. Gate!Admit(g)
    BY <1>1, <2>1 DEF tryAcquireUse, admitsUse, Gate!Admit, Accounting
  <2> QED
    BY <2>2 DEF Gate!GateNext
<1>2. CASE moveGuard(g, t)
  <2>1. Active' = Active
    BY <1>2 DEF moveGuard, Active, TypeOK
  <2> QED
    BY <1>2, <2>1 DEF moveGuard, Gate!gateVars
<1>3. CASE publishIfStillAdmitted(t, g)
  <2>1. Active' = Active /\ g \in Active
    BY <1>3 DEF publishIfStillAdmitted, Active
  <2>2. Gate!StartPublication(g)
    BY <1>3, <2>1 DEF publishIfStillAdmitted, admitsPublication,
                      Gate!StartPublication, Accounting
  <2> QED
    BY <2>2 DEF Gate!GateNext
<1>4. CASE release(t, g)
  <2>1. Active' = Active \ {g} /\ g \in Active
    BY <1>4, ActiveRemove DEF release, withoutOwner, TypeOK
  <2>2. committing # g
    BY <1>4 DEF release, Accounting
  <2>3. Gate!Leave(g)
    BY <1>4, <2>1, <2>2 DEF release, Gate!Leave
  <2> QED
    BY <2>3 DEF Gate!GateNext
<1> QED
  BY <1>1, <1>2, <1>3, <1>4

\* Closing and draining: the phase of the gate moves forward only.
LEMMA RefineTokenStep ==
    ASSUME TokenInv, NEW t \in Threads, NEW k \in Threads,
           \/ commitReturns(t) \/ beginRevoke(t) \/ destroyToken(t)
           \/ Wake(t) \/ WaitTimesOut(t) \/ SpuriousWake(t)
           \/ waitUntil(t, k) \/ waitUntilDrained(t, k) \/ isDrained(t, k)
    PROVE  [Gate!GateNext]_(Gate!gateVars)
<1> USE NoneAssumption DEF TokenInv, CanLock
<1>0. (activeUses = 0 <=> Active = {}) /\ (drainSeen => closed)
  BY ActiveEmpty DEF Accounting
<1>1. CASE commitReturns(t)
  <2>1. Gate!EndPublication
    BY <1>1 DEF commitReturns, Gate!EndPublication, Active
  <2> QED
    BY <2>1 DEF Gate!GateNext
<1>2. CASE beginRevoke(t) \/ destroyToken(t)
  <2>1. Active' = Active /\ committing' = committing /\ committing = NoGuard
        /\ closed' /\ drainSeen' = drainSeen
    BY <1>2 DEF beginRevoke, destroyToken, Active, Accounting
  <2>2. CASE closed
    BY <2>1, <2>2 DEF Gate!gateVars
  <2>3. CASE ~closed
    <3>1. Gate!Close
      BY <1>0, <2>1, <2>3 DEF Gate!Close
    <3> QED
      BY <3>1 DEF Gate!GateNext
  <2> QED
    BY <2>2, <2>3
<1>3. CASE \/ Wake(t) \/ WaitTimesOut(t) \/ SpuriousWake(t)
           \/ waitUntil(t, k) \/ waitUntilDrained(t, k) \/ isDrained(t, k)
  <2>1. Active' = Active /\ committing' = committing /\ closed' = closed
    BY <1>3 DEF Wake, WaitTimesOut, SpuriousWake, waitUntil,
                waitUntilDrained, Wait, isDrained, Active
  <2>2. closed
    BY <1>3 DEF Wake, WaitTimesOut, SpuriousWake, waitUntil,
                waitUntilDrained, Wait, isDrained, Accounting, Blocked
  <2>3. drainSeen' = drainSeen \/ (drainSeen' /\ Active = {})
    BY <1>3, <1>0 DEF Wake, WaitTimesOut, SpuriousWake, waitUntil,
                waitUntilDrained, Wait, isDrained, TypeOK
  <2>4. CASE drainSeen' = drainSeen
    BY <2>1, <2>4 DEF Gate!gateVars
  <2>5. CASE ~drainSeen /\ drainSeen' /\ Active = {}
    <3>1. Gate!ReportDrained
      BY <2>1, <2>2, <2>5 DEF Gate!ReportDrained
    <3> QED
      BY <3>1 DEF Gate!GateNext
  <2> QED
    BY <2>3, <2>4, <2>5 DEF TypeOK
<1> QED
  BY <1>1, <1>2, <1>3

\* The token, with its mutex, counter and condition variable, implements the
\* gate: what a client relies on is what AdmissionGate says.
THEOREM TokenImplementsGate == Spec => ImplementsGate
<1>1. TokenInv /\ [Next]_vars => [Gate!GateNext]_(Gate!gateVars)
  <2> SUFFICES ASSUME TokenInv, [Next]_vars
               PROVE  [Gate!GateNext]_(Gate!gateVars)
    OBVIOUS
  <2>1. CASE UNCHANGED vars
    BY <2>1 DEF vars, Gate!gateVars, Active
  <2>2. CASE Next
    BY <2>2, RefineGuardStep, RefineTokenStep DEF Next
  <2> QED
    BY <2>1, <2>2
<1> QED
  BY <1>1, RefineInit, TokenInvariant, PTL
     DEF Spec, ImplementsGate, Gate!GateSpec

-----------------------------------------------------------------------------
\* The pipe's writer.
\*
\* Between the critical sections an operation is in one of four places:
\* queued, held by the writer's thread, taken out by a canceller, finished.
\* The rest of the invariant says what each place implies: for the
\* completion, for the cancellation request and for the end of the pipe.

Beginning == {"taken", "admitted", "writing", "returned"}

ShapeOK ==
    /\ accepted \subseteq Operations
    /\ queue \in Seq(accepted)
    /\ current \in accepted \cup {NoOperation}
    /\ cancellationRequested \subseteq accepted
    /\ writeStarted \subseteq accepted
    /\ finished \subseteq accepted
    /\ armed \subseteq accepted
    /\ removed \subseteq accepted
    /\ settled \subseteq accepted
    /\ closing \in BOOLEAN
    /\ result \in [Operations -> Results \cup {NoResult}]
    /\ calls \in [Operations -> Nat]
    /\ pendingCount \in Nat
    /\ client \in [step : {"idle", "submitted", "awaiting", "joining", "closed"},
                   op : accepted \cup {NoOperation}]
    /\ writer \in [step : Beginning \cup {"waiting", "exited", "finishing"},
                   op : accepted \cup {NoOperation},
                   result : Results \cup {NoResult}]
    /\ pipe \in Seq(Operations \X {"first", "last"})

PendingMatches ==
    /\ pendingCount = Len(queue) + (IF current = NoOperation THEN 0 ELSE 1)
    /\ pendingCount <= MaxPending

\* current is what the thread holds until it retires it.
WriterMatches ==
    /\ current = IF writer.step \in Beginning THEN writer.op ELSE NoOperation
    /\ writer.step \in Beginning \cup {"finishing"} => writer.op \in accepted
    /\ writer.step \in {"returned", "finishing"} => writer.result \in Results
    /\ writer.step = "writing" => writer.op \in writeStarted
    /\ writer.step = "exited" => closing /\ queue = <<>>

Held == IF writer.step \in Beginning \cup {"finishing"} THEN {writer.op} ELSE {}

Distinct(q) == \A i, j \in 1 .. Len(q) : q[i] = q[j] => i = j

\* An accepted operation is in one place, which is its only one.
EachIsSomewhere ==
    /\ Distinct(queue)
    /\ accepted = ToSet(queue) \cup Held \cup removed \cup finished
    /\ Held \cap ToSet(queue) = {}
    /\ removed \cap (ToSet(queue) \cup Held) = {}
    /\ finished \cap (ToSet(queue) \cup Held \cup removed) = {}

\* A completion is called when both have happened: finish and arm.
CompletionsMatch ==
    /\ \A o \in Operations : calls[o] = IF o \in finished \cap armed THEN 1 ELSE 0
    /\ \A o \in Operations : result[o] # NoResult <=> o \in finished
    /\ accepted \ armed = IF client.step = "submitted" THEN {client.op} ELSE {}
    /\ client.step = "awaiting" => client.op \in accepted

\* Who closes is heard by the thread, whatever it holds.
ClosingIsHeard ==
    /\ closing /\ current # NoOperation => current \in cancellationRequested
    /\ writer.step = "writing" /\ writer.op \in cancellationRequested => closing
    /\ client.step \in {"joining", "closed"} => closing
    /\ client.step = "closed" => queue = <<>> /\ Held = {}

SettledIsOver ==
    \A o \in settled :
        /\ o \notin ToSet(queue)
        /\ o \in Held => o \in cancellationRequested /\ writer.step # "writing"

\* A frame that was begun is being written, or nothing more will be.
CutIsLast ==
    pipe # <<>> /\ Last(pipe)[2] = "first" =>
        \/ writer.step = "writing" /\ Last(pipe)[1] = writer.op
        \/ ~peerOpen
        \/ closing /\ writer.step # "writing"

PipeInv ==
    /\ ShapeOK /\ PendingMatches /\ WriterMatches /\ EachIsSomewhere
    /\ CompletionsMatch /\ ClosingIsHeard /\ SettledIsOver
    /\ CutIsLast /\ FramesAreWhole

-----------------------------------------------------------------------------
\* The queue as a set of operations.

\* What submitWrite does to it.
LEMMA AppendedQueue ==
    ASSUME NEW S, NEW q \in Seq(S), NEW o, Distinct(q), o \notin ToSet(q)
    PROVE  /\ Append(q, o) \in Seq(S \cup {o})
           /\ Len(Append(q, o)) = Len(q) + 1
           /\ ToSet(Append(q, o)) = ToSet(q) \cup {o}
           /\ Distinct(Append(q, o))
<1> DEFINE n == Len(q)
           a == Append(q, o)
<1>1. q \in Seq(S \cup {o})
    BY SeqMonotonic
<1>2. /\ n \in Nat /\ a \in Seq(S \cup {o}) /\ Len(a) = n + 1
      /\ DOMAIN q = 1 .. n /\ DOMAIN a = 1 .. n + 1
      /\ \A i \in 1 .. n : a[i] = q[i]
      /\ a[n + 1] = o
    BY <1>1
<1>3. \A i \in 1 .. n : q[i] # o
    BY <1>2 DEF ToSet
<1>4. \A i, j \in 1 .. n : q[i] = q[j] => i = j
    BY DEF Distinct
<1> HIDE DEF n, a
<1>5. ToSet(a) = ToSet(q) \cup {o}
    BY <1>2 DEF ToSet
<1>6. Distinct(a)
    BY <1>2, <1>3, <1>4 DEF Distinct
<1> QED
    BY <1>2, <1>5, <1>6 DEF n, a

\* What the writer's thread does to it.
LEMMA TakenQueue ==
    ASSUME NEW S, NEW q \in Seq(S), q # <<>>, Distinct(q)
    PROVE  /\ Head(q) \in S /\ Tail(q) \in Seq(S)
           /\ Len(Tail(q)) = Len(q) - 1
           /\ ToSet(q) = ToSet(Tail(q)) \cup {Head(q)}
           /\ Head(q) \notin ToSet(Tail(q))
           /\ Distinct(Tail(q))
<1> DEFINE n == Len(q)
           t == Tail(q)
<1>1. /\ n \in Nat \ {0} /\ t \in Seq(S) /\ Len(t) = n - 1
      /\ DOMAIN q = 1 .. n /\ DOMAIN t = 1 .. n - 1
    BY EmptySeq, HeadTailProperties, LenProperties
<1>2. \A i \in 1 .. n - 1 : t[i] = q[i + 1]
    BY <1>1, HeadTailProperties
<1>3. Head(q) = q[1] /\ Head(q) \in S
    BY <1>1, HeadTailProperties
<1>4. \A i, j \in 1 .. n : q[i] = q[j] => i = j
    BY DEF Distinct
<1> HIDE DEF n, t
<1>5. \A i \in 2 .. n : q[i] = t[i - 1] /\ i - 1 \in 1 .. n - 1
    BY <1>1, <1>2
<1>6. ToSet(q) = ToSet(t) \cup {q[1]}
  <2>1. ASSUME NEW i \in 1 .. n
        PROVE  q[i] \in ToSet(t) \cup {q[1]}
      BY <1>1, <1>5, i = 1 \/ i \in 2 .. n DEF ToSet
  <2>2. ASSUME NEW i \in 1 .. n - 1
        PROVE  t[i] \in ToSet(q)
      BY <1>1, <1>2, i + 1 \in 1 .. n DEF ToSet
  <2>3. q[1] \in ToSet(q)
      BY <1>1 DEF ToSet
  <2> QED
      BY <1>1, <2>1, <2>2, <2>3 DEF ToSet
<1>7. q[1] \notin ToSet(t)
    BY <1>1, <1>2, <1>4 DEF ToSet
<1>8. Distinct(t)
    BY <1>1, <1>2, <1>4 DEF Distinct
<1> QED
    BY <1>1, <1>3, <1>6, <1>7, <1>8 DEF n, t

\* What a cancellation does to it.
LEMMA RemovedQueue ==
    ASSUME NEW S, NEW q \in Seq(S), NEW i \in DOMAIN q, Distinct(q)
    PROVE  /\ RemoveAt(q, i) \in Seq(S)
           /\ Len(RemoveAt(q, i)) = Len(q) - 1
           /\ ToSet(RemoveAt(q, i)) = ToSet(q) \ {q[i]}
           /\ Distinct(RemoveAt(q, i))
<1> DEFINE n == Len(q)
           before == SubSeq(q, 1, i - 1)
           after == SubSeq(q, i + 1, n)
           r == RemoveAt(q, i)
<1>1. n \in Nat /\ DOMAIN q = 1 .. n /\ i \in 1 .. n
    BY LenProperties
<1>2. /\ before \in Seq(S) /\ Len(before) = i - 1
      /\ \A j \in 1 .. i - 1 : before[j] = q[j]
  <2>1. \A j \in 1 .. i - 1 : q[j] \in S
      BY <1>1, ElementOfSeq
  <2> QED
      BY <1>1, <2>1, SubSeqProperties
<1>3. /\ after \in Seq(S) /\ Len(after) = n - i
      /\ \A j \in 1 .. n - i : after[j] = q[i + j]
  <2>1. \A j \in i + 1 .. n : q[j] \in S
      BY <1>1, ElementOfSeq
  <2> HIDE DEF n
  <2>2. /\ after \in Seq(S)
        /\ Len(after) = IF i + 1 <= n THEN n - (i + 1) + 1 ELSE 0
        /\ \A j \in 1 .. n - (i + 1) + 1 : after[j] = q[i + 1 + j - 1]
      BY <1>1, <2>1, SubSeqProperties
  <2> QED
      BY <1>1, <2>2
<1>4. r = before \o after
    BY DEF RemoveAt
<1> HIDE DEF n, before, after, r
<1>5. /\ r \in Seq(S) /\ Len(r) = n - 1
      /\ \A j \in 1 .. n - 1 : r[j] = IF j < i THEN q[j] ELSE q[j + 1]
  <2>1. /\ r \in Seq(S) /\ Len(r) = Len(before) + Len(after)
        /\ \A j \in 1 .. Len(before) + Len(after) :
             r[j] = IF j <= Len(before) THEN before[j] ELSE after[j - Len(before)]
      BY <1>2, <1>3, <1>4, ConcatProperties
  <2>2. Len(r) = n - 1 /\ Len(before) + Len(after) = n - 1
      BY <1>1, <1>2, <1>3, <2>1
  <2>3. ASSUME NEW j \in 1 .. n - 1
        PROVE  r[j] = IF j < i THEN q[j] ELSE q[j + 1]
    <3>1. r[j] = IF j <= i - 1 THEN before[j] ELSE after[j - (i - 1)]
        BY <1>2, <2>1, <2>2
    <3>2. CASE j < i
        BY <1>1, <1>2, <3>1, <3>2, j \in 1 .. i - 1
    <3>3. CASE ~(j < i)
      <4>1. j - (i - 1) \in 1 .. n - i /\ i + (j - (i - 1)) = j + 1
          BY <1>1, <3>3
      <4>2. after[j - (i - 1)] = q[j + 1]
          BY <1>3, <4>1
      <4> QED
          BY <1>1, <3>1, <3>3, <4>2
    <3> QED
        BY <3>2, <3>3
  <2> QED
      BY <2>1, <2>2, <2>3
<1>6. DOMAIN r = 1 .. n - 1
    BY <1>5, LenProperties
<1>7. \A j, k \in 1 .. n : q[j] = q[k] => j = k
    BY DEF Distinct, n
<1>8. ToSet(r) = ToSet(q) \ {q[i]}
  <2>1. ASSUME NEW j \in 1 .. n, j # i
        PROVE  q[j] \in ToSet(r)
    <3>1. CASE j < i
        BY <1>1, <1>5, <1>6, <3>1, j \in 1 .. n - 1 DEF ToSet
    <3>2. CASE j > i
      <4>1. j - 1 \in 1 .. n - 1 /\ ~(j - 1 < i) /\ (j - 1) + 1 = j
          BY <1>1, <3>2
      <4>2. r[j - 1] = q[j]
          BY <1>5, <4>1
      <4> QED
          BY <1>6, <4>1, <4>2 DEF ToSet
    <3> QED
        BY <1>1, <2>1, <3>1, <3>2
  <2>2. ASSUME NEW j \in 1 .. n - 1
        PROVE  r[j] \in ToSet(q) \ {q[i]}
    <3>1. PICK k \in 1 .. n : k # i /\ r[j] = q[k]
      <4>1. CASE j < i
          BY <1>1, <1>5, <4>1, j \in 1 .. n
      <4>2. CASE ~(j < i)
          BY <1>1, <1>5, <4>2, j + 1 \in 1 .. n, j + 1 # i
      <4> QED
          BY <4>1, <4>2
    <3> QED
        BY <1>1, <1>7, <3>1 DEF ToSet
  <2> QED
      BY <1>1, <1>6, <2>1, <2>2 DEF ToSet
<1>9. Distinct(r)
  <2> DEFINE from(j) == IF j < i THEN j ELSE j + 1
  <2>1. \A j \in 1 .. n - 1 : from(j) \in 1 .. n /\ r[j] = q[from(j)]
      BY <1>1, <1>5
  <2>2. \A j, k \in 1 .. n - 1 : from(j) = from(k) => j = k
      BY <1>1
  <2> HIDE DEF from
  <2>3. \A j, k \in 1 .. n - 1 : r[j] = r[k] => j = k
      BY <1>7, <2>1, <2>2
  <2> QED
      BY <1>5, <2>3 DEF Distinct
<1> QED
    BY <1>5, <1>8, <1>9 DEF n, r

-----------------------------------------------------------------------------
\* What a step that leaves their variables alone keeps of the invariant.

\* What another operation leaves of the parts of the invariant.
LEMMA UndisturbedParts ==
    ASSUME PipeInv
    PROVE  /\ UNCHANGED <<queue, current, pendingCount>> => PendingMatches'
           /\ UNCHANGED <<queue, current, closing, writer, writeStarted, accepted>>
                => WriterMatches'
           /\ UNCHANGED <<queue, accepted, removed, finished>> /\ Held' = Held
                => EachIsSomewhere'
           /\ UNCHANGED <<accepted, completions, finished, client>>
                => CompletionsMatch'
           /\ UNCHANGED <<queue, current, closing, cancellationRequested,
                          writer, client>> /\ Held' = Held
                => ClosingIsHeard'
           /\ (/\ UNCHANGED <<queue, cancellationRequested, settled>>
               /\ Held' \subseteq Held
               /\ writer'.step = "writing" => writer.step = "writing")
                => SettledIsOver'
           /\ UNCHANGED <<pipe, peerOpen, writer, closing>> => CutIsLast'
           /\ UNCHANGED pipe => FramesAreWhole'
<1> USE DEF PipeInv
<1>1. UNCHANGED <<queue, current, pendingCount>> => PendingMatches'
    BY DEF PendingMatches
<1>2. UNCHANGED <<queue, current, closing, writer, writeStarted, accepted>>
        => WriterMatches'
    BY DEF WriterMatches
<1>3. UNCHANGED <<queue, accepted, removed, finished>> /\ Held' = Held
        => EachIsSomewhere'
    BY DEF EachIsSomewhere
<1>4. UNCHANGED <<accepted, completions, finished, client>> => CompletionsMatch'
    BY DEF CompletionsMatch, completions
<1>5. UNCHANGED <<queue, current, closing, cancellationRequested, writer,
                  client>> /\ Held' = Held
        => ClosingIsHeard'
    BY DEF ClosingIsHeard
<1>6. (/\ UNCHANGED <<queue, cancellationRequested, settled>>
       /\ Held' \subseteq Held
       /\ writer'.step = "writing" => writer.step = "writing")
        => SettledIsOver'
    BY DEF SettledIsOver
<1>7. UNCHANGED <<pipe, peerOpen, writer, closing>> => CutIsLast'
    BY DEF CutIsLast
<1>8. UNCHANGED pipe => FramesAreWhole'
    BY DEF FramesAreWhole
<1> QED
    BY <1>1, <1>2, <1>3, <1>4, <1>5, <1>6, <1>7, <1>8

-----------------------------------------------------------------------------
\* The client's steps keep the invariant.

\* submitWrite and writeAll: the operation is queued, or refused.
LEMMA submitWriteKeeps ==
    ASSUME PipeInv, NEW o \in Operations, submitWrite(o)
    PROVE  PipeInv'
<1> USE DEF PipeInv, submitWrite
<1>1. o \notin ToSet(queue) /\ Held' = Held
    BY DEF EachIsSomewhere, Held
<1>2. /\ queue' \in Seq(accepted') /\ Len(queue') = Len(queue) + 1
      /\ ToSet(queue') = ToSet(queue) \cup {o} /\ Distinct(queue')
    BY <1>1, AppendedQueue DEF ShapeOK, EachIsSomewhere
<1>3. ShapeOK'
    BY <1>2 DEF ShapeOK, ops, world
<1>4. PendingMatches'
    BY <1>2, OperationsAssumption DEF ShapeOK, PendingMatches
<1>5. WriterMatches'
    BY DEF ShapeOK, WriterMatches, ops
<1>6. EachIsSomewhere'
  <2>1. o \notin Held \cup removed \cup finished
      BY DEF EachIsSomewhere
  <2> QED
      BY <1>1, <1>2, <2>1 DEF EachIsSomewhere, ops
<1>7. CompletionsMatch'
    BY <1>1 DEF ShapeOK, CompletionsMatch, EachIsSomewhere, Idle, ops
<1>8. ClosingIsHeard'
    BY DEF ClosingIsHeard, ops
<1>9. SettledIsOver'
    BY <1>1, <1>2 DEF ShapeOK, SettledIsOver, ops
<1>10. CutIsLast' /\ FramesAreWhole'
    BY UndisturbedParts DEF world
<1> QED
    BY <1>3, <1>4, <1>5, <1>6, <1>7, <1>8, <1>9, <1>10

\* submitInternal commits its bookkeeping and arms the completion.
LEMMA armKeeps ==
    ASSUME PipeInv, arm
    PROVE  PipeInv'
<1> USE DEF PipeInv, arm
<1>1. client.op \in accepted \ armed /\ Held' = Held
    BY DEF CompletionsMatch, Held
<1>2. ShapeOK'
  <2>1. calls' \in [Operations -> Nat] /\ armed' \subseteq accepted
    <3>1. calls[client.op] + 1 \in Nat
        BY <1>1 DEF ShapeOK
    <3> QED
        BY <1>1, <3>1 DEF ShapeOK
  <2> QED
      BY <2>1 DEF ShapeOK, Idle, ops, world
<1>3. CompletionsMatch'
    BY <1>1 DEF ShapeOK, CompletionsMatch, Idle, ops
<1>4. ClosingIsHeard'
    BY <1>1 DEF ClosingIsHeard, Idle, ops
<1>5. /\ PendingMatches' /\ WriterMatches' /\ EachIsSomewhere'
      /\ SettledIsOver' /\ CutIsLast' /\ FramesAreWhole'
    BY <1>1, UndisturbedParts DEF ops, world
<1> QED
    BY <1>2, <1>3, <1>4, <1>5

\* The caller takes the result of its write.
LEMMA writeAllReturnsKeeps ==
    ASSUME PipeInv, writeAllReturns
    PROVE  PipeInv'
<1> USE DEF PipeInv, writeAllReturns
<1>1. Held' = Held
    BY DEF Held
<1>2. ShapeOK'
    BY DEF ShapeOK, Idle, ops, completions, world
<1>3. CompletionsMatch'
    BY DEF CompletionsMatch, Idle, ops, completions
<1>4. ClosingIsHeard'
    BY <1>1 DEF ClosingIsHeard, Idle, ops
<1>5. /\ PendingMatches' /\ WriterMatches' /\ EachIsSomewhere'
      /\ SettledIsOver' /\ CutIsLast' /\ FramesAreWhole'
    BY <1>1, UndisturbedParts DEF ops, world
<1> QED
    BY <1>2, <1>3, <1>4, <1>5

\* The critical section of a cancellation, whoever runs it: what it keeps of
\* the parts that the client is not in.
LEMMA CancellationKeeps ==
    ASSUME PipeInv, NEW o \in accepted, cancelLocked(o),
           UNCHANGED <<current, closing, writeStarted, finished, accepted,
                       completions, writer, world>>
    PROVE  /\ queue' \in Seq(accepted') /\ pendingCount' \in Nat
           /\ {cancellationRequested', removed', settled'} \subseteq SUBSET accepted
           /\ queue = <<>> => queue' = <<>>
           /\ PendingMatches' /\ WriterMatches' /\ EachIsSomewhere'
           /\ SettledIsOver' /\ CutIsLast' /\ FramesAreWhole'
           /\ closing' /\ current' # NoOperation => current' \in cancellationRequested'
           /\ writer'.step = "writing" /\ writer'.op \in cancellationRequested' => closing'
<1> USE DEF PipeInv, cancelLocked
<1>0. Contains(queue, o) <=> o \in ToSet(queue)
  <2>1. DOMAIN queue = 1 .. Len(queue)
      BY LenProperties DEF ShapeOK
  <2> QED
      BY <2>1 DEF ToSet, Contains
<1>1. Held' = Held
    BY DEF Held
<1>2. CutIsLast' /\ FramesAreWhole'
    BY UndisturbedParts DEF world
<1>3. CASE Contains(queue, o)
  <2>1. PICK i \in DOMAIN queue : queue[i] = o /\ queue' = RemoveAt(queue, i)
      BY <1>3
  <2>2. UNCHANGED cancellationRequested /\ removed' = removed \cup {o}
        /\ pendingCount' = pendingCount - 1
      BY <1>3
  <2>3. /\ queue' \in Seq(accepted) /\ Len(queue') = Len(queue) - 1
        /\ ToSet(queue') = ToSet(queue) \ {o} /\ Distinct(queue')
      BY <2>1, RemovedQueue DEF ShapeOK, EachIsSomewhere
  <2>4. o \in ToSet(queue) /\ queue # <<>> /\ Len(queue) \in Nat \ {0}
      BY <2>1, EmptySeq DEF ToSet, ShapeOK
  <2>5. PendingMatches' /\ pendingCount' \in Nat
      BY <2>2, <2>3, <2>4, OperationsAssumption DEF ShapeOK, PendingMatches
  <2>6. EachIsSomewhere'
      BY <1>1, <2>2, <2>3, <2>4 DEF EachIsSomewhere
  <2>7. SettledIsOver'
    <3>1. settled' = settled \cup {o} /\ o \notin Held
        BY <2>4 DEF EachIsSomewhere
    <3> QED
        BY <1>1, <2>2, <2>3, <3>1 DEF SettledIsOver
  <2>8. WriterMatches'
      BY <2>4 DEF WriterMatches
  <2> QED
      BY <1>2, <2>2, <2>3, <2>4, <2>5, <2>6, <2>7, <2>8
      DEF ShapeOK, ClosingIsHeard
<1>4. CASE ~Contains(queue, o)
  <2>1. /\ UNCHANGED <<queue, pendingCount, removed>>
        /\ cancellationRequested' = cancellationRequested \cup {o}
        /\ current = o /\ o \notin writeStarted
      BY <1>0, <1>4 DEF ToSet, cancellable, notStarted
  <2>2. o \notin ToSet(queue)
      BY <1>0, <1>4
  <2>3. PendingMatches' /\ WriterMatches' /\ EachIsSomewhere'
      BY <1>1, <2>1, UndisturbedParts
  <2>4. writer.step = "writing" => writer.op # o
      BY <2>1 DEF WriterMatches
  <2>5. SettledIsOver'
    <3>1. settled' = settled \cup {o}
        OBVIOUS
    <3>2. o \in Held => writer.step # "writing"
        BY <2>4 DEF Held
    <3> QED
        BY <1>1, <2>1, <2>2, <3>1, <3>2 DEF SettledIsOver
  <2> QED
      BY <1>2, <2>1, <2>3, <2>4, <2>5 DEF ShapeOK, ClosingIsHeard
<1> QED
    BY <1>3, <1>4

\* cancelLocked: out of the queue, or marked for the writer.
LEMMA cancelKeeps ==
    ASSUME PipeInv, NEW o \in Operations, cancel(o)
    PROVE  PipeInv'
<1> USE DEF PipeInv, cancel
<1>1. /\ queue' \in Seq(accepted') /\ pendingCount' \in Nat
      /\ {cancellationRequested', removed', settled'} \subseteq SUBSET accepted
      /\ queue = <<>> => queue' = <<>>
      /\ PendingMatches' /\ WriterMatches' /\ EachIsSomewhere'
      /\ SettledIsOver' /\ CutIsLast' /\ FramesAreWhole'
      /\ closing' /\ current' # NoOperation => current' \in cancellationRequested'
      /\ writer'.step = "writing" /\ writer'.op \in cancellationRequested' => closing'
    BY CancellationKeeps
<1>2. ShapeOK'
    BY <1>1 DEF ShapeOK, completions, world
<1>3. CompletionsMatch'
    BY UndisturbedParts
<1>4. ClosingIsHeard'
    BY <1>1 DEF ClosingIsHeard, Held
<1> QED
    BY <1>1, <1>2, <1>3, <1>4

\* An operation that left the queue is settled by who removed it.
LEMMA finishRemovedKeeps ==
    ASSUME PipeInv, NEW o \in Operations, finishRemoved(o)
    PROVE  PipeInv'
<1> USE DEF PipeInv, finishRemoved
<1>1. Held' = Held /\ o \in accepted \ finished
    BY DEF Held, ShapeOK, EachIsSomewhere
<1>2. ShapeOK'
    BY <1>1 DEF ShapeOK, finishAll, mayCall, Results, world
<1>3. EachIsSomewhere'
    BY <1>1 DEF EachIsSomewhere, finishAll
<1>4. CompletionsMatch'
    BY <1>1 DEF ShapeOK, CompletionsMatch, finishAll, mayCall, NoResult
<1>5. /\ PendingMatches' /\ WriterMatches' /\ ClosingIsHeard'
      /\ SettledIsOver' /\ CutIsLast' /\ FramesAreWhole'
    BY <1>1, UndisturbedParts DEF world
<1> QED
    BY <1>2, <1>3, <1>4, <1>5

\* closePipeWriter up to the wait, by a client that closes or gives up.
LEMMA ClosingKeeps ==
    ASSUME PipeInv, beginClose, client.step # "submitted",
           UNCHANGED <<queue, current, pendingCount, writeStarted, finished,
                       accepted, completions, writer, removed, settled, world>>
    PROVE  PipeInv'
<1> USE DEF PipeInv, beginClose
<1>1. Held' = Held /\ cancellationRequested \subseteq cancellationRequested'
    BY DEF Held
<1>2. ShapeOK'
    BY DEF ShapeOK, interrupted, completions, world
<1>3. WriterMatches'
    BY DEF WriterMatches
<1>4. CompletionsMatch'
  <2>1. client' = [client EXCEPT !.step = "joining"] /\ client'.step = "joining"
      BY DEF ShapeOK
  <2> QED
      BY <2>1 DEF CompletionsMatch, completions
<1>5. ClosingIsHeard'
    BY DEF ShapeOK, ClosingIsHeard, interrupted
<1>6. SettledIsOver'
    BY <1>1 DEF SettledIsOver
<1>7. CutIsLast'
    BY DEF CutIsLast, world
<1>8. PendingMatches' /\ EachIsSomewhere' /\ FramesAreWhole'
    BY <1>1, UndisturbedParts DEF world
<1> QED
    BY <1>2, <1>3, <1>4, <1>5, <1>6, <1>7, <1>8

\* The deadline passes while the write is queued or running.
LEMMA writeAllTimesOutKeeps ==
    ASSUME PipeInv, writeAllTimesOut
    PROVE  PipeInv'
<1> USE DEF PipeInv, writeAllTimesOut
<1>1. client.op \in accepted /\ client.step = "awaiting"
    BY DEF CompletionsMatch
<1>2. CASE cancellable(client.op)
  <2>1. /\ cancelLocked(client.op) /\ client' = Idle
        /\ UNCHANGED <<current, closing, writeStarted, finished, accepted,
                       completions, writer, world>>
      BY <1>2
  <2>2. /\ queue' \in Seq(accepted') /\ pendingCount' \in Nat
        /\ {cancellationRequested', removed', settled'} \subseteq SUBSET accepted
        /\ queue = <<>> => queue' = <<>>
        /\ PendingMatches' /\ WriterMatches' /\ EachIsSomewhere'
        /\ SettledIsOver' /\ CutIsLast' /\ FramesAreWhole'
        /\ closing' /\ current' # NoOperation
             => current' \in cancellationRequested'
        /\ writer'.step = "writing" /\ writer'.op \in cancellationRequested'
             => closing'
      BY <1>1, <2>1, CancellationKeeps
  <2>3. ShapeOK'
      BY <2>1, <2>2 DEF ShapeOK, Idle, completions, world
  <2>4. CompletionsMatch'
      BY <1>1, <2>1 DEF CompletionsMatch, Idle, completions
  <2>5. ClosingIsHeard'
      BY <2>1, <2>2 DEF ClosingIsHeard, Idle
  <2> QED
      BY <2>2, <2>3, <2>4, <2>5
<1>3. CASE ~cancellable(client.op)
    BY <1>1, <1>3, ClosingKeeps
<1> QED
    BY <1>2, <1>3

\* close(): nothing is accepted any more and all is cancelled.
LEMMA closeKeeps ==
    ASSUME PipeInv, close
    PROVE  PipeInv'
BY ClosingKeeps DEF close, Idle

\* close() returns, once the writer has gone.
LEMMA closeReturnsKeeps ==
    ASSUME PipeInv, closeReturns
    PROVE  PipeInv'
<1> USE DEF PipeInv, closeReturns
<1>1. Held = {} /\ Held' = Held /\ queue = <<>> /\ ToSet(queue) = {}
    BY EmptySeq DEF Held, Beginning, joined, WriterMatches, ToSet
<1>2. ShapeOK'
    BY DEF ShapeOK, ops, completions, world
<1>3. CompletionsMatch'
    BY DEF CompletionsMatch, ops, completions
<1>4. ClosingIsHeard'
    BY <1>1 DEF ClosingIsHeard, ops
<1>5. SettledIsOver'
    BY <1>1 DEF SettledIsOver, ops
<1>6. /\ PendingMatches' /\ WriterMatches' /\ EachIsSomewhere'
      /\ CutIsLast' /\ FramesAreWhole'
    BY <1>1, UndisturbedParts DEF ops, world
<1> QED
    BY <1>2, <1>3, <1>4, <1>5, <1>6

-----------------------------------------------------------------------------
\* The steps of the writer's thread keep it.

\* The writer takes the head of the queue.
LEMMA takeKeeps ==
    ASSUME PipeInv, take
    PROVE  PipeInv'
<1> USE DEF PipeInv, take
<1> DEFINE o == Head(queue)
           q == Tail(queue)
<1>1. /\ o \in accepted /\ q \in Seq(accepted) /\ Len(q) = Len(queue) - 1
      /\ ToSet(queue) = ToSet(q) \cup {o} /\ o \notin ToSet(q) /\ Distinct(q)
      /\ Len(queue) \in Nat \ {0}
    BY TakenQueue, EmptySeq DEF ShapeOK, EachIsSomewhere
<1>2. /\ queue' = q /\ current' = o
      /\ writer' = [step |-> "taken", op |-> o, result |-> NoResult]
      /\ cancellationRequested' =
           cancellationRequested \cup (IF closing THEN {o} ELSE {})
    OBVIOUS
<1> HIDE DEF o, q
<1>3. Held = {} /\ Held' = {o} /\ current = NoOperation /\ o # NoOperation
    BY <1>1, <1>2, OperationsAssumption
    DEF Held, Beginning, ShapeOK, WriterMatches
<1>4. ShapeOK'
    BY <1>1, <1>2 DEF ShapeOK, Beginning, completions, world
<1>5. PendingMatches'
    BY <1>1, <1>2, <1>3 DEF PendingMatches
<1>6. WriterMatches'
    BY <1>1, <1>2 DEF WriterMatches, Beginning
<1>7. EachIsSomewhere'
    BY <1>1, <1>2, <1>3 DEF EachIsSomewhere
<1>8. CompletionsMatch'
    BY UndisturbedParts
<1>9. ClosingIsHeard'
  <2>1. client.step # "closed"
      BY DEF ClosingIsHeard
  <2> QED
      BY <1>2, <2>1 DEF ClosingIsHeard
<1>10. SettledIsOver'
    BY <1>1, <1>2, <1>3 DEF SettledIsOver
<1>11. CutIsLast' /\ FramesAreWhole'
    BY <1>2, UndisturbedParts DEF CutIsLast, world
<1> QED
    BY <1>4, <1>5, <1>6, <1>7, <1>8, <1>9, <1>10, <1>11

\* The writer ends.
LEMMA exitKeeps ==
    ASSUME PipeInv, exit
    PROVE  PipeInv'
<1> USE DEF PipeInv, exit
<1>1. writer' = [writer EXCEPT !.step = "exited"] /\ writer'.step = "exited"
    BY DEF ShapeOK
<1>2. Held = {} /\ Held' = {}
    BY <1>1 DEF Held, Beginning
<1>3. ShapeOK'
    BY DEF ShapeOK, ops, completions, world
<1>4. WriterMatches'
    BY <1>1 DEF WriterMatches, Beginning, ops
<1>5. ClosingIsHeard'
    BY <1>1, <1>2 DEF ClosingIsHeard, ops
<1>6. CutIsLast'
    BY <1>1 DEF CutIsLast, world
<1>7. /\ PendingMatches' /\ EachIsSomewhere' /\ CompletionsMatch'
      /\ SettledIsOver' /\ FramesAreWhole'
    BY <1>1, <1>2, UndisturbedParts DEF ops, world
<1> QED
    BY <1>3, <1>4, <1>5, <1>6, <1>7

\* The thread goes from one step of writeOperation to another.
LEMMA WriterMoves ==
    ASSUME PipeInv, NEW s \in Beginning, NEW r \in Results \cup {NoResult},
           writer.step \in Beginning,
           writer' = [writer EXCEPT !.step = s, !.result = r],
           s = "returned" => r \in Results,
           s = "writing" => /\ writer.op \in writeStarted'
                            /\ \/ writer.step = "writing"
                               \/ writer.op \notin cancellationRequested,
           writeStarted' \in {writeStarted, writeStarted \cup {writer.op}},
           UNCHANGED <<queue, current, pendingCount, closing,
                       cancellationRequested, finished, accepted, completions,
                       client, removed, settled>>
    PROVE  /\ writer' \in [step : Beginning, op : accepted,
                           result : Results \cup {NoResult}]
           /\ writer'.step = s /\ writer'.op = writer.op
           /\ writeStarted' \subseteq accepted
           /\ PendingMatches' /\ WriterMatches' /\ EachIsSomewhere'
           /\ CompletionsMatch' /\ ClosingIsHeard' /\ SettledIsOver'
<1> USE DEF PipeInv
<1>1. /\ writer' \in [step : Beginning, op : accepted,
                      result : Results \cup {NoResult}]
      /\ writer'.step = s /\ writer'.op = writer.op /\ writer'.result = r
    BY DEF ShapeOK, WriterMatches
<1>2. Held = {writer.op} /\ Held' = Held
    BY <1>1 DEF Held
<1>3. WriterMatches'
    BY <1>1 DEF WriterMatches, Beginning
<1>4. ClosingIsHeard'
    BY <1>1, <1>2 DEF ClosingIsHeard
<1>5. SettledIsOver'
    BY <1>1, <1>2 DEF SettledIsOver
<1>6. PendingMatches' /\ EachIsSomewhere' /\ CompletionsMatch'
    BY <1>2, UndisturbedParts
<1> QED
    BY <1>1, <1>3, <1>4, <1>5, <1>6 DEF ShapeOK, WriterMatches

\* The record of the thread after a step that leaves its result alone.
LEMMA StepOnly ==
    ASSUME PipeInv, NEW s
    PROVE  [writer EXCEPT !.step = s]
             = [writer EXCEPT !.step = s, !.result = writer.result]
BY DEF PipeInv, ShapeOK

\* The last look at the cancellation before the first byte.
LEMMA publicationGateKeeps ==
    ASSUME PipeInv, publicationGate
    PROVE  PipeInv'
<1> USE DEF PipeInv, publicationGate
<1>1. PICK s \in {"returned", "admitted"}, r \in Results \cup {NoResult} :
        /\ writer' = [writer EXCEPT !.step = s, !.result = r]
        /\ s = "returned" => r \in Results
    BY StepOnly DEF Returns, Results, ShapeOK
<1>2. /\ writer' \in [step : Beginning, op : accepted,
                      result : Results \cup {NoResult}]
      /\ writer'.step = s
      /\ PendingMatches' /\ WriterMatches' /\ EachIsSomewhere'
      /\ CompletionsMatch' /\ ClosingIsHeard' /\ SettledIsOver'
    BY <1>1, WriterMoves DEF Beginning, ops, completions
<1>3. ShapeOK'
    BY <1>2 DEF ShapeOK, ops, completions, world
<1>4. CutIsLast' /\ FramesAreWhole'
    BY <1>2, UndisturbedParts DEF CutIsLast, world
<1> QED
    BY <1>2, <1>3, <1>4

\* WriteFile is about to be called.
LEMMA startWriteKeeps ==
    ASSUME PipeInv, startWrite
    PROVE  PipeInv'
<1> USE DEF PipeInv, startWrite
<1>1. PICK s \in {"returned", "writing"}, r \in Results \cup {NoResult} :
        /\ writer' = [writer EXCEPT !.step = s, !.result = r]
        /\ s = "returned" => r \in Results
        /\ s = "writing" => /\ writer.op \in writeStarted'
                            /\ writer.op \notin cancellationRequested
    BY StepOnly DEF Returns, Results, ShapeOK, mayStart
<1>2. writer.step \in Beginning /\ s \in Beginning
      /\ writeStarted' \in {writeStarted, writeStarted \cup {writer.op}}
    BY DEF Beginning
<1>3. /\ writer' \in [step : Beginning, op : accepted,
                      result : Results \cup {NoResult}]
      /\ writer'.step = s /\ writeStarted' \subseteq accepted
      /\ PendingMatches' /\ WriterMatches' /\ EachIsSomewhere'
      /\ CompletionsMatch' /\ ClosingIsHeard' /\ SettledIsOver'
    BY <1>1, <1>2, WriterMoves DEF completions
<1>4. ShapeOK'
    BY <1>3 DEF ShapeOK, completions, world
<1>5. CutIsLast' /\ FramesAreWhole'
  <2>1. s = "writing" => ~closing
    <3>1. writer.op = current /\ current # NoOperation
        BY <1>2, OperationsAssumption DEF ShapeOK, WriterMatches, Beginning
    <3> QED
        BY <1>1, <3>1 DEF ClosingIsHeard
  <2>2. CutIsLast'
      BY <1>3, <2>1 DEF CutIsLast, world
  <2> QED
      BY <2>2, UndisturbedParts DEF world
<1> QED
    BY <1>3, <1>4, <1>5

\* One piece of a frame goes into the pipe.
LEMMA writeFileKeeps ==
    ASSUME PipeInv, writeFile
    PROVE  PipeInv'
<1> USE DEF PipeInv, writeFile
<1> DEFINE last == pipe # <<>> /\ Last(pipe) = <<writer.op, "first">>
           piece == <<writer.op, IF last THEN "last" ELSE "first">>
<1>1. /\ writer.op \in Operations /\ piece \in Operations \X {"first", "last"}
      /\ piece[1] = writer.op /\ piece[2] = (IF last THEN "last" ELSE "first")
    BY DEF ShapeOK, WriterMatches
<1>2. PICK s \in {"returned", "writing"}, r \in Results \cup {NoResult} :
        /\ writer' = [writer EXCEPT !.step = s, !.result = r]
        /\ s = "returned" => r \in Results
        /\ s = "returned" <=> last
  <2>1. CASE last
      BY <2>1 DEF Returns, Results
  <2>2. CASE ~last
    <3>1. writer' = [writer EXCEPT !.step = "writing", !.result = writer.result]
        BY <2>2 DEF ShapeOK
    <3> QED
        BY <2>2, <3>1 DEF ShapeOK
  <2> QED
      BY <2>1, <2>2
<1>3. pipe' = Append(pipe, piece)
    OBVIOUS
<1> HIDE DEF piece
<1>4. /\ writer' \in [step : Beginning, op : accepted,
                      result : Results \cup {NoResult}]
      /\ writer'.step = s /\ writer'.op = writer.op
      /\ PendingMatches' /\ WriterMatches' /\ EachIsSomewhere'
      /\ CompletionsMatch' /\ ClosingIsHeard' /\ SettledIsOver'
  <2>1. writer.step \in Beginning /\ s \in Beginning /\ writer.op \in writeStarted
      BY DEF Beginning, WriterMatches
  <2> QED
      BY <1>2, <2>1, WriterMoves DEF ops, completions
<1> DEFINE n == Len(pipe)
<1>5. /\ pipe' \in Seq(Operations \X {"first", "last"})
      /\ n \in Nat /\ Len(pipe') = n + 1 /\ pipe'[n + 1] = piece
      /\ \A i \in 1 .. n : pipe'[i] = pipe[i]
      /\ pipe = <<>> <=> n = 0
      /\ pipe' # <<>> /\ Last(pipe') = piece /\ Last(pipe) = pipe[n]
    BY <1>1, <1>3, EmptySeq DEF ShapeOK, Last
<1>6. ShapeOK'
    BY <1>4, <1>5 DEF ShapeOK, ops, completions
<1>7. CutIsLast'
    BY <1>1, <1>2, <1>4, <1>5 DEF CutIsLast
<1>8. n # 0 /\ pipe[n][2] = "first" => last
  <2>1. n # 0 => pipe[n] \in Operations \X {"first", "last"}
      BY <1>5, ElementOfSeq DEF ShapeOK
  <2> QED
      BY <1>5, <2>1 DEF CutIsLast
<1> HIDE DEF n
<1>9. FramesAreWhole'
  <2>1. SUFFICES ASSUME NEW i \in 1 .. n, pipe'[i][2] = "first"
                 PROVE  pipe'[i + 1] = <<pipe'[i][1], "last">>
      BY <1>5 DEF FramesAreWhole
  <2>2. CASE i = n
    <3>1. last /\ pipe[n] = <<writer.op, "first">>
        BY <1>5, <1>8, <2>1, <2>2
    <3>2. piece = <<writer.op, "last">>
        BY <3>1 DEF piece
    <3> QED
        BY <1>5, <2>2, <3>1, <3>2
  <2>3. CASE i # n
      BY <1>5, <2>1, <2>3 DEF FramesAreWhole, n
  <2> QED
      BY <2>2, <2>3
<1> QED
    BY <1>4, <1>6, <1>7, <1>9

\* The write is stopped half way.
LEMMA abortWriteKeeps ==
    ASSUME PipeInv, abortWrite
    PROVE  PipeInv'
<1> USE DEF PipeInv, abortWrite
<1>1. PICK r \in Results :
        /\ writer' = [writer EXCEPT !.step = "returned", !.result = r]
        /\ writer.op \in cancellationRequested \/ ~peerOpen
    BY DEF Returns, Results
<1>2. /\ writer' \in [step : Beginning, op : accepted,
                      result : Results \cup {NoResult}]
      /\ writer'.step = "returned"
      /\ PendingMatches' /\ WriterMatches' /\ EachIsSomewhere'
      /\ CompletionsMatch' /\ ClosingIsHeard' /\ SettledIsOver'
    BY <1>1, WriterMoves DEF Beginning, ops, completions
<1>3. ShapeOK'
    BY <1>2 DEF ShapeOK, ops, completions, world
<1>4. CutIsLast' /\ FramesAreWhole'
  <2>1. closing \/ ~peerOpen
      BY <1>1 DEF ClosingIsHeard
  <2>2. CutIsLast'
      BY <1>2, <2>1 DEF CutIsLast, world
  <2> QED
      BY <2>2, UndisturbedParts DEF world
<1> QED
    BY <1>2, <1>3, <1>4

\* The writer lets go of the operation it wrote.
LEMMA retireCurrentKeeps ==
    ASSUME PipeInv, retireCurrent
    PROVE  PipeInv'
<1> USE DEF PipeInv, retireCurrent
<1>1. /\ writer' = [writer EXCEPT !.step = "finishing"]
      /\ writer'.step = "finishing" /\ writer'.op = writer.op
      /\ writer'.result = writer.result /\ writer.op \in accepted
    BY DEF ShapeOK, WriterMatches, Beginning
<1>2. Held = {writer.op} /\ Held' = Held
    BY <1>1 DEF Held, Beginning
<1>3. current # NoOperation
    BY <1>1, OperationsAssumption DEF ShapeOK, WriterMatches, Beginning
<1>4. pendingCount' = Len(queue) /\ pendingCount' \in Nat /\ pendingCount' <= MaxPending
  <2>1. Len(queue) \in Nat
      BY LenProperties DEF ShapeOK
  <2> QED
      BY <1>3, <2>1, OperationsAssumption DEF PendingMatches, onePendingLess
<1>5. ShapeOK'
    BY <1>1, <1>4 DEF ShapeOK, ops, completions, world
<1>6. PendingMatches'
    BY <1>4 DEF PendingMatches
<1>7. WriterMatches'
    BY <1>1 DEF WriterMatches, Beginning, ops
<1>8. ClosingIsHeard'
    BY <1>1, <1>2 DEF ClosingIsHeard, ops
<1>9. CutIsLast'
    BY <1>1 DEF CutIsLast, world
<1>10. EachIsSomewhere' /\ CompletionsMatch' /\ SettledIsOver' /\ FramesAreWhole'
    BY <1>1, <1>2, UndisturbedParts DEF ops, world
<1> QED
    BY <1>5, <1>6, <1>7, <1>8, <1>9, <1>10

\* The writer settles the operation.
LEMMA finishKeeps ==
    ASSUME PipeInv, finish
    PROVE  PipeInv'
<1> USE DEF PipeInv, finish
<1>1. /\ writer.op \in accepted \ finished /\ writer.result \in Results
      /\ current = NoOperation
    BY DEF WriterMatches, EachIsSomewhere, Held, Beginning
<1>2. Held = {writer.op} /\ Held' = {}
    BY DEF Held, Beginning, Waiting
<1>3. ShapeOK'
    BY <1>1 DEF ShapeOK, finishAll, mayCall, Waiting, world
<1>4. WriterMatches'
    BY <1>1 DEF WriterMatches, Waiting, Beginning
<1>5. EachIsSomewhere'
    BY <1>1, <1>2 DEF EachIsSomewhere, finishAll
<1>6. CompletionsMatch'
    BY <1>1 DEF ShapeOK, CompletionsMatch, finishAll, mayCall, Results, NoResult
<1>7. ClosingIsHeard'
    BY <1>1, <1>2 DEF ClosingIsHeard, Waiting
<1>8. CutIsLast'
    BY DEF CutIsLast, Waiting, world
<1>9. PendingMatches' /\ SettledIsOver' /\ FramesAreWhole'
    BY <1>2, UndisturbedParts DEF Waiting, world
<1> QED
    BY <1>3, <1>4, <1>5, <1>6, <1>7, <1>8, <1>9

\* A write that failed settles its operation and closes the pipe.
LEMMA finishThenCloseKeeps ==
    ASSUME PipeInv, finishThenClose
    PROVE  PipeInv'
<1> USE DEF PipeInv, finishThenClose
<1> DEFINE all == {writer.op} \cup selfCancelled
<1>1. /\ Held = {writer.op} /\ Held' = {} /\ current = NoOperation
      /\ writer.op \in accepted \ finished /\ writer.result \in Results
    BY DEF WriterMatches, EachIsSomewhere, Held, Beginning, Waiting
<1>2. all = Held \cup ToSet(queue) /\ all \subseteq accepted \ finished
  <2>1. ToSet(queue) \subseteq accepted
      BY DEF EachIsSomewhere
  <2> QED
      BY <1>1, <2>1 DEF EachIsSomewhere, selfCancelled
<1>3. /\ finished' = finished \cup all
      /\ result' = [o \in Operations |->
                      CASE o \notin all \ finished -> result[o]
                        [] o = writer.op -> writer.result
                        [] OTHER -> "Cancelled"]
      /\ calls' = [o \in Operations |->
                     IF o \in all \ finished /\ o \in armed THEN calls[o] + 1
                                                            ELSE calls[o]]
    BY DEF mayCall
<1> HIDE DEF all
<1>4. /\ queue' = <<>> /\ queue' \in Seq(accepted') /\ Len(queue') = 0
      /\ ToSet(queue') = {} /\ Distinct(queue')
    BY EmptySeq DEF ToSet, Distinct
<1>5. pendingCount' = 0 /\ 0 <= MaxPending
  <2>1. Len(queue) \in Nat /\ pendingCount = Len(queue)
      BY <1>1, LenProperties DEF ShapeOK, PendingMatches
  <2> QED
      BY <2>1, OperationsAssumption
<1>6. ShapeOK'
  <2>1. calls' \in [Operations -> Nat]
      BY <1>3 DEF ShapeOK
  <2>2. result' \in [Operations -> Results \cup {NoResult}]
    <3>1. \A o \in Operations : result'[o] \in Results \cup {NoResult}
        BY <1>1, <1>3 DEF ShapeOK, Results
    <3> QED
        BY <1>3, <3>1
  <2> QED
      BY <1>2, <1>3, <1>4, <1>5, <2>1, <2>2 DEF ShapeOK, Waiting, world
<1>7. PendingMatches'
    BY <1>1, <1>4, <1>5 DEF PendingMatches
<1>8. WriterMatches'
    BY <1>1 DEF WriterMatches, Waiting, Beginning
<1>9. EachIsSomewhere'
    BY <1>1, <1>2, <1>3, <1>4 DEF EachIsSomewhere
<1>10. CompletionsMatch'
  <2>1. \A o \in Operations :
          calls'[o] = IF o \in finished' \cap armed' THEN 1 ELSE 0
      BY <1>2, <1>3 DEF ShapeOK, CompletionsMatch
  <2>2. \A o \in Operations : result'[o] # NoResult <=> o \in finished'
      BY <1>1, <1>2, <1>3 DEF ShapeOK, CompletionsMatch, Results, NoResult
  <2> QED
      BY <2>1, <2>2 DEF CompletionsMatch, Idle
<1>11. ClosingIsHeard'
    BY <1>1, <1>4 DEF ClosingIsHeard, Waiting
<1>12. SettledIsOver'
    BY <1>1, <1>4 DEF SettledIsOver
<1>13. CutIsLast' /\ FramesAreWhole'
    BY UndisturbedParts DEF CutIsLast, Waiting, world
<1> QED
    BY <1>6, <1>7, <1>8, <1>9, <1>10, <1>11, <1>12, <1>13

-----------------------------------------------------------------------------
\* The world's steps, and the invariant of the specification.

\* The authority behind the publication gates is revoked.
LEMMA revokeKeeps ==
    ASSUME PipeInv, revoke
    PROVE  PipeInv'
<1>1. Held' = Held /\ UNCHANGED <<ops, completions>>
    BY DEF revoke, Held
<1>2. ShapeOK'
    BY DEF PipeInv, revoke, ShapeOK, ops, completions
<1> QED
    BY <1>1, <1>2, UndisturbedParts DEF PipeInv, revoke, ops

\* The other side closes the pipe.
LEMMA peerClosesKeeps ==
    ASSUME PipeInv, peerCloses
    PROVE  PipeInv'
<1>1. Held' = Held /\ UNCHANGED <<ops, completions>>
    BY DEF peerCloses, Held
<1>2. ShapeOK'
    BY DEF PipeInv, peerCloses, ShapeOK, ops, completions
<1>3. CutIsLast'
    BY DEF peerCloses, CutIsLast
<1> QED
    BY <1>1, <1>2, <1>3, UndisturbedParts DEF PipeInv, peerCloses, ops

\* Nothing changes.
LEMMA StutteringKeeps ==
    ASSUME PipeInv, UNCHANGED pipeVars
    PROVE  PipeInv'
<1>1. Held' = Held
    BY DEF pipeVars, Held
<1>2. ShapeOK'
    BY DEF PipeInv, pipeVars, ShapeOK, ops, completions, world
<1> QED
    BY <1>1, <1>2, UndisturbedParts DEF PipeInv, pipeVars, ops, world

\* The invariant holds when the pipe is opened.
LEMMA InitiallyWaiting ==
    PipeInit => PipeInv
<1> SUFFICES ASSUME PipeInit
             PROVE  PipeInv
    OBVIOUS
<1> USE DEF PipeInit
<1>1. <<>> \in Seq(accepted) /\ Len(<<>>) = 0 /\ ToSet(<<>>) = {} /\ Held = {}
    BY EmptySeq DEF ToSet, Held, Beginning, Waiting
<1>2. ShapeOK
    BY <1>1, EmptySeq DEF ShapeOK, Idle, Waiting, NoResult
<1>3. PendingMatches /\ WriterMatches
    BY <1>1, OperationsAssumption
    DEF PendingMatches, WriterMatches, Waiting, Beginning
<1>4. EachIsSomewhere
    BY <1>1 DEF EachIsSomewhere, Distinct
<1>5. CompletionsMatch
    BY DEF CompletionsMatch, Idle
<1>6. ClosingIsHeard
    BY DEF ClosingIsHeard, Idle
<1>7. SettledIsOver /\ CutIsLast /\ FramesAreWhole
    BY <1>1 DEF SettledIsOver, CutIsLast, FramesAreWhole
<1> QED
    BY <1>2, <1>3, <1>4, <1>5, <1>6, <1>7 DEF PipeInv

\* The inductive invariant: where each operation is, and what follows from it
\* for its completion, its cancellation and its frame.
THEOREM PipeInvariant == PipeSpec => []PipeInv
<1>1. PipeInit => PipeInv
    BY InitiallyWaiting
<1>2. PipeInv /\ [PipeNext]_pipeVars => PipeInv'
  <2> SUFFICES ASSUME PipeInv, [PipeNext]_pipeVars
               PROVE  PipeInv'
      OBVIOUS
  <2>1. ASSUME NEW o \in Operations, submitWrite(o) \/ cancel(o) \/ finishRemoved(o)
        PROVE  PipeInv'
      BY <2>1, submitWriteKeeps, cancelKeeps, finishRemovedKeeps
  <2>2. CASE arm \/ writeAllReturns \/ writeAllTimesOut \/ close \/ closeReturns
      BY <2>2, armKeeps, writeAllReturnsKeeps, writeAllTimesOutKeeps,
         closeKeeps, closeReturnsKeeps
  <2>3. CASE WriterStep
      BY <2>3, takeKeeps, exitKeeps, publicationGateKeeps, startWriteKeeps,
         abortWriteKeeps, retireCurrentKeeps, finishKeeps,
         finishThenCloseKeeps DEF WriterStep
  <2>4. CASE writeFile
      BY <2>4, writeFileKeeps
  <2>5. CASE revoke \/ peerCloses
      BY <2>5, revokeKeeps, peerClosesKeeps
  <2>6. CASE UNCHANGED pipeVars
      BY <2>6, StutteringKeeps
  <2> QED
      BY <2>1, <2>2, <2>3, <2>4, <2>5, <2>6 DEF PipeNext
<1> QED
    BY <1>1, <1>2, PTL DEF PipeSpec

-----------------------------------------------------------------------------

\* Whoever ends a write, it is counted, completed once and written whole or not
\* at all, and a close leaves none behind, for any number of operations.
THEOREM PipeAccountsForWrites == PipeSpec => []WritesAreAccountedFor
<1>1. PipeInv => WritesAreAccountedFor
  <2> SUFFICES ASSUME PipeInv
               PROVE  WritesAreAccountedFor
      OBVIOUS
  <2> USE DEF PipeInv
  <2>1. PendingIsCounted
      BY DEF PendingIsCounted, ShapeOK, PendingMatches
  <2>2. CompletedOnce
      BY DEF CompletedOnce, CompletionsMatch
  <2>3. CloseIsComplete
    <3> SUFFICES ASSUME client.step = "closed", NEW o \in accepted, o \notin removed
                 PROVE  calls[o] = 1
        BY DEF CloseIsComplete
    <3>1. ToSet(queue) = {} /\ Held = {}
        BY EmptySeq DEF ClosingIsHeard, ToSet
    <3>2. o \in finished \cap armed
        BY <3>1 DEF EachIsSomewhere, CompletionsMatch
    <3> QED
        BY <3>2 DEF ShapeOK, CompletionsMatch
  <2> QED
      BY <2>1, <2>2, <2>3 DEF WritesAreAccountedFor
<1> QED
    BY <1>1, PipeInvariant, PTL

\* Of an operation reported as cancelled or timed out no byte follows the
\* report, whichever thread was about to write it.
THEOREM PipeKeepsSettled == PipeSpec => SettledIsFinal
<1>1. PipeInv /\ [PipeNext]_pipeVars
        => [\A i \in Len(pipe) + 1 .. Len(pipe') : pipe'[i][1] \notin settled]_pipeVars
  <2> SUFFICES ASSUME PipeInv, PipeNext
               PROVE  \A i \in Len(pipe) + 1 .. Len(pipe') :
                        pipe'[i][1] \notin settled
      OBVIOUS
  <2>1. Len(pipe) \in Nat
      BY LenProperties DEF PipeInv, ShapeOK
  <2>2. CASE UNCHANGED pipe
      BY <2>1, <2>2
  <2>3. CASE writeFile
    <3> DEFINE piece == <<writer.op,
                          IF pipe # <<>> /\ Last(pipe) = <<writer.op, "first">>
                            THEN "last" ELSE "first">>
    <3>1. writer.op \notin settled
        BY <2>3 DEF PipeInv, writeFile, SettledIsOver, Held, Beginning
    <3>2. piece \in Operations \X {"first", "last"} /\ piece[1] = writer.op
        BY <2>3 DEF PipeInv, writeFile, ShapeOK, WriterMatches, Beginning
    <3>3. pipe' = Append(pipe, piece)
        BY <2>3 DEF writeFile
    <3> HIDE DEF piece
    <3>4. Len(pipe') = Len(pipe) + 1 /\ pipe'[Len(pipe) + 1] = piece
        BY <3>2, <3>3 DEF PipeInv, ShapeOK
    <3> QED
        BY <2>1, <3>1, <3>2, <3>4
  <2> QED
      BY <2>2, <2>3
      DEF PipeNext, WriterStep, submitWrite, cancel, finishRemoved, arm,
          writeAllReturns, writeAllTimesOut, close, closeReturns, take, exit,
          publicationGate, startWrite, abortWrite, retireCurrent, finish,
          finishThenClose, revoke, peerCloses, world
<1> QED
    BY <1>1, PipeInvariant, PTL DEF PipeSpec, SettledIsFinal
=============================================================================
