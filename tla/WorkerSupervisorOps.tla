------------------------- MODULE WorkerSupervisorOps -------------------------
(***************************************************************************)
(* runtime/worker/WorkerSupervisor as functions of its state: the object   *)
(* is a record, an operation takes it with the caller's nowMs and returns  *)
(* the record after the call, with the WorkerSupervisionAction where the   *)
(* code returns one.  WorkerSupervisor.tla drives one supervisor;          *)
(* AppRuntimeCoordinator.tla keeps one for every tab.                      *)
(***************************************************************************)
EXTENDS Integers

CONSTANTS HealthWindow,       \* WorkerSupervisionPolicy::healthWindowMs
          HeartbeatTimeout,   \* WorkerSupervisionPolicy::heartbeatTimeoutMs
          IdMax               \* the largest quint64

\* A policy that is not positive is replaced by the default one.
ASSUME PolicyAssumption ==
    HealthWindow \in Nat \ {0} /\ HeartbeatTimeout \in Nat \ {0}
ASSUME IdAssumption == IdMax \in Nat \ {0}

SupervisorStates == {"Stopped", "Running", "Retired"}
ExitReasons == {"Clean", "Crashed", "StartupFailure"}
SupervisionActions ==
    {"None", "Restart", "StartupRollback", "CrashLoopRollback",
     "IgnoredStaleAttempt", "IgnoredDuplicateFailure"}

\* WorkerAttemptKey; NoKey is the value before the first failure.
AttemptKey == [activation : Nat, attempt : Nat]
NoKey == [activation |-> 0, attempt |-> 0]

NewSupervisor ==
    [activation |-> 0, attempt |-> 0, hasAttempt |-> FALSE,
     lastFailed |-> NoKey, state |-> "Retired",
     attemptStart |-> 0, handshake |-> 0, lastHeartbeat |-> 0,
     restartUsed |-> FALSE, rollbackCalled |-> FALSE,
     crashLoop |-> FALSE, handshaken |-> FALSE]

nextId(current) == IF current = IdMax THEN 1 ELSE current + 1

keyOf(s) == [activation |-> s.activation, attempt |-> s.attempt]

BugIgnoresActivation(s, key) == s.hasAttempt /\ key.activation = s.activation
isCurrent(s, key) == s.hasAttempt /\ key = keyOf(s)

isDuplicateFailure(s, key) == s.lastFailed # NoKey /\ key = s.lastFailed

-----------------------------------------------------------------------------

beginActivation(s, now) ==
    [s EXCEPT !.activation = nextId(@), !.state = "Stopped",
              !.lastHeartbeat = now, !.restartUsed = FALSE,
              !.rollbackCalled = FALSE, !.hasAttempt = FALSE,
              !.lastFailed = NoKey, !.crashLoop = FALSE,
              !.handshaken = FALSE]

\* beginAttempt returns an attempt instead of nullopt.
attemptAllowed(s, activation) ==
    /\ activation = s.activation
    /\ s.state = "Stopped"
    /\ ~s.crashLoop

beginAttempt(s, now) ==
    [s EXCEPT !.attempt = nextId(@), !.hasAttempt = TRUE,
              !.state = "Running", !.attemptStart = now,
              !.lastHeartbeat = now, !.handshaken = FALSE]

\* authenticatedHandshake returns true.
handshakeAllowed(s, key, now) ==
    /\ s.state = "Running"
    /\ isCurrent(s, key)
    /\ now >= s.attemptStart
    /\ ~s.handshaken

authenticatedHandshake(s, key, now) ==
    IF handshakeAllowed(s, key, now)
      THEN [s EXCEPT !.handshake = now, !.lastHeartbeat = now,
                     !.handshaken = TRUE]
      ELSE s

heartbeat(s, key, now) ==
    IF /\ s.state = "Running"
       /\ isCurrent(s, key)
       /\ s.handshaken
       /\ now >= s.lastHeartbeat
      THEN [s EXCEPT !.lastHeartbeat = now]
      ELSE s

isHealthy(s, key, now) ==
    /\ s.state = "Running"
    /\ isCurrent(s, key)
    /\ s.handshaken
    /\ now >= s.handshake
    /\ now - s.handshake >= HealthWindow
    /\ now <= s.lastHeartbeat + HeartbeatTimeout

-----------------------------------------------------------------------------
\* Failures.

\* One failure is forgiven; a later one within the health window of its own
\* attempt is a crash loop.
healthWindowStart(s) == IF s.handshaken THEN s.handshake ELSE s.attemptStart

isCrashLoopFailure(s, now) ==
    s.restartUsed /\ now <= healthWindowStart(s) + HealthWindow

BugRestartUnrecorded(s, key, now) ==
    IF isCrashLoopFailure(s, now)
      THEN [sup |-> [s EXCEPT !.lastFailed = key, !.state = "Retired",
                              !.crashLoop = TRUE, !.rollbackCalled = TRUE],
            action |-> "CrashLoopRollback"]
      ELSE [sup |-> [s EXCEPT !.restartUsed = TRUE], action |-> "Restart"]

unexpectedFailure(s, key, now) ==
    IF isCrashLoopFailure(s, now)
      THEN [sup |-> [s EXCEPT !.lastFailed = key, !.state = "Retired",
                              !.crashLoop = TRUE, !.rollbackCalled = TRUE],
            action |-> "CrashLoopRollback"]
      ELSE [sup |-> [s EXCEPT !.lastFailed = key, !.state = "Stopped",
                              !.restartUsed = TRUE],
            action |-> "Restart"]

\* What both failure reports answer before they look at the state.
staleReport(s, key) ==
    IF isDuplicateFailure(s, key)
      THEN [sup |-> s, action |-> "IgnoredDuplicateFailure"]
      ELSE [sup |-> s, action |-> "IgnoredStaleAttempt"]

checkHealth(s, key, now) ==
    IF isDuplicateFailure(s, key) \/ ~isCurrent(s, key)
      THEN staleReport(s, key)
      ELSE IF s.state # "Running" \/ now <= s.lastHeartbeat + HeartbeatTimeout
        THEN [sup |-> s, action |-> "None"]
        ELSE unexpectedFailure(s, key, now)

\* What the exit of the running attempt does.
currentExit(s, key, reason, now) ==
    CASE reason = "Clean" ->
           [sup |-> [s EXCEPT !.state = "Retired"], action |-> "None"]
      [] reason = "StartupFailure" ->
           [sup |-> [s EXCEPT !.lastFailed = key, !.state = "Retired",
                              !.rollbackCalled = TRUE],
            action |-> "StartupRollback"]
      [] reason = "Crashed" -> unexpectedFailure(s, key, now)

workerExited(s, key, reason, now) ==
    IF isDuplicateFailure(s, key) \/ ~isCurrent(s, key)
      THEN staleReport(s, key)
      ELSE IF s.state # "Running"
        THEN [sup |-> s, action |-> "None"]
        ELSE currentExit(s, key, reason, now)
=============================================================================
