---------------------------- MODULE HostLifecycle ----------------------------
(***************************************************************************)
(* apps/host/HostApplication from its start to the end of main: package    *)
(* operations that the GUI thread queues to the lifecycle thread and whose *)
(* results come back as events, and the destructor, which leaves what the  *)
(* coordinators could not close to the retirement manager.  The destructor *)
(* reserves a retirement before it queues the shutdown to the lifecycle    *)
(* thread; the retirement waits for the HostLifecycleShutdownHandoff that  *)
(* the shutdown completes.  main then calls shutdownChecked.               *)
(***************************************************************************)
EXTENDS WorkerRetirementManager, Sequences

CONSTANTS Gui, Lifecycle,           \* the two threads, as callers of the manager
          MaximumPendingOperations, \* MaximumPendingLifecycleOperations
          MaxOperations,            \* bound on package operations
          MaxIncidents              \* bound on calls that find no memory

ASSUME HostAssumption ==
    /\ Gui # Lifecycle /\ {Gui, Lifecycle} \subseteq Callers
    /\ {MaximumPendingOperations, MaxOperations, MaxIncidents} \subseteq Nat

VARIABLES
    app,       \* HostApplication; `at' is where the GUI thread is
    life,      \* HostLifecycleRuntime and its thread
    handoff,   \* HostLifecycleShutdownHandoff and the ticket it is retired by
    guard,     \* who owns the package guard the coordinators were left with
    events,    \* results posted to the GUI thread
    incidents

hostVars == <<app, life, handoff, guard, events, incidents>>
allVars == <<vars, hostVars>>

Incident == incidents < MaxIncidents /\ incidents' = incidents + 1

\* Without a HostApplication ("absent") the manager has the callers it likes.
HostInit ==
    /\ Init
    /\ \E at \in {"absent", "run"} :
         app = [at |-> at, phase |-> "NotStarted", startup |-> 0, next |-> 1,
                pending |-> {}]
    /\ life = [at |-> "loop", queue |-> <<>>, accepting |-> TRUE, reserved |-> 0,
               initialized |-> FALSE, registered |-> FALSE, armed |-> FALSE,
               stopped |-> FALSE, retry |-> FALSE, quitting |-> FALSE,
               exiting |-> FALSE, ticket |-> NoTicket]
    /\ handoff = [state |-> "Pending", ticket |-> NoTicket]
    /\ guard = "coordinators" /\ events = <<>> /\ incidents = 0

-----------------------------------------------------------------------------
\* The GUI thread.

mayReserve == life.accepting /\ life.reserved < MaximumPendingOperations

\* reserve and post; an event that cannot be posted is released again.
queued(kind) ==
    /\ mayReserve
    /\ life' = [life EXCEPT !.reserved = @ + 1,
                            !.queue = Append(@, [op |-> kind, id |-> app.next])]
    /\ UNCHANGED incidents
refused ==
    /\ \/ ~mayReserve /\ UNCHANGED incidents
       \/ mayReserve /\ Incident
    /\ UNCHANGED life

\* start and beginPackageStartup.
beginPackageStartup ==
    /\ app.at = "run" /\ app.phase = "NotStarted" /\ nextTicket = 1
    /\ \/ /\ queued("startup")
          /\ app' = [app EXCEPT !.phase = "Verifying", !.startup = app.next,
                                !.pending = @ \cup {app.next}, !.next = @ + 1]
       \/ /\ refused
          /\ app' = [app EXCEPT !.phase = "Failed", !.startup = app.next,
                                !.next = @ + 1]
    /\ UNCHANGED <<vars, handoff, guard, events>>

\* requestPackageInstall and requestOfflineStart.
requestPackageOperation ==
    /\ app.at = "run" /\ app.phase = "Applied"
    /\ app.next <= MaxOperations /\ nextTicket = 1
    /\ \/ /\ queued("package")
          /\ app' = [app EXCEPT !.pending = @ \cup {app.next}, !.next = @ + 1]
       \/ refused /\ app' = [app EXCEPT !.next = @ + 1]
    /\ UNCHANGED <<vars, handoff, guard, events>>

\* The startup is the first operation and sets the phase; a verified current
\* package may still not be applied to the window.
handlePackageOperationResult ==
    /\ app.at = "run" /\ events # <<>>
    /\ events' = Tail(events)
    /\ LET e == Head(events)
           known == e.id \in app.pending
           startup == known /\ e.op = "startup" /\ app.phase = "Verifying"
                            /\ app.startup = e.id
       IN  \E applied \in BOOLEAN :
             /\ applied => e.ok
             /\ app' = [app EXCEPT
                          !.pending = @ \ {e.id},
                          !.phase = IF ~startup THEN @
                                    ELSE IF applied THEN "Applied" ELSE "Failed"]
    /\ UNCHANGED <<vars, life, handoff, guard, incidents>>

\* The handoff is retired before its shutdown is queued; retire may throw.
reserveShutdownHandoff ==
    \/ /\ retire(Gui)
       /\ handoff' = [handoff EXCEPT !.ticket = nextTicket]
       /\ UNCHANGED incidents
    \/ Incident /\ UNCHANGED <<vars, handoff>>

\* ~HostApplication, up to the call of retire.
stopApplication ==
    /\ app.at = "run" /\ app.phase # "NotStarted"
    /\ app' = [app EXCEPT !.at = "reserving"]
    /\ life' = [life EXCEPT !.accepting = FALSE]
    /\ events' = <<>>
    /\ reserveShutdownHandoff
    /\ UNCHANGED guard

\* retire has returned; the shutdown is queued, or the thread is told to quit.
queueShutdown ==
    /\ app.at = "reserving" /\ caller[Gui].step = "idle"
    /\ app' = [app EXCEPT !.at = "down"]
    /\ LET ready == [life EXCEPT !.registered = handoff.ticket # NoTicket,
                                 !.armed = TRUE]
       IN  \/ /\ life' = [ready EXCEPT
                            !.queue = Append(@, [op |-> "shutdown", id |-> 0])]
              /\ UNCHANGED incidents
           \/ life' = [ready EXCEPT !.quitting = TRUE] /\ Incident
    /\ UNCHANGED <<vars, handoff, guard, events>>

-----------------------------------------------------------------------------
\* The lifecycle thread.  Once told to quit its loop may end before it takes
\* the events that are left.

Take(kind) ==
    /\ app.at # "absent" /\ life.at = "loop"
    /\ life.queue # <<>> /\ Head(life.queue).op = kind
Taken == [life EXCEPT !.queue = Tail(@)]
Released == [Taken EXCEPT !.reserved = @ - 1]

\* An event for an application that is being destroyed is dropped.
Reply(ok) ==
    events' = IF app.at # "run" THEN events
              ELSE Append(events, [op |-> Head(life.queue).op,
                                   id |-> Head(life.queue).id, ok |-> ok])

\* initialize, then executeStartupOperation; not refused after admission closed.
startupOperation ==
    /\ Take("startup")
    /\ \E made \in BOOLEAN, ok \in BOOLEAN :
         /\ ok => made
         /\ life' = [Released EXCEPT !.initialized = made]
         /\ Reply(ok)
    /\ UNCHANGED <<vars, app, handoff, guard, incidents>>

BugDropsWhatIsRejected(executes) ==
    Reply(TRUE) \/ UNCHANGED events
repliesIf(executes) ==
    IF executes THEN \E ok \in BOOLEAN : Reply(ok) ELSE UNCHANGED events

\* executeApp.
packageOperation ==
    /\ Take("package")
    /\ life' = Released
    /\ repliesIf(life.accepting /\ life.initialized)
    /\ UNCHANGED <<vars, app, handoff, guard, incidents>>

\* shutdown, the first time: the coordinators close what they can, the handoff
\* gets the rest; without one the runtime keeps it and submits it itself.
shutdownCoordinators(l) ==
    \E closes \in BOOLEAN :
      /\ closes \/ l.initialized
      /\ guard' = IF closes THEN "closed"
                  ELSE IF l.registered THEN "handoff" ELSE "runtime"
      /\ handoff' = IF l.registered THEN [handoff EXCEPT !.state = "Completed"]
                                    ELSE handoff
      /\ LET l1 == [l EXCEPT !.stopped = TRUE, !.accepting = FALSE]
         IN  life' = IF ~closes /\ ~l.registered
                       THEN [l1 EXCEPT !.at = "submit"]
                     ELSE IF l.exiting THEN [l1 EXCEPT !.at = "gone"]
                     ELSE [l1 EXCEPT !.quitting = TRUE]

shutdownEvent ==
    /\ Take("shutdown")
    /\ shutdownCoordinators(Taken)
    /\ UNCHANGED <<vars, app, events, incidents>>

\* submitShutdownCleanup: a manager that is shutting down refuses, and retire
\* may throw.  A retry is a timer of this thread, which never fires once its
\* loop has ended.
submitShutdownCleanup ==
    /\ life.at = "submit" /\ ~shuttingDown
    /\ retire(Lifecycle)
    /\ life' = [life EXCEPT !.at = "submitting", !.ticket = nextTicket]
    /\ guard' = "retirement"
    /\ UNCHANGED <<app, handoff, events, incidents>>

submitRefused ==
    /\ life.at = "submit"
    /\ \/ shuttingDown /\ UNCHANGED incidents
       \/ ~shuttingDown /\ Incident
    /\ IF life.exiting
         THEN life' = [life EXCEPT !.at = "gone"] /\ guard' = "lost"
         ELSE life' = [life EXCEPT !.at = "loop", !.retry = TRUE]
              /\ UNCHANGED guard
    /\ UNCHANGED <<vars, app, handoff, events>>

submitReturns ==
    /\ life.at = "submitting" /\ caller[Lifecycle].step = "idle"
    /\ life' = IF life.exiting THEN [life EXCEPT !.at = "gone"]
               ELSE [life EXCEPT !.at = "loop", !.quitting = TRUE]
    /\ UNCHANGED <<vars, app, handoff, guard, events, incidents>>

shutdownCleanupRetry ==
    /\ life.at = "loop" /\ life.retry
    /\ life' = [life EXCEPT !.at = "submit", !.retry = FALSE]
    /\ UNCHANGED <<vars, app, handoff, guard, events, incidents>>

BugForgetsThreadExit == FALSE
exitNeedsShutdown == life.armed /\ ~life.stopped

\* QThread::finished: shutdownOnThreadExit, then the runtime is deleted.
threadFinishes ==
    /\ life.at = "loop" /\ life.quitting
    /\ IF exitNeedsShutdown
         THEN shutdownCoordinators([life EXCEPT !.exiting = TRUE])
         ELSE /\ life' = [life EXCEPT !.at = "gone", !.armed = FALSE]
              /\ UNCHANGED <<handoff, guard>>
    /\ UNCHANGED <<vars, app, events, incidents>>

-----------------------------------------------------------------------------
\* The retirement of the handoff and of a submitted cleanup.

BugDoesNotWait == TRUE
handoffCompleted == handoff.state = "Completed"

\* attempt: it waits ten seconds for the shutdown.
cleanupSucceeds(n) ==
    /\ attemptSucceeds(n)
    /\ LET t == thread[n].ticket
       IN  /\ t = handoff.ticket => handoffCompleted
           /\ guard' = IF \/ t = handoff.ticket /\ guard = "handoff"
                          \/ t = life.ticket THEN "closed" ELSE guard
    /\ UNCHANGED <<app, life, handoff, events, incidents>>

\* Without a guard that does not close a completed handoff cannot fail.
cleanupFails(n) ==
    /\ attemptFails(n)
    /\ thread[n].ticket = handoff.ticket => ~handoffCompleted \/ guard = "handoff"
    /\ UNCHANGED hostVars

-----------------------------------------------------------------------------
Independent(c) ==
    c \notin (IF app.at = "absent" THEN {Lifecycle} ELSE {Gui, Lifecycle})

\* The bound on other clients: they leave a ticket for the Host, and retire
\* when its package operations are over; the two have nothing in common.
clientRetires(c) ==
    /\ Independent(c)
    /\ app.at # "absent" => nextTicket < MaxTickets /\ app.pending = {}
    /\ retire(c) /\ UNCHANGED hostVars

clientRetries(c) ==
    app.at = "absent" /\ retryFatal(c) /\ UNCHANGED hostVars

\* The end of main.
mainShutsDown ==
    app.at \in {"absent", "down"} /\ shutdownChecked /\ UNCHANGED hostVars

HostCallerStep(c) == CallerStep(c) /\ UNCHANGED hostVars
HostThreadStep(n) ==
    \/ cleanupSucceeds(n) \/ cleanupFails(n)
    \/ /\ retryDelayElapses(n) \/ completionReturns(n) \/ runEnds(n)
       /\ UNCHANGED hostVars
GuiStep == handlePackageOperationResult \/ queueShutdown
LifecycleStep ==
    \/ startupOperation \/ packageOperation \/ shutdownEvent
    \/ submitShutdownCleanup \/ submitRefused \/ submitReturns
    \/ shutdownCleanupRetry \/ threadFinishes

HostNext ==
    \/ beginPackageStartup \/ requestPackageOperation \/ stopApplication
    \/ GuiStep \/ LifecycleStep
    \/ \E c \in Callers : clientRetires(c) \/ HostCallerStep(c)
    \/ \E c \in Retriers : clientRetries(c)
    \/ \E n \in Threads : HostThreadStep(n)
    \/ mainShutsDown
    \/ (flush \/ flushTimesOut) /\ UNCHANGED hostVars

HostSpec == HostInit /\ [][HostNext]_allVars

\* The event loops of both threads run, and so do the manager's threads.
HostFairSpec ==
    /\ HostSpec
    /\ WF_allVars(GuiStep) /\ WF_allVars(LifecycleStep)
    /\ \A c \in Callers : WF_allVars(HostCallerStep(c))
    /\ \A n \in Threads : WF_allVars(HostThreadStep(n))
    /\ WF_allVars(flush /\ UNCHANGED hostVars)

-----------------------------------------------------------------------------
\* Properties.

\* When main returns success the coordinators were shut down and what they
\* could not close was closed by the retirement, though the shutdown is only
\* queued when main begins to wait.
CleanExitIsClosed ==
    shutdown = "clean" /\ handoff.ticket # NoTicket =>
        life.stopped /\ guard = "closed"

\* A guard that did not close always has an owner that will try again, unless
\* there was no memory to reserve its retirement.
GuardHasOwner ==
    /\ guard = "handoff" => handoff.ticket # NoTicket /\ handoffCompleted
    /\ guard = "lost" => handoff.ticket = NoTicket
    /\ life.at = "gone" => guard # "runtime" /\ life.stopped

\* The reservations are those of the operations that wait.
ReservationsAreReturned ==
    /\ app.at = "run" => life.reserved = Len(life.queue)
    /\ life.reserved \in 0 .. MaximumPendingOperations

\* The end of the Host: nothing it holds is dropped between the GUI thread, the
\* lifecycle thread and the retirement.
HostEndsCleanly == CleanExitIsClosed /\ GuardHasOwner /\ ReservationsAreReturned

\* A package operation is answered while the application lives, the startup
\* with them; and a lifecycle thread that was told to end does, unless main no
\* longer takes what it has to submit.
OperationsAreAnswered ==
    /\ app.at = "run" /\ app.pending # {} ~> app.pending = {} \/ app.at # "run"
    /\ app.at = "down" ~> life.at = "gone" \/ guard = "runtime"

\* Nobody waits for ever: retirements are reported, package operations answered.
EverythingIsReported == RetirementIsReported /\ OperationsAreAnswered
=============================================================================
