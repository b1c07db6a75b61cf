----------------------- MODULE AuthorityAdmissionToken -----------------------
(***************************************************************************)
(* runtime/package/AuthorityAdmissionToken: the object that admits uses of *)
(* one Worker lease (UseGuard), publishes results while the lease is still *)
(* admitted, revokes it once, and lets another thread wait until every     *)
(* outstanding use is gone (RevocationTicket).                             *)
(*                                                                         *)
(* Threads take publicationMutex.  Every critical section but one has no   *)
(* callback and is one step here; publishIfStillAdmitted runs its callback *)
(* with the mutex held and takes two steps.                                *)
(***************************************************************************)
EXTENDS Naturals, FiniteSets

CONSTANTS Threads,     \* threads of the Host process
          GuiThread,   \* the thread of the QCoreApplication
          Guards,      \* UseGuard objects
          NoThread,    \* the default std::thread::id
          NoGuard

ASSUME GuiAssumption == GuiThread \in Threads
ASSUME NoneAssumption == NoThread \notin Threads /\ NoGuard \notin Guards
ASSUME GuardsAssumption == IsFiniteSet(Guards)

VARIABLES
    mutex,             \* the thread that holds publicationMutex
    closed,            \* AuthorityAdmissionState::closed
    activeUses,        \* AuthorityAdmissionState::activeUses
    revocationThread,  \* AuthorityAdmissionState::revocationThread
    alive,             \* the AuthorityAdmissionToken object exists
    owner,             \* the thread that owns each active UseGuard
    committing,        \* the guard whose nonBlockingCommit is running
    tickets,           \* RevocationTickets, named by waitForbiddenThread_
    waiting,           \* "no", or the wait a thread is blocked in
    notified,          \* blocked threads that have been woken
    drainSeen          \* some ticket has reported "drained"

vars == <<mutex, closed, activeUses, revocationThread, alive, owner,
          committing, tickets, waiting, notified, drainSeen>>

Waits == {"no", "until", "drained"}

TypeOK ==
    /\ mutex \in Threads \cup {NoThread}
    /\ closed \in BOOLEAN
    /\ activeUses \in Nat
    /\ revocationThread \in Threads \cup {NoThread}
    /\ alive \in BOOLEAN
    /\ owner \in [Guards -> Threads \cup {NoThread}]
    /\ committing \in Guards \cup {NoGuard}
    /\ tickets \subseteq Threads
    /\ waiting \in [Threads -> Waits]
    /\ notified \subseteq Threads
    /\ drainSeen \in BOOLEAN

Init ==
    /\ mutex = NoThread
    /\ closed = FALSE
    /\ activeUses = 0
    /\ revocationThread = NoThread
    /\ alive = TRUE
    /\ owner = [g \in Guards |-> NoThread]
    /\ committing = NoGuard
    /\ tickets = {}
    /\ waiting = [t \in Threads |-> "no"]
    /\ notified = {}
    /\ drainSeen = FALSE

-----------------------------------------------------------------------------

Active == {g \in Guards : owner[g] # NoThread}

Blocked == {t \in Threads : waiting[t] # "no"}

\* Thread t executes code of its own and can take the mutex now.
CanLock(t) == waiting[t] = "no" /\ mutex = NoThread

\* A closed token admits no further use.
BugAdmitsWhenClosed == TRUE
admitsUse == ~closed

\* A closed token runs no further commit callback.
BugPublishesWhenClosed == TRUE
admitsPublication == ~closed

\* The use being released is the last one of a closed token.
BugNotifiesTooLate == closed /\ activeUses = 0
lastUseReleased == closed /\ activeUses = 1

\* The threads that drained.notify_all() wakes; the bug is notify_one().
BugNotifiesOne == IF Blocked = {} THEN {} ELSE {CHOOSE t \in Blocked : TRUE}
NotifyTargets == Blocked

NotifyAll == notified' = notified \cup NotifyTargets

\* A released guard gives up its state; the bug leaves it active.
BugGuardStaysActive(g) == owner
withoutOwner(g) == [owner EXCEPT ![g] = NoThread]

tryAcquireUse(t, g) ==
    /\ CanLock(t)
    /\ alive
    /\ owner[g] = NoThread
    /\ admitsUse
    /\ activeUses' = activeUses + 1
    /\ owner' = [owner EXCEPT ![g] = t]
    /\ UNCHANGED <<mutex, closed, revocationThread, alive, committing,
                   tickets, waiting, notified, drainSeen>>

\* A guard moved to another thread: the response guard travels from the
\* capability runtime to the session I/O thread and the pipe writer.
moveGuard(g, t) ==
    /\ owner[g] # NoThread
    /\ committing # g
    /\ waiting[t] = "no"
    /\ owner' = [owner EXCEPT ![g] = t]
    /\ UNCHANGED <<mutex, closed, activeUses, revocationThread, alive,
                   committing, tickets, waiting, notified, drainSeen>>

\* The callback of publishIfStillAdmitted starts with the mutex held; a closed
\* token returns false without calling it.
publishIfStillAdmitted(t, g) ==
    /\ CanLock(t)
    /\ owner[g] = t
    /\ admitsPublication
    /\ mutex' = t
    /\ committing' = g
    /\ UNCHANGED <<closed, activeUses, revocationThread, alive, owner,
                   tickets, waiting, notified, drainSeen>>

\* The callback returns or throws and the lock guard releases the mutex.
commitReturns(t) ==
    /\ mutex = t
    /\ committing # NoGuard
    /\ mutex' = NoThread
    /\ committing' = NoGuard
    /\ UNCHANGED <<closed, activeUses, revocationThread, alive, owner,
                   tickets, waiting, notified, drainSeen>>

\* UseGuard::release, from the destructor or a move assignment.
release(t, g) ==
    /\ CanLock(t)
    /\ owner[g] = t
    /\ activeUses' = activeUses - 1
    /\ IF lastUseReleased THEN NotifyAll ELSE UNCHANGED notified
    /\ owner' = withoutOwner(g)
    /\ UNCHANGED <<mutex, closed, revocationThread, alive, committing,
                   tickets, waiting, drainSeen>>

-----------------------------------------------------------------------------
\* Revocation.

beginRevoke(t) ==
    /\ CanLock(t)
    /\ alive
    /\ closed' = TRUE
    /\ revocationThread' = IF closed THEN revocationThread ELSE t
    /\ IF activeUses = 0 THEN NotifyAll ELSE UNCHANGED notified
    /\ tickets' = tickets \cup {t}
    /\ UNCHANGED <<mutex, activeUses, alive, owner, committing, waiting,
                   drainSeen>>

destroyToken(t) ==
    /\ CanLock(t)
    /\ alive
    /\ alive' = FALSE
    /\ closed' = TRUE
    /\ revocationThread' = IF revocationThread = NoThread
                             THEN t ELSE revocationThread
    /\ IF activeUses = 0 THEN NotifyAll ELSE UNCHANGED notified
    /\ UNCHANGED <<mutex, activeUses, owner, committing, tickets, waiting,
                   drainSeen>>

\* waitAllowedOnCurrentThread for the ticket that k's revocation returned.
waitingAllowed(t, k) == t # revocationThread /\ t # k /\ t # GuiThread

\* A wait evaluates its predicate before it blocks.  Callers that wait (the
\* detached drain thread of HostApplication) hold no guard of their own.
Wait(t, k, kind) ==
    /\ CanLock(t)
    /\ k \in tickets
    /\ waitingAllowed(t, k)
    /\ \A g \in Guards : owner[g] # t
    /\ IF activeUses = 0
         THEN drainSeen' = TRUE /\ UNCHANGED waiting
         ELSE waiting' = [waiting EXCEPT ![t] = kind] /\ UNCHANGED drainSeen
    /\ UNCHANGED <<mutex, closed, activeUses, revocationThread, alive, owner,
                   committing, tickets, notified>>

waitUntil(t, k) == Wait(t, k, "until")

waitUntilDrained(t, k) == Wait(t, k, "drained")

isDrained(t, k) ==
    /\ CanLock(t)
    /\ k \in tickets
    /\ activeUses = 0
    /\ drainSeen' = TRUE
    /\ UNCHANGED <<mutex, closed, activeUses, revocationThread, alive, owner,
                   committing, tickets, waiting, notified>>

\* A woken thread reacquires the mutex and evaluates the predicate again.
Wake(t) ==
    /\ t \in notified
    /\ mutex = NoThread
    /\ notified' = notified \ {t}
    /\ IF activeUses = 0
         THEN drainSeen' = TRUE /\ waiting' = [waiting EXCEPT ![t] = "no"]
         ELSE UNCHANGED <<drainSeen, waiting>>
    /\ UNCHANGED <<mutex, closed, activeUses, revocationThread, alive, owner,
                   committing, tickets>>

\* The deadline of wait_until passes: the result is the predicate's value.
WaitTimesOut(t) ==
    /\ waiting[t] = "until"
    /\ mutex = NoThread
    /\ waiting' = [waiting EXCEPT ![t] = "no"]
    /\ notified' = notified \ {t}
    /\ drainSeen' = (drainSeen \/ activeUses = 0)
    /\ UNCHANGED <<mutex, closed, activeUses, revocationThread, alive, owner,
                   committing, tickets>>

\* Condition variables may wake a thread that nobody notified.
SpuriousWake(t) ==
    /\ t \in Blocked \ notified
    /\ notified' = notified \cup {t}
    /\ UNCHANGED <<mutex, closed, activeUses, revocationThread, alive, owner,
                   committing, tickets, waiting, drainSeen>>

-----------------------------------------------------------------------------

Next ==
    \/ \E t \in Threads, g \in Guards :
          \/ tryAcquireUse(t, g)
          \/ moveGuard(g, t)
          \/ publishIfStillAdmitted(t, g)
          \/ release(t, g)
    \/ \E t \in Threads :
          \/ commitReturns(t)
          \/ beginRevoke(t)
          \/ destroyToken(t)
          \/ Wake(t)
          \/ WaitTimesOut(t)
          \/ SpuriousWake(t)
    \/ \E t, k \in Threads :
          \/ waitUntil(t, k)
          \/ waitUntilDrained(t, k)
          \/ isDrained(t, k)

Spec == Init /\ [][Next]_vars

\* A callback returns ("must not wait, yield, call lifecycle"), a guard is
\* scoped to one response and is destroyed, a woken thread is scheduled.
Fairness ==
    /\ \A t \in Threads : WF_vars(commitReturns(t)) /\ WF_vars(Wake(t))
    /\ \A g \in Guards : WF_vars(\E t \in Threads : release(t, g))

FairSpec == Spec /\ Fairness

-----------------------------------------------------------------------------
\* Properties.

\* The code's invariant between the counter, the guards and the mutex: the
\* counter counts the active guards, and only the thread that runs a commit
\* callback of its own guard holds the mutex.  A ticket exists only for a
\* closed token.
Accounting ==
    /\ activeUses = Cardinality(Active)
    /\ mutex = NoThread <=> committing = NoGuard
    /\ committing # NoGuard => owner[committing] = mutex /\ ~closed
    /\ tickets # {} \/ drainSeen => closed
    /\ notified \subseteq Blocked
    /\ Blocked # {} => closed

\* publishIfStillAdmitted: no publication callback runs once the token is
\* closed, not even one that began before beginRevoke was called.
NoPublicationAfterRevoke == closed => committing = NoGuard

\* A ticket that reported "drained" (waitUntil, waitUntilDrained, isDrained)
\* stays right: no guard is, or ever again becomes, active.
DrainIsFinal == drainSeen => Active = {}

\* release and beginRevoke wake every blocked waiter when the last use goes:
\* nobody sleeps on a token that is drained.
NoLostWakeup == closed /\ activeUses = 0 => Blocked \subseteq notified

\* waitUntilDrained, which has no deadline, returns.
WaitersReturn ==
    \A t \in Threads : waiting[t] = "drained" ~> waiting[t] = "no"

\* The token implements the gate: closed and drained are its phases, the
\* active guards its holders.
Gate == INSTANCE AdmissionGate WITH
    phase <- IF drainSeen THEN "drained"
             ELSE IF closed THEN "closing" ELSE "open",
    holders <- Active,
    publishing <- committing

\* The token implements AdmissionGate: tryAcquireUse, publishIfStillAdmitted,
\* release and the tickets are the gate's steps.
ImplementsGate == Gate!GateSpec
=============================================================================
