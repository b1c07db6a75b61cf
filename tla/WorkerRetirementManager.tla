----------------------- MODULE WorkerRetirementManager -----------------------
(***************************************************************************)
(* apps/host/WorkerRetirementManager: the process-wide owner of cleanups.  *)
(* Threads of the Host retire a cleanup; a thread of its own attempts it,  *)
(* with bounded retries, and reports through a completion callback; main   *)
(* ends with a checked shutdown that waits until nothing is left.          *)
(*                                                                         *)
(* Every action is one critical section of the manager's mutex, or one     *)
(* thing a thread does between two of them.                                *)
(***************************************************************************)
EXTENDS Integers, FiniteSets

CONSTANTS Callers,           \* threads of the Host that call retire
          Retriers,          \* those that also call retryFatal
          Threads,           \* bound on retirement threads
          MaxTickets,        \* bound on retirements
          MaxRetries,        \* size of retryDelays
          MaxStartFailures   \* bound on std::thread refusing to start

\* One thread calls retryFatal, the one of HostApplication and of the launcher;
\* with two at a time OneAttemptAtATime would not hold.
ASSUME RetriersAssumption ==
    Retriers \subseteq Callers /\ \A c, d \in Retriers : c = d
ASSUME ThreadsAssumption == IsFiniteSet(Threads) /\ IsFiniteSet(Callers)
ASSUME RetirementBoundsAssumption ==
    MaxTickets \in Nat /\ MaxRetries \in Nat /\ MaxStartFailures \in Nat

VARIABLES
    records,         \* records_: the tickets that are retained
    state,           \* Record::state, also of records that were erased
    nextTicket, activeThreads, shuttingDown,   \* members of the manager
    caller,          \* what each caller is doing
    thread,          \* what each retirement thread is doing
    shutdown,        \* where main is in shutdownChecked
    reported,        \* per ticket, what the completions that returned said
    startFailures    \* counter for the bound

vars == <<records, state, nextTicket, activeThreads, shuttingDown, caller,
          thread, shutdown, reported, startFailures>>

Tickets == 1 .. MaxTickets
NoTicket == 0
RecordStates == {"Pending", "Running", "Fatal"}
IdleCaller == [step |-> "idle", todo |-> {}, ticket |-> NoTicket]
NoRun == [step |-> "none", ticket |-> NoTicket, index |-> 0, ok |-> FALSE]

Init ==
    /\ records = {}
    /\ state = [t \in Tickets |-> "Pending"]
    /\ nextTicket = 1 /\ activeThreads = 0 /\ shuttingDown = FALSE
    /\ caller = [c \in Callers |-> IdleCaller]
    /\ thread = [n \in Threads |-> NoRun]
    /\ shutdown = "none"
    /\ reported = [t \in Tickets |-> {}]
    /\ startFailures = 0

isIdle == records = {} /\ activeThreads = 0

\* changed_.notify_all()
notifyAll == shutdown' = IF shutdown = "blocked" THEN "woken" ELSE shutdown

-----------------------------------------------------------------------------
\* Callers.

\* The bound on threads: a call is made while each of the k threads it asks
\* for can be started, so that no start ever waits for a thread.
Asked == {a \in Callers \X Tickets : a[2] \in caller[a[1]].todo}
Alive == {n \in Threads : thread[n].step # "none"}
ThreadsLeftFor(k) ==
    Cardinality(Alive) + Cardinality(Asked) + k <= Cardinality(Threads)

acceptsRetirement == ~shuttingDown

retire(c) ==
    /\ caller[c].step = "idle"
    /\ nextTicket \in Tickets
    /\ ThreadsLeftFor(1)
    /\ acceptsRetirement
    /\ records' = records \cup {nextTicket}
    /\ nextTicket' = nextTicket + 1
    /\ caller' = [caller EXCEPT ![c] = [step |-> "starting",
                                        todo |-> {nextTicket},
                                        ticket |-> NoTicket]]
    /\ UNCHANGED <<state, activeThreads, shuttingDown, thread, shutdown,
                   reported, startFailures>>

BugRetriesWhatIsPending == {t \in records : state[t] # "Running"}
retryable == {t \in records : state[t] = "Fatal"}

retryFatal(c) ==
    /\ caller[c].step = "idle"
    /\ ~shuttingDown
    /\ retryable # {}
    /\ ThreadsLeftFor(Cardinality(retryable))
    /\ caller' = [caller EXCEPT ![c] = [step |-> "starting",
                                        todo |-> retryable,
                                        ticket |-> NoTicket]]
    /\ UNCHANGED <<records, state, nextTicket, activeThreads, shuttingDown,
                   thread, shutdown, reported, startFailures>>

\* Where a caller goes on when start has returned for ticket t.
After(c, t) ==
    LET todo == caller[c].todo \ {t}
    IN  IF todo = {}
          THEN IdleCaller
          ELSE [step |-> "starting", todo |-> todo, ticket |-> NoTicket]

BugStartsFatalOnly(t) == state[t] = "Fatal"
needsThread(t) == state[t] # "Running"

\* start, the first critical section.
start(c, t) ==
    /\ caller[c].step = "starting"
    /\ t \in caller[c].todo
    /\ IF needsThread(t)
         THEN /\ state' = [state EXCEPT ![t] = "Running"]
              /\ activeThreads' = activeThreads + 1
              /\ caller' = [caller EXCEPT ![c].step = "spawning",
                                          ![c].ticket = t]
         ELSE /\ caller' = [caller EXCEPT ![c] = After(c, t)]
              /\ UNCHANGED <<state, activeThreads>>
    /\ UNCHANGED <<records, nextTicket, shuttingDown, thread, shutdown,
                   reported, startFailures>>

spawn(c, n) ==
    /\ caller[c].step = "spawning"
    /\ thread[n].step = "none"
    /\ thread' = [thread EXCEPT ![n] = [step |-> "attempting",
                                        ticket |-> caller[c].ticket,
                                        index |-> 0, ok |-> FALSE]]
    /\ caller' = [caller EXCEPT ![c] = After(c, caller[c].ticket)]
    /\ UNCHANGED <<records, state, nextTicket, activeThreads, shuttingDown,
                   shutdown, reported, startFailures>>

uncounted == activeThreads - 1

\* The thread cannot be created: the second critical section of start.
spawnFails(c) ==
    /\ caller[c].step = "spawning"
    /\ startFailures < MaxStartFailures
    /\ startFailures' = startFailures + 1
    /\ activeThreads' = uncounted
    /\ state' = [state EXCEPT ![caller[c].ticket] = "Fatal"]
    /\ caller' = [caller EXCEPT ![c].step = "reporting"]
    /\ notifyAll
    /\ UNCHANGED <<records, nextTicket, shuttingDown, thread, reported>>

\* The completion that start calls, with failure, has returned.
startReported(c) ==
    /\ caller[c].step = "reporting"
    /\ reported' = [reported EXCEPT ![caller[c].ticket] = @ \cup {FALSE}]
    /\ caller' = [caller EXCEPT ![c] = After(c, caller[c].ticket)]
    /\ UNCHANGED <<records, state, nextTicket, activeThreads, shuttingDown,
                   thread, shutdown, startFailures>>

-----------------------------------------------------------------------------
\* run, on a thread of its own.

attemptSucceeds(n) ==
    /\ thread[n].step = "attempting"
    /\ records' = records \ {thread[n].ticket}
    /\ thread' = [thread EXCEPT ![n].step = "completing", ![n].ok = TRUE]
    /\ UNCHANGED <<state, nextTicket, activeThreads, shuttingDown, caller,
                   shutdown, reported, startFailures>>

attemptFails(n) ==
    LET t == thread[n].ticket
    IN  /\ thread[n].step = "attempting"
        /\ IF thread[n].index < MaxRetries
             THEN /\ state' = [state EXCEPT ![t] = "Pending"]
                  /\ thread' = [thread EXCEPT ![n].step = "sleeping"]
                  /\ notifyAll
             ELSE /\ state' = [state EXCEPT ![t] = "Fatal"]
                  /\ thread' = [thread EXCEPT ![n].step = "completing"]
                  /\ UNCHANGED shutdown
        /\ UNCHANGED <<records, nextTicket, activeThreads, shuttingDown, caller,
                       reported, startFailures>>

retryDelayElapses(n) ==
    /\ thread[n].step = "sleeping"
    /\ state' = [state EXCEPT ![thread[n].ticket] = "Running"]
    /\ thread' = [thread EXCEPT ![n].step = "attempting", ![n].index = @ + 1]
    /\ notifyAll
    /\ UNCHANGED <<records, nextTicket, activeThreads, shuttingDown, caller,
                   reported, startFailures>>

completionReturns(n) ==
    /\ thread[n].step = "completing"
    /\ reported' = [reported EXCEPT
                      ![thread[n].ticket] = @ \cup {thread[n].ok}]
    /\ thread' = [thread EXCEPT ![n].step = "ending"]
    /\ UNCHANGED <<records, state, nextTicket, activeThreads, shuttingDown,
                   caller, shutdown, startFailures>>

notifyEnd == notifyAll

runEnds(n) ==
    /\ thread[n].step = "ending"
    /\ activeThreads' = uncounted
    /\ thread' = [thread EXCEPT ![n] = NoRun]
    /\ notifyEnd
    /\ UNCHANGED <<records, state, nextTicket, shuttingDown, caller, reported,
                   startFailures>>

-----------------------------------------------------------------------------
\* shutdownChecked, called by main after the event loop.

shutdownChecked ==
    /\ shutdown = "none"
    /\ shuttingDown' = TRUE
    /\ shutdown' = "woken"
    /\ UNCHANGED <<records, state, nextTicket, activeThreads, caller, thread,
                   reported, startFailures>>

\* The predicate of wait_for is tested; "blocked" waits for a notification.
flush ==
    /\ shutdown = "woken"
    /\ shutdown' = IF isIdle THEN "clean" ELSE "blocked"
    /\ UNCHANGED <<records, state, nextTicket, activeThreads, shuttingDown,
                   caller, thread, reported, startFailures>>

\* wait_for gives up after timeoutMs and tests once more.
flushTimesOut ==
    /\ shutdown \in {"woken", "blocked"}
    /\ shutdown' = IF isIdle THEN "clean" ELSE "timedOut"
    /\ UNCHANGED <<records, state, nextTicket, activeThreads, shuttingDown,
                   caller, thread, reported, startFailures>>

-----------------------------------------------------------------------------

CallerStep(c) ==
    \/ \E t \in Tickets : start(c, t)
    \/ \E n \in Threads : spawn(c, n)
    \/ spawnFails(c)
    \/ startReported(c)

ThreadStep(n) ==
    \/ attemptSucceeds(n)
    \/ attemptFails(n)
    \/ retryDelayElapses(n)
    \/ completionReturns(n)
    \/ runEnds(n)

Next ==
    \/ \E c \in Callers : retire(c) \/ CallerStep(c)
    \/ \E c \in Retriers : retryFatal(c)
    \/ \E n \in Threads : ThreadStep(n)
    \/ shutdownChecked
    \/ flush
    \/ flushTimesOut

Spec == Init /\ [][Next]_vars

\* Calls in progress go on, cleanup attempts and callbacks return, and main
\* tests its predicate again when it is woken.
FairSpec ==
    /\ Spec
    /\ \A c \in Callers : WF_vars(CallerStep(c))
    /\ \A n \in Threads : WF_vars(ThreadStep(n))
    /\ WF_vars(flush)

-----------------------------------------------------------------------------
\* Properties.

Spawning == {c \in Callers : caller[c].step = "spawning"}

\* The members stay in their ranges, and activeThreads_ counts the threads
\* that were started or are being started.
TypeOK ==
    /\ records \subseteq Tickets
    /\ state \in [Tickets -> RecordStates]
    /\ nextTicket \in 1 .. MaxTickets + 1
    /\ activeThreads = Cardinality(Alive) + Cardinality(Spawning)
    /\ shuttingDown \in BOOLEAN
    /\ shutdown \in {"none", "woken", "blocked", "clean", "timedOut"}
    /\ reported \in [Tickets -> SUBSET BOOLEAN]

\* A cleanup is never attempted by two threads at once: attempts take the
\* resources of a launch apart without a lock of their own.
OneAttemptAtATime ==
    \A m, n \in Threads :
        /\ {thread[m].step, thread[n].step} \subseteq {"attempting", "sleeping"}
        /\ thread[m].ticket = thread[n].ticket
        => m = n

\* main does not sleep on while nothing is left to wait for.
NoLostWakeup == shutdown = "blocked" => ~isIdle

\* docs/plans/2026-08-20-task16-authority-retirement-design.md: "checked
\* shutdown cannot observe an empty manager" while a cleanup is registered or
\* runs: after a clean shutdown every retirement ever accepted has succeeded,
\* and no thread is left, nor a caller that could start one.
CleanShutdownIsComplete ==
    shutdown = "clean" =>
        /\ \A t \in 1 .. nextTicket - 1 : TRUE \in reported[t]
        /\ Alive = {}
        /\ \A c \in Callers : caller[c].step # "spawning"

\* A retirement that was accepted is attempted and reported: nothing is
\* dropped between retire and the completion.
RetirementIsReported ==
    \A t \in Tickets : t \in records ~> reported[t] # {}

\* Threads, retries and the checked shutdown do not cross.
RetirementIsOrderly ==
    TypeOK /\ OneAttemptAtATime /\ NoLostWakeup /\ CleanShutdownIsComplete
=============================================================================
