------------------------- MODULE HostLifecycleProofs -------------------------
(***************************************************************************)
(* Proofs about the retirement manager and the end of the Host above it.   *)
(* First WorkerRetirementManager: its threads, its retries and the checked *)
(* shutdown do not cross, for any number of callers, of threads, of        *)
(* retirements and of retries.  Then HostLifecycle: the Host uses the      *)
(* manager as its specification allows, and nothing it holds is dropped    *)
(* between the GUI thread, the lifecycle thread and the retirement.        *)
(***************************************************************************)
EXTENDS HostLifecycle, FiniteSetTheorems, SequenceTheorems, TLAPS

-----------------------------------------------------------------------------
\* The retirement manager: the inductive invariant.

CallerShapes == [step : {"idle", "starting", "spawning", "reporting"},
                 todo : SUBSET Tickets, ticket : Tickets \cup {NoTicket}]
ThreadShapes == [step : {"none", "attempting", "sleeping", "completing",
                         "ending"},
                 ticket : Tickets \cup {NoTicket}, index : Nat, ok : BOOLEAN]

\* What the variables hold, apart from the count of the threads.
ShapeOK ==
    /\ records \subseteq Tickets
    /\ state \in [Tickets -> RecordStates]
    /\ nextTicket \in 1 .. MaxTickets + 1
    /\ shuttingDown \in BOOLEAN
    /\ shutdown \in {"none", "woken", "blocked", "clean", "timedOut"}
    /\ reported \in [Tickets -> SUBSET BOOLEAN]
    /\ caller \in [Callers -> CallerShapes]
    /\ thread \in [Threads -> ThreadShapes]

\* activeThreads_ counts what is running and what is being started.
CountIsRight == activeThreads = Cardinality(Alive) + Cardinality(Spawning)

\* An idle caller has nothing to do, another one is about a ticket it has to
\* start; a thread is about a ticket.
StepsAreAboutTickets ==
    /\ \A c \in Callers :
         /\ caller[c].step = "idle" => caller[c].todo = {}
         /\ caller[c].step \in {"spawning", "reporting"} =>
              caller[c].ticket \in caller[c].todo
    /\ \A n \in Threads :
         thread[n].step # "none" => thread[n].ticket \in 1 .. nextTicket - 1

\* The tickets that caller c is going to start a thread for.
Claims(c, t) ==
    /\ t \in caller[c].todo
    /\ caller[c].step = "reporting" => t # caller[c].ticket
SpawnsFor(c, t) == caller[c].step = "spawning" /\ caller[c].ticket = t
WorksOn(n, t) ==
    thread[n].step \in {"attempting", "sleeping"} /\ thread[n].ticket = t

\* A ticket that is to be started is nobody else's: no other caller will start
\* it, no thread works on it, and only a retry finds it Fatal.
ClaimsAreExclusive ==
    /\ \A c, d \in Callers, t \in Tickets : Claims(c, t) /\ Claims(d, t) => c = d
    /\ \A c \in Callers, t \in Tickets :
         Claims(c, t) =>
           /\ t \in records
           /\ SpawnsFor(c, t) => state[t] = "Running"
           /\ ~SpawnsFor(c, t) => state[t] # "Running"
           /\ ~SpawnsFor(c, t) /\ c \notin Retriers => state[t] = "Pending"
           /\ \A n \in Threads : ~WorksOn(n, t)

\* The state of a record is that of the one thread that works on it.
WorkIsExclusive ==
    /\ \A m, n \in Threads, t \in Tickets :
         WorksOn(m, t) /\ WorksOn(n, t) => m = n
    /\ \A n \in Threads, t \in Tickets :
         WorksOn(n, t) =>
           /\ t \in records
           /\ state[t] = IF thread[n].step = "attempting" THEN "Running"
                                                          ELSE "Pending"

\* Numbers are given once, and an accepted retirement is retained until it has
\* succeeded.
TicketsAreAccounted ==
    /\ \A t \in Tickets : t >= nextTicket => t \notin records /\ state[t] = "Pending"
    /\ \A t \in 1 .. nextTicket - 1 :
         \/ t \in records
         \/ TRUE \in reported[t]
         \/ \E n \in Threads : /\ thread[n].step = "completing"
                               /\ thread[n].ticket = t
                               /\ thread[n].ok = TRUE

\* The checked shutdown closes the manager first and sees it empty.
ShutdownIsClosed ==
    /\ shutdown # "none" => shuttingDown
    /\ shutdown = "clean" => isIdle
    /\ shutdown = "blocked" => ~isIdle

IInv ==
    /\ ShapeOK
    /\ CountIsRight
    /\ StepsAreAboutTickets
    /\ ClaimsAreExclusive
    /\ WorkIsExclusive
    /\ TicketsAreAccounted
    /\ ShutdownIsClosed

-----------------------------------------------------------------------------
\* The lemmas.

\* Initially there is nothing.
LEMMA InitIsInductive == Init => IInv
<1> SUFFICES ASSUME Init PROVE IInv
    OBVIOUS
<1>1. Alive = {} /\ Spawning = {}
    BY DEF Init, Alive, Spawning, NoRun, IdleCaller
<1>2. ShapeOK
  <2>1. IdleCaller \in CallerShapes /\ NoRun \in ThreadShapes
    BY DEF IdleCaller, CallerShapes, NoRun, ThreadShapes
  <2>2. 1 \in 1 .. MaxTickets + 1
    BY RetirementBoundsAssumption
  <2>3. caller \in [Callers -> CallerShapes] /\ thread \in [Threads -> ThreadShapes]
    BY <2>1 DEF Init
  <2>4. state \in [Tickets -> RecordStates] /\ reported \in [Tickets -> SUBSET BOOLEAN]
    BY DEF Init, RecordStates
  <2> QED
    BY <2>2, <2>3, <2>4 DEF Init, ShapeOK
<1>3. CountIsRight
    BY <1>1, FS_EmptySet DEF Init, CountIsRight
<1>4. StepsAreAboutTickets
    BY DEF Init, StepsAreAboutTickets, IdleCaller, NoRun
<1>5. ClaimsAreExclusive
    BY DEF Init, ClaimsAreExclusive, Claims, IdleCaller
<1>6. WorkIsExclusive
    BY DEF Init, WorkIsExclusive, WorksOn, NoRun
<1>7. TicketsAreAccounted
    BY DEF Init, TicketsAreAccounted, Tickets
<1>8. ShutdownIsClosed
    BY DEF Init, ShutdownIsClosed
<1> QED
    BY <1>2, <1>3, <1>4, <1>5, <1>6, <1>7, <1>8 DEF IInv

\* The sets that activeThreads_ counts are finite.
LEMMA CountedAreFinite ==
    /\ IsFiniteSet(Alive) /\ Cardinality(Alive) \in Nat
    /\ IsFiniteSet(Spawning) /\ Cardinality(Spawning) \in Nat
    /\ Alive = {} <=> Cardinality(Alive) = 0
    /\ Spawning = {} <=> Cardinality(Spawning) = 0
<1>1. Alive \subseteq Threads /\ Spawning \subseteq Callers
    BY DEF Alive, Spawning
<1>2. IsFiniteSet(Alive) /\ IsFiniteSet(Spawning)
    BY <1>1, ThreadsAssumption, FS_Subset
<1> QED
    BY <1>2, FS_CardinalityType, FS_EmptySet

\* What a notification does to the shutdown.
LEMMA NotifyKeepsClosed ==
    ASSUME ShutdownIsClosed, ShapeOK, notifyAll,
           shuttingDown' = shuttingDown,
           isIdle => isIdle'
    PROVE  ShutdownIsClosed' /\ shutdown' \in {"none", "woken", "blocked",
                                               "clean", "timedOut"}
BY DEF ShutdownIsClosed, notifyAll, ShapeOK

\* Claims stay exclusive when none is made and nothing they are about changes.
LEMMA ClaimsKeep ==
    ASSUME ClaimsAreExclusive,
           \A d \in Callers, t \in Tickets :
             Claims(d, t)' =>
               /\ Claims(d, t)
               /\ SpawnsFor(d, t)' <=> SpawnsFor(d, t)
               /\ t \in records => t \in records'
               /\ state'[t] = state[t]
               /\ \A n \in Threads : WorksOn(n, t)' => WorksOn(n, t)
    PROVE  ClaimsAreExclusive'
BY DEF ClaimsAreExclusive

\* So does the work of the threads.
LEMMA WorkKeeps ==
    ASSUME WorkIsExclusive,
           \A n \in Threads, t \in Tickets :
             WorksOn(n, t)' =>
               /\ WorksOn(n, t)
               /\ t \in records => t \in records'
               /\ state'[t] = state[t]
               /\ thread'[n].step = thread[n].step
    PROVE  WorkIsExclusive'
BY DEF WorkIsExclusive

\* Retirements stay accounted for while their records, what was reported of
\* them and the completions to come do.
LEMMA AccountsKeep ==
    ASSUME TicketsAreAccounted,
           nextTicket' = nextTicket,
           \A t \in Tickets : t \in records' => t \in records,
           \A t \in Tickets : t >= nextTicket => state'[t] = state[t],
           \A t \in 1 .. nextTicket - 1 :
             /\ t \in records =>
                  t \in records' \/ \E n \in Threads :
                                      /\ thread'[n].step = "completing"
                                      /\ thread'[n].ticket = t
                                      /\ thread'[n].ok = TRUE
             /\ TRUE \in reported[t] => TRUE \in reported'[t]
             /\ \A n \in Threads :
                  /\ thread[n].step = "completing"
                  /\ thread[n].ticket = t
                  /\ thread[n].ok = TRUE
                  => \/ TRUE \in reported'[t]
                     \/ /\ thread'[n].step = "completing"
                        /\ thread'[n].ticket = t
                        /\ thread'[n].ok = TRUE
    PROVE  TicketsAreAccounted'
BY DEF TicketsAreAccounted

\* What a caller is left with.
LEMMA AfterLeaves ==
    ASSUME ShapeOK, NEW c \in Callers, NEW t
    PROVE  /\ After(c, t) \in CallerShapes
           /\ After(c, t).step \in {"idle", "starting"}
           /\ After(c, t).todo = caller[c].todo \ {t}
           /\ After(c, t).step = "idle" => After(c, t).todo = {}
<1>1. caller[c].todo \subseteq Tickets
    BY DEF ShapeOK, CallerShapes
<1>2. CASE caller[c].todo \ {t} = {}
    BY <1>2 DEF After, IdleCaller, CallerShapes
<1>3. CASE caller[c].todo \ {t} # {}
    BY <1>1, <1>3 DEF After, CallerShapes
<1> QED
    BY <1>2, <1>3

\* retire.
LEMMA RetireKeeps == ASSUME IInv, NEW c \in Callers, retire(c) PROVE IInv'
<1> USE DEF IInv
<1> DEFINE i == [step |-> "starting", todo |-> {nextTicket},
                 ticket |-> NoTicket]
<1>1. /\ nextTicket \in Tickets /\ nextTicket' = nextTicket + 1
      /\ records' = records \cup {nextTicket}
      /\ caller' = [caller EXCEPT ![c] = i]
      /\ caller[c].step = "idle" /\ caller[c].todo = {} /\ ~shuttingDown
      /\ UNCHANGED <<state, activeThreads, shuttingDown, thread, shutdown,
                     reported>>
    BY DEF retire, acceptsRetirement, StepsAreAboutTickets
<1>2. /\ i \in CallerShapes
      /\ i.step = "starting" /\ i.todo = {nextTicket} /\ i.ticket = NoTicket
    BY <1>1 DEF CallerShapes
<1> HIDE DEF i
<1>3. /\ caller'[c] = i
      /\ \A d \in Callers : d # c => caller'[d] = caller[d]
    BY <1>1 DEF ShapeOK
<1>4. ShapeOK'
    BY <1>1, <1>2, RetirementBoundsAssumption DEF ShapeOK, Tickets
<1>5. CountIsRight'
  <2>1. Spawning' = Spawning /\ Alive' = Alive
    BY <1>1, <1>2, <1>3 DEF Spawning, Alive
  <2> QED
    BY <1>1, <2>1 DEF CountIsRight
<1>6. StepsAreAboutTickets'
    BY <1>1, <1>2, <1>3 DEF StepsAreAboutTickets, Tickets
<1>7. nextTicket \notin records /\ state[nextTicket] = "Pending"
    BY <1>1 DEF TicketsAreAccounted, Tickets
<1>8. \A d \in Callers, t \in Tickets :
        Claims(d, t)' <=> Claims(d, t) \/ (d = c /\ t = nextTicket)
    BY <1>1, <1>2, <1>3 DEF Claims
<1>9. \A d \in Callers, t \in Tickets : SpawnsFor(d, t)' <=> SpawnsFor(d, t)
    BY <1>1, <1>2, <1>3 DEF SpawnsFor
<1>10. \A n \in Threads, t \in Tickets : WorksOn(n, t)' <=> WorksOn(n, t)
    BY <1>1 DEF WorksOn
<1>11. ClaimsAreExclusive'
  <2>1. \A d, e \in Callers, t \in Tickets :
          Claims(d, t)' /\ Claims(e, t)' => d = e
    BY <1>7, <1>8 DEF ClaimsAreExclusive
  <2>2. ASSUME NEW d \in Callers, NEW t \in Tickets, Claims(d, t)'
        PROVE  /\ t \in records'
               /\ SpawnsFor(d, t)' => state'[t] = "Running"
               /\ ~SpawnsFor(d, t)' => state'[t] # "Running"
               /\ ~SpawnsFor(d, t)' /\ d \notin Retriers =>
                    state'[t] = "Pending"
               /\ \A n \in Threads : ~WorksOn(n, t)'
    <3>1. CASE Claims(d, t)
        BY <1>1, <1>9, <1>10, <3>1 DEF ClaimsAreExclusive
    <3>2. CASE d = c /\ t = nextTicket
      <4>1. ~SpawnsFor(c, t)
        BY <1>1 DEF SpawnsFor
      <4> QED
        BY <1>1, <1>7, <1>9, <1>10, <3>2, <4>1 DEF WorkIsExclusive
    <3> QED
        BY <1>8, <2>2, <3>1, <3>2
  <2> QED
    BY <2>1, <2>2 DEF ClaimsAreExclusive
<1>12. WorkIsExclusive'
    BY <1>1, <1>10 DEF WorkIsExclusive
<1>13. TicketsAreAccounted'
  <2>1. nextTicket \in Nat \ {0}
    BY <1>1 DEF Tickets
  <2>2. ASSUME NEW t \in 1 .. nextTicket
        PROVE  \/ t \in records'
               \/ TRUE \in reported'[t]
               \/ \E n \in Threads : /\ thread'[n].step = "completing"
                                     /\ thread'[n].ticket = t
                                     /\ thread'[n].ok = TRUE
    <3>1. CASE t = nextTicket
        BY <1>1, <3>1
    <3>2. CASE t \in 1 .. nextTicket - 1
        BY <1>1, <3>2 DEF TicketsAreAccounted
    <3>3. t = nextTicket \/ t \in 1 .. nextTicket - 1
        BY <2>1
    <3> QED
        BY <3>1, <3>2, <3>3
  <2>3. ASSUME NEW t \in Tickets, t >= nextTicket'
        PROVE  t \notin records' /\ state'[t] = "Pending"
    <3>1. t >= nextTicket /\ t # nextTicket
        BY <1>1, <2>1, <2>3 DEF Tickets
    <3> QED
        BY <1>1, <3>1 DEF TicketsAreAccounted
  <2>4. nextTicket' - 1 = nextTicket
    BY <1>1, <2>1
  <2> QED
    BY <2>2, <2>3, <2>4 DEF TicketsAreAccounted
<1>14. ShutdownIsClosed'
    BY <1>1 DEF ShutdownIsClosed
<1> QED
    BY <1>4, <1>5, <1>6, <1>11, <1>12, <1>13, <1>14

\* retryFatal, of the one caller that retries.
LEMMA RetryKeeps == ASSUME IInv, NEW c \in Retriers, retryFatal(c) PROVE IInv'
<1> USE DEF IInv
<1> DEFINE i == [step |-> "starting", todo |-> retryable, ticket |-> NoTicket]
<1>1. /\ c \in Callers
      /\ caller' = [caller EXCEPT ![c] = i]
      /\ caller[c].step = "idle" /\ caller[c].todo = {}
      /\ UNCHANGED <<records, state, nextTicket, activeThreads, shuttingDown,
                     thread, shutdown, reported>>
    BY RetriersAssumption DEF retryFatal, StepsAreAboutTickets
<1>2. /\ i \in CallerShapes
      /\ i.step = "starting" /\ i.todo = retryable
    BY DEF CallerShapes, ShapeOK, retryable
<1> HIDE DEF i
<1>3. /\ caller'[c] = i
      /\ \A d \in Callers : d # c => caller'[d] = caller[d]
    BY <1>1 DEF ShapeOK
<1>4. ShapeOK'
    BY <1>1, <1>2 DEF ShapeOK
<1>5. CountIsRight'
  <2>1. Spawning' = Spawning /\ Alive' = Alive
    BY <1>1, <1>2, <1>3 DEF Spawning, Alive
  <2> QED
    BY <1>1, <2>1 DEF CountIsRight
<1>6. StepsAreAboutTickets'
    BY <1>1, <1>2, <1>3 DEF StepsAreAboutTickets
<1>7. ASSUME NEW d \in Callers, NEW t \in retryable PROVE ~Claims(d, t)
  <2>1. t \in Tickets /\ t \in records /\ state[t] = "Fatal"
    BY DEF retryable, ShapeOK
  <2>2. Claims(d, t) => d = c
    BY <2>1, RetriersAssumption DEF ClaimsAreExclusive
  <2> QED
    BY <1>1, <2>2 DEF Claims
<1>8. \A d \in Callers, t \in Tickets :
        Claims(d, t)' <=> Claims(d, t) \/ (d = c /\ t \in retryable)
    BY <1>1, <1>2, <1>3 DEF Claims
<1>9. \A d \in Callers, t \in Tickets : SpawnsFor(d, t)' <=> SpawnsFor(d, t)
    BY <1>1, <1>2, <1>3 DEF SpawnsFor
<1>10. \A n \in Threads, t \in Tickets : WorksOn(n, t)' <=> WorksOn(n, t)
    BY <1>1 DEF WorksOn
<1>11. ClaimsAreExclusive'
  <2>1. \A d, e \in Callers, t \in Tickets :
          Claims(d, t)' /\ Claims(e, t)' => d = e
    BY <1>7, <1>8 DEF ClaimsAreExclusive
  <2>2. ASSUME NEW d \in Callers, NEW t \in Tickets, Claims(d, t)'
        PROVE  /\ t \in records'
               /\ SpawnsFor(d, t)' => state'[t] = "Running"
               /\ ~SpawnsFor(d, t)' => state'[t] # "Running"
               /\ ~SpawnsFor(d, t)' /\ d \notin Retriers =>
                    state'[t] = "Pending"
               /\ \A n \in Threads : ~WorksOn(n, t)'
    <3>1. CASE Claims(d, t)
        BY <1>1, <1>9, <1>10, <3>1 DEF ClaimsAreExclusive
    <3>2. CASE d = c /\ t \in retryable
      <4>1. ~SpawnsFor(c, t) /\ t \in records /\ state[t] = "Fatal"
        BY <1>1, <3>2 DEF SpawnsFor, retryable
      <4> QED
        BY <1>1, <1>9, <1>10, <3>2, <4>1 DEF WorkIsExclusive
    <3> QED
        BY <1>8, <2>2, <3>1, <3>2
  <2> QED
    BY <2>1, <2>2 DEF ClaimsAreExclusive
<1>12. WorkIsExclusive'
    BY <1>1, <1>10 DEF WorkIsExclusive
<1>13. TicketsAreAccounted'
    BY <1>1 DEF TicketsAreAccounted
<1>14. ShutdownIsClosed'
    BY <1>1 DEF ShutdownIsClosed, isIdle
<1> QED
    BY <1>4, <1>5, <1>6, <1>11, <1>12, <1>13, <1>14

\* start: what is claimed needs a thread.
LEMMA StartKeeps ==
    ASSUME IInv, NEW c \in Callers, NEW t \in Tickets, start(c, t) PROVE IInv'
<1> USE DEF IInv
<1> DEFINE i == [caller[c] EXCEPT !.step = "spawning", !.ticket = t]
<1>1. Claims(c, t) /\ ~SpawnsFor(c, t) /\ caller[c].step = "starting"
    BY DEF start, Claims, SpawnsFor
<1>2. /\ t \in records /\ state[t] # "Running"
      /\ \A n \in Threads : ~WorksOn(n, t)
    BY <1>1 DEF ClaimsAreExclusive
<1>3. /\ state' = [state EXCEPT ![t] = "Running"]
      /\ activeThreads' = activeThreads + 1
      /\ caller' = [caller EXCEPT ![c] = i]
      /\ UNCHANGED <<records, nextTicket, shuttingDown, thread, shutdown,
                     reported>>
    BY <1>2 DEF start, needsThread, ShapeOK
<1>4. /\ i \in CallerShapes
      /\ i.step = "spawning" /\ i.todo = caller[c].todo /\ i.ticket = t
    BY DEF CallerShapes, ShapeOK
<1> HIDE DEF i
<1>5. /\ caller'[c] = i
      /\ \A d \in Callers : d # c => caller'[d] = caller[d]
      /\ state'[t] = "Running"
      /\ \A u \in Tickets : u # t => state'[u] = state[u]
    BY <1>3 DEF ShapeOK
<1>6. ShapeOK'
    BY <1>3, <1>4 DEF ShapeOK, RecordStates
<1>7. CountIsRight'
  <2>1. Spawning' = Spawning \cup {c} /\ c \notin Spawning /\ Alive' = Alive
    BY <1>1, <1>3, <1>4, <1>5 DEF Spawning, Alive
  <2>2. Cardinality(Spawning') = Cardinality(Spawning) + 1
    BY <2>1, CountedAreFinite, FS_AddElement
  <2> QED
    BY <1>3, <2>1, <2>2, CountedAreFinite DEF CountIsRight
<1>8. StepsAreAboutTickets'
    BY <1>1, <1>3, <1>4, <1>5 DEF StepsAreAboutTickets, Claims
<1>9. \A d \in Callers, u \in Tickets : Claims(d, u)' <=> Claims(d, u)
    BY <1>1, <1>4, <1>5 DEF Claims
<1>10. \A d \in Callers, u \in Tickets :
         SpawnsFor(d, u)' <=> SpawnsFor(d, u) \/ (d = c /\ u = t)
    BY <1>1, <1>4, <1>5 DEF SpawnsFor
<1>11. \A n \in Threads, u \in Tickets : WorksOn(n, u)' <=> WorksOn(n, u)
    BY <1>3 DEF WorksOn
<1>12. ClaimsAreExclusive'
  <2>1. \A d, e \in Callers, u \in Tickets :
          Claims(d, u)' /\ Claims(e, u)' => d = e
    BY <1>9 DEF ClaimsAreExclusive
  <2>2. ASSUME NEW d \in Callers, NEW u \in Tickets, Claims(d, u)'
        PROVE  /\ u \in records'
               /\ SpawnsFor(d, u)' => state'[u] = "Running"
               /\ ~SpawnsFor(d, u)' => state'[u] # "Running"
               /\ ~SpawnsFor(d, u)' /\ d \notin Retriers =>
                    state'[u] = "Pending"
               /\ \A n \in Threads : ~WorksOn(n, u)'
    <3>1. CASE u = t
      <4>1. d = c
        BY <1>1, <1>9, <2>2, <3>1 DEF ClaimsAreExclusive
      <4> QED
        BY <1>2, <1>3, <1>5, <1>10, <1>11, <3>1, <4>1
    <3>2. CASE u # t
        BY <1>3, <1>5, <1>9, <1>10, <1>11, <2>2, <3>2 DEF ClaimsAreExclusive
    <3> QED
        BY <3>1, <3>2
  <2> QED
    BY <2>1, <2>2 DEF ClaimsAreExclusive
<1>13. WorkIsExclusive'
  <2>1. \A n \in Threads, u \in Tickets : WorksOn(n, u) => u # t
    BY <1>2
  <2> QED
    BY <1>3, <1>5, <1>11, <2>1, WorkKeeps
<1>14. TicketsAreAccounted'
  <2>1. ~(t >= nextTicket)
    BY <1>2 DEF TicketsAreAccounted
  <2>2. \A u \in Tickets : u >= nextTicket => state'[u] = state[u]
    BY <1>5, <2>1
  <2> QED
    BY <1>3, <2>2, AccountsKeep
<1>15. ShutdownIsClosed'
    BY <1>2, <1>3 DEF ShutdownIsClosed, isIdle
<1> QED
    BY <1>6, <1>7, <1>8, <1>12, <1>13, <1>14, <1>15

\* Cardinality when one is added or removed.
LEMMA CardinalityMoves ==
    ASSUME NEW S, IsFiniteSet(S), NEW e
    PROVE  /\ e \notin S => Cardinality(S \cup {e}) = Cardinality(S) + 1
           /\ e \in S => Cardinality(S \ {e}) = Cardinality(S) - 1
           /\ Cardinality(S) \in Nat
BY FS_AddElement, FS_RemoveElement, FS_CardinalityType

\* spawn: the ticket passes from the caller to the thread.
LEMMA SpawnKeeps ==
    ASSUME IInv, NEW c \in Callers, NEW n \in Threads, spawn(c, n) PROVE IInv'
<1> USE DEF IInv
<1> DEFINE t == caller[c].ticket
           i == After(c, t)
           r == [step |-> "attempting", ticket |-> t, index |-> 0, ok |-> FALSE]
<1>1. /\ thread[n].step = "none" /\ caller[c].step = "spawning"
      /\ t \in caller[c].todo /\ t \in Tickets
      /\ Claims(c, t) /\ SpawnsFor(c, t)
    BY DEF spawn, StepsAreAboutTickets, Claims, SpawnsFor, ShapeOK, CallerShapes
<1>2. /\ t \in records /\ state[t] = "Running"
      /\ \A m \in Threads : ~WorksOn(m, t)
    BY <1>1 DEF ClaimsAreExclusive
<1>3. /\ thread' = [thread EXCEPT ![n] = r]
      /\ caller' = [caller EXCEPT ![c] = i]
      /\ UNCHANGED <<records, state, nextTicket, activeThreads, shuttingDown,
                     shutdown, reported>>
    BY DEF spawn
<1>4. /\ i \in CallerShapes /\ i.step \in {"idle", "starting"}
      /\ i.todo = caller[c].todo \ {t}
      /\ i.step = "idle" => i.todo = {}
    BY AfterLeaves
<1>5. r \in ThreadShapes /\ r.step = "attempting" /\ r.ticket = t
    BY <1>1 DEF ThreadShapes
<1> HIDE DEF t, i, r
<1>6. /\ caller'[c] = i /\ thread'[n] = r
      /\ \A d \in Callers : d # c => caller'[d] = caller[d]
      /\ \A m \in Threads : m # n => thread'[m] = thread[m]
    BY <1>3 DEF ShapeOK
<1>7. ShapeOK'
    BY <1>3, <1>4, <1>5 DEF ShapeOK
<1>8. CountIsRight'
  <2>1. /\ Spawning' = Spawning \ {c} /\ c \in Spawning
        /\ Alive' = Alive \cup {n} /\ n \notin Alive
    BY <1>1, <1>4, <1>5, <1>6 DEF Spawning, Alive
  <2>2. /\ Cardinality(Spawning') = Cardinality(Spawning) - 1
        /\ Cardinality(Alive') = Cardinality(Alive) + 1
    BY <2>1, CountedAreFinite, CardinalityMoves
  <2> QED
    BY <1>3, <2>2, CountedAreFinite DEF CountIsRight
<1>9. t \in 1 .. nextTicket - 1
    BY <1>1, <1>2 DEF TicketsAreAccounted, ShapeOK, Tickets
<1>10. StepsAreAboutTickets'
    BY <1>3, <1>4, <1>5, <1>6, <1>9 DEF StepsAreAboutTickets
<1>11. \A d \in Callers, u \in Tickets :
         Claims(d, u)' => Claims(d, u) /\ ~(d = c /\ u = t)
    BY <1>1, <1>4, <1>6 DEF Claims
<1>12. \A d \in Callers, u \in Tickets :
         SpawnsFor(d, u)' <=> SpawnsFor(d, u) /\ d # c
    BY <1>4, <1>6 DEF SpawnsFor
<1>13. \A m \in Threads, u \in Tickets :
         WorksOn(m, u)' <=> WorksOn(m, u) \/ (m = n /\ u = t)
    BY <1>1, <1>5, <1>6 DEF WorksOn
<1>14. ClaimsAreExclusive'
  <2>1. ASSUME NEW d \in Callers, NEW u \in Tickets, Claims(d, u)'
        PROVE  /\ Claims(d, u)
               /\ SpawnsFor(d, u)' <=> SpawnsFor(d, u)
               /\ \A m \in Threads : WorksOn(m, u)' => WorksOn(m, u)
    <3>1. Claims(d, u) /\ u # t
        BY <1>1, <1>11, <2>1 DEF ClaimsAreExclusive
    <3>2. SpawnsFor(c, u) => u = t
        BY DEF SpawnsFor, t
    <3> QED
        BY <1>12, <1>13, <3>1, <3>2
  <2> QED
    BY <1>3, <2>1, ClaimsKeep
<1>15. WorkIsExclusive'
  <2>1. \A m \in Threads, u \in Tickets :
          WorksOn(m, u)' => IF u = t THEN m = n ELSE WorksOn(m, u)
    BY <1>2, <1>13
  <2>2. \A m \in Threads, u \in Tickets : WorksOn(m, u) => m # n
    BY <1>1 DEF WorksOn
  <2> QED
    BY <1>2, <1>3, <1>5, <1>6, <2>1, <2>2 DEF WorkIsExclusive
<1>16. TicketsAreAccounted'
    BY <1>1, <1>3, <1>6, AccountsKeep
<1>17. ShutdownIsClosed'
    BY <1>3 DEF ShutdownIsClosed, isIdle
<1> QED
    BY <1>7, <1>8, <1>10, <1>14, <1>15, <1>16, <1>17

\* The thread cannot be created: the ticket is nobody's until the next retry.
LEMMA SpawnFailsKeeps ==
    ASSUME IInv, NEW c \in Callers, spawnFails(c) PROVE IInv'
<1> USE DEF IInv
<1> DEFINE t == caller[c].ticket
           i == [caller[c] EXCEPT !.step = "reporting"]
<1>1. /\ caller[c].step = "spawning"
      /\ t \in caller[c].todo /\ t \in Tickets
      /\ Claims(c, t) /\ SpawnsFor(c, t)
    BY DEF spawnFails, StepsAreAboutTickets, Claims, SpawnsFor, ShapeOK,
           CallerShapes
<1>2. /\ t \in records
      /\ \A m \in Threads : ~WorksOn(m, t)
    BY <1>1 DEF ClaimsAreExclusive
<1>3. /\ state' = [state EXCEPT ![t] = "Fatal"]
      /\ activeThreads' = activeThreads - 1
      /\ caller' = [caller EXCEPT ![c] = i]
      /\ notifyAll
      /\ UNCHANGED <<records, nextTicket, shuttingDown, thread, reported>>
    BY DEF spawnFails, uncounted
<1>4. /\ i \in CallerShapes /\ i.step = "reporting"
      /\ i.todo = caller[c].todo /\ i.ticket = t
    BY DEF CallerShapes, ShapeOK
<1> HIDE DEF t, i
<1>5. /\ caller'[c] = i
      /\ \A d \in Callers : d # c => caller'[d] = caller[d]
      /\ \A u \in Tickets : u # t => state'[u] = state[u]
    BY <1>3 DEF ShapeOK
<1>6. /\ Spawning' = Spawning \ {c} /\ c \in Spawning
      /\ Alive' = Alive
    BY <1>1, <1>3, <1>4, <1>5 DEF Spawning, Alive
<1>7. CountIsRight'
  <2>1. Cardinality(Spawning') = Cardinality(Spawning) - 1
    BY <1>6, CountedAreFinite, CardinalityMoves
  <2> QED
    BY <1>3, <1>6, <2>1, CountedAreFinite DEF CountIsRight
<1>8. ShutdownIsClosed' /\ shutdown' \in {"none", "woken", "blocked", "clean",
                                          "timedOut"}
  <2>1. ~isIdle
    BY <1>2 DEF isIdle
  <2> QED
    BY <1>3, <2>1, NotifyKeepsClosed
<1>9. ShapeOK'
    BY <1>3, <1>4, <1>8 DEF ShapeOK, RecordStates
<1>10. StepsAreAboutTickets'
    BY <1>1, <1>3, <1>4, <1>5 DEF StepsAreAboutTickets
<1>11. \A d \in Callers, u \in Tickets :
         Claims(d, u)' => Claims(d, u) /\ ~(d = c /\ u = t)
    BY <1>1, <1>4, <1>5 DEF Claims
<1>12. \A d \in Callers, u \in Tickets :
         SpawnsFor(d, u)' <=> SpawnsFor(d, u) /\ d # c
    BY <1>4, <1>5 DEF SpawnsFor
<1>13. \A m \in Threads, u \in Tickets : WorksOn(m, u)' <=> WorksOn(m, u)
    BY <1>3 DEF WorksOn
<1>14. ClaimsAreExclusive'
  <2>1. ASSUME NEW d \in Callers, NEW u \in Tickets, Claims(d, u)'
        PROVE  /\ Claims(d, u) /\ u # t
               /\ SpawnsFor(d, u)' <=> SpawnsFor(d, u)
    <3>1. Claims(d, u) /\ u # t
        BY <1>1, <1>11, <2>1 DEF ClaimsAreExclusive
    <3>2. SpawnsFor(c, u) => u = t
        BY DEF SpawnsFor, t
    <3> QED
        BY <1>12, <3>1, <3>2
  <2> QED
    BY <1>3, <1>5, <1>13, <2>1, ClaimsKeep
<1>15. WorkIsExclusive'
    BY <1>2, <1>3, <1>5, <1>13, WorkKeeps
<1>16. TicketsAreAccounted'
  <2>1. ~(t >= nextTicket)
    BY <1>1, <1>2 DEF TicketsAreAccounted
  <2>2. \A u \in Tickets : u >= nextTicket => state'[u] = state[u]
    BY <1>5, <2>1
  <2> QED
    BY <1>3, <2>2, AccountsKeep
<1> QED
    BY <1>7, <1>8, <1>9, <1>10, <1>14, <1>15, <1>16

\* The completion of a start that failed.
LEMMA StartReportedKeeps ==
    ASSUME IInv, NEW c \in Callers, startReported(c) PROVE IInv'
<1> USE DEF IInv
<1> DEFINE t == caller[c].ticket
           i == After(c, t)
<1>1. /\ caller[c].step = "reporting"
      /\ t \in caller[c].todo /\ t \in Tickets
    BY DEF startReported, StepsAreAboutTickets, ShapeOK, CallerShapes
<1>2. /\ reported' = [reported EXCEPT ![t] = @ \cup {FALSE}]
      /\ caller' = [caller EXCEPT ![c] = i]
      /\ UNCHANGED <<records, state, nextTicket, activeThreads, shuttingDown,
                     thread, shutdown>>
    BY DEF startReported
<1>3. /\ i \in CallerShapes /\ i.step \in {"idle", "starting"}
      /\ i.todo = caller[c].todo \ {t}
      /\ i.step = "idle" => i.todo = {}
    BY AfterLeaves
<1> HIDE DEF t, i
<1>4. /\ caller'[c] = i
      /\ \A d \in Callers : d # c => caller'[d] = caller[d]
    BY <1>2 DEF ShapeOK
<1>5. /\ reported' \in [Tickets -> SUBSET BOOLEAN]
      /\ \A u \in Tickets : reported[u] \subseteq reported'[u]
    BY <1>1, <1>2 DEF ShapeOK
<1>6. ShapeOK'
    BY <1>2, <1>3, <1>5 DEF ShapeOK
<1>7. CountIsRight'
  <2>1. Spawning' = Spawning /\ Alive' = Alive
    BY <1>1, <1>2, <1>3, <1>4 DEF Spawning, Alive
  <2> QED
    BY <1>2, <2>1 DEF CountIsRight
<1>8. StepsAreAboutTickets'
    BY <1>2, <1>3, <1>4 DEF StepsAreAboutTickets
<1>9. \A d \in Callers, u \in Tickets : Claims(d, u)' => Claims(d, u)
    BY <1>1, <1>3, <1>4 DEF Claims, t
<1>10. \A d \in Callers, u \in Tickets : SpawnsFor(d, u)' <=> SpawnsFor(d, u)
    BY <1>1, <1>3, <1>4 DEF SpawnsFor
<1>11. \A m \in Threads, u \in Tickets : WorksOn(m, u)' <=> WorksOn(m, u)
    BY <1>2 DEF WorksOn
<1>12. ClaimsAreExclusive'
    BY <1>2, <1>9, <1>10, <1>11, ClaimsKeep
<1>13. WorkIsExclusive'
    BY <1>2, <1>11, WorkKeeps
<1>14. TicketsAreAccounted'
  <2>1. 1 .. nextTicket - 1 \subseteq Tickets
    BY RetirementBoundsAssumption DEF ShapeOK, Tickets
  <2> QED
    BY <1>2, <1>5, <2>1, AccountsKeep
<1>15. ShutdownIsClosed'
    BY <1>2 DEF ShutdownIsClosed, isIdle
<1> QED
    BY <1>6, <1>7, <1>8, <1>12, <1>13, <1>14, <1>15

\* attempt returned TRUE: the record is erased, the completion comes next.
LEMMA AttemptSucceedsKeeps ==
    ASSUME IInv, NEW n \in Threads, attemptSucceeds(n) PROVE IInv'
<1> USE DEF IInv
<1> DEFINE t == thread[n].ticket
           r == [thread[n] EXCEPT !.step = "completing", !.ok = TRUE]
<1>1. thread[n].step = "attempting" /\ t \in Tickets /\ WorksOn(n, t)
    BY RetirementBoundsAssumption
    DEF attemptSucceeds, StepsAreAboutTickets, WorksOn, ShapeOK, Tickets
<1>2. /\ records' = records \ {t}
      /\ thread' = [thread EXCEPT ![n] = r]
      /\ UNCHANGED <<state, nextTicket, activeThreads, shuttingDown, caller,
                     shutdown, reported>>
    BY DEF attemptSucceeds
<1>3. r \in ThreadShapes /\ r.step = "completing" /\ r.ticket = t /\ r.ok = TRUE
    BY DEF ThreadShapes, ShapeOK
<1>4. t \in 1 .. nextTicket - 1
    BY <1>1 DEF StepsAreAboutTickets
<1> HIDE DEF t, r
<1>5. /\ thread'[n] = r
      /\ \A m \in Threads : m # n => thread'[m] = thread[m]
    BY <1>2 DEF ShapeOK
<1>6. ShapeOK'
    BY <1>2, <1>3 DEF ShapeOK
<1>7. CountIsRight' /\ Alive # {}
  <2>1. Spawning' = Spawning /\ Alive' = Alive /\ n \in Alive
    BY <1>1, <1>2, <1>3, <1>5 DEF Spawning, Alive
  <2> QED
    BY <1>2, <2>1 DEF CountIsRight
<1>8. StepsAreAboutTickets'
    BY <1>2, <1>3, <1>4, <1>5 DEF StepsAreAboutTickets
<1>9. \A c \in Callers, u \in Tickets :
        /\ Claims(c, u)' <=> Claims(c, u)
        /\ SpawnsFor(c, u)' <=> SpawnsFor(c, u)
    BY <1>2 DEF Claims, SpawnsFor
<1>10. \A m \in Threads, u \in Tickets :
         WorksOn(m, u)' <=> WorksOn(m, u) /\ m # n
    BY <1>3, <1>5 DEF WorksOn
<1>11. ClaimsAreExclusive'
  <2>1. \A c \in Callers, u \in Tickets : Claims(c, u)' => u # t
    BY <1>1, <1>9 DEF ClaimsAreExclusive
  <2> QED
    BY <1>2, <1>9, <1>10, <2>1, ClaimsKeep
<1>12. WorkIsExclusive'
  <2>1. \A m \in Threads, u \in Tickets : WorksOn(m, u)' => u # t
    BY <1>1, <1>10 DEF WorkIsExclusive
  <2> QED
    BY <1>2, <1>5, <1>10, <2>1, WorkKeeps
<1>13. TicketsAreAccounted'
    BY <1>1, <1>2, <1>3, <1>5, AccountsKeep
<1>14. ShutdownIsClosed'
  <2>1. activeThreads # 0
    BY <1>7, CountedAreFinite DEF CountIsRight
  <2> QED
    BY <1>2, <2>1 DEF ShutdownIsClosed, isIdle
<1> QED
    BY <1>6, <1>7, <1>8, <1>11, <1>12, <1>13, <1>14

\* attempt returned FALSE: the thread sleeps, or gives the ticket up.
LEMMA AttemptFailsKeeps ==
    ASSUME IInv, NEW n \in Threads, attemptFails(n) PROVE IInv'
<1> USE DEF IInv
<1> DEFINE t == thread[n].ticket
           again == thread[n].index < MaxRetries
           r == [thread[n] EXCEPT
                   !.step = IF again THEN "sleeping" ELSE "completing"]
<1>1. thread[n].step = "attempting" /\ t \in Tickets /\ WorksOn(n, t)
    BY RetirementBoundsAssumption
    DEF attemptFails, StepsAreAboutTickets, WorksOn, ShapeOK, Tickets
<1>2. /\ state' = [state EXCEPT ![t] = IF again THEN "Pending" ELSE "Fatal"]
      /\ thread' = [thread EXCEPT ![n] = r]
      /\ notifyAll \/ UNCHANGED shutdown
      /\ UNCHANGED <<records, nextTicket, activeThreads, shuttingDown, caller,
                     reported>>
    BY DEF attemptFails
<1>3. /\ r \in ThreadShapes /\ r.ticket = t
      /\ r.step = IF again THEN "sleeping" ELSE "completing"
    BY DEF ThreadShapes, ShapeOK
<1>4. t \in 1 .. nextTicket - 1
    BY <1>1 DEF StepsAreAboutTickets
<1> HIDE DEF t, r, again
<1>5. /\ thread'[n] = r
      /\ \A m \in Threads : m # n => thread'[m] = thread[m]
      /\ state'[t] = IF again THEN "Pending" ELSE "Fatal"
      /\ \A u \in Tickets : u # t => state'[u] = state[u]
    BY <1>1, <1>2 DEF ShapeOK
<1>6. ShutdownIsClosed' /\ shutdown' \in {"none", "woken", "blocked", "clean",
                                          "timedOut"}
  <2>1. isIdle' <=> isIdle
    BY <1>2 DEF isIdle
  <2>2. CASE notifyAll
    BY <1>2, <2>1, <2>2, NotifyKeepsClosed
  <2>3. CASE UNCHANGED shutdown
    BY <1>2, <2>1, <2>3 DEF ShutdownIsClosed, ShapeOK
  <2> QED
    BY <1>2, <2>2, <2>3
<1>7. ShapeOK'
    BY <1>2, <1>3, <1>6 DEF ShapeOK, RecordStates
<1>8. CountIsRight'
  <2>1. Spawning' = Spawning /\ Alive' = Alive
    BY <1>1, <1>2, <1>3, <1>5 DEF Spawning, Alive
  <2> QED
    BY <1>2, <2>1 DEF CountIsRight
<1>9. StepsAreAboutTickets'
    BY <1>2, <1>3, <1>4, <1>5 DEF StepsAreAboutTickets
<1>10. \A c \in Callers, u \in Tickets :
         /\ Claims(c, u)' <=> Claims(c, u)
         /\ SpawnsFor(c, u)' <=> SpawnsFor(c, u)
    BY <1>2 DEF Claims, SpawnsFor
<1>11. \A m \in Threads, u \in Tickets : WorksOn(m, u)' => WorksOn(m, u)
    BY <1>1, <1>3, <1>5 DEF WorksOn, t
<1>12. ClaimsAreExclusive'
  <2>1. \A c \in Callers, u \in Tickets : Claims(c, u)' => u # t
    BY <1>1, <1>10 DEF ClaimsAreExclusive
  <2> QED
    BY <1>2, <1>5, <1>10, <1>11, <2>1, ClaimsKeep
<1>13. WorkIsExclusive'
  <2>1. \A m \in Threads, u \in Tickets : WorksOn(m, u)' => (m = n <=> u = t)
    BY <1>1, <1>11 DEF WorkIsExclusive, WorksOn
  <2>2. \A m \in Threads, u \in Tickets :
          WorksOn(m, u)' =>
            /\ u \in records'
            /\ state'[u] = IF thread'[m].step = "attempting" THEN "Running"
                                                             ELSE "Pending"
    <3> SUFFICES ASSUME NEW m \in Threads, NEW u \in Tickets, WorksOn(m, u)'
                 PROVE  /\ u \in records'
                        /\ state'[u] = IF thread'[m].step = "attempting"
                                         THEN "Running" ELSE "Pending"
        OBVIOUS
    <3>1. WorksOn(m, u) /\ u \in records
        BY <1>11 DEF WorkIsExclusive
    <3>2. CASE m = n
      <4>1. again /\ u = t
        BY <1>3, <1>5, <2>1, <3>2 DEF WorksOn
      <4> QED
        BY <1>2, <1>3, <1>5, <3>1, <3>2, <4>1
    <3>3. CASE m # n
      <4>1. u # t
        BY <2>1, <3>3
      <4> QED
        BY <1>2, <1>5, <3>1, <3>3, <4>1 DEF WorkIsExclusive
    <3> QED
        BY <3>2, <3>3
  <2> QED
    BY <1>11, <2>2 DEF WorkIsExclusive
<1>14. TicketsAreAccounted'
  <2>1. ~(t >= nextTicket) /\ nextTicket \in Int
    BY <1>4 DEF ShapeOK
  <2>2. \A u \in Tickets : u >= nextTicket => state'[u] = state[u]
    BY <1>5, <2>1
  <2>3. \A m \in Threads :
          thread[m].step = "completing" => thread'[m] = thread[m]
    BY <1>1, <1>5
  <2> QED
    BY <1>2, <2>2, <2>3, AccountsKeep
<1> QED
    BY <1>6, <1>7, <1>8, <1>9, <1>12, <1>13, <1>14

\* The delay before the next attempt is over.
LEMMA RetryDelayKeeps ==
    ASSUME IInv, NEW n \in Threads, retryDelayElapses(n) PROVE IInv'
<1> USE DEF IInv
<1> DEFINE t == thread[n].ticket
           r == [thread[n] EXCEPT !.step = "attempting", !.index = @ + 1]
<1>1. thread[n].step = "sleeping" /\ t \in Tickets /\ WorksOn(n, t)
    BY RetirementBoundsAssumption
    DEF retryDelayElapses, StepsAreAboutTickets, WorksOn, ShapeOK, Tickets
<1>2. /\ state' = [state EXCEPT ![t] = "Running"]
      /\ thread' = [thread EXCEPT ![n] = r]
      /\ notifyAll
      /\ UNCHANGED <<records, nextTicket, activeThreads, shuttingDown, caller,
                     reported>>
    BY DEF retryDelayElapses
<1>3. r \in ThreadShapes /\ r.ticket = t /\ r.step = "attempting"
  <2>1. thread[n] \in ThreadShapes /\ thread[n].index + 1 \in Nat
    BY DEF ThreadShapes, ShapeOK
  <2> QED
    BY <2>1 DEF ThreadShapes
<1>4. t \in 1 .. nextTicket - 1
    BY <1>1 DEF StepsAreAboutTickets
<1> HIDE DEF t, r
<1>5. /\ thread'[n] = r
      /\ \A m \in Threads : m # n => thread'[m] = thread[m]
      /\ state'[t] = "Running"
      /\ \A u \in Tickets : u # t => state'[u] = state[u]
    BY <1>1, <1>2 DEF ShapeOK
<1>6. ShutdownIsClosed' /\ shutdown' \in {"none", "woken", "blocked", "clean",
                                          "timedOut"}
  <2>1. isIdle' <=> isIdle
    BY <1>2 DEF isIdle
  <2> QED
    BY <1>2, <2>1, NotifyKeepsClosed
<1>7. ShapeOK'
    BY <1>2, <1>3, <1>6 DEF ShapeOK, RecordStates
<1>8. CountIsRight'
  <2>1. Spawning' = Spawning /\ Alive' = Alive
    BY <1>1, <1>2, <1>3, <1>5 DEF Spawning, Alive
  <2> QED
    BY <1>2, <2>1 DEF CountIsRight
<1>9. StepsAreAboutTickets'
    BY <1>2, <1>3, <1>4, <1>5 DEF StepsAreAboutTickets
<1>10. \A c \in Callers, u \in Tickets :
         /\ Claims(c, u)' <=> Claims(c, u)
         /\ SpawnsFor(c, u)' <=> SpawnsFor(c, u)
    BY <1>2 DEF Claims, SpawnsFor
<1>11. \A m \in Threads, u \in Tickets : WorksOn(m, u)' => WorksOn(m, u)
    BY <1>1, <1>3, <1>5 DEF WorksOn, t
<1>12. ClaimsAreExclusive'
  <2>1. \A c \in Callers, u \in Tickets : Claims(c, u)' => u # t
    BY <1>1, <1>10 DEF ClaimsAreExclusive
  <2> QED
    BY <1>2, <1>5, <1>10, <1>11, <2>1, ClaimsKeep
<1>13. WorkIsExclusive'
  <2>1. \A m \in Threads, u \in Tickets : WorksOn(m, u)' => (m = n <=> u = t)
    BY <1>1, <1>11 DEF WorkIsExclusive, WorksOn
  <2>2. \A m \in Threads, u \in Tickets :
          WorksOn(m, u)' =>
            /\ u \in records'
            /\ state'[u] = IF thread'[m].step = "attempting" THEN "Running"
                                                             ELSE "Pending"
    BY <1>2, <1>3, <1>5, <1>11, <2>1 DEF WorkIsExclusive
  <2> QED
    BY <1>11, <2>2 DEF WorkIsExclusive
<1>14. TicketsAreAccounted'
  <2>1. ~(t >= nextTicket) /\ nextTicket \in Int
    BY <1>4 DEF ShapeOK
  <2>2. \A u \in Tickets : u >= nextTicket => state'[u] = state[u]
    BY <1>5, <2>1
  <2>3. \A m \in Threads :
          thread[m].step = "completing" => thread'[m] = thread[m]
    BY <1>1, <1>5
  <2> QED
    BY <1>2, <2>2, <2>3, AccountsKeep
<1> QED
    BY <1>6, <1>7, <1>8, <1>9, <1>12, <1>13, <1>14

\* The completion of a run has returned.
LEMMA CompletionReturnsKeeps ==
    ASSUME IInv, NEW n \in Threads, completionReturns(n) PROVE IInv'
<1> USE DEF IInv
<1> DEFINE t == thread[n].ticket
           r == [thread[n] EXCEPT !.step = "ending"]
<1>1. /\ thread[n].step = "completing" /\ t \in 1 .. nextTicket - 1
      /\ t \in Tickets /\ thread[n].ok \in BOOLEAN
    BY RetirementBoundsAssumption
    DEF completionReturns, StepsAreAboutTickets, ShapeOK, ThreadShapes, Tickets
<1>2. /\ reported' = [reported EXCEPT ![t] = @ \cup {thread[n].ok}]
      /\ thread' = [thread EXCEPT ![n] = r]
      /\ UNCHANGED <<records, state, nextTicket, activeThreads, shuttingDown,
                     caller, shutdown>>
    BY DEF completionReturns
<1>3. r \in ThreadShapes /\ r.ticket = t /\ r.step = "ending"
    BY DEF ThreadShapes, ShapeOK
<1> HIDE DEF r
<1>4. /\ thread'[n] = r
      /\ \A m \in Threads : m # n => thread'[m] = thread[m]
    BY <1>2 DEF ShapeOK
<1>5. /\ reported' \in [Tickets -> SUBSET BOOLEAN]
      /\ \A u \in Tickets : reported[u] \subseteq reported'[u]
      /\ thread[n].ok \in reported'[t]
    BY <1>1, <1>2 DEF ShapeOK
<1>6. ShapeOK'
    BY <1>2, <1>3, <1>5 DEF ShapeOK
<1>7. CountIsRight'
  <2>1. Spawning' = Spawning /\ Alive' = Alive
    BY <1>1, <1>2, <1>3, <1>4 DEF Spawning, Alive
  <2> QED
    BY <1>2, <2>1 DEF CountIsRight
<1>8. StepsAreAboutTickets'
    BY <1>1, <1>2, <1>3, <1>4 DEF StepsAreAboutTickets
<1>9. \A c \in Callers, u \in Tickets :
        /\ Claims(c, u)' <=> Claims(c, u)
        /\ SpawnsFor(c, u)' <=> SpawnsFor(c, u)
    BY <1>2 DEF Claims, SpawnsFor
<1>10. \A m \in Threads, u \in Tickets : WorksOn(m, u)' => WorksOn(m, u) /\ m # n
    BY <1>3, <1>4 DEF WorksOn
<1>11. ClaimsAreExclusive'
    BY <1>2, <1>9, <1>10, ClaimsKeep
<1>12. WorkIsExclusive'
    BY <1>2, <1>4, <1>10, WorkKeeps
<1>13. TicketsAreAccounted'
  <2>1. 1 .. nextTicket - 1 \subseteq Tickets
    BY RetirementBoundsAssumption DEF ShapeOK, Tickets
  <2> QED
    BY <1>2, <1>4, <1>5, <2>1, AccountsKeep
<1>14. ShutdownIsClosed'
    BY <1>2 DEF ShutdownIsClosed, isIdle
<1> QED
    BY <1>6, <1>7, <1>8, <1>11, <1>12, <1>13, <1>14

\* A retirement thread ends.
LEMMA RunEndsKeeps == ASSUME IInv, NEW n \in Threads, runEnds(n) PROVE IInv'
<1> USE DEF IInv
<1>1. /\ thread[n].step = "ending"
      /\ activeThreads' = activeThreads - 1
      /\ thread' = [thread EXCEPT ![n] = NoRun]
      /\ notifyAll
      /\ UNCHANGED <<records, state, nextTicket, shuttingDown, caller,
                     reported>>
    BY DEF runEnds, uncounted, notifyEnd
<1>2. NoRun \in ThreadShapes /\ NoRun.step = "none"
    BY DEF ThreadShapes, NoRun
<1>3. /\ thread'[n] = NoRun
      /\ \A m \in Threads : m # n => thread'[m] = thread[m]
    BY <1>1 DEF ShapeOK
<1>4. Spawning' = Spawning /\ Alive' = Alive \ {n} /\ n \in Alive
    BY <1>1, <1>2, <1>3 DEF Spawning, Alive
<1>5. CountIsRight'
  <2>1. Cardinality(Alive') = Cardinality(Alive) - 1
    BY <1>4, CountedAreFinite, CardinalityMoves
  <2> QED
    BY <1>1, <1>4, <2>1, CountedAreFinite DEF CountIsRight
<1>6. ShutdownIsClosed' /\ shutdown' \in {"none", "woken", "blocked", "clean",
                                          "timedOut"}
  <2>1. ~isIdle
    BY <1>4, CountedAreFinite DEF isIdle, CountIsRight
  <2> QED
    BY <1>1, <2>1, NotifyKeepsClosed
<1>7. ShapeOK'
    BY <1>1, <1>2, <1>6 DEF ShapeOK
<1>8. StepsAreAboutTickets'
    BY <1>1, <1>2, <1>3 DEF StepsAreAboutTickets
<1>9. \A c \in Callers, u \in Tickets :
        /\ Claims(c, u)' <=> Claims(c, u)
        /\ SpawnsFor(c, u)' <=> SpawnsFor(c, u)
    BY <1>1 DEF Claims, SpawnsFor
<1>10. \A m \in Threads, u \in Tickets : WorksOn(m, u)' => WorksOn(m, u) /\ m # n
    BY <1>2, <1>3 DEF WorksOn
<1>11. ClaimsAreExclusive'
    BY <1>1, <1>9, <1>10, ClaimsKeep
<1>12. WorkIsExclusive'
    BY <1>1, <1>3, <1>10, WorkKeeps
<1>13. TicketsAreAccounted'
    BY <1>1, <1>3, AccountsKeep
<1> QED
    BY <1>5, <1>6, <1>7, <1>8, <1>11, <1>12, <1>13

\* main's checked shutdown changes nothing but itself.
LEMMA ShutdownKeeps ==
    ASSUME IInv, shutdownChecked \/ flush \/ flushTimesOut PROVE IInv'
<1> USE DEF IInv
<1>1. UNCHANGED <<records, state, nextTicket, activeThreads, caller, thread,
                  reported>>
    BY DEF shutdownChecked, flush, flushTimesOut
<1>2. CountIsRight'
  <2>1. Spawning' = Spawning /\ Alive' = Alive
    BY <1>1 DEF Spawning, Alive
  <2> QED
    BY <1>1, <2>1 DEF CountIsRight
<1>3. ClaimsAreExclusive'
    BY <1>1 DEF ClaimsAreExclusive, Claims, SpawnsFor, WorksOn
<1>4. WorkIsExclusive'
    BY <1>1 DEF WorkIsExclusive, WorksOn
<1>5. TicketsAreAccounted' /\ StepsAreAboutTickets'
    BY <1>1 DEF TicketsAreAccounted, StepsAreAboutTickets
<1>6. ShutdownIsClosed' /\ ShapeOK'
    BY <1>1 DEF ShutdownIsClosed, ShapeOK, isIdle, shutdownChecked, flush,
                flushTimesOut
<1> QED
    BY <1>2, <1>3, <1>4, <1>5, <1>6

\* Every step keeps the invariant.
LEMMA NextIsInductive == IInv /\ [Next]_vars => IInv'
<1> SUFFICES ASSUME IInv, [Next]_vars PROVE IInv'
    OBVIOUS
<1>1. ASSUME NEW c \in Callers, retire(c) PROVE IInv'
    BY <1>1, RetireKeeps
<1>2. ASSUME NEW c \in Callers, CallerStep(c) PROVE IInv'
    BY <1>2, StartKeeps, SpawnKeeps, SpawnFailsKeeps, StartReportedKeeps
    DEF CallerStep
<1>3. ASSUME NEW c \in Retriers, retryFatal(c) PROVE IInv'
    BY <1>3, RetryKeeps
<1>4. ASSUME NEW n \in Threads, ThreadStep(n) PROVE IInv'
    BY <1>4, AttemptSucceedsKeeps, AttemptFailsKeeps, RetryDelayKeeps,
       CompletionReturnsKeeps, RunEndsKeeps
    DEF ThreadStep
<1>5. CASE shutdownChecked \/ flush \/ flushTimesOut
    BY <1>5, ShutdownKeeps
<1>6. CASE UNCHANGED vars
  <2>1. ShapeOK' /\ StepsAreAboutTickets' /\ TicketsAreAccounted'
    BY <1>6 DEF vars, IInv, ShapeOK, StepsAreAboutTickets, TicketsAreAccounted
  <2>2. CountIsRight'
    BY <1>6 DEF vars, IInv, CountIsRight, Alive, Spawning
  <2>3. ClaimsAreExclusive' /\ WorkIsExclusive'
    BY <1>6 DEF vars, IInv, ClaimsAreExclusive, Claims, SpawnsFor, WorksOn,
                WorkIsExclusive
  <2>4. ShutdownIsClosed'
    BY <1>6 DEF vars, IInv, ShutdownIsClosed, isIdle
  <2> QED
    BY <2>1, <2>2, <2>3, <2>4 DEF IInv
<1> QED
    BY <1>1, <1>2, <1>3, <1>4, <1>5, <1>6 DEF Next

\* What the invariant says of the properties.
LEMMA InvariantIsOrderly == IInv => RetirementIsOrderly
<1> SUFFICES ASSUME IInv PROVE RetirementIsOrderly
    OBVIOUS
<1> USE DEF IInv
<1>1. TypeOK
    BY DEF TypeOK, ShapeOK, CountIsRight
<1>2. OneAttemptAtATime
  <2> SUFFICES ASSUME NEW m \in Threads, NEW n \in Threads,
                      thread[m].step \in {"attempting", "sleeping"},
                      thread[n].step \in {"attempting", "sleeping"},
                      thread[m].ticket = thread[n].ticket
               PROVE  m = n
    BY DEF OneAttemptAtATime
  <2>1. thread[m].ticket \in Tickets
    BY RetirementBoundsAssumption DEF StepsAreAboutTickets, ShapeOK, Tickets
  <2> QED
    BY <2>1 DEF WorkIsExclusive, WorksOn
<1>3. NoLostWakeup
    BY DEF NoLostWakeup, ShutdownIsClosed
<1>4. CleanShutdownIsComplete
  <2> SUFFICES ASSUME shutdown = "clean"
               PROVE  /\ \A t \in 1 .. nextTicket - 1 : TRUE \in reported[t]
                      /\ Alive = {}
                      /\ \A c \in Callers : caller[c].step # "spawning"
    BY DEF CleanShutdownIsComplete
  <2>1. records = {} /\ activeThreads = 0
    BY DEF ShutdownIsClosed, isIdle
  <2>2. Alive = {} /\ Spawning = {}
    BY <2>1, CountedAreFinite DEF CountIsRight
  <2> QED
    BY <2>1, <2>2 DEF TicketsAreAccounted, Alive, Spawning
<1> QED
    BY <1>1, <1>2, <1>3, <1>4 DEF RetirementIsOrderly

-----------------------------------------------------------------------------
\* The invariant holds in every state the manager reaches.
THEOREM ManagerInvariant == Spec => []IInv
BY InitIsInductive, NextIsInductive, PTL DEF Spec

\* Threads, retries and the checked shutdown do not cross: a cleanup is never
\* attempted by two threads, main does not sleep on without a reason, and after
\* a clean shutdown every retirement that was accepted has succeeded.
THEOREM ManagerIsOrderly == Spec => []RetirementIsOrderly
BY ManagerInvariant, InvariantIsOrderly, PTL

-----------------------------------------------------------------------------
\* The Host: the inductive invariant.

AppShapes == [at : {"absent", "run", "reserving", "down"},
              phase : {"NotStarted", "Verifying", "Applied", "Failed"},
              startup : Nat, next : Nat, pending : SUBSET Nat]
QueueItems == [op : {"startup", "package", "shutdown"}, id : Nat]
LifeShapes == [at : {"loop", "submit", "submitting", "gone"},
               queue : Seq(QueueItems), accepting : BOOLEAN, reserved : Int,
               initialized : BOOLEAN, registered : BOOLEAN, armed : BOOLEAN,
               stopped : BOOLEAN, retry : BOOLEAN, quitting : BOOLEAN,
               exiting : BOOLEAN, ticket : Tickets \cup {NoTicket}]
HandoffShapes == [state : {"Pending", "Completed"},
                  ticket : Tickets \cup {NoTicket}]

HostShapeOK ==
    /\ app \in AppShapes
    /\ life \in LifeShapes
    /\ handoff \in HandoffShapes
    /\ guard \in {"coordinators", "closed", "handoff", "runtime", "retirement",
                  "lost"}

\* The shutdown is the last event of the queue, and only the events before it
\* are reserved.
EndsWithShutdown(q) == q # <<>> /\ q[Len(q)].op = "shutdown"
QueueIsReserved ==
    /\ \A i \in 1 .. Len(life.queue) :
         life.queue[i].op = "shutdown" => i = Len(life.queue)
    /\ life.reserved = IF EndsWithShutdown(life.queue)
                         THEN Len(life.queue) - 1 ELSE Len(life.queue)
    /\ life.reserved <= MaximumPendingOperations
    /\ EndsWithShutdown(life.queue) =>
         app.at = "down" /\ ~life.stopped /\ ~life.quitting

\* What the lifecycle thread was told follows where the GUI thread is.
StagesMatch ==
    /\ app.at # "down" =>
         /\ ~life.armed /\ ~life.registered /\ ~life.stopped /\ ~life.quitting
         /\ life.at = "loop"
    /\ app.at \in {"absent", "run"} => handoff.ticket = NoTicket
    /\ app.at = "down" => (life.registered <=> handoff.ticket # NoTicket)
    /\ app.at = "down" /\ life.at # "gone" => life.armed

\* The coordinators are shut down once; what they could not close goes to the
\* handoff if there is one, and else stays with the runtime.
GuardMatches ==
    /\ guard = "coordinators" <=> ~life.stopped
    /\ handoffCompleted <=> life.stopped /\ life.registered
    /\ guard = "handoff" => life.registered
    /\ guard \in {"runtime", "retirement", "lost"} => ~life.registered
    /\ life.ticket # NoTicket =>
         life.stopped /\ guard \in {"retirement", "closed"}

\* The runtime submits a cleanup after the shutdown, and does not end before.
SubmissionMatches ==
    /\ life.at # "loop" => life.stopped
    /\ life.at = "submit" => guard = "runtime" /\ (life.quitting => life.exiting)
    /\ life.at \in {"submitting", "gone"} => guard # "runtime"
    /\ life.exiting => life.at # "loop"
    /\ life.retry => life.at = "loop" /\ guard = "runtime" /\ ~life.quitting
    /\ life.at = "loop" /\ life.quitting /\ life.stopped => guard # "runtime"

\* The handoff's retirement succeeds only when there is nothing left to close.
HandoffIsRetained ==
    handoff.ticket # NoTicket =>
      /\ handoff.ticket < nextTicket
      /\ handoff.ticket \notin records => handoffCompleted /\ guard = "closed"

HostInv ==
    /\ HostShapeOK
    /\ QueueIsReserved
    /\ StagesMatch
    /\ GuardMatches
    /\ SubmissionMatches
    /\ HandoffIsRetained
-----------------------------------------------------------------------------
\* The Host uses the manager as the manager's specification allows.

\* The Host starts where the manager starts.
LEMMA HostInitRefines == HostInit => Init
BY DEF HostInit

\* The GUI thread and the lifecycle thread retire as callers of the manager.
LEMMA OperationsRefine ==
    ASSUME \/ beginPackageStartup \/ requestPackageOperation
           \/ stopApplication \/ GuiStep \/ LifecycleStep
    PROVE  Next \/ UNCHANGED vars
<1>1. CASE beginPackageStartup
    BY <1>1 DEF beginPackageStartup
<1>2. CASE requestPackageOperation
    BY <1>2 DEF requestPackageOperation
<1>3. CASE stopApplication
    BY <1>3, HostAssumption DEF stopApplication, reserveShutdownHandoff, Next
<1>4. CASE GuiStep
    BY <1>4 DEF GuiStep, handlePackageOperationResult, queueShutdown
<1>5. CASE LifecycleStep
  <2>1. CASE submitShutdownCleanup
    BY <2>1, HostAssumption DEF submitShutdownCleanup, Next
  <2>2. CASE startupOperation \/ packageOperation
    BY <2>2 DEF startupOperation, packageOperation
  <2>3. CASE shutdownEvent \/ threadFinishes
    BY <2>3 DEF shutdownEvent, threadFinishes
  <2>4. CASE submitRefused \/ submitReturns \/ shutdownCleanupRetry
    BY <2>4 DEF submitRefused, submitReturns, shutdownCleanupRetry
  <2> QED
    BY <1>5, <2>1, <2>2, <2>3, <2>4 DEF LifecycleStep
<1> QED
    BY <1>1, <1>2, <1>3, <1>4, <1>5

\* Every step of the Host is a step of the manager, or leaves it alone.
LEMMA HostStepRefines == [HostNext]_allVars => [Next]_vars
<1> SUFFICES ASSUME [HostNext]_allVars PROVE Next \/ UNCHANGED vars
    OBVIOUS
<1>1. CASE \/ beginPackageStartup \/ requestPackageOperation
           \/ stopApplication \/ GuiStep \/ LifecycleStep
    BY <1>1, OperationsRefine
<1>2. ASSUME NEW c \in Callers, clientRetires(c) \/ HostCallerStep(c)
      PROVE  Next
    BY <1>2 DEF clientRetires, HostCallerStep, Next
<1>3. ASSUME NEW c \in Retriers, clientRetries(c) PROVE Next
    BY <1>3 DEF clientRetries, Next
<1>4. ASSUME NEW n \in Threads, HostThreadStep(n) PROVE Next
    BY <1>4 DEF HostThreadStep, cleanupSucceeds, cleanupFails, ThreadStep, Next
<1>5. CASE mainShutsDown
    BY <1>5 DEF mainShutsDown, Next
<1>6. CASE (flush \/ flushTimesOut) /\ UNCHANGED hostVars
    BY <1>6 DEF Next
<1>7. CASE UNCHANGED allVars
    BY <1>7 DEF allVars, vars
<1> QED
    BY <1>1, <1>2, <1>3, <1>4, <1>5, <1>6, <1>7 DEF HostNext

\* HostLifecycle implements WorkerRetirementManager: whatever the GUI thread
\* and the lifecycle thread do, the manager sees callers of retire.
THEOREM HostUsesTheManager == HostSpec => Spec
BY HostInitRefines, HostStepRefines, PTL DEF HostSpec, Spec

\* So the retirements of the Host are orderly, those of its shutdown included.
THEOREM HostIsOrderly == HostSpec => []RetirementIsOrderly
BY HostUsesTheManager, ManagerIsOrderly, PTL

-----------------------------------------------------------------------------
\* Queues of the lifecycle thread.

\* What a queue holds once an operation is appended.
LEMMA AppendedQueue ==
    ASSUME NEW q \in Seq(QueueItems), NEW item \in QueueItems
    PROVE  /\ Append(q, item) \in Seq(QueueItems)
           /\ Len(Append(q, item)) = Len(q) + 1
           /\ \A i \in 1 .. Len(q) : Append(q, item)[i] = q[i]
           /\ Append(q, item)[Len(q) + 1] = item
           /\ EndsWithShutdown(Append(q, item)) <=> item.op = "shutdown"
BY DEF EndsWithShutdown

\* What is left of a queue once its head is taken.
LEMMA TakenQueue ==
    ASSUME NEW q \in Seq(QueueItems), q # <<>>,
           \A i \in 1 .. Len(q) : q[i].op = "shutdown" => i = Len(q)
    PROVE  /\ Tail(q) \in Seq(QueueItems)
           /\ Len(Tail(q)) = Len(q) - 1
           /\ \A i \in 1 .. Len(Tail(q)) :
                Tail(q)[i].op = "shutdown" => i = Len(Tail(q))
           /\ Head(q).op = "shutdown" =>
                EndsWithShutdown(q) /\ Len(q) = 1 /\ Tail(q) = <<>>
           /\ Head(q).op # "shutdown" =>
                (EndsWithShutdown(Tail(q)) <=> EndsWithShutdown(q))
<1> DEFINE n == Len(q)
           t == Tail(q)
<1>1. n \in Nat \ {0}
    BY EmptySeq
<1>2. t \in Seq(QueueItems) /\ Len(t) = n - 1
    BY HeadTailProperties
<1>3. \A i \in 1 .. n - 1 : t[i] = q[i + 1]
    BY <1>2, HeadTailProperties
<1>4. Head(q) = q[1]
    OBVIOUS
<1>5. \A i \in 1 .. n : q[i].op = "shutdown" => i = n
    OBVIOUS
<1>6. t = <<>> <=> n = 1
  <2> HIDE DEF n, t
  <2> QED
    BY <1>1, <1>2, EmptySeq
<1>7. EndsWithShutdown(q) <=> q[n].op = "shutdown"
    BY DEF EndsWithShutdown
<1>8. EndsWithShutdown(t) <=> n # 1 /\ t[n - 1].op = "shutdown"
    BY <1>2, <1>6 DEF EndsWithShutdown
<1> HIDE DEF n, t
<1>9. \A i \in 1 .. n - 1 : t[i].op = "shutdown" => i = n - 1
  <2> SUFFICES ASSUME NEW i \in 1 .. n - 1, t[i].op = "shutdown"
               PROVE  i = n - 1
    OBVIOUS
  <2>1. i + 1 \in 1 .. n /\ q[i + 1].op = "shutdown"
    BY <1>1, <1>3
  <2>2. i + 1 = n
    BY <1>5, <2>1
  <2> QED
    BY <1>1, <2>2
<1>10. n = 1 \/ t[n - 1] = q[n]
  <2> SUFFICES ASSUME n # 1 PROVE t[n - 1] = q[n]
    OBVIOUS
  <2>1. n - 1 \in 1 .. n - 1 /\ (n - 1) + 1 = n
    BY <1>1
  <2> QED
    BY <1>3, <2>1
<1>11. ASSUME q[1].op = "shutdown"
       PROVE  EndsWithShutdown(q) /\ n = 1 /\ t = <<>>
  <2>1. 1 \in 1 .. n
    BY <1>1
  <2>2. n = 1
    BY <1>5, <1>11, <2>1
  <2> QED
    BY <1>6, <1>7, <1>11, <2>2
<1>12. ASSUME q[1].op # "shutdown"
       PROVE  EndsWithShutdown(t) <=> EndsWithShutdown(q)
    BY <1>1, <1>7, <1>8, <1>10, <1>12
<1> QED
    BY <1>2, <1>4, <1>9, <1>11, <1>12 DEF n, t
-----------------------------------------------------------------------------
\* The end of the Host: the lemmas.

\* The invariant holds when the Host starts.
LEMMA HostInitIsInductive == HostInit => HostInv
<1> SUFFICES ASSUME HostInit PROVE HostInv
    OBVIOUS
<1>1. <<>> \in Seq(QueueItems) /\ Len(<<>>) = 0
    BY EmptySeq
<1>2. HostShapeOK
    BY <1>1 DEF HostInit, HostShapeOK, AppShapes, LifeShapes, HandoffShapes
<1>3. life.queue = <<>> /\ life.reserved = 0 /\ ~EndsWithShutdown(life.queue)
    BY DEF HostInit, EndsWithShutdown
<1>4. QueueIsReserved
    BY <1>1, <1>3, HostAssumption DEF QueueIsReserved
<1>5. StagesMatch /\ GuardMatches /\ SubmissionMatches /\ HandoffIsRetained
    BY DEF HostInit, StagesMatch, GuardMatches, SubmissionMatches,
           HandoffIsRetained, handoffCompleted
<1> QED
    BY <1>2, <1>4, <1>5 DEF HostInv

\* The manager's own steps, while none of its records is erased.
LEMMA ManagerStepsKeep ==
    ASSUME HostInv, UNCHANGED hostVars,
           nextTicket \in Int, nextTicket' \in Int, nextTicket <= nextTicket',
           records \subseteq records'
    PROVE  HostInv'
<1> USE DEF HostInv, hostVars
<1>1. HostShapeOK' /\ QueueIsReserved' /\ StagesMatch'
    BY DEF HostShapeOK, QueueIsReserved, StagesMatch
<1>2. GuardMatches' /\ SubmissionMatches'
    BY DEF GuardMatches, SubmissionMatches, handoffCompleted
<1>3. HandoffIsRetained'
  <2> SUFFICES ASSUME handoff.ticket # NoTicket
               PROVE  /\ handoff.ticket < nextTicket'
                      /\ handoff.ticket \notin records' =>
                           handoffCompleted /\ guard = "closed"
    BY DEF HandoffIsRetained, handoffCompleted
  <2>1. handoff.ticket \in Int
    BY DEF HostShapeOK, HandoffShapes, Tickets, NoTicket
  <2> QED
    BY <2>1 DEF HandoffIsRetained
<1> QED
    BY <1>1, <1>2, <1>3

\* An operation is queued, or refused, while the application runs.
LEMMA QueuedKeeps ==
    ASSUME HostInv, app.at = "run", app' \in AppShapes, app'.at = "run",
           NEW kind \in {"startup", "package"},
           queued(kind) \/ refused,
           UNCHANGED <<records, nextTicket, handoff, guard>>
    PROVE  HostInv'
<1> USE DEF HostInv
<1>1. CASE refused
  <2>1. UNCHANGED <<life, handoff, guard>>
    BY <1>1 DEF refused
  <2>2. HostShapeOK' /\ QueueIsReserved' /\ StagesMatch'
    BY <2>1 DEF HostShapeOK, QueueIsReserved, StagesMatch
  <2>3. GuardMatches' /\ SubmissionMatches' /\ HandoffIsRetained'
    BY <2>1 DEF GuardMatches, SubmissionMatches, HandoffIsRetained,
                handoffCompleted
  <2> QED
    BY <2>2, <2>3
<1>2. CASE queued(kind)
  <2> DEFINE item == [op |-> kind, id |-> app.next]
             l == [life EXCEPT !.reserved = @ + 1, !.queue = Append(@, item)]
  <2>1. life' = l /\ life.reserved < MaximumPendingOperations
    BY <1>2 DEF queued, mayReserve
  <2>2. item \in QueueItems /\ item.op # "shutdown"
    BY DEF HostShapeOK, AppShapes, QueueItems
  <2> HIDE DEF item
  <2>3. life.queue \in Seq(QueueItems) /\ life.reserved \in Int
    BY DEF HostShapeOK, LifeShapes
  <2>4. /\ Append(life.queue, item) \in Seq(QueueItems)
        /\ ~EndsWithShutdown(Append(life.queue, item))
        /\ Len(Append(life.queue, item)) = Len(life.queue) + 1
        /\ \A i \in 1 .. Len(life.queue) :
             Append(life.queue, item)[i] = life.queue[i]
        /\ Append(life.queue, item)[Len(life.queue) + 1] = item
    BY <2>2, <2>3, AppendedQueue
  <2>5. l \in LifeShapes
    <3>1. life \in LifeShapes /\ life.reserved + 1 \in Int
        BY <2>3 DEF HostShapeOK
    <3> QED
        BY <2>4, <3>1 DEF LifeShapes
  <2>6. /\ l.queue = Append(life.queue, item) /\ l.reserved = life.reserved + 1
        /\ l.at = life.at /\ l.registered = life.registered
        /\ l.armed = life.armed /\ l.stopped = life.stopped
        /\ l.retry = life.retry /\ l.quitting = life.quitting
        /\ l.exiting = life.exiting /\ l.ticket = life.ticket
    BY DEF HostShapeOK, LifeShapes
  <2> HIDE DEF l
  <2>7. HostShapeOK'
    BY <2>1, <2>5 DEF HostShapeOK
  <2>8. QueueIsReserved'
    <3>1. ~EndsWithShutdown(life.queue)
        BY DEF QueueIsReserved
    <3>2. ~EndsWithShutdown(life'.queue)
        BY <2>1, <2>4, <2>6
    <3>3. /\ Len(life'.queue) = Len(life.queue) + 1
          /\ life'.reserved = life.reserved + 1
          /\ Len(life.queue) \in Nat
        BY <2>1, <2>3, <2>4, <2>6
    <3>4. \A i \in 1 .. Len(life'.queue) :
            life'.queue[i].op = "shutdown" => i = Len(life'.queue)
      <4> SUFFICES ASSUME NEW i \in 1 .. Len(life'.queue),
                          life'.queue[i].op = "shutdown"
                   PROVE  FALSE
        OBVIOUS
      <4>1. i \in 1 .. Len(life.queue) + 1
        BY <3>3
      <4>2. life'.queue = Append(life.queue, item)
        BY <2>1, <2>6
      <4>3. i \in 1 .. Len(life.queue)
        BY <2>2, <2>4, <3>3, <4>1, <4>2
      <4>4. life.queue[i].op = "shutdown"
        BY <2>4, <4>2, <4>3
      <4>5. i = Len(life.queue)
        BY <4>3, <4>4 DEF QueueIsReserved
      <4>6. life.queue # <<>>
        BY <2>3, <4>3, EmptySeq
      <4> QED
        BY <3>1, <4>4, <4>5, <4>6 DEF EndsWithShutdown
    <3>5. life.reserved = Len(life.queue)
        BY <3>1 DEF QueueIsReserved
    <3>6. life'.reserved <= MaximumPendingOperations
        BY <2>1, <2>3, <3>3, HostAssumption
    <3> QED
        BY <3>2, <3>3, <3>4, <3>5, <3>6 DEF QueueIsReserved
  <2>9. StagesMatch'
    BY <2>1, <2>6 DEF StagesMatch
  <2>10. GuardMatches' /\ SubmissionMatches' /\ HandoffIsRetained'
    BY <2>1, <2>6 DEF GuardMatches, SubmissionMatches, HandoffIsRetained,
                      handoffCompleted
  <2> QED
    BY <2>7, <2>8, <2>9, <2>10
<1> QED
    BY <1>1, <1>2

\* The GUI thread starts an operation.
LEMMA OperationsKeep ==
    ASSUME HostInv, beginPackageStartup \/ requestPackageOperation
    PROVE  HostInv'
<1>1. /\ app.at = "run"
      /\ \/ queued("startup") \/ refused
         \/ queued("package")
      /\ UNCHANGED <<records, nextTicket, handoff, guard>>
    BY DEF beginPackageStartup, requestPackageOperation, vars
<1>2. app' \in AppShapes /\ app'.at = "run"
  <2>1. /\ app \in AppShapes /\ app.next + 1 \in Nat /\ app.next \in Nat
        /\ app.pending \cup {app.next} \in SUBSET Nat
    BY DEF HostInv, HostShapeOK, AppShapes
  <2>2. CASE beginPackageStartup
    <3>1. \/ app' = [app EXCEPT !.phase = "Verifying", !.startup = app.next,
                               !.pending = @ \cup {app.next}, !.next = @ + 1]
          \/ app' = [app EXCEPT !.phase = "Failed", !.startup = app.next,
                               !.next = @ + 1]
        BY <2>2 DEF beginPackageStartup
    <3> QED
        BY <1>1, <2>1, <3>1 DEF AppShapes
  <2>3. CASE requestPackageOperation
    <3>1. \/ app' = [app EXCEPT !.pending = @ \cup {app.next}, !.next = @ + 1]
          \/ app' = [app EXCEPT !.next = @ + 1]
        BY <2>3 DEF requestPackageOperation
    <3> QED
        BY <1>1, <2>1, <3>1 DEF AppShapes
  <2> QED
    BY <2>2, <2>3
<1> QED
    BY <1>1, <1>2, QueuedKeeps

\* An event is handled: only the operations that are pending change.
LEMMA HandleKeeps ==
    ASSUME HostInv, handlePackageOperationResult PROVE HostInv'
<1> USE DEF HostInv
<1>1. app.at = "run" /\ UNCHANGED <<vars, life, handoff, guard>>
    BY DEF handlePackageOperationResult
<1>2. app' \in AppShapes /\ app'.at = "run"
    BY <1>1 DEF handlePackageOperationResult, HostShapeOK, AppShapes
<1>3. HostShapeOK' /\ QueueIsReserved' /\ StagesMatch'
    BY <1>1, <1>2 DEF HostShapeOK, QueueIsReserved, StagesMatch
<1>4. GuardMatches' /\ SubmissionMatches' /\ HandoffIsRetained'
    BY <1>1 DEF GuardMatches, SubmissionMatches, HandoffIsRetained,
                handoffCompleted, vars
<1> QED
    BY <1>3, <1>4
\* ~HostApplication reserves the retirement of the handoff.
LEMMA StopKeeps ==
    ASSUME HostInv, ShapeOK, stopApplication PROVE HostInv'
<1> USE DEF HostInv
<1> DEFINE l == [life EXCEPT !.accepting = FALSE]
<1>1. /\ app.at = "run" /\ app' = [app EXCEPT !.at = "reserving"]
      /\ life' = l /\ UNCHANGED guard
      /\ handoff.ticket = NoTicket
    BY DEF stopApplication, StagesMatch
<1>2. \/ UNCHANGED <<vars, handoff>>
      \/ /\ handoff' = [handoff EXCEPT !.ticket = nextTicket]
         /\ nextTicket \in Tickets /\ nextTicket' = nextTicket + 1
         /\ records' = records \cup {nextTicket}
    BY DEF stopApplication, reserveShutdownHandoff, retire
<1>3. /\ handoff' \in HandoffShapes /\ handoff'.state = handoff.state
      /\ \/ UNCHANGED vars /\ handoff'.ticket = NoTicket
         \/ /\ handoff'.ticket = nextTicket
            /\ nextTicket \in Tickets /\ nextTicket' = nextTicket + 1
            /\ nextTicket \in records'
    BY <1>1, <1>2 DEF HostShapeOK, HandoffShapes
<1>4. /\ l \in LifeShapes
      /\ l.queue = life.queue /\ l.reserved = life.reserved
      /\ l.at = life.at /\ l.registered = life.registered
      /\ l.armed = life.armed /\ l.stopped = life.stopped
      /\ l.retry = life.retry /\ l.quitting = life.quitting
      /\ l.exiting = life.exiting /\ l.ticket = life.ticket
    BY DEF HostShapeOK, LifeShapes
<1>5. app' \in AppShapes /\ app'.at = "reserving"
    BY <1>1 DEF HostShapeOK, AppShapes
<1> HIDE DEF l
<1>6. HostShapeOK'
    BY <1>1, <1>3, <1>4, <1>5 DEF HostShapeOK
<1>7. QueueIsReserved'
    BY <1>1, <1>4 DEF QueueIsReserved, StagesMatch
<1>8. StagesMatch'
    BY <1>1, <1>4, <1>5 DEF StagesMatch
<1>9. GuardMatches' /\ SubmissionMatches'
    BY <1>1, <1>3, <1>4 DEF GuardMatches, SubmissionMatches, handoffCompleted
<1>10. HandoffIsRetained'
    BY <1>3 DEF HandoffIsRetained, Tickets
<1> QED
    BY <1>6, <1>7, <1>8, <1>9, <1>10

\* The shutdown is queued after everything else, or the thread told to quit.
LEMMA QueueShutdownKeeps ==
    ASSUME HostInv, queueShutdown PROVE HostInv'
<1> USE DEF HostInv
<1> DEFINE item == [op |-> "shutdown", id |-> 0]
           ready == [life EXCEPT !.registered = handoff.ticket # NoTicket,
                                 !.armed = TRUE]
           q == Append(life.queue, item)
           l1 == [ready EXCEPT !.queue = q]
           l2 == [ready EXCEPT !.quitting = TRUE]
<1>1. /\ app.at = "reserving" /\ app' = [app EXCEPT !.at = "down"]
      /\ life' = l1 \/ life' = l2
      /\ UNCHANGED <<vars, handoff, guard>>
  <2>1. ready.queue = life.queue
    BY DEF HostShapeOK, LifeShapes
  <2> QED
    BY <2>1 DEF queueShutdown
<1>2. item \in QueueItems /\ item.op = "shutdown"
    BY DEF QueueItems
<1>3. life.queue \in Seq(QueueItems) /\ life \in LifeShapes
    BY DEF HostShapeOK, LifeShapes
<1> HIDE DEF item
<1>4. /\ q \in Seq(QueueItems) /\ Len(q) = Len(life.queue) + 1
      /\ \A i \in 1 .. Len(life.queue) : q[i] = life.queue[i]
      /\ EndsWithShutdown(q)
    BY <1>2, <1>3, AppendedQueue
<1> HIDE DEF q
<1>5. /\ ~life.armed /\ ~life.registered /\ ~life.stopped /\ ~life.quitting
      /\ life.at = "loop" /\ ~EndsWithShutdown(life.queue)
      /\ life.reserved = Len(life.queue)
    BY <1>1 DEF StagesMatch, QueueIsReserved
<1>6. /\ life' \in LifeShapes
      /\ life'.reserved = life.reserved /\ life'.at = life.at
      /\ life'.registered = (handoff.ticket # NoTicket)
      /\ life'.armed = TRUE
      /\ life'.stopped = life.stopped /\ life'.retry = life.retry
      /\ life'.exiting = life.exiting /\ life'.ticket = life.ticket
      /\ \/ life'.queue = q /\ life'.quitting = life.quitting
         \/ life'.queue = life.queue /\ life'.quitting = TRUE
  <2>1. CASE life' = l1
    BY <1>3, <1>4, <2>1 DEF LifeShapes
  <2>2. CASE life' = l2
    BY <1>3, <2>2 DEF LifeShapes
  <2> QED
    BY <1>1, <2>1, <2>2
<1>7. app' \in AppShapes /\ app'.at = "down"
    BY <1>1 DEF HostShapeOK, AppShapes
<1> HIDE DEF ready, l1, l2
<1>8. HostShapeOK'
    BY <1>1, <1>6, <1>7 DEF HostShapeOK
<1>9. QueueIsReserved'
  <2>1. CASE life'.queue = life.queue
    BY <1>5, <1>6, <2>1 DEF QueueIsReserved
  <2>2. CASE life'.queue = q /\ life'.quitting = life.quitting
    <3>1. Len(life.queue) \in Nat
        BY <1>3
    <3>2. \A i \in 1 .. Len(q) : q[i].op = "shutdown" => i = Len(q)
      <4> SUFFICES ASSUME NEW i \in 1 .. Len(life.queue),
                          life.queue[i].op = "shutdown"
                   PROVE  FALSE
        BY <1>4, <3>1
      <4>1. i = Len(life.queue) /\ life.queue # <<>>
        BY <1>3, EmptySeq DEF QueueIsReserved
      <4> QED
        BY <1>5, <4>1 DEF EndsWithShutdown
    <3>3. life'.reserved = Len(q) - 1
        BY <1>4, <1>5, <1>6, <3>1
    <3> QED
        BY <1>4, <1>5, <1>6, <1>7, <2>2, <3>2, <3>3 DEF QueueIsReserved
  <2> QED
    BY <1>6, <2>1, <2>2
<1>10. StagesMatch'
    BY <1>1, <1>5, <1>6, <1>7 DEF StagesMatch
<1>11. GuardMatches' /\ SubmissionMatches' /\ HandoffIsRetained'
    BY <1>1, <1>5, <1>6
    DEF GuardMatches, SubmissionMatches, HandoffIsRetained, handoffCompleted,
        vars
<1> QED
    BY <1>8, <1>9, <1>10, <1>11
\* The lifecycle thread takes a package operation.
LEMMA TakenOperationKeeps ==
    ASSUME HostInv, startupOperation \/ packageOperation PROVE HostInv'
<1> USE DEF HostInv
<1>1. /\ life.queue # <<>> /\ Head(life.queue).op # "shutdown"
      /\ \/ \E made \in BOOLEAN : life' = [Released EXCEPT !.initialized = made]
         \/ life' = Released
      /\ UNCHANGED <<vars, app, handoff, guard>>
    BY DEF startupOperation, packageOperation, Take
<1>2. /\ life \in LifeShapes /\ life.queue \in Seq(QueueItems)
      /\ life.reserved - 1 \in Int /\ life.reserved \in Int
    BY DEF HostShapeOK, LifeShapes
<1> DEFINE q == Tail(life.queue)
<1>3. /\ q \in Seq(QueueItems) /\ Len(q) = Len(life.queue) - 1
      /\ \A i \in 1 .. Len(q) : q[i].op = "shutdown" => i = Len(q)
      /\ EndsWithShutdown(q) <=> EndsWithShutdown(life.queue)
    BY <1>1, <1>2, TakenQueue DEF QueueIsReserved
<1>4. /\ Taken.queue = q /\ Taken.reserved = life.reserved /\ Taken \in LifeShapes
      /\ Released = [Taken EXCEPT !.reserved = life.reserved - 1]
      /\ Taken.at = life.at /\ Taken.registered = life.registered
      /\ Taken.armed = life.armed /\ Taken.stopped = life.stopped
      /\ Taken.retry = life.retry /\ Taken.quitting = life.quitting
      /\ Taken.exiting = life.exiting /\ Taken.ticket = life.ticket
    BY <1>2, <1>3 DEF Taken, Released, LifeShapes
<1> HIDE DEF q
<1>5. /\ life' \in LifeShapes
      /\ life'.queue = q /\ life'.reserved = life.reserved - 1
      /\ life'.at = life.at /\ life'.registered = life.registered
      /\ life'.armed = life.armed /\ life'.stopped = life.stopped
      /\ life'.retry = life.retry /\ life'.quitting = life.quitting
      /\ life'.exiting = life.exiting /\ life'.ticket = life.ticket
  <2> DEFINE l == [Taken EXCEPT !.reserved = life.reserved - 1]
  <2>1. /\ l \in LifeShapes
        /\ l.queue = q /\ l.reserved = life.reserved - 1
        /\ l.at = life.at /\ l.registered = life.registered
        /\ l.armed = life.armed /\ l.stopped = life.stopped
        /\ l.retry = life.retry /\ l.quitting = life.quitting
        /\ l.exiting = life.exiting /\ l.ticket = life.ticket
    BY <1>2, <1>4 DEF LifeShapes
  <2>2. \/ \E made \in BOOLEAN : life' = [l EXCEPT !.initialized = made]
        \/ life' = l
    BY <1>1, <1>4
  <2> HIDE DEF l
  <2> QED
    BY <2>1, <2>2 DEF LifeShapes
<1>6. HostShapeOK'
    BY <1>1, <1>5 DEF HostShapeOK
<1>7. QueueIsReserved'
  <2>1. Len(life.queue) \in Nat
    BY <1>2
  <2>2. life'.reserved = IF EndsWithShutdown(q) THEN Len(q) - 1 ELSE Len(q)
    BY <1>3, <1>5, <2>1 DEF QueueIsReserved
  <2>3. life'.reserved <= MaximumPendingOperations
    BY <1>2, <1>5, HostAssumption DEF QueueIsReserved
  <2> QED
    BY <1>1, <1>3, <1>5, <2>2, <2>3 DEF QueueIsReserved
<1>8. StagesMatch'
    BY <1>1, <1>5 DEF StagesMatch
<1>9. GuardMatches' /\ SubmissionMatches' /\ HandoffIsRetained'
    BY <1>1, <1>5
    DEF GuardMatches, SubmissionMatches, HandoffIsRetained, handoffCompleted,
        vars
<1> QED
    BY <1>6, <1>7, <1>8, <1>9

\* The coordinators are shut down, from the event or when the thread ends.
LEMMA CoordinatorsKeep ==
    ASSUME HostInv, NEW l \in LifeShapes, shutdownCoordinators(l),
           app.at = "down", ~life.stopped, life.at = "loop",
           UNCHANGED <<app, records, nextTicket>>,
           \A i \in 1 .. Len(l.queue) : l.queue[i].op # "shutdown",
           ~EndsWithShutdown(l.queue),
           l.reserved = Len(l.queue), l.reserved <= MaximumPendingOperations,
           l.at = "loop", l.registered = life.registered, l.armed = life.armed,
           l.retry = life.retry, l.ticket = life.ticket, ~l.stopped,
           l.exiting <=> l.quitting
    PROVE  HostInv'
<1> USE DEF HostInv
<1>1. PICK closes \in BOOLEAN :
        /\ guard' = IF closes THEN "closed"
                    ELSE IF l.registered THEN "handoff" ELSE "runtime"
        /\ handoff' = IF l.registered THEN [handoff EXCEPT !.state = "Completed"]
                                      ELSE handoff
        /\ LET l1 == [l EXCEPT !.stopped = TRUE, !.accepting = FALSE]
           IN  life' = IF ~closes /\ ~l.registered
                         THEN [l1 EXCEPT !.at = "submit"]
                       ELSE IF l.exiting THEN [l1 EXCEPT !.at = "gone"]
                       ELSE [l1 EXCEPT !.quitting = TRUE]
    BY DEF shutdownCoordinators
<1>2. /\ life' \in LifeShapes
      /\ life'.queue = l.queue /\ life'.reserved = l.reserved
      /\ life'.registered = l.registered /\ life'.armed = l.armed
      /\ life'.stopped = TRUE /\ life'.retry = l.retry
      /\ life'.exiting = l.exiting /\ life'.ticket = l.ticket
    BY <1>1 DEF LifeShapes
<1>3. \/ /\ guard' = "runtime" /\ ~l.registered
         /\ life'.at = "submit" /\ life'.quitting = l.quitting
      \/ /\ guard' = "closed" \/ (guard' = "handoff" /\ l.registered)
         /\ \/ l.exiting /\ life'.at = "gone" /\ life'.quitting = l.quitting
            \/ ~l.exiting /\ life'.at = "loop" /\ life'.quitting = TRUE
    BY <1>1 DEF LifeShapes
<1>4. /\ handoff' \in HandoffShapes /\ handoff'.ticket = handoff.ticket
      /\ handoff'.state = IF l.registered THEN "Completed" ELSE handoff.state
    BY <1>1 DEF HandoffShapes, HostShapeOK
<1>5. ~life.retry /\ ~handoffCompleted /\ guard = "coordinators"
    BY DEF GuardMatches, SubmissionMatches
<1>6. HostShapeOK'
    BY <1>2, <1>3, <1>4 DEF HostShapeOK
<1>7. QueueIsReserved'
    BY <1>2 DEF QueueIsReserved
<1>8. StagesMatch'
    BY <1>2, <1>3, <1>4 DEF StagesMatch
<1>9. GuardMatches'
    BY <1>2, <1>3, <1>4, <1>5 DEF GuardMatches, handoffCompleted
<1>10. SubmissionMatches'
    BY <1>2, <1>3, <1>5 DEF SubmissionMatches
<1>11. HandoffIsRetained'
    BY <1>4, <1>5 DEF HandoffIsRetained
<1> QED
    BY <1>6, <1>7, <1>8, <1>9, <1>10, <1>11

\* aboutToQuit and the QEvent::Quit filter.
LEMMA ShutdownEventKeeps == ASSUME HostInv, shutdownEvent PROVE HostInv'
<1> USE DEF HostInv
<1>1. /\ life.at = "loop" /\ life.queue # <<>>
      /\ Head(life.queue).op = "shutdown"
      /\ shutdownCoordinators(Taken) /\ UNCHANGED <<vars, app>>
    BY DEF shutdownEvent, Take
<1>2. life \in LifeShapes /\ life.queue \in Seq(QueueItems)
    BY DEF HostShapeOK, LifeShapes
<1>3. /\ EndsWithShutdown(life.queue) /\ Len(life.queue) = 1
      /\ Tail(life.queue) = <<>> /\ Tail(life.queue) \in Seq(QueueItems)
    BY <1>1, <1>2, TakenQueue DEF QueueIsReserved
<1>4. /\ app.at = "down" /\ ~life.stopped /\ ~life.quitting /\ ~life.exiting
      /\ life.reserved = 0
    BY <1>1, <1>3 DEF QueueIsReserved, SubmissionMatches
<1>5. /\ Taken \in LifeShapes /\ Taken.queue = <<>>
      /\ Taken.reserved = life.reserved
      /\ Taken.at = life.at /\ Taken.registered = life.registered
      /\ Taken.armed = life.armed /\ Taken.stopped = life.stopped
      /\ Taken.retry = life.retry /\ Taken.quitting = life.quitting
      /\ Taken.exiting = life.exiting /\ Taken.ticket = life.ticket
    BY <1>2, <1>3 DEF Taken, LifeShapes
<1>6. Len(Taken.queue) = 0 /\ ~EndsWithShutdown(Taken.queue)
    BY <1>5, EmptySeq DEF EndsWithShutdown
<1>7. \A i \in 1 .. Len(Taken.queue) : Taken.queue[i].op # "shutdown"
    BY <1>6
<1> QED
    BY <1>1, <1>4, <1>5, <1>6, <1>7, HostAssumption, CoordinatorsKeep DEF vars

\* A retirement thread ends, which the Host may be waiting for.
LEMMA ThreadFinishesKeeps == ASSUME HostInv, threadFinishes PROVE HostInv'
<1> USE DEF HostInv
<1>1. life.at = "loop" /\ life.quitting /\ UNCHANGED <<vars, app>>
    BY DEF threadFinishes
<1>2. life \in LifeShapes /\ life.queue \in Seq(QueueItems)
    BY DEF HostShapeOK, LifeShapes
<1>3. app.at = "down" /\ life.armed
    BY <1>1 DEF StagesMatch, HostShapeOK, AppShapes
<1>4. /\ ~EndsWithShutdown(life.queue)
      /\ life.reserved = Len(life.queue)
      /\ life.reserved <= MaximumPendingOperations
    BY <1>1 DEF QueueIsReserved
<1>5. CASE exitNeedsShutdown
  <2> DEFINE l == [life EXCEPT !.exiting = TRUE]
  <2>1. shutdownCoordinators(l) /\ ~life.stopped
    BY <1>5 DEF threadFinishes, exitNeedsShutdown
  <2>2. /\ l \in LifeShapes /\ l.queue = life.queue
        /\ l.reserved = life.reserved /\ l.at = life.at
        /\ l.registered = life.registered /\ l.armed = life.armed
        /\ l.stopped = life.stopped /\ l.retry = life.retry
        /\ l.quitting = life.quitting /\ l.exiting = TRUE
        /\ l.ticket = life.ticket
    BY <1>2 DEF LifeShapes
  <2> HIDE DEF l
  <2>3. \A i \in 1 .. Len(life.queue) : life.queue[i].op # "shutdown"
    <3> SUFFICES ASSUME NEW i \in 1 .. Len(life.queue),
                        life.queue[i].op = "shutdown"
                 PROVE  FALSE
        OBVIOUS
    <3>1. i = Len(life.queue) /\ life.queue # <<>>
        BY <1>2, EmptySeq DEF QueueIsReserved
    <3> QED
        BY <1>4, <3>1 DEF EndsWithShutdown
  <2> QED
    BY <1>1, <1>3, <1>4, <2>1, <2>2, <2>3, CoordinatorsKeep DEF vars
<1>6. CASE ~exitNeedsShutdown
  <2>1. /\ life' = [life EXCEPT !.at = "gone", !.armed = FALSE]
        /\ UNCHANGED <<handoff, guard>> /\ life.stopped
    BY <1>3, <1>6 DEF threadFinishes, exitNeedsShutdown
  <2>2. /\ life' \in LifeShapes
        /\ life'.queue = life.queue /\ life'.reserved = life.reserved
        /\ life'.at = "gone" /\ life'.registered = life.registered
        /\ life'.stopped = life.stopped /\ life'.retry = life.retry
        /\ life'.exiting = life.exiting /\ life'.ticket = life.ticket
        /\ life'.quitting = life.quitting
    BY <1>2, <2>1 DEF LifeShapes
  <2>3. HostShapeOK' /\ QueueIsReserved'
    BY <1>1, <2>1, <2>2 DEF HostShapeOK, QueueIsReserved
  <2>4. StagesMatch'
    BY <1>1, <1>3, <2>1, <2>2 DEF StagesMatch
  <2>5. GuardMatches' /\ HandoffIsRetained'
    BY <1>1, <2>1, <2>2 DEF GuardMatches, HandoffIsRetained, handoffCompleted,
                            vars
  <2>6. SubmissionMatches'
    BY <1>1, <2>1, <2>2 DEF SubmissionMatches
  <2> QED
    BY <2>3, <2>4, <2>5, <2>6
<1> QED
    BY <1>5, <1>6

\* The runtime submits what it kept, as often as it takes.
LEMMA SubmissionKeeps ==
    ASSUME HostInv, ShapeOK,
           \/ submitShutdownCleanup \/ submitRefused \/ submitReturns
           \/ shutdownCleanupRetry
    PROVE  HostInv'
<1> USE DEF HostInv
<1>1. life \in LifeShapes
    BY DEF HostShapeOK
<1>2. \/ /\ nextTicket \in Tickets /\ nextTicket' = nextTicket + 1
         /\ records \subseteq records'
      \/ UNCHANGED <<nextTicket, records>>
    BY DEF submitShutdownCleanup, retire, submitRefused, submitReturns,
           shutdownCleanupRetry, vars
<1>3. UNCHANGED <<app, handoff>>
    BY DEF submitShutdownCleanup, submitRefused, submitReturns,
           shutdownCleanupRetry
<1>4. /\ life' \in LifeShapes
      /\ life'.queue = life.queue /\ life'.reserved = life.reserved
      /\ life'.registered = life.registered /\ life'.armed = life.armed
      /\ life'.stopped = life.stopped /\ life'.exiting = life.exiting
  <2>1. CASE submitShutdownCleanup
    <3>1. /\ life' = [life EXCEPT !.at = "submitting", !.ticket = nextTicket]
          /\ nextTicket \in Tickets
        BY <2>1 DEF submitShutdownCleanup, retire
    <3> QED
        BY <1>1, <3>1 DEF LifeShapes
  <2>2. CASE submitRefused
    BY <1>1, <2>2 DEF submitRefused, LifeShapes
  <2>3. CASE submitReturns
    BY <1>1, <2>3 DEF submitReturns, LifeShapes
  <2>4. CASE shutdownCleanupRetry
    BY <1>1, <2>4 DEF shutdownCleanupRetry, LifeShapes
  <2> QED
    BY <2>1, <2>2, <2>3, <2>4
<1>5. /\ life.stopped /\ guard' \in {guard, "retirement", "lost"}
      /\ ~life'.quitting \/ ~EndsWithShutdown(life.queue)
    BY DEF submitShutdownCleanup, submitRefused, submitReturns,
           shutdownCleanupRetry, SubmissionMatches, GuardMatches,
           QueueIsReserved
<1>6. HostShapeOK'
    BY <1>3, <1>4, <1>5 DEF HostShapeOK
<1>7. QueueIsReserved'
    BY <1>3, <1>4, <1>5 DEF QueueIsReserved
<1>8. StagesMatch'
  <2>1. app.at = "down"
    BY <1>5 DEF StagesMatch
  <2>2. life.at # "gone"
    BY DEF submitShutdownCleanup, submitRefused, submitReturns,
           shutdownCleanupRetry
  <2> QED
    BY <1>3, <1>4, <2>1, <2>2 DEF StagesMatch
<1>9. GuardMatches'
  <2>1. \/ guard' = guard /\ life'.ticket = life.ticket
        \/ guard = "runtime" /\ guard' = "retirement"
        \/ guard = "runtime" /\ guard' = "lost" /\ life'.ticket = life.ticket
    BY <1>1
    DEF submitShutdownCleanup, submitRefused, submitReturns,
        shutdownCleanupRetry, SubmissionMatches, LifeShapes
  <2> QED
    BY <1>3, <1>4, <1>5, <2>1 DEF GuardMatches, handoffCompleted
<1>10. SubmissionMatches'
  <2>1. CASE submitShutdownCleanup
    <3>1. /\ life.at = "submit" /\ guard' = "retirement"
          /\ life' = [life EXCEPT !.at = "submitting", !.ticket = nextTicket]
        BY <2>1 DEF submitShutdownCleanup
    <3>2. life'.at = "submitting" /\ life'.retry = life.retry
        BY <1>1, <3>1 DEF LifeShapes
    <3> QED
        BY <1>4, <1>5, <3>1, <3>2 DEF SubmissionMatches
  <2>2. CASE submitRefused /\ life.exiting
    <3>1. /\ life.at = "submit" /\ guard' = "lost"
          /\ life' = [life EXCEPT !.at = "gone"]
        BY <2>2 DEF submitRefused
    <3>2. life'.at = "gone" /\ life'.retry = life.retry
        BY <1>1, <3>1 DEF LifeShapes
    <3> QED
        BY <1>4, <1>5, <3>1, <3>2 DEF SubmissionMatches
  <2>3. CASE submitRefused /\ ~life.exiting
    <3>1. /\ life.at = "submit" /\ UNCHANGED guard
          /\ life' = [life EXCEPT !.at = "loop", !.retry = TRUE]
        BY <2>3 DEF submitRefused
    <3>2. /\ life'.at = "loop" /\ life'.retry = TRUE
          /\ life'.quitting = life.quitting
        BY <1>1, <3>1 DEF LifeShapes
    <3> QED
        BY <1>4, <1>5, <2>3, <3>1, <3>2 DEF SubmissionMatches
  <2>4. CASE submitReturns
    <3>1. /\ life.at = "submitting" /\ UNCHANGED guard
          /\ life' = IF life.exiting THEN [life EXCEPT !.at = "gone"]
                     ELSE [life EXCEPT !.at = "loop", !.quitting = TRUE]
        BY <2>4 DEF submitReturns
    <3>2. /\ life'.at = IF life.exiting THEN "gone" ELSE "loop"
          /\ life'.retry = life.retry
        BY <1>1, <3>1 DEF LifeShapes
    <3> QED
        BY <1>4, <1>5, <3>1, <3>2 DEF SubmissionMatches
  <2>5. CASE shutdownCleanupRetry
    <3>1. /\ life.at = "loop" /\ life.retry /\ UNCHANGED guard
          /\ life' = [life EXCEPT !.at = "submit", !.retry = FALSE]
        BY <2>5 DEF shutdownCleanupRetry
    <3>2. /\ life'.at = "submit" /\ life'.retry = FALSE
          /\ life'.quitting = life.quitting
        BY <1>1, <3>1 DEF LifeShapes
    <3> QED
        BY <1>4, <1>5, <3>1, <3>2 DEF SubmissionMatches
  <2> QED
    BY <2>1, <2>2, <2>3, <2>4, <2>5
<1>11. HandoffIsRetained'
  <2>1. handoff.ticket # NoTicket =>
          guard # "runtime" /\ UNCHANGED guard
    BY <1>5
    DEF submitShutdownCleanup, submitRefused, submitReturns,
        shutdownCleanupRetry, SubmissionMatches, GuardMatches, StagesMatch
  <2>2. handoff.ticket \in Int /\ nextTicket \in Int
    BY DEF HostShapeOK, HandoffShapes, Tickets, NoTicket, ShapeOK
  <2> QED
    BY <1>2, <1>3, <2>1, <2>2 DEF HandoffIsRetained, handoffCompleted
<1> QED
    BY <1>6, <1>7, <1>8, <1>9, <1>10, <1>11
\* A cleanup succeeds: that of the handoff after the shutdown, and it leaves
\* nothing open.
LEMMA CleanupSucceedsKeeps ==
    ASSUME HostInv, IInv, NEW n \in Threads, cleanupSucceeds(n) PROVE HostInv'
<1> USE DEF HostInv
<1> DEFINE t == thread[n].ticket
<1>1. /\ records' = records \ {t} /\ t # NoTicket
      /\ UNCHANGED <<app, life, handoff, nextTicket>>
      /\ t = handoff.ticket => handoffCompleted
      /\ guard' = IF \/ t = handoff.ticket /\ guard = "handoff"
                     \/ t = life.ticket THEN "closed" ELSE guard
    BY DEF cleanupSucceeds, attemptSucceeds, IInv, StepsAreAboutTickets, NoTicket
<1> HIDE DEF t
<1>2. guard' # guard => guard' = "closed" /\ life.stopped
    BY <1>1 DEF GuardMatches
<1>3. HostShapeOK' /\ QueueIsReserved' /\ StagesMatch'
    BY <1>1, <1>2 DEF HostShapeOK, QueueIsReserved, StagesMatch
<1>4. GuardMatches' /\ SubmissionMatches'
    BY <1>1, <1>2 DEF GuardMatches, SubmissionMatches, handoffCompleted
<1>5. HandoffIsRetained'
  <2>1. t = handoff.ticket => guard' = "closed"
    BY <1>1 DEF GuardMatches, StagesMatch, HostShapeOK, handoffCompleted
  <2> QED
    BY <1>1, <1>2, <2>1 DEF HandoffIsRetained, handoffCompleted
<1> QED
    BY <1>3, <1>4, <1>5

\* The manager's own steps keep the records, and number upwards.
LEMMA ManagerNumbers ==
    ASSUME IInv,
           \/ \E c \in Callers : retire(c) \/ CallerStep(c)
           \/ \E c \in Retriers : retryFatal(c)
           \/ \E n \in Threads : \/ attemptFails(n) \/ retryDelayElapses(n)
                                 \/ completionReturns(n) \/ runEnds(n)
           \/ shutdownChecked \/ flush \/ flushTimesOut
    PROVE  /\ nextTicket \in Int /\ nextTicket' \in Int
           /\ nextTicket <= nextTicket' /\ records \subseteq records'
<1>1. nextTicket \in Int
    BY DEF IInv, ShapeOK
<1>2. \/ UNCHANGED <<nextTicket, records>>
      \/ nextTicket' = nextTicket + 1 /\ records \subseteq records'
    BY DEF retire, CallerStep, start, spawn, spawnFails, startReported,
           retryFatal, attemptFails, retryDelayElapses, completionReturns,
           runEnds, shutdownChecked, flush, flushTimesOut
<1> QED
    BY <1>1, <1>2

\* Every step of the Host keeps the invariant.
LEMMA HostNextIsInductive == HostInv /\ IInv /\ [HostNext]_allVars => HostInv'
<1> SUFFICES ASSUME HostInv, IInv, [HostNext]_allVars PROVE HostInv'
    OBVIOUS
<1>1. ShapeOK
    BY DEF IInv
<1>2. CASE beginPackageStartup \/ requestPackageOperation
    BY <1>2, OperationsKeep
<1>3. CASE stopApplication
    BY <1>1, <1>3, StopKeeps
<1>4. CASE GuiStep
    BY <1>4, HandleKeeps, QueueShutdownKeeps DEF GuiStep
<1>5. CASE LifecycleStep
    BY <1>1, <1>5, TakenOperationKeeps, ShutdownEventKeeps, SubmissionKeeps,
       ThreadFinishesKeeps
    DEF LifecycleStep
<1>6. ASSUME NEW c \in Callers, clientRetires(c) \/ HostCallerStep(c)
      PROVE  HostInv'
  <2>1. (retire(c) \/ CallerStep(c)) /\ UNCHANGED hostVars
    BY <1>6 DEF clientRetires, HostCallerStep
  <2> QED
    BY <2>1, ManagerNumbers, ManagerStepsKeep
<1>7. ASSUME NEW c \in Retriers, clientRetries(c) PROVE HostInv'
  <2>1. retryFatal(c) /\ UNCHANGED hostVars
    BY <1>7 DEF clientRetries
  <2> QED
    BY <2>1, ManagerNumbers, ManagerStepsKeep
<1>8. ASSUME NEW n \in Threads, HostThreadStep(n) PROVE HostInv'
  <2>1. CASE cleanupSucceeds(n)
    BY <2>1, CleanupSucceedsKeeps
  <2>2. CASE ~cleanupSucceeds(n)
    <3>1. /\ \/ attemptFails(n) \/ retryDelayElapses(n)
             \/ completionReturns(n) \/ runEnds(n)
          /\ UNCHANGED hostVars
        BY <1>8, <2>2 DEF HostThreadStep, cleanupFails
    <3> QED
        BY <3>1, ManagerNumbers, ManagerStepsKeep
  <2> QED
    BY <2>1, <2>2
<1>9. CASE mainShutsDown \/ ((flush \/ flushTimesOut) /\ UNCHANGED hostVars)
    BY <1>9, ManagerNumbers, ManagerStepsKeep DEF mainShutsDown
<1>10. CASE UNCHANGED allVars
  <2>1. UNCHANGED hostVars /\ UNCHANGED <<nextTicket, records>>
    BY <1>10 DEF allVars, vars
  <2> QED
    BY <1>1, <2>1, ManagerStepsKeep DEF ShapeOK
<1> QED
    BY <1>2, <1>3, <1>4, <1>5, <1>6, <1>7, <1>8, <1>9, <1>10 DEF HostNext

\* What the invariants say of the end.
LEMMA HostInvariantEnds == HostInv /\ IInv => HostEndsCleanly
<1> SUFFICES ASSUME HostInv, IInv PROVE HostEndsCleanly
    OBVIOUS
<1> USE DEF HostInv
<1>1. CleanExitIsClosed
  <2>1. shutdown = "clean" => records = {}
    BY DEF IInv, ShutdownIsClosed, isIdle
  <2> QED
    BY <2>1 DEF CleanExitIsClosed, HandoffIsRetained, GuardMatches
<1>2. GuardHasOwner
    BY DEF GuardHasOwner, GuardMatches, SubmissionMatches, StagesMatch,
           HostShapeOK, AppShapes
<1>3. ReservationsAreReturned
  <2>1. Len(life.queue) \in Nat /\ (life.queue # <<>> => Len(life.queue) # 0)
    BY EmptySeq DEF HostShapeOK, LifeShapes
  <2>2. life.reserved \in 0 .. MaximumPendingOperations
    BY <2>1, HostAssumption DEF QueueIsReserved, EndsWithShutdown
  <2> QED
    BY <2>2 DEF ReservationsAreReturned, QueueIsReserved
<1> QED
    BY <1>1, <1>2, <1>3 DEF HostEndsCleanly

\* When main returns success the coordinators were shut down and everything is
\* closed, a guard that did not close always has an owner, and the reservations
\* of the queue are those of the operations that wait.
THEOREM HostEnds == HostSpec => []HostEndsCleanly
<1>1. HostInit => HostInv
    BY HostInitIsInductive
<1>2. HostSpec => []IInv
    BY HostUsesTheManager, ManagerInvariant, PTL
<1>3. HostInv /\ IInv /\ [HostNext]_allVars => HostInv'
    BY HostNextIsInductive
<1>4. HostInv /\ IInv => HostEndsCleanly
    BY HostInvariantEnds
<1> QED
    BY <1>1, <1>2, <1>3, <1>4, PTL DEF HostSpec
==============================================================================
