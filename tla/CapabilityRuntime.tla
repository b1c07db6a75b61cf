-------------------------- MODULE CapabilityRuntime --------------------------
(***************************************************************************)
(* apps/host/HostCapabilityRuntime.cpp with what it drives: the gesture    *)
(* router, the process-wide file dialog, and the brokers that run on the   *)
(* runtime's own lane thread (network, storage) or on the GUI thread       *)
(* (clipboard, audio).  Five kinds of thread interleave: the GUI thread,   *)
(* whose handlers and queued events are atomic here, one lane thread per   *)
(* runtime, the dialog's apartment thread and callback thread, and the     *)
(* retirement manager's.                                                   *)
(*                                                                         *)
(* A runtime belongs to one incarnation of a tab's authority; a session    *)
(* has one capability request at a time (HostWorkerSessionController keeps *)
(* activeCapabilityRequestId_), and a file request's dialog operation is   *)
(* named by the request.                                                   *)
(***************************************************************************)
EXTENDS FileDialogOps, GestureOps, FiniteSets

CONSTANTS
    MaxRequests,    \* requests in a behaviour
    Plans           \* what happens in a behaviour: what a Worker asks for, how
                    \* often tabs are switched, inputs and command keys arrive,
                    \* and whether runtimes end

Requests == 1 .. MaxRequests
Kinds == {"network", "storage", "clipboard", "read", "audio", "file"}

ASSUME CapabilityAssumption ==
    /\ TabOf \in [Runtimes -> Tabs]
    /\ NoRuntime \notin Runtimes /\ NoOp \notin Requests
    /\ MaxRequests \in Nat
    /\ Plans \subseteq [kinds : SUBSET Kinds, requests : 0 .. MaxRequests, switches : Nat, inputs : Nat, commands : Nat, ends : BOOLEAN]

VARIABLES
    d,          \* the dialog coordinator
    g,          \* the gesture router and the tokens
    rt,         \* the runtimes
    events,     \* what is queued to the GUI thread
    gui,        \* where the GUI thread is: "run", "post", "joinSta", "joinCallback", "down"
    cb,         \* the callback thread: the operation it runs, the runtime it keeps alive
    next,       \* the next request
    reported,   \* how often each request's dialog operation reported
    turn,       \* how often the active binding has changed
    arrived,    \* for each input, whom it reached and in which turn
    reads,      \* the clipboard reads that were granted
    commands,   \* the command keys: the turn they were pressed in, and ran in
    plan

gestures == <<arrived, reads, commands, plan>>
capabilityVars == <<d, g, rt, events, gui, cb, next, reported, turn, gestures>>

NewRuntime ==
    [phase |-> "none", accepting |-> FALSE, bound |-> FALSE, lane |-> "none",
     request |-> NoOp, job |-> "none", jobOf |-> NoOp, pendingFile |-> NoOp,
     waitsFor |-> NoOp]

CapabilityInit ==
    /\ \E available \in BOOLEAN : d = InitialDialog(available)
    /\ g = InitialRouter
    /\ rt = [r \in Runtimes |-> NewRuntime]
    /\ events = <<>> /\ gui = "run" /\ next = 1
    /\ cb = [op |-> NoOp, keeps |-> NoRuntime, quiesced |-> {}, stopping |-> FALSE, exited |-> FALSE]
    /\ reported = [q \in Requests |-> 0]
    /\ turn = 0 /\ arrived = <<>> /\ reads = {} /\ commands = <<>> /\ plan \in Plans

OnGui == gui = "run"

----------------------------------------------------------------------------
\* Creation and the lane thread.

\* HostCapabilityRuntime::create with initialize: the binding is registered,
\* the lane's thread starts.
Create(r) ==
    /\ OnGui /\ rt[r].phase = "none" /\ r \in g.admitted
    /\ g' = registerBinding(g, r)
    /\ rt' = [rt EXCEPT ![r].phase = "open", ![r].accepting = TRUE,
                    ![r].lane = "starting"]
    /\ UNCHANGED <<d, events, gui, cb, next, reported, gestures>>

\* CapabilityWorkerLane::initialize: StorageBroker::create is tried again
\* while its root is busy, until the thread is told to stop.
LaneInitialize(r) ==
    /\ rt[r].lane \in {"starting", "quitStarting"}
    /\ \E ok \in {FALSE} \cup {b \in {TRUE} : rt[r].lane = "starting"} :
          /\ rt' = [rt EXCEPT ![r].lane = IF @ = "quitStarting" THEN "quit"
                                          ELSE IF ok THEN "up" ELSE "broken"]
          /\ events' = Append(events, [k |-> "init", r |-> r, ok |-> ok])
    /\ UNCHANGED <<d, g, gui, cb, next, reported, gestures>>

\* QThread::quit ends every event loop of the thread, the nested ones of the
\* network broker too; what is still queued to the lane is dropped with it.
LaneFinishes(r) ==
    /\ rt[r].lane = "quit" /\ rt[r].job \in {"none", "queued"}
    /\ rt' = [rt EXCEPT ![r].lane = "finished", ![r].job = "none", ![r].jobOf = NoOp]
    /\ UNCHANGED <<d, g, events, gui, cb, next, reported, gestures>>

----------------------------------------------------------------------------
\* Completions.

queueCompletion(es, r, q, result) ==
    Append(es, [k |-> "done", r |-> r, q |-> q, result |-> result])

\* A runtime that accepts and whose token admits.
MayPublish(r) == rt[r].accepting /\ r \in g.admitted

\* publishCompletion hands the answer to the session that is bound.
publishCompletion(e) ==
    rt' = IF MayPublish(e.r) /\ rt[e.r].bound
          THEN [rt EXCEPT ![e.r].request = NoOp] ELSE rt

\* completeWorkerInitialization: the controller attaches the session, which
\* binds itself, to a runtime whose lane came up.
completeWorkerInitialization(e) ==
    rt' = IF rt[e.r].accepting THEN [rt EXCEPT ![e.r].bound = e.ok] ELSE rt

----------------------------------------------------------------------------
\* The brokers of the lane.

\* NetworkBroker::invoke: the destination is resolved, connected to and asked
\* in three nested event loops, each ended by its answer, an error, its timer
\* or the thread's quit; only a complete answer to the last is a success.
resolveOutcomes(quit) == {"timeout", "denied"} \cup (IF quit THEN {} ELSE {"addresses"})
connectOutcomes(quit) == {"timeout", "refused"} \cup (IF quit THEN {} ELSE {"connected"})
exchangeOutcomes(quit) == {"timeout", "tooLarge", "incomplete"} \cup (IF quit THEN {} ELSE {"complete"})

networkInvoke(quit) ==
    {IF a = "addresses" /\ c = "connected" /\ x = "complete" THEN "ok" ELSE "error" :
        a \in resolveOutcomes(quit), c \in connectOutcomes(quit), x \in exchangeOutcomes(quit)}

\* CapabilityBroker::dispatch refuses, or calls the service and bounds its
\* answer.
brokerDispatch(outcomes) == {"error"} \cup outcomes

laneEnds(r, result) ==
    /\ rt' = [rt EXCEPT ![r].job = "none", ![r].jobOf = NoOp]
    /\ events' = queueCompletion(events, r, rt[r].jobOf, result)

\* CapabilityWorkerLane::dispatch, when the request's turn comes: a storage
\* request, or one that is refused, is answered in one go ...
LaneDispatch(r) ==
    /\ rt[r].lane = "up" /\ rt[r].job = "queued"
    /\ \/ \E result \in brokerDispatch({"ok"}) : laneEnds(r, result)
       \/ rt' = [rt EXCEPT ![r].job = "waiting"] /\ UNCHANGED events
    /\ UNCHANGED <<d, g, gui, cb, next, reported, gestures>>

\* ... and a network request waits.
NetworkAnswers(r) ==
    /\ rt[r].job = "waiting"
    /\ \E result \in brokerDispatch(networkInvoke(rt[r].lane # "up")) : laneEnds(r, result)
    /\ UNCHANGED <<d, g, gui, cb, next, reported, gestures>>

----------------------------------------------------------------------------
\* dispatch

isActiveFileOwner(r, q) ==
    rt[r].pendingFile = q /\ rt[r].accepting /\ isActiveBinding(g, r)

\* FileBroker::prepareFileRequest may refuse the payload; the answer to a
\* selection is checked against the request that was prepared.
prepareFileRequest == {"prepared", "rejected"}
completeFileRequest(status) == IF status = "Opened" THEN {"ok", "error"} ELSE {"error"}

\* dispatchFile asks for the dialog (which cannot be stopping: only the GUI
\* thread shuts it down).
dispatchFile(r, q) ==
    LET refused == /\ events' = queueCompletion(events, r, q, "error")
                   /\ rt' = [rt EXCEPT ![r].request = q]
                   /\ UNCHANGED <<d, gui, cb>>
    IN  IF ~isActiveBinding(g, r) \/ rt[r].pendingFile # NoOp THEN refused
        ELSE \E prepared \in prepareFileRequest :
             \/ prepared = "rejected" /\ refused
             \/ /\ prepared = "prepared"
                /\ d' = openAsync(d, q, TRUE)
                /\ gui' = IF Accepted(d, TRUE) THEN "post" ELSE gui
                /\ rt' = [rt EXCEPT ![r].request = q, ![r].pendingFile = q]
                /\ UNCHANGED <<events, cb>>

\* A clipboard read needs a grant.  The Worker names its requests, so it may
\* use a name again; ClipboardBroker::invoke consumes the grant, and one it
\* did not consume is revoked at the end.
dispatchRead(r, q) ==
    \E focus, focusAgain \in BOOLEAN, id \in 1 .. q :
        LET ok == issueGrantOk(g, r, id, focus, focusAgain)
        IN  /\ g' = issueGrant(g, r, id, ok)
            /\ reads' = IF ok THEN reads \cup {[q |-> q, r |-> r, id |-> id, input |-> g.trusted[r],
                                               turn |-> turn]} ELSE reads
            /\ \E result \in brokerDispatch(IF ok THEN {"ok"} ELSE {}) :
                  events' = queueCompletion(events, r, q, result)
            /\ rt' = [rt EXCEPT ![r].request = q]

\* HostCapabilityRuntime::dispatch, on a session with no request under way.
\* A request a revoked runtime gets is dropped without an answer.
Dispatch(r, k) ==
    /\ OnGui /\ next <= plan.requests
    /\ rt[r].bound /\ rt[r].request = NoOp
    /\ next' = next + 1
    /\ IF ~MayPublish(r)
       THEN /\ rt' = [rt EXCEPT ![r].request = next]
            /\ UNCHANGED <<d, g, events, gui, cb, reads>>
       ELSE CASE k = "file" -> dispatchFile(r, next) /\ UNCHANGED <<g, reads>>
              [] k \in {"network", "storage"} ->
                   /\ rt' = [rt EXCEPT ![r].request = next, ![r].job = "queued",
                                       ![r].jobOf = next]
                   /\ UNCHANGED <<d, g, events, gui, cb, reads>>
              [] k = "read" -> dispatchRead(r, next) /\ UNCHANGED <<d, gui, cb>>
              [] k \in {"clipboard", "audio"} ->
                   /\ \E result \in brokerDispatch({"ok"}) :
                         events' = queueCompletion(events, r, next, result)
                   /\ rt' = [rt EXCEPT ![r].request = next]
                   /\ UNCHANGED <<d, g, gui, cb, reads>>
    /\ UNCHANGED <<reported, arrived, commands, plan>>

\* openAsync after its lock, for the request just taken: the apartment thread
\* may have run in between.
PostStart ==
    /\ gui = "post" /\ gui' = "run"
    /\ \E posted \in BOOLEAN : d' = postStart(d, next - 1, posted)
    /\ UNCHANGED <<g, rt, events, cb, next, reported, gestures>>

\* completeFile: the selection counts only for the request that waits for it,
\* and only while its tab is the active one.
completeFile(e) ==
    IF rt[e.r].pendingFile # e.q \/ rt[e.r].phase = "gone"
    THEN rt' = rt /\ events' = Tail(events)
    ELSE /\ rt' = [rt EXCEPT ![e.r].pendingFile = NoOp]
         /\ IF ~MayPublish(e.r) THEN events' = Tail(events)
            ELSE \E result \in completeFileRequest(
                        IF isActiveFileOwner(e.r, e.q) THEN e.status ELSE "Denied") :
                    events' = queueCompletion(Tail(events), e.r, e.q, result)

----------------------------------------------------------------------------
\* The end of a runtime.

\* invalidate() of those runtimes of the set dying that still accept, one after
\* the other: a dialog that is open for one of them is cancelled.
invalidated(dying) ==
    LET S == {r \in dying : rt[r].accepting}
        files == {rt[r].pendingFile : r \in S} \ {NoOp}
    IN  [d |-> IF d.active \in files THEN requestCancel(d, d.active) ELSE d,
         g |-> revoke(unregisterBinding(g, S), S),
         rt |-> [r \in Runtimes |->
                    IF r \in S THEN [rt[r] EXCEPT !.accepting = FALSE, !.bound = FALSE]
                    ELSE rt[r]]]

\* retire(): the lane is told to stop, and the retirement will wait for it
\* and for the callback of the file request that is pending now.
retire(x) ==
    [x EXCEPT !.phase = "retiring", !.waitsFor = x.pendingFile,
              !.lane = IF @ = "starting" THEN "quitStarting" ELSE "quit"]

\* The session fails closed: unbind and invalidate (HostWorkerSessionController).
Invalidate(r) ==
    /\ OnGui /\ plan.ends /\ rt[r].phase = "open" /\ rt[r].accepting
    /\ LET x == invalidated({r}) IN d' = x.d /\ g' = x.g /\ rt' = x.rt
    /\ UNCHANGED <<events, gui, cb, next, reported, gestures>>

\* The controller lets go of the runtime.
Retire(r) ==
    /\ OnGui /\ plan.ends /\ rt[r].phase = "open"
    /\ LET x == invalidated({r})
       IN  d' = x.d /\ g' = x.g /\ rt' = [x.rt EXCEPT ![r] = retire(x.rt[r])]
    /\ UNCHANGED <<events, gui, cb, next, reported, gestures>>

\* One attempt of the retirement manager that succeeds.
RetirementSucceeds(r) ==
    /\ rt[r].phase = "retiring" /\ rt[r].lane = "finished"
    /\ rt[r].waitsFor = NoOp \/ rt[r].waitsFor \in cb.quiesced
    /\ rt' = [rt EXCEPT ![r].phase = "retired"]
    /\ events' = Append(events, [k |-> "release", r |-> r])
    /\ UNCHANGED <<d, g, gui, cb, next, reported, gestures>>

\* ~HostApplication: every controller is closed, then the coordinator is shut
\* down, which waits for its two threads.
Shutdown ==
    /\ OnGui /\ plan.ends /\ ~d.stopping
    /\ LET live == {r \in Runtimes : rt[r].phase = "open"}
           x == invalidated(live)
       IN  /\ d' = beginShutdown(x.d) /\ g' = x.g
           /\ rt' = [r \in Runtimes |-> IF r \in live THEN retire(x.rt[r]) ELSE x.rt[r]]
    /\ gui' = "joinSta"
    /\ UNCHANGED <<events, cb, next, reported, gestures>>

JoinSta ==
    /\ gui = "joinSta" /\ d.sta = "exited"
    /\ gui' = "joinCallback" /\ cb' = [cb EXCEPT !.stopping = TRUE]
    /\ UNCHANGED <<d, g, rt, events, next, reported, gestures>>

JoinCallback ==
    /\ gui = "joinCallback" /\ cb.exited /\ gui' = "down"
    /\ UNCHANGED <<d, g, rt, events, cb, next, reported, gestures>>

----------------------------------------------------------------------------
\* The dialog's two threads.

StaMessage ==
    /\ d.sta \in {"idle", "show"} /\ d.msgs # <<>>
    /\ d' = windowProcedure(d)
    /\ UNCHANGED <<g, rt, events, gui, cb, next, reported, gestures>>

StaRun ==
    /\ \/ d.sta = "next" /\ d' = runNextOperation(d)
       \/ d.sta = "show" /\ d.cancelDelivered /\ d' = showReturned(d, "Cancelled")
       \/ d.sta = "read" /\ \E status \in materializeSelection(d) : d' = runOperation(d, status)
       \/ d.sta = "tail" /\ d' = runNextOperationTail(d)
       \/ staLoopEnds(d) /\ d' = [d EXCEPT !.sta = "exited"]
    /\ UNCHANGED <<g, rt, events, gui, cb, next, reported, gestures>>

\* The user answers the dialog, which may race its cancellation.
UserAnswers ==
    /\ d.sta = "show"
    /\ \E status \in runNativeDialog(d) : d' = showReturned(d, status)
    /\ UNCHANGED <<g, rt, events, gui, cb, next, reported, gestures>>

OwnerOf(q) == {r \in Runtimes : rt[r].pendingFile = q}

\* callbackLoop takes one outcome; the completion keeps the runtime alive
\* while it queues completeFile to it ...
CallbackRuns ==
    /\ cb.op = NoOp /\ d.callbacks # <<>>
    /\ LET c == Head(d.callbacks)
           alive == {r \in OwnerOf(c.op) : rt[r].phase # "gone"}
       IN  /\ cb' = [cb EXCEPT !.op = c.op,
                               !.keeps = IF alive = {} THEN NoRuntime ELSE CHOOSE r \in alive : TRUE]
           /\ events' = IF alive = {} THEN events
                        ELSE Append(events, [k |-> "file", r |-> CHOOSE r \in alive : TRUE,
                                             q |-> c.op, status |-> c.status])
           /\ reported' = [reported EXCEPT ![c.op] = @ + 1]
    /\ d' = [d EXCEPT !.callbacks = Tail(@)]
    /\ UNCHANGED <<g, rt, gui, next, gestures>>

\* ... and then says that it is quiesced.
CallbackQuiesces ==
    /\ cb.op # NoOp
    /\ cb' = [cb EXCEPT !.op = NoOp, !.keeps = NoRuntime, !.quiesced = @ \cup {cb.op}]
    /\ UNCHANGED <<d, g, rt, events, gui, next, reported, gestures>>

CallbackExits ==
    /\ cb.stopping /\ ~cb.exited /\ cb.op = NoOp /\ d.callbacks = <<>>
    /\ cb' = [cb EXCEPT !.exited = TRUE]
    /\ UNCHANGED <<d, g, rt, events, gui, next, reported, gestures>>

----------------------------------------------------------------------------
\* The GUI thread's queue.

GuiEvent ==
    /\ OnGui /\ events # <<>>
    /\ LET e == Head(events)
       IN  CASE e.k = "command" -> FALSE
             [] e.k = "init" -> completeWorkerInitialization(e) /\ events' = Tail(events)
             [] e.k = "done" -> publishCompletion(e) /\ events' = Tail(events)
             [] e.k = "file" -> completeFile(e)
             [] e.k = "release" ->
                   /\ rt' = [rt EXCEPT ![e.r].phase = "gone", ![e.r].pendingFile = NoOp]
                   /\ events' = Tail(events)
    /\ UNCHANGED <<d, g, gui, cb, next, reported, gestures>>

\* synchronizeGestureAuthority: a tab's binding becomes active, or none does.
Synchronize ==
    /\ OnGui /\ turn < plan.switches
    /\ \/ \E r \in Runtimes : rt[r].bound /\ g' = activateBinding(g, r)
       \/ g' = clearActiveEvidence(g)
    /\ g' # g
    /\ UNCHANGED <<d, rt, events, gui, cb, next, reported, gestures>>

\* The low-level hooks run on the GUI thread as well.  An input ...
Input ==
    /\ OnGui /\ Len(arrived) < plan.inputs
    /\ \E focus, focusAgain \in BOOLEAN :
          /\ g' = recordInput(g, focus, focusAgain)
          /\ arrived' = Append(arrived, [r |-> g.active, turn |-> turn, focused |-> focus /\ focusAgain])
    /\ UNCHANGED <<d, rt, events, gui, cb, next, reported, reads, commands, plan>>

\* ... grows old, ...
Age ==
    /\ g.fresh <= g.now /\ g' = [g EXCEPT !.fresh = g.now + 1]
    /\ UNCHANGED <<d, rt, events, gui, cb, next, reported, gestures>>

\* ... and a key of the browser's is queued as a command and kept from the
\* Worker until it is released.
CommandKey ==
    /\ OnGui /\ Len(commands) < plan.commands
    /\ \E focus, focusAgain \in BOOLEAN :
          /\ g' = routeCommandKey(g, focus, focusAgain)
          /\ IF CommandQueued(g, focus, focusAgain)
             THEN /\ events' = Append(events, [k |-> "command", r |-> g.active, epoch |-> g.epoch,
                                              i |-> Len(commands) + 1])
                  /\ commands' = Append(commands, [pressed |-> turn, ran |-> turn])
             ELSE UNCHANGED <<events, commands>>
    /\ UNCHANGED <<d, rt, gui, cb, next, reported, arrived, reads, plan>>

ReleaseKey ==
    /\ OnGui /\ g.suppressed /\ g' = releaseKey(g)
    /\ UNCHANGED <<d, rt, events, gui, cb, next, reported, gestures>>

\* The command's turn: it goes to the chrome, which acts on the active tab.
RunCommand ==
    /\ OnGui /\ events # <<>> /\ Head(events).k = "command"
    /\ LET e == Head(events)
       IN  \E focus \in BOOLEAN :
              IF dispatchAdmitted(g, e, focus)
              THEN commands' = [commands EXCEPT ![e.i].ran = turn] /\ g' = g
              ELSE g' = clearEvidence(g, {e.r}) /\ UNCHANGED commands
    /\ events' = Tail(events)
    /\ UNCHANGED <<d, rt, gui, cb, next, reported, arrived, reads, plan>>

\* The coordinator thread revokes the authority, at any moment.
Revoke(r) ==
    /\ r \in g.admitted /\ rt[r].phase = "open" /\ g' = revoke(g, {r})
    /\ UNCHANGED <<d, rt, events, gui, cb, next, reported, gestures>>

----------------------------------------------------------------------------
Progress ==
    \/ PostStart \/ JoinSta \/ JoinCallback \/ GuiEvent \/ RunCommand
    \/ StaMessage \/ StaRun \/ CallbackRuns \/ CallbackQuiesces \/ CallbackExits
    \/ \E r \in Runtimes :
          \/ LaneInitialize(r) \/ LaneFinishes(r) \/ LaneDispatch(r) \/ NetworkAnswers(r)
          \/ RetirementSucceeds(r)

Step ==
    \/ Progress
    \/ UserAnswers \/ Synchronize \/ Shutdown \/ Input \/ Age \/ CommandKey \/ ReleaseKey
    \/ \E r \in Runtimes :
          \/ Create(r) \/ Invalidate(r) \/ Retire(r) \/ Revoke(r)
          \/ \E k \in plan.kinds : Dispatch(r, k)

CapabilityNext == Step /\ turn' = turn + IF g'.active # g.active THEN 1 ELSE 0

CapabilitySpec == CapabilityInit /\ [][CapabilityNext]_capabilityVars

----------------------------------------------------------------------------
TypeOK ==
    /\ d.active \in Requests \cup {NoOp} /\ d.physical \in Requests \cup {NoOp}
    /\ d.terminal \subseteq Requests
    /\ g.active \in Runtimes \cup {NoRuntime} /\ g.admitted \subseteq Runtimes
    /\ \A r \in Runtimes : rt[r].request \in Requests \cup {NoOp}
    /\ gui \in {"run", "post", "joinSta", "joinCallback", "down"}

\* The one dialog is never lost and never left behind: its reservation is held
\* by an operation that waits or is on the screen, a waiting operation has a
\* start message on its way unless the apartment thread is busy and will look
\* for it afterwards, and every operation reports exactly once, when it becomes
\* terminal.
DialogIsAccountedFor ==
    LET Queued(q) == Cardinality({i \in DOMAIN d.callbacks : d.callbacks[i].op = q})
    IN  /\ d.active # NoOp => d.active \in ToSet(d.pending) \cup {d.physical}
        /\ d.pending # <<>> /\ d.sta = "idle" =>
              \/ gui = "post"
              \/ \E i \in DOMAIN d.msgs : d.msgs[i] = "start"
        /\ \A q \in Requests :
              Queued(q) + reported[q] = IF q \in d.terminal THEN 1 ELSE 0

\* A runtime is let go for good only when its lane thread has ended and, if a
\* file request was pending when it was retired, the callback of that request
\* has run to its end.  The callback thread may still keep a runtime that is
\* gone, but only one that has already taken up what the callback queued to it:
\* no outcome of a dialog is queued for a runtime that is gone.
RetirementIsInOrder ==
    /\ \A r \in Runtimes : rt[r].phase \in {"retired", "gone"} =>
          /\ rt[r].lane \in {"none", "finished"} /\ rt[r].job = "none"
          /\ rt[r].pendingFile # NoOp => rt[r].pendingFile \in cb.quiesced
          /\ cb.keeps = r => rt[r].pendingFile # cb.op
    /\ \A i \in DOMAIN events : events[i].k = "file" => rt[events[i].r].phase # "gone"

\* A gesture is the user's, for one tab and once: every clipboard read that was
\* granted has an input of its own, which reached that tab with the focus in
\* it and after it was last made active, and its request has no other grant;
\* and a command key acts in the tab in which it was pressed, not in one that
\* was switched to while the command was queued.
GesturesAreSpentOnce ==
    /\ \A x \in reads :
          /\ arrived[x.input] = [r |-> x.r, turn |-> x.turn, focused |-> TRUE]
          /\ \A y \in reads \ {x} : y.input # x.input /\ (y.r = x.r => y.id # x.id)
    /\ \A i \in DOMAIN commands : commands[i].ran = commands[i].pressed

\* Nothing is under way: the queues are empty, no use of a token is held, a
\* dialog on the screen is one somebody still waits for (or one whose own
\* start message was refused after an older one had started it: its operation
\* failed, the user closes it), a request without an
\* answer is waiting for that dialog, or behind it, or its runtime is cut off, and every
\* runtime that was let go of is gone.  A Host that has shut down is settled.
Settled ==
    \/ gui = "down"
    \/ /\ gui = "run" /\ events = <<>> /\ d.callbacks = <<>> /\ d.msgs = <<>> /\ cb.op = NoOp
       /\ \/ d.sta \in {"idle", "exited"}
          \/ d.sta = "show" /\ (d.physical \notin d.terminal \/ d.active # d.physical)
       /\ \A r \in Runtimes :
             /\ rt[r].phase \in {"none", "open", "gone"} /\ rt[r].job = "none"
             /\ rt[r].request # NoOp =>
                   \/ ~MayPublish(r) \/ rt[r].phase = "gone"
                   \/ rt[r].request = d.physical
                   \/ d.sta = "show" /\ rt[r].request \in ToSet(d.pending)

\* No request, dialog, retirement or shutdown is ever left where none of the
\* threads has anything more to do for it.
NothingIsStuck == Settled \/ ENABLED Progress

\* The one file dialog is accounted for between its three threads, and a runtime
\* is retired in order with its lane thread and the callbacks it waits for.
DialogAndRuntimesAreAccountedFor ==
    TypeOK /\ DialogIsAccountedFor /\ RetirementIsInOrder
=============================================================================
