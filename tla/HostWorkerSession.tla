-------------------------- MODULE HostWorkerSession --------------------------
(***************************************************************************)
(* apps/host/HostWorkerSessionController and HostWorkerSessionIo: the      *)
(* session of a tab with its Worker.  The controller lives on the GUI      *)
(* thread, the Io object on a thread of its own, a third thread writes the *)
(* pipe; they only exchange queued events.  With the Host's half of        *)
(* runtime/ipc/IpcSession (tracked route loads, request ids) and the       *)
(* Worker of apps/worker as the peer.                                      *)
(*                                                                         *)
(* One action per event or call.  A signal that hands control to clients   *)
(* is two: while `call' is set, clients may call the controller again.     *)
(***************************************************************************)
EXTENDS Integers, Sequences, FiniteSets, SequencesExt

CONSTANTS MaxQueuedCommands,    \* maximumQueuedCommands
          MaxRequests,          \* bound on the Worker's requests
          Budgets               \* bounds of a behaviour, see budget

ASSUME SessionAssumption ==
    /\ {MaxQueuedCommands, MaxRequests} \subseteq Nat
    /\ Budgets \subseteq [sessions : Nat, routes : Nat,
                          requests : 0 .. MaxRequests, incidents : Nat]

VARIABLES
    ctl,        \* HostWorkerSessionController, with the queues of both threads
    call,       \* the signal or callback the GUI thread is in
    io,         \* HostWorkerSessionIo and its IpcSession
    writes,     \* what the writer's thread has still to write
    toWorker, toHost,   \* the pipe
    worker,     \* the Worker process
    budget,     \* the sessions, route loads, requests and rarer events of
                \* this behaviour
    incidents   \* how many of the rarer events have happened

system == <<ctl, call, io, writes, toWorker, toHost, worker>>
vars == <<system, budget, incidents>>

NoCall == [kind |-> "none", gen |-> 0, id |-> 0]
NoCommand == [id |-> 0, type |-> "none", ref |-> 0, resume |-> FALSE,
              completes |-> FALSE, gated |-> FALSE]
NoIo == [thread |-> "none", awaitingGui |-> FALSE, stopping |-> FALSE,
         terminal |-> FALSE, command |-> 0, live |-> FALSE, bound |-> FALSE,
         passed |-> FALSE, pending |-> {}, published |-> {}, received |-> {}]
NoWorker == [open |-> FALSE, honest |-> TRUE, route |-> 0, navigating |-> 0,
             lastRequest |-> 0, asked |-> {},
             answers |-> [r \in 1 .. MaxRequests |-> 0]]

Init ==
    /\ ctl = [state |-> "Detached", finalState |-> "Detached", generation |-> 0,
              attached |-> FALSE, stopRequested |-> FALSE,
              pendingSession |-> FALSE, pendingBinding |-> FALSE,
              bound |-> FALSE, admitted |-> FALSE, serving |-> {},
              outbound |-> <<>>, active |-> NoCommand, request |-> 0,
              routes |-> {}, latest |-> 0, acknowledged |-> FALSE,
              lastCommand |-> 0, lastRoute |-> 0, error |-> "",
              posted |-> <<>>, events |-> <<>>]
    /\ call = NoCall
    /\ io = NoIo
    /\ writes = <<>> /\ toWorker = <<>> /\ toHost = <<>>
    /\ worker = NoWorker
    /\ budget \in Budgets /\ incidents = 0

Running(c) == c.state = "Running"
Post(c, e) == [c EXCEPT !.posted = Append(@, e)]

-----------------------------------------------------------------------------
\* The controller's own operations, as functions of its record.

clearPendingRouteLoads(c) ==
    [c EXCEPT !.routes = {}, !.latest = 0, !.acknowledged = FALSE]

BugKeepsAuthority(c) == c.admitted
authorityLeft(c) == FALSE

\* The runtime is unbound, so that its results go nowhere, and invalidated,
\* which revokes its token.
invalidateCapabilityBinding(c) ==
    [c EXCEPT !.bound = FALSE, !.serving = {}, !.admitted = authorityLeft(c)]

dropWork(c) ==
    [clearPendingRouteLoads(c) EXCEPT
       !.outbound = <<>>, !.active = NoCommand, !.request = 0]

requestIoStop(c) ==
    IF c.stopRequested \/ io.thread # "running"
      THEN c
      ELSE Post([c EXCEPT !.stopRequested = TRUE], [kind |-> "abort"])

failClosed(c, code) ==
    IF c.state \in {"Failed", "Detached"}
      THEN c
      ELSE requestIoStop(
             [invalidateCapabilityBinding(dropWork(c)) EXCEPT
                !.state = "Failed", !.error = code, !.pendingBinding = FALSE,
                !.finalState = "Failed"])

BugPumpsAtOnce(c) == c.outbound # <<>>
mayPump(c) == c.active.id = 0 /\ c.outbound # <<>>

pumpOutbound(c) ==
    IF ~(Running(c) /\ c.attached /\ mayPump(c))
      THEN c
      ELSE Post([c EXCEPT !.active = Head(c.outbound),
                          !.outbound = Tail(c.outbound)],
                [kind |-> "send", command |-> Head(c.outbound)])

queueFull(c) ==
    Len(c.outbound) + (IF c.active.id = 0 THEN 0 ELSE 1) >= MaxQueuedCommands

\* A new command of type t about route or request r.
enqueue(c, t, r, resume, completes, gated) ==
    pumpOutbound(
      [c EXCEPT !.lastCommand = @ + 1,
                !.outbound = Append(@, [id |-> c.lastCommand + 1, type |-> t,
                                        ref |-> r, resume |-> resume,
                                        completes |-> completes,
                                        gated |-> gated])])

\* enqueueMessage, with failClosed as its callers do when it refuses.
enqueueResponse(c, r, resume) ==
    IF queueFull(c) THEN failClosed(c, "response_queue_failed")
                    ELSE enqueue(c, "Response", r, resume, FALSE, FALSE)

routeLoadRefused(c) ==
    queueFull(c) \/ Cardinality(c.routes) >= MaxQueuedCommands

enqueueRouteLoad(c) ==
    LET r == c.lastRoute + 1
    IN  enqueue([c EXCEPT !.lastRoute = r, !.routes = @ \cup {r},
                          !.latest = r, !.acknowledged = FALSE],
                "RouteLoad", r, FALSE, FALSE, FALSE)

resumeIoPolling(c) ==
    IF c.attached THEN Post(c, [kind |-> "resume"]) ELSE c

\* queueCapabilityResponse; a failure is reported by an event of its own.
queueCapabilityResponse(c, gen, r, completes, gated) ==
    IF \/ gen # c.generation \/ ~Running(c)
       \/ (completes /\ r # c.request)
       \/ (~completes /\ c.request \in {0, r})
       \/ gated # c.bound
      THEN c
      ELSE IF queueFull(c)
             THEN [c EXCEPT !.events = Append(@,
                              [kind |-> "failLater", gen |-> gen, id |-> 0])]
             ELSE enqueue(c, "Response", r, FALSE, completes, gated)

-----------------------------------------------------------------------------
\* Calls from clients, on the GUI thread.

GuiOnly(c) == ctl' = c /\ UNCHANGED <<call, io, writes, toWorker, toHost, worker>>

\* startSession on c; binding says whether a capability runtime comes with
\* the session, binds whether it accepts the completion submitter.  A caller
\* whose session is refused reports code.
startSession(c, binding, binds, code) ==
    IF binding /\ ~binds
      THEN /\ ctl' = [c EXCEPT !.generation = @ + 1, !.bound = FALSE,
                               !.error = code]
           /\ io' = NoIo
           /\ UNCHANGED <<writes, toWorker, toHost, worker>>
      ELSE /\ ctl' = [dropWork(c) EXCEPT
                        !.generation = @ + 1, !.attached = TRUE,
                        !.bound = binding, !.admitted = binding,
                        !.state = "Running", !.finalState = "Failed",
                        !.stopRequested = FALSE, !.error = "",
                        !.posted = <<>>]
           /\ io' = [NoIo EXCEPT !.thread = "running", !.live = TRUE,
                                 !.bound = binding]
           /\ worker' = [NoWorker EXCEPT !.open = TRUE,
                                         !.lastRequest = worker.lastRequest]
           /\ writes' = <<>> /\ toWorker' = <<>> /\ toHost' = <<>>

\* attach, when no session is left and while there is one.
attach(binding, binds) ==
    /\ ctl.generation < budget.sessions
    /\ ~ctl.attached
    /\ startSession(ctl, binding, binds, "capability_bind_failed")
    /\ UNCHANGED call

replace(binding) ==
    /\ ctl.generation < budget.sessions
    /\ ctl.attached
    /\ GuiOnly(requestIoStop(invalidateCapabilityBinding(
         [dropWork(ctl) EXCEPT
            !.pendingSession = TRUE, !.pendingBinding = binding,
            !.finalState = "Detached", !.state = "ShuttingDown"])))

shutdown ==
    /\ Running(ctl) /\ ctl.attached
    /\ GuiOnly(Post(invalidateCapabilityBinding(
                      [dropWork(ctl) EXCEPT !.state = "ShuttingDown",
                                            !.finalState = "Detached"]),
                    [kind |-> "shutdown"]))

requestRouteLoad ==
    /\ Running(ctl)
    /\ ctl.lastRoute < budget.routes
    /\ ~routeLoadRefused(ctl)
    /\ GuiOnly(enqueueRouteLoad(ctl))

unbindCapabilityRuntime ==
    /\ ctl.bound
    /\ GuiOnly(invalidateCapabilityBinding(ctl))

sendVisibilityChanged ==
    /\ Running(ctl)
    /\ ~queueFull(ctl)
    /\ GuiOnly(enqueue(ctl, "VisibilityChanged", 0, FALSE, FALSE, FALSE))

-----------------------------------------------------------------------------
\* Queued events of the GUI thread.

Event == Head(ctl.events)
Popped == [ctl EXCEPT !.events = Tail(@)]

\* The next event is of kind k, and the GUI thread is in its event loop.
Arrives(k) == call = NoCall /\ ctl.events # <<>> /\ Event.kind = k

\* It is about this session, and the session runs.
Current == Event.gen = ctl.generation /\ Running(ctl)

Emit(k, id) == [kind |-> k, gen |-> ctl.generation, id |-> id]
StillCurrent == call.gen = ctl.generation /\ Running(ctl)

\* The event is handled by c, then the signal or callback s is entered.
Enter(c, s) ==
    ctl' = c /\ call' = s /\ UNCHANGED <<io, writes, toWorker, toHost, worker>>

\* The signal or callback of kind k returns, and the handler goes on with c.
Return(k, c) ==
    /\ call.kind = k
    /\ ctl' = IF StillCurrent THEN c ELSE ctl
    /\ call' = NoCall
    /\ UNCHANGED <<io, writes, toWorker, toHost, worker>>

ignoreEvent ==
    /\ \E k \in {"navigation", "response", "request", "finishedCommand"} :
         Arrives(k)
    /\ ~Current
    /\ GuiOnly(Popped)

handleNavigationRequest ==
    /\ Arrives("navigation") /\ Current
    /\ IF ctl.routes # {}
         THEN GuiOnly(enqueueResponse(Popped, Event.id, TRUE))
         ELSE Enter(Popped, Emit("navigate", Event.id))

navigateDenies == Return("navigate", enqueueResponse(ctl, call.id, TRUE))

BugForgetsResume(c) == c
resumeAfterLast(c) ==
    IF c.outbound # <<>>
      THEN [c EXCEPT !.outbound[Len(c.outbound)].resume = TRUE]
      ELSE IF c.active.id # 0 THEN [c EXCEPT !.active.resume = TRUE] ELSE c

navigateSucceeds ==
    LET answered == enqueue(ctl, "Response", call.id, FALSE, FALSE, FALSE)
    IN  /\ ctl.lastRoute < budget.routes
        /\ Return("navigate",
                  IF queueFull(ctl)
                    THEN failClosed(ctl, "outbound_queue_full")
                    ELSE IF routeLoadRefused(answered)
                           THEN failClosed(answered, "outbound_queue_full")
                           ELSE resumeAfterLast(enqueueRouteLoad(answered)))

\* The handler of an exception does not look at the generation.
navigateThrows ==
    /\ call.kind = "navigate"
    /\ Enter(failClosed(ctl, "navigation_callback_failed"), NoCall)

handleRouteLoadResponse ==
    LET r == Event.id
        c == [Popped EXCEPT !.routes = @ \ {r},
                            !.acknowledged = @ \/ r = ctl.latest]
    IN  /\ Arrives("response") /\ Current
        /\ CASE r \notin ctl.routes ->
                  GuiOnly(failClosed(Popped, "unexpected_response"))
             [] r \in ctl.routes /\ ~Event.ok ->
                  GuiOnly(failClosed(Popped, "route_load_rejected"))
             [] r \in ctl.routes /\ Event.ok /\ c.routes # {} ->
                  GuiOnly(resumeIoPolling(c))
             [] OTHER ->
                  IF ~c.acknowledged \/ c.latest = 0
                    THEN GuiOnly(failClosed(c, "completion_mismatch"))
                    ELSE Enter(clearPendingRouteLoads(c),
                               Emit("acknowledged", c.latest))

routeLoadAcknowledged == Return("acknowledged", resumeIoPolling(ctl))

handleCapabilityRequest ==
    /\ Arrives("request") /\ Current
    /\ Enter(Popped, Emit("observed", Event.id))

answeredBusy(c, r) == c

\* handleCapabilityRequest after its signal: the request is answered as busy,
\* denied, dispatched to the runtime (which drops it when its authority is
\* gone), or fails the session.
capabilityRequestObserved ==
    LET r == call.id
        taken == [ctl EXCEPT !.request = r]
        busy == answeredBusy(queueCapabilityResponse(ctl, ctl.generation, r,
                                                    FALSE, TRUE), r)
    IN  Return("observed",
          CASE io.bound # ctl.bound ->
                 failClosed(ctl, "capability_authority_mismatch")
            [] ~ctl.bound /\ ctl.request = 0 ->
                 queueCapabilityResponse(taken, ctl.generation, r, TRUE, FALSE)
            [] ~ctl.bound /\ ctl.request # 0 ->
                 failClosed(ctl, "capability_authority_mismatch")
            [] ctl.bound /\ ctl.request # 0 ->
                 IF ctl.admitted /\ ~queueFull(ctl)
                   THEN busy ELSE failClosed(ctl, "response_queue_failed")
            [] OTHER ->
                 IF ctl.admitted THEN [taken EXCEPT !.serving = @ \cup {r}]
                                 ELSE taken)

\* The runtime has the result of request r, which it drops when its token
\* was revoked.
submitCapabilityCompletion(r) ==
    LET c == [ctl EXCEPT !.serving = @ \ {r}]
    IN  /\ call = NoCall
        /\ r \in ctl.serving
        /\ GuiOnly(IF ctl.admitted
                     THEN queueCapabilityResponse(c, ctl.generation, r, TRUE, TRUE)
                     ELSE c)

failLater ==
    /\ Arrives("failLater")
    /\ GuiOnly(IF Event.gen = ctl.generation
                 THEN failClosed(Popped, "response_queue_failed") ELSE Popped)

handleCommandFinished ==
    LET done == [Popped EXCEPT !.active = NoCommand]
        answers == ctl.active.completes /\ ctl.active.ref = ctl.request
        freed == IF answers THEN [done EXCEPT !.request = 0] ELSE done
        resumed(c) == IF ctl.active.resume THEN resumeIoPolling(c) ELSE c
    IN  /\ Arrives("finishedCommand") /\ Current
        /\ CASE Event.id # ctl.active.id -> GuiOnly(Popped)
             [] Event.id = ctl.active.id /\ ~Event.ok ->
                  GuiOnly(failClosed(done, Event.error))
             [] Event.id = ctl.active.id /\ Event.ok /\ Event.published
                  /\ answers ->
                  Enter(freed, Emit("sent", ctl.active.ref))
             [] OTHER -> GuiOnly(resumed(pumpOutbound(freed)))

\* (No command both answers a request and resumes polling.)
capabilityResponseSent == Return("sent", pumpOutbound(ctl))

sessionFailed ==
    /\ Arrives("failed")
    /\ GuiOnly(IF Event.gen = ctl.generation
                 THEN failClosed(Popped, Event.error) ELSE Popped)

shutdownFinished ==
    /\ Arrives("shutdownFinished")
    /\ GuiOnly(IF Event.gen = ctl.generation /\ ctl.state = "ShuttingDown"
                 THEN requestIoStop([dropWork(Popped) EXCEPT
                                       !.finalState = "Detached"])
                 ELSE Popped)

\* The thread has ended: the waiting session is started, or none is left.
handleIoThreadFinished(binds) ==
    LET c == [invalidateCapabilityBinding(dropWork(Popped)) EXCEPT
                !.attached = FALSE, !.stopRequested = FALSE,
                !.pendingSession = FALSE, !.pendingBinding = FALSE]
    IN  /\ Arrives("threadFinished")
        /\ IF ctl.pendingSession
             THEN /\ startSession([c EXCEPT !.state = IF binds \/ ~ctl.pendingBinding
                                                        THEN "Detached" ELSE "Failed"],
                                  ctl.pendingBinding, binds, "reattach_failed")
                  /\ UNCHANGED call
             ELSE /\ ctl' = [c EXCEPT !.state = ctl.finalState]
                  /\ io' = NoIo
                  /\ UNCHANGED <<call, writes, toWorker, toHost, worker>>

-----------------------------------------------------------------------------
\* The Io object, on its thread.

IoRuns == io.thread = "running"
Signal(k, id) == [kind |-> k, gen |-> ctl.generation, id |-> id]
Posted == Head(ctl.posted)
Polls(k) == IoRuns /\ ctl.posted # <<>> /\ Posted.kind = k
Handled == [ctl EXCEPT !.posted = Tail(@)]
Signals(c, es) == [c EXCEPT !.events = @ \o es]
Finished(id, ok, published, error) ==
    [kind |-> "finishedCommand", gen |-> ctl.generation, id |-> id, ok |-> ok,
     published |-> published, error |-> error]

\* The session is closed: what was not written is cancelled, and nobody
\* looks any more at what is left in the pipe and at who sent it.
Close(thread) ==
    /\ io' = [NoIo EXCEPT !.thread = thread, !.terminal = TRUE,
                          !.bound = io.bound]
    /\ writes' = <<>> /\ toWorker' = <<>> /\ toHost' = <<>>
    /\ worker' = [NoWorker EXCEPT !.lastRequest = worker.lastRequest]

Terminate == Close("running")
Pipe == <<toWorker, toHost, worker>>

\* fail, after the events es; c is the controller's record so far.
ioFail(c, es, code) ==
    /\ ctl' = Signals(c, Append(es, [kind |-> "failed", gen |-> c.generation,
                                    id |-> 0, error |-> code]))
    /\ Terminate

sendMessage ==
    LET cmd == Posted.command
    IN  /\ Polls("send")
        /\ CASE io.terminal \/ io.stopping ->
                  /\ ctl' = Signals(Handled,
                              <<Finished(cmd.id, FALSE, FALSE, "stale_command")>>)
                  /\ UNCHANGED <<io, writes, Pipe>>
             [] ~(io.terminal \/ io.stopping) /\ io.command # 0 ->
                  ioFail(Handled, <<>>, "concurrent_send")
             [] OTHER ->
                  /\ ctl' = Handled
                  /\ io' = [io EXCEPT !.command = cmd.id,
                             !.pending = IF cmd.type = "RouteLoad"
                                           THEN @ \cup {cmd.ref} ELSE @]
                  /\ writes' = Append(writes, cmd)
                  /\ UNCHANGED Pipe
        /\ UNCHANGED call

resumePolling ==
    /\ Polls("resume")
    /\ ctl' = Handled
    /\ io' = IF io.terminal \/ io.stopping THEN io
                                            ELSE [io EXCEPT !.awaitingGui = FALSE]
    /\ UNCHANGED <<call, writes, toWorker, toHost, worker>>

beginShutdown ==
    /\ Polls("shutdown")
    /\ ctl' = Handled
    /\ IF io.terminal \/ io.stopping
         THEN UNCHANGED <<io, writes>>
         ELSE /\ io' = [io EXCEPT !.stopping = TRUE, !.awaitingGui = FALSE,
                                  !.live = FALSE]
              /\ writes' = Append(writes, [NoCommand EXCEPT !.type = "Shutdown"])
    /\ UNCHANGED <<call, toWorker, toHost, worker>>

\* The object moves to the GUI thread, where what is still posted to it has
\* no effect, and the thread ends.
abort ==
    /\ Polls("abort")
    /\ ctl' = Signals([ctl EXCEPT !.posted = <<>>],
                      <<Signal("threadFinished", 0)>>)
    /\ Close("finished")
    /\ UNCHANGED call

\* The completion of a write, for a command and for the shutdown message.
writeCompletes ==
    LET cmd == Posted.command
        ok == Posted.result = "Ok"
        cancelled == Posted.result = "Cancelled" /\ cmd.gated
    IN  /\ Polls("written")
        /\ CASE io.terminal \/ (cmd.id # 0 /\ io.command # cmd.id) ->
                  ctl' = Handled /\ UNCHANGED <<io, writes, Pipe>>
             [] ~io.terminal /\ cmd.id = io.command /\ cmd.id # 0
                  /\ (ok \/ cancelled) ->
                  /\ ctl' = Signals(Handled, <<Finished(cmd.id, TRUE, ok, "")>>)
                  /\ io' = [io EXCEPT !.command = 0]
                  /\ UNCHANGED <<writes, Pipe>>
             [] ~io.terminal /\ cmd.id = io.command /\ cmd.id # 0
                  /\ ~(ok \/ cancelled) ->
                  ioFail(Handled, <<Finished(cmd.id, FALSE, FALSE, "send_failed")>>,
                         "send_failed")
             [] OTHER ->
                  IF ok THEN ctl' = Handled /\ UNCHANGED <<io, writes, Pipe>>
                        ELSE ioFail(Handled, <<>>, "shutdown_send_failed")
        /\ UNCHANGED call

shutdownSignals == <<Signal("shutdownFinished", 0)>>

finishShutdown ==
    /\ ctl' = Signals(ctl, shutdownSignals)
    /\ Terminate

Polling == IoRuns /\ ~io.terminal /\ ~io.awaitingGui
Message == Head(toHost)

\* The message is taken; answered are the route loads it answers, asked the
\* requests it makes.
received(k, answered, asked) ==
    /\ ctl' = Signals(ctl, <<[kind |-> k, gen |-> ctl.generation,
                             id |-> Message.id, ok |-> Message.ok]>>)
    /\ io' = [io EXCEPT !.awaitingGui = k # "request",
                        !.pending = @ \ answered, !.published = @ \ answered,
                        !.received = @ \cup asked]
    /\ toHost' = Tail(toHost)
    /\ UNCHANGED <<writes, toWorker, worker>>

\* pollSession: one message, as far as IpcSession lets it through.  Polling
\* stops until the GUI thread has dealt with it, but for a Request.
pollSession ==
    /\ Polling
    /\ toHost # <<>>
    /\ LET asks == Message.type \in {"Request", "NavigationRequest"}
           answers == Message.type = "Response"
       IN  CASE asks /\ Message.id \in io.received ->
                  ioFail(ctl, <<>>, "duplicate_request_id")
             [] asks /\ Message.id \notin io.received ->
                  received(IF Message.type = "Request" THEN "request"
                                                       ELSE "navigation",
                           {}, {Message.id})
             [] answers /\ Message.id \notin io.pending ->
                  ioFail(ctl, <<>>, "unknown_response")
             [] answers /\ Message.id \in io.pending ->
                  received("response", {Message.id}, {})
             [] Message.type = "Shutdown" ->
                  IF io.stopping THEN finishShutdown
                                 ELSE ioFail(ctl, <<>>, "peer_shutdown")
             [] OTHER -> ioFail(ctl, <<>>, "unexpected_message")
    /\ UNCHANGED call

peerClosed ==
    /\ Polling
    /\ toHost = <<>> /\ ~worker.open
    /\ IF io.stopping THEN finishShutdown ELSE ioFail(ctl, <<>>, "peer_closed")
    /\ UNCHANGED call

routeLoadTimesOut ==
    /\ Polling
    /\ io.published # {}
    /\ ioFail(ctl, <<>>, "request_timeout")
    /\ UNCHANGED call

sendDeadline ==
    /\ IoRuns /\ ~io.terminal /\ io.command # 0
    /\ ioFail(ctl, <<>>, "send_timeout")
    /\ UNCHANGED call

shutdownDeadline ==
    /\ IoRuns /\ ~io.terminal /\ io.stopping
    /\ ioFail(ctl, <<>>, "shutdown_timeout")
    /\ UNCHANGED call

-----------------------------------------------------------------------------
\* The writer's thread: PipeWriter's promise is that writes happen in order
\* and complete once.

\* The first write waits at its gate.
Gated == writes # <<>> /\ Head(writes).gated /\ ~io.passed

publicationGate == io.live /\ ctl.admitted

\* The gate is asked under the mutex of the token, which is free again when
\* the frame is written: a frame that has passed is not asked again.
passGate ==
    /\ Gated /\ publicationGate
    /\ io' = [io EXCEPT !.passed = TRUE]
    /\ UNCHANGED <<ctl, call, writes, toWorker, toHost, worker>>

\* The deadline of a route load starts when it is written.
armedBy(w) == {w.ref} \cap io.pending

writeNext ==
    LET w == Head(writes)
        result == CASE Gated -> "Cancelled"
                    [] ~Gated /\ ~worker.open -> "PeerClosed"
                    [] OTHER -> "Ok"
        next == [io EXCEPT !.passed = FALSE]
    IN  /\ writes # <<>>
        /\ Gated => ~publicationGate
        /\ writes' = Tail(writes)
        /\ toWorker' = IF result = "Ok" THEN Append(toWorker, w) ELSE toWorker
        /\ io' = IF w.type = "RouteLoad"
                   THEN IF result = "Ok"
                          THEN [next EXCEPT !.published = @ \cup armedBy(w)]
                          ELSE [next EXCEPT !.pending = @ \ {w.ref}]
                   ELSE next
        /\ ctl' = Post(ctl, [kind |-> "written", command |-> w, result |-> result])
        /\ UNCHANGED <<call, toHost, worker>>

\* The coordinator revokes the authority of the Worker.
beginRevoke ==
    /\ ctl.admitted
    /\ GuiOnly([ctl EXCEPT !.admitted = FALSE])

-----------------------------------------------------------------------------
\* The Worker process, which is not trusted.

Connected == worker.open /\ worker.honest /\ IoRuns /\ ~io.terminal
Send(t, id, ok) == toHost' = Append(toHost, [type |-> t, id |-> id, ok |-> ok])

\* WorkerApplication::handleMessage.
handleMessage ==
    LET m == Head(toWorker)
    IN  /\ Connected /\ toWorker # <<>>
        /\ toWorker' = Tail(toWorker)
        /\ CASE m.type = "RouteLoad" ->
                  worker' = [worker EXCEPT !.route = m.ref]
                    /\ Send("Response", m.ref, TRUE)
             [] m.type = "Response" ->
                  /\ worker' = [worker EXCEPT
                                  !.answers[m.ref] = @ + 1,
                                  !.navigating = IF @ = m.ref THEN 0 ELSE @]
                  /\ UNCHANGED toHost
             [] m.type = "Shutdown" ->
                  worker' = [worker EXCEPT !.open = FALSE]
                    /\ Send("Shutdown", 0, TRUE)
             [] OTHER -> UNCHANGED <<worker, toHost>>
        /\ UNCHANGED <<ctl, call, io, writes>>

\* Every request has an id that was never used before.
NextRequest == worker.lastRequest + 1
Asked == [worker EXCEPT !.lastRequest = NextRequest,
                        !.asked = @ \cup {NextRequest}]

sendCapabilityRequest ==
    /\ Connected /\ NextRequest <= budget.requests
    /\ Send("Request", NextRequest, TRUE)
    /\ worker' = Asked
    /\ UNCHANGED <<ctl, call, io, writes, toWorker>>

sendNavigationRequest ==
    /\ Connected /\ NextRequest <= budget.requests
    /\ worker.navigating = 0
    /\ Send("NavigationRequest", NextRequest, TRUE)
    /\ worker' = [Asked EXCEPT !.navigating = NextRequest]
    /\ UNCHANGED <<ctl, call, io, writes, toWorker>>

\* It crashes, or is terminated.
workerCloses ==
    /\ Connected
    /\ worker' = [worker EXCEPT !.open = FALSE]
    /\ UNCHANGED <<ctl, call, io, writes, toWorker, toHost>>

\* It sends what no correct Worker sends, and then nothing more.
workerMisbehaves ==
    /\ Connected
    /\ worker' = [worker EXCEPT !.honest = FALSE]
    /\ \/ \E r \in io.pending : Send("Response", r, TRUE)
       \/ \E r \in io.pending \cup {0} : Send("Response", r, FALSE)
       \/ \E r \in worker.asked : Send("Request", r, TRUE)
       \/ Send("Shutdown", 0, TRUE)
       \/ Send("HandshakeAck", 0, TRUE)
    /\ UNCHANGED <<ctl, call, io, writes, toWorker>>

-----------------------------------------------------------------------------

Client ==
    \/ attach(TRUE, TRUE)
    \/ shutdown \/ requestRouteLoad

GuiEvent ==
    \/ ignoreEvent \/ handleNavigationRequest \/ handleRouteLoadResponse
    \/ handleCapabilityRequest \/ failLater
    \/ handleCommandFinished \/ sessionFailed \/ shutdownFinished
    \/ handleIoThreadFinished(TRUE)

GuiReturn ==
    \/ navigateDenies \/ navigateSucceeds
    \/ routeLoadAcknowledged \/ capabilityRequestObserved
    \/ capabilityResponseSent

IoEvent == sendMessage \/ resumePolling \/ beginShutdown \/ abort \/ writeCompletes
Poll == pollSession \/ peerClosed
Deadline == routeLoadTimesOut \/ sendDeadline \/ shutdownDeadline
WorkerSends == sendCapabilityRequest \/ sendNavigationRequest

Usual ==
    \/ Client \/ GuiEvent \/ GuiReturn
    \/ \E r \in ctl.serving : submitCapabilityCompletion(r)
    \/ IoEvent \/ Poll \/ passGate \/ writeNext
    \/ handleMessage \/ WorkerSends

\* What is rarer, or the Worker's or a client's fault.
Incident ==
    \/ attach(FALSE, TRUE) \/ attach(TRUE, FALSE)
    \/ handleIoThreadFinished(FALSE)
    \/ \E binding \in BOOLEAN : replace(binding)
    \/ sendVisibilityChanged
    \/ unbindCapabilityRuntime \/ beginRevoke \/ navigateThrows
    \/ workerCloses \/ workerMisbehaves

Next ==
    /\ \/ (Usual \/ Deadline) /\ UNCHANGED incidents
       \/ incidents < budget.incidents /\ incidents' = incidents + 1 /\ Incident
    /\ UNCHANGED budget

Spec == Init /\ [][Next]_vars

\* Both event loops run, callbacks return, timers fire.  Nothing is assumed
\* of the Worker, nor of the writer, which may block.
FairSpec ==
    /\ Spec
    /\ WF_system(GuiEvent) /\ WF_system(GuiReturn)
    /\ WF_system(IoEvent) /\ WF_system(Poll)
    /\ WF_system(routeLoadTimesOut) /\ WF_system(sendDeadline)
    /\ WF_system(shutdownDeadline)

-----------------------------------------------------------------------------
\* Properties.

\* The checks the two threads make of each other never fail: one command is
\* on its way at a time, a command never reaches a session that has ended
\* before the controller knows, and both sides agree on the route loads that
\* are pending, whatever the Worker answers.
ThreadsAgree ==
    ctl.error \notin {"concurrent_send", "stale_command",
                      "unexpected_response", "completion_mismatch"}

\* A Worker reads at most one answer to a request, and only to one that it
\* made itself in this session.
AnsweredOnce ==
    \A r \in 1 .. MaxRequests :
        worker.answers[r] <= (IF r \in worker.asked THEN 1 ELSE 0)

\* The result of a capability is published only on an authority that was
\* there when its gate was asked: once the GUI thread has shut the session
\* down, failed it or unbound the runtime, no queued result passes its gate,
\* and the one that may be past it by then is the last to be written.
UnboundIsSilent ==
    [][~(Running(ctl) /\ ctl.bound) =>
         /\ io'.passed => io.passed
         /\ \A w \in ToSet(toWorker') \ ToSet(toWorker) :
              w.gated => io.passed /\ ~io'.passed]_vars

\* A route load that was asked for is acknowledged, or the session fails: it
\* never stays pending, though the Worker may not answer.
RouteLoadResolves == ctl.routes # {} ~> ctl.routes = {}

\* A message that stops the polling is dealt with, after which polling goes
\* on, or the session ends.
PollingResumes == io.awaitingGui ~> ~io.awaitingGui

\* A session that is shut down, or has failed, ends its thread, whatever the
\* Worker does; one that waits for it is then started.
SessionEnds ==
    ctl.attached /\ ~Running(ctl) ~> ~ctl.attached \/ Running(ctl)

\* GUI thread, IO thread and Worker agree on what was asked and answered.
SessionIsConsistent == ThreadsAgree /\ AnsweredOnce

\* Nothing a session waits for is waited for for ever.
SessionMovesOn == RouteLoadResolves /\ PollingResumes /\ SessionEnds
=============================================================================
