------------------------------ MODULE PipeWriter ------------------------------
(***************************************************************************)
(* runtime/ipc/WinPipeTransport, the sending half: a thread that owns the  *)
(* writes of a pipe, the client that submits, waits and closes, and        *)
(* cancellations that arrive from any thread; with the completion that     *)
(* runtime/ipc/IpcSession arms once its bookkeeping is done.               *)
(*                                                                         *)
(* Every action is one critical section of the writer's mutex, or what a   *)
(* thread does between two of them.  A frame is written in two pieces.     *)
(***************************************************************************)
EXTENDS Integers, Sequences, FiniteSets, SequencesExt

CONSTANTS Operations,    \* write operations, each submitted at most once
          Synchronous,   \* those that writeAll submits and waits for
          Gated,         \* those with a publication gate
          NoOperation,
          MaxPending     \* maximumPendingWriteCount

ASSUME OperationsAssumption ==
    /\ IsFiniteSet(Operations) /\ NoOperation \notin Operations
    /\ Synchronous \subseteq Operations /\ Gated \subseteq Operations
    /\ MaxPending \in Nat

VARIABLES
    queue, current, pendingCount, closing,   \* PipeWriterState
    cancellationRequested, writeStarted, finished,   \* sets of operations
    accepted,    \* operations submitWrite accepted
    armed,       \* operations whose completion was armed
    result,      \* the result each completion was given
    calls,       \* how often each completion was called
    writer,      \* the writer thread: its step, operation and result
    client,      \* the client thread: its step and operation
    removed,     \* operations a canceller removed and has still to finish
    settled,     \* operations reported as cancelled or timed out
    pipe,        \* the pieces written so far
    admitted,    \* what the publication gates answer
    peerOpen     \* the other end of the pipe

ops == <<cancellationRequested, writeStarted, finished>>
completions == <<armed, result, calls>>
world == <<pipe, admitted, peerOpen>>
pipeVars == <<queue, current, pendingCount, closing, ops, accepted, completions,
          writer, client, removed, settled, world>>

Results == {"Ok", "Cancelled", "PeerClosed"}
NoResult == "none"
Idle == [step |-> "idle", op |-> NoOperation]
Waiting == [step |-> "waiting", op |-> NoOperation, result |-> NoResult]

PipeInit ==
    /\ queue = <<>> /\ current = NoOperation /\ pendingCount = 0
    /\ closing = FALSE
    /\ cancellationRequested = {} /\ writeStarted = {} /\ finished = {}
    /\ accepted = {} /\ armed = {}
    /\ result = [o \in Operations |-> NoResult]
    /\ calls = [o \in Operations |-> 0]
    /\ writer = Waiting /\ client = Idle
    /\ removed = {} /\ settled = {}
    /\ pipe = <<>> /\ admitted = TRUE /\ peerOpen = TRUE

-----------------------------------------------------------------------------
\* ArmableSendCompletion and PipeWriteOperation::finish.

mayCall(o) == o \in armed

\* finish is called with result r for every operation of the set S.
finishAll(S, r) ==
    LET first == S \ finished
    IN  /\ finished' = finished \cup S
        /\ result' = [o \in Operations |-> IF o \in first THEN r ELSE result[o]]
        /\ calls' = [o \in Operations |->
                       IF o \in first /\ mayCall(o) THEN calls[o] + 1
                                                    ELSE calls[o]]

-----------------------------------------------------------------------------
\* The client.

\* submitWrite; writeAll has no completion to arm.
submitWrite(o) ==
    /\ client = Idle
    /\ o \notin accepted
    /\ ~closing
    /\ pendingCount < MaxPending
    /\ accepted' = accepted \cup {o}
    /\ queue' = Append(queue, o)
    /\ pendingCount' = pendingCount + 1
    /\ client' = [step |-> IF o \in Synchronous THEN "awaiting" ELSE "submitted",
                  op |-> o]
    /\ armed' = IF o \in Synchronous THEN armed \cup {o} ELSE armed
    /\ UNCHANGED <<current, closing, ops, result, calls, writer, removed,
                   settled, world>>

\* submitInternal commits its bookkeeping and arms the completion.
arm ==
    LET o == client.op
    IN  /\ client.step = "submitted"
        /\ armed' = armed \cup {o}
        /\ calls' = [calls EXCEPT ![o] = IF result[o] = NoResult THEN @ ELSE @ + 1]
        /\ client' = Idle
        /\ UNCHANGED <<queue, current, pendingCount, closing, ops, accepted,
                       result, writer, removed, settled, world>>

writeAllReturns ==
    /\ client.step = "awaiting"
    /\ calls[client.op] > 0
    /\ client' = Idle
    /\ UNCHANGED <<queue, current, pendingCount, closing, ops, accepted,
                   completions, writer, removed, settled, world>>

BugCancelsStarted(o) == TRUE
notStarted(o) == o \notin writeStarted

\* Whether PipeWriterState::cancel returns true.
cancellable(o) ==
    o \notin finished /\ (Contains(queue, o) \/ (current = o /\ notStarted(o)))

\* PipeWriterState::cancel, where it returns true, up to the unlock.
cancelLocked(o) ==
    /\ cancellable(o)
    /\ \/ /\ \E i \in DOMAIN queue : queue[i] = o /\ queue' = RemoveAt(queue, i)
          /\ pendingCount' = pendingCount - 1
          /\ removed' = removed \cup {o}
          /\ UNCHANGED cancellationRequested
       \/ /\ ~Contains(queue, o)
          /\ cancellationRequested' = cancellationRequested \cup {o}
          /\ UNCHANGED <<queue, pendingCount, removed>>
    /\ settled' = settled \cup {o}

\* cancel by whoever holds the PipeWriteCancellation of a submission.
cancel(o) ==
    /\ o \in accepted \ Synchronous
    /\ client.op # o
    /\ cancelLocked(o)
    /\ UNCHANGED <<current, closing, writeStarted, finished, accepted,
                   completions, writer, client, world>>

\* The part of cancel after the unlock.
finishRemoved(o) ==
    /\ o \in removed
    /\ removed' = removed \ {o}
    /\ finishAll({o}, "Cancelled")
    /\ UNCHANGED <<queue, current, pendingCount, closing,
                   cancellationRequested, writeStarted, accepted, armed,
                   writer, client, settled, world>>

BugLeavesCurrent == {}
interrupted == {current} \ {NoOperation}

\* closePipeWriter up to the wait for the thread.
beginClose ==
    /\ closing' = TRUE
    /\ cancellationRequested' = cancellationRequested \cup interrupted
    /\ client' = [client EXCEPT !.step = "joining"]

\* writeAll gives up: it cancels, or closes when the frame has started.
writeAllTimesOut ==
    /\ client.step = "awaiting"
    /\ calls[client.op] = 0
    /\ IF cancellable(client.op)
         THEN /\ cancelLocked(client.op)
              /\ client' = Idle
              /\ UNCHANGED closing
         ELSE /\ beginClose
              /\ UNCHANGED <<queue, pendingCount, removed, settled>>
    /\ UNCHANGED <<current, writeStarted, finished, accepted, completions,
                   writer, world>>

close ==
    /\ client = Idle
    /\ beginClose
    /\ UNCHANGED <<queue, current, pendingCount, writeStarted, finished,
                   accepted, completions, writer, removed, settled, world>>

joined == writer.step = "exited"

\* The thread has ended: close returns, and writeAll reports its deadline.
closeReturns ==
    /\ client.step = "joining"
    /\ joined
    /\ settled' = settled \cup ({client.op} \ {NoOperation})
    /\ client' = [step |-> "closed", op |-> NoOperation]
    /\ UNCHANGED <<queue, current, pendingCount, closing, ops, accepted,
                   completions, writer, removed, world>>
-----------------------------------------------------------------------------
\* persistentPipeWriter, the writer's thread.

take ==
    /\ writer.step = "waiting"
    /\ queue # <<>>
    /\ current' = Head(queue)
    /\ queue' = Tail(queue)
    /\ cancellationRequested' =
         cancellationRequested \cup (IF closing THEN {Head(queue)} ELSE {})
    /\ writer' = [step |-> "taken", op |-> Head(queue), result |-> NoResult]
    /\ UNCHANGED <<pendingCount, closing, writeStarted, finished, accepted,
                   completions, client, removed, settled, world>>

exit ==
    /\ writer.step = "waiting"
    /\ queue = <<>>
    /\ closing
    /\ writer' = [writer EXCEPT !.step = "exited"]
    /\ UNCHANGED <<queue, current, pendingCount, closing, ops, accepted,
                   completions, client, removed, settled, world>>

\* writeOperation returns r.
Returns(r) == writer' = [writer EXCEPT !.step = "returned", !.result = r]

\* writeOperation: the first test and the publication gate.
publicationGate ==
    /\ writer.step = "taken"
    /\ IF \/ writer.op \in cancellationRequested
          \/ writer.op \in Gated /\ ~admitted
         THEN Returns("Cancelled")
         ELSE writer' = [writer EXCEPT !.step = "admitted"]
    /\ UNCHANGED <<queue, current, pendingCount, closing, ops, accepted,
                   completions, client, removed, settled, world>>

BugStartsCancelled == TRUE
mayStart == writer.op \notin cancellationRequested

\* writeOperation: the second test, which takes the mutex.
startWrite ==
    /\ writer.step = "admitted"
    /\ IF mayStart
         THEN /\ writeStarted' = writeStarted \cup {writer.op}
              /\ writer' = [writer EXCEPT !.step = "writing"]
         ELSE /\ Returns("Cancelled")
              /\ UNCHANGED writeStarted
    /\ UNCHANGED <<queue, current, pendingCount, closing,
                   cancellationRequested, finished, accepted, completions,
                   client, removed, settled, world>>

\* WriteFile succeeds for one piece; it blocks as long as the peer does not
\* read.
writeFile ==
    /\ writer.step = "writing"
    /\ peerOpen
    /\ LET last == pipe # <<>> /\ Last(pipe) = <<writer.op, "first">>
       IN  /\ pipe' = Append(pipe, <<writer.op, IF last THEN "last" ELSE "first">>)
           /\ IF last THEN Returns("Ok") ELSE UNCHANGED writer
    /\ UNCHANGED <<queue, current, pendingCount, closing, ops, accepted,
                   completions, client, removed, settled, admitted, peerOpen>>

\* WriteFile is aborted by CancelSynchronousIo, or the loop sees the request,
\* or the peer has closed.
abortWrite ==
    /\ writer.step = "writing"
    /\ \/ writer.op \in cancellationRequested /\ Returns("Cancelled")
       \/ ~peerOpen /\ Returns("PeerClosed")
    /\ UNCHANGED <<queue, current, pendingCount, closing, ops, accepted,
                   completions, client, removed, settled, world>>

onePendingLess == pendingCount - 1

retireCurrent ==
    /\ writer.step = "returned"
    /\ current' = NoOperation
    /\ pendingCount' = onePendingLess
    /\ writer' = [writer EXCEPT !.step = "finishing"]
    /\ UNCHANGED <<queue, closing, ops, accepted, completions, client,
                   removed, settled, world>>

finish ==
    /\ writer.step = "finishing"
    /\ finishAll({writer.op}, writer.result)
    /\ writer' = Waiting
    /\ UNCHANGED <<queue, current, pendingCount, closing,
                   cancellationRequested, writeStarted, accepted, armed,
                   client, removed, settled, world>>

selfCancelled == ToSet(queue)

\* The completion that finish calls closes the transport, on this thread: it
\* takes what is queued, finishes it and returns without a wait.
finishThenClose ==
    LET all == {writer.op} \cup selfCancelled
    IN  /\ writer.step = "finishing"
        /\ client = Idle
        /\ writer.op \in armed \ finished
        /\ closing' = TRUE
        /\ finished' = finished \cup all
        /\ result' = [o \in Operations |->
                        CASE o \notin all \ finished -> result[o]
                          [] o = writer.op -> writer.result
                          [] OTHER -> "Cancelled"]
        /\ calls' = [o \in Operations |->
                       IF o \in all \ finished /\ mayCall(o) THEN calls[o] + 1
                                                             ELSE calls[o]]
        /\ queue' = <<>>
        /\ pendingCount' = pendingCount - Len(queue)
        /\ writer' = Waiting
        /\ client' = [step |-> "closed", op |-> NoOperation]
        /\ UNCHANGED <<current, cancellationRequested, writeStarted, accepted,
                       armed, removed, settled, world>>

-----------------------------------------------------------------------------
\* The authority behind the gates is revoked; the peer closes its end.

revoke ==
    /\ admitted /\ admitted' = FALSE
    /\ UNCHANGED <<queue, current, pendingCount, closing, ops, accepted,
                   completions, writer, client, removed, settled, pipe,
                   peerOpen>>

peerCloses ==
    /\ peerOpen /\ peerOpen' = FALSE
    /\ UNCHANGED <<queue, current, pendingCount, closing, ops, accepted,
                   completions, writer, client, removed, settled, pipe,
                   admitted>>

-----------------------------------------------------------------------------

WriterStep ==
    \/ take \/ exit \/ publicationGate \/ startWrite \/ abortWrite
    \/ retireCurrent \/ finish \/ finishThenClose

PipeNext ==
    \/ \E o \in Operations : submitWrite(o) \/ cancel(o) \/ finishRemoved(o)
    \/ arm \/ writeAllReturns \/ writeAllTimesOut \/ close \/ closeReturns
    \/ WriterStep \/ writeFile
    \/ revoke \/ peerCloses

PipeSpec == PipeInit /\ [][PipeNext]_pipeVars

\* The writer's thread runs, and what blocks it is a peer that does not read;
\* the client returns from what it is doing.
FairPipeSpec ==
    /\ PipeSpec
    /\ WF_pipeVars(WriterStep)
    /\ WF_pipeVars(arm \/ writeAllReturns \/ writeAllTimesOut \/ closeReturns)

-----------------------------------------------------------------------------
\* Properties.

\* The members stay in their ranges, and pendingCount counts what is queued
\* and what the thread has taken.
PendingIsCounted ==
    /\ queue \in Seq(accepted) /\ accepted \subseteq Operations
    /\ current \in accepted \cup {NoOperation}
    /\ UNION {cancellationRequested, writeStarted, finished, armed, removed,
              settled} \subseteq accepted
    /\ result \in [Operations -> Results \cup {NoResult}]
    /\ pendingCount = Len(queue) + (IF current = NoOperation THEN 0 ELSE 1)
    /\ pendingCount <= MaxPending

\* tst_ipc_session.cpp: every accepted write is completed exactly once.  A
\* completion is called at most once, whoever finishes the operation, and
\* not before the session has committed its bookkeeping.
CompletedOnce ==
    \A o \in Operations : calls[o] <= (IF o \in armed THEN 1 ELSE 0)

\* WinPipeTransport.cpp: "no bytes can appear after writeAll returns".  Of an
\* operation that was reported as cancelled, or as timed out, nothing is
\* written any more.
SettledIsFinal ==
    [][\A i \in Len(pipe) + 1 .. Len(pipe') : pipe'[i][1] \notin settled]_pipeVars

\* A frame is never cut in two by another one: the peer could not find the
\* frames any more.
FramesAreWhole ==
    \A i \in 1 .. Len(pipe) - 1 :
        pipe[i][2] = "first" => pipe[i + 1] = <<pipe[i][1], "last">>

\* When close has returned every accepted operation has been completed, but
\* for those another thread is just cancelling: the objects the completions
\* refer to may go.
CloseIsComplete ==
    client.step = "closed" =>
        \A o \in accepted : calls[o] = 1 \/ o \in removed

\* Closing waits for the writer's thread, and returns though the peer does
\* not read.
CloseReturns == client.step = "joining" ~> client.step = "closed"

\* Whoever ends a write (the writer, a cancellation, a deadline, a close), it is
\* counted, completed once and written whole or not at all.
WritesAreAccountedFor ==
    PendingIsCounted /\ CompletedOnce /\ FramesAreWhole /\ CloseIsComplete
=============================================================================
