---------------------------- MODULE FileDialogOps ----------------------------
(***************************************************************************)
(* runtime/broker/FileDialogCoordinator.cpp: the one process-wide file     *)
(* dialog.  The state is a record d, and each operator is what one thread  *)
(* does to it under the coordinator's stateMutex_, or one message of the   *)
(* apartment (STA) thread, which alone owns the physical dialog.           *)
(*                                                                         *)
(* An operation is named by its token.  terminal is the set of operations  *)
(* in state Terminal; callbacks is the queue of the callback thread; msgs  *)
(* is the queue of the message-only window; sta says where the apartment   *)
(* thread is: in GetMessage ("idle"), in the loop of runNextOperation      *)
(* ("next"), inside Show with its modal loop pumping ("show"), reading the *)
(* chosen file ("read"), at the end of runNextOperation ("tail"), or gone. *)
(***************************************************************************)
EXTENDS Naturals, Sequences, SequencesExt

CONSTANT NoOp

Statuses == {"Opened", "Cancelled", "TooLarge", "Busy", "Denied", "Failed"}

\* The coordinator once start() has seen staReady_: a window and COM, or an
\* apartment thread that has already left.
InitialDialog(available) ==
    [available |-> available, stopping |-> FALSE, active |-> NoOp,
     pending |-> <<>>, terminal |-> {}, cancels |-> {}, callbacks |-> <<>>,
     msgs |-> <<>>, quit |-> FALSE, physical |-> NoOp, shown |-> "Failed",
     cancelDelivered |-> FALSE, sta |-> IF available THEN "idle" ELSE "exited"]

\* The first outcome of an operation is its only one.
finishLocked(d, o, status) ==
    IF o \in d.terminal THEN d
    ELSE [d EXCEPT !.terminal = @ \cup {o},
                   !.callbacks = Append(@, [op |-> o, status |-> status])]

\* An operation is queued once.
releaseOperationReservationLocked(d, o) ==
    [d EXCEPT !.pending = RemoveFirst(@, o),
              !.active = IF @ = o THEN NoOp ELSE @]

BugKeepsReservation(d, o, status) == finishLocked(d, o, status)
finishAndReleaseOperation(d, o, status) ==
    releaseOperationReservationLocked(finishLocked(d, o, status), o)

Accepted(d, admitted) ==
    admitted /\ d.active = NoOp /\ d.available

\* The locked part of openAsync, for a coordinator that is not stopping: an
\* operation that is not accepted is finished at once.
openAsync(d, o, admitted) ==
    IF Accepted(d, admitted)
    THEN [d EXCEPT !.active = o, !.pending = Append(@, o)]
    ELSE finishLocked(d, o, IF ~admitted THEN "Denied"
                            ELSE IF d.active # NoOp THEN "Busy" ELSE "Failed")

\* PostMessageW to the window, which is refused once the window is destroyed.
postWindowMessage(d, m) ==
    IF d.sta = "exited" THEN d ELSE [d EXCEPT !.msgs = Append(@, m)]

\* The rest of openAsync: a start message that cannot be posted fails the
\* operation.
postStart(d, o, posted) ==
    IF posted /\ d.sta # "exited" THEN postWindowMessage(d, "start")
    ELSE finishAndReleaseOperation(d, o, "Failed")

requestCancel(d, o) ==
    IF d.active # o \/ o \in d.terminal THEN d
    ELSE postWindowMessage([finishLocked(d, o, "Cancelled")
                                EXCEPT !.cancels = @ \cup {o}], "cancel")

----------------------------------------------------------------------------
\* The apartment thread.

deliverPhysicalCancellation(d) == [d EXCEPT !.cancelDelivered = TRUE]

BugIgnoresCancel(d) == [d EXCEPT !.cancels = {}]
handleCancelMessage(d) ==
    LET swapped == [d EXCEPT !.cancels = {}]
    IN  IF d.physical # NoOp /\ d.physical \in d.cancels
        THEN deliverPhysicalCancellation(swapped) ELSE swapped

handleShutdownMessage(d) ==
    IF d.physical # NoOp THEN deliverPhysicalCancellation(d)
    ELSE [d EXCEPT !.quit = TRUE]

\* A start message that arrives inside the modal loop of Show finds a
\* physical operation and does nothing.
handleStartMessage(d) ==
    IF d.physical # NoOp THEN d ELSE [d EXCEPT !.sta = "next"]

windowProcedure(d) ==
    LET rest == [d EXCEPT !.msgs = Tail(@)]
    IN  CASE Head(d.msgs) = "start"    -> handleStartMessage(rest)
          [] Head(d.msgs) = "cancel"   -> handleCancelMessage(rest)
          [] Head(d.msgs) = "shutdown" -> handleShutdownMessage(rest)

\* One round of the loop of runNextOperation: an operation that was finished
\* while it waited is only released.
runNextOperation(d) ==
    IF d.pending = <<>> THEN [d EXCEPT !.sta = "tail"]
    ELSE LET o == Head(d.pending)
             popped == [d EXCEPT !.pending = Tail(@)]
         IN  IF o \in d.terminal THEN releaseOperationReservationLocked(popped, o)
             ELSE [popped EXCEPT !.physical = o, !.cancelDelivered = FALSE,
                                 !.sta = "show"]

\* What opening the chosen path may come to: the handle is bound first, then
\* the path must still lead to it, every part of it plain, and the size fit.
openStablePath == {"Opened", "TooLarge", "Failed"}

\* The dialog stays open until the choice could be opened.
OnFileOk == {status \in openStablePath : status = "Opened"}

\* How Show may return: closed by the cancellation, by the user, or because
\* the dialog could not be made.
runNativeDialog(d) ==
    IF d.cancelDelivered THEN {"Cancelled"} ELSE OnFileOk \cup {"Cancelled", "Failed"}

showReturned(d, status) == [d EXCEPT !.sta = "read", !.shown = status]

\* Reading the bound handle: the identity, the size and the limit are checked
\* before and after.
materializeSelection(d) ==
    IF d.shown = "Opened" THEN {"Opened", "TooLarge", "Failed"} ELSE {d.shown}

runOperation(d, status) ==
    finishAndReleaseOperation([d EXCEPT !.physical = NoOp, !.sta = "tail"],
                              d.physical, status)

\* The end of runNextOperation reads the queue and stopping_ once more.
runNextOperationTail(d) ==
    LET idle == [d EXCEPT !.sta = "idle"]
    IN  IF d.pending # <<>> THEN postWindowMessage(idle, "start")
        ELSE IF d.stopping THEN [idle EXCEPT !.quit = TRUE] ELSE idle

\* WM_QUIT is delivered only when no message is left.
staLoopEnds(d) == d.sta = "idle" /\ d.msgs = <<>> /\ d.quit

----------------------------------------------------------------------------
beginShutdown(d) ==
    IF d.stopping THEN d
    ELSE LET stopped == [d EXCEPT !.stopping = TRUE]
         IN  postWindowMessage(IF d.active = NoOp THEN stopped
                               ELSE requestCancel(stopped, d.active), "shutdown")

=============================================================================
