------------------------------ MODULE GestureOps ------------------------------
(***************************************************************************)
(* apps/host/HostGestureRouter.cpp and broker/UserGestureGrantStore.cpp,   *)
(* as operators on a record g, all on the GUI thread: which runtime is     *)
(* bound for each tab, which binding is active and since which epoch, the  *)
(* last input seen for a binding and the last one a grant was given for    *)
(* (0 is none), the request ids a binding's grant session remembers, and   *)
(* the runtimes whose admission token still admits.  now is the time of    *)
(* the newest input; an input before fresh is over maximumGestureAgeMs     *)
(* old.  A revocation that comes between the code's two tests of the token *)
(* is as one before them: a revoked binding is granted nothing again.      *)
(*                                                                         *)
(* What the system reports of the focus and the foreground window is an    *)
(* argument of BOOLEAN: the code asks for it before and after it takes a   *)
(* use of the token.                                                       *)
(***************************************************************************)
EXTENDS Naturals

CONSTANTS Tabs, Runtimes, TabOf, NoRuntime

InitialRouter ==
    [bindings |-> [t \in Tabs |-> NoRuntime], active |-> NoRuntime, epoch |-> 0,
     trusted |-> [r \in Runtimes |-> 0], granted |-> [r \in Runtimes |-> 0],
     used |-> [r \in Runtimes |-> {}], suppressed |-> FALSE,
     admitted |-> Runtimes, now |-> 0, fresh |-> 1]

\* What was seen for some of the bindings is forgotten.
without(seen, S) == [r \in Runtimes |-> IF r \in S THEN 0 ELSE seen[r]]

BugKeepsEvidence(g, S) == [g EXCEPT !.granted = without(@, S)]
clearEvidence(g, S) ==
    [g EXCEPT !.trusted = without(@, S), !.granted = without(@, S)]

clearActiveEvidence(g) ==
    IF g.active = NoRuntime THEN g
    ELSE clearEvidence([g EXCEPT !.epoch = @ + 1, !.active = NoRuntime], {g.active})

revoke(g, S) == [g EXCEPT !.admitted = @ \ S]

\* Only a binding the tab has now is let go, its token with it.  S has one
\* runtime, or those that end one after the other, in whatever order.
unregisterBinding(g, S) ==
    LET bound == {r \in S : g.bindings[TabOf[r]] = r}
        cleared == clearEvidence(IF g.active \in bound THEN clearActiveEvidence(g)
                                 ELSE g, bound)
    IN  [revoke(cleared, bound) EXCEPT
            !.bindings = [t \in Tabs |-> IF @[t] \in bound THEN NoRuntime ELSE @[t]]]

\* The tab's older binding goes first, even when the new token is refused.
registerBinding(g, r) ==
    LET old == g.bindings[TabOf[r]]
        alone == IF old = NoRuntime THEN g ELSE unregisterBinding(g, {old})
    IN  IF r \in g.admitted THEN [alone EXCEPT !.bindings[TabOf[r]] = r] ELSE alone

activateBinding(g, r) ==
    IF g.bindings[TabOf[r]] # r THEN clearActiveEvidence(g)
    ELSE IF g.active = r
    THEN IF r \in g.admitted THEN g ELSE clearActiveEvidence(g)
    ELSE LET cleared == clearEvidence(clearActiveEvidence(g), {r})
         IN  IF r \in g.admitted
             THEN [cleared EXCEPT !.epoch = @ + 1, !.active = r] ELSE cleared

isActiveBinding(g, r) == g.active = r

\* UserGestureGrantStore: a request id gets one grant in replayWindowMs.
tryIssue(g, r, q) == q \notin g.used[r]

GrantIsDue(g, r) ==
    g.trusted[r] # 0 /\ g.trusted[r] # g.granted[r] /\ g.trusted[r] >= g.fresh

issueGrantOk(g, r, q, focus, focusAgain) ==
    /\ g.active = r
    /\ focus /\ GrantIsDue(g, r)
    /\ r \in g.admitted
    /\ focusAgain
    /\ tryIssue(g, r, q)

\* A grant spends its input and the request id (the clipboard broker consumes
\* it in the same call); a refusal loses the evidence.
issueGrant(g, r, q, ok) ==
    IF g.active # r THEN g
    ELSE IF ok THEN [g EXCEPT !.granted[r] = g.trusted[r], !.used[r] = @ \cup {q}]
    ELSE clearEvidence(g, {r})

\* routeKeyboard for any other key, and observeMouse (which asks about the
\* window under the mouse instead of the focus).
recordInput(g, focus, focusAgain) ==
    LET r == g.active
        seen == [g EXCEPT !.now = @ + 1]
    IN  IF r = NoRuntime THEN seen
        ELSE IF focus /\ r \in g.admitted /\ focusAgain
        THEN [seen EXCEPT !.trusted[r] = seen.now]
        ELSE clearEvidence(seen, {r})

\* The keyboard hook on a key that is a browser command: the key is kept from
\* the Worker until it is released, and a command is queued if all is well.
CommandQueued(g, focus, focusAgain) ==
    /\ g.active # NoRuntime /\ ~g.suppressed
    /\ focus /\ focusAgain /\ g.active \in g.admitted

routeCommandKey(g, focus, focusAgain) ==
    IF g.suppressed \/ g.active = NoRuntime THEN g
    ELSE IF ~focus THEN clearEvidence(g, {g.active})
    ELSE IF CommandQueued(g, focus, focusAgain) THEN [g EXCEPT !.suppressed = TRUE]
    ELSE [clearEvidence(g, {g.active}) EXCEPT !.suppressed = TRUE]

releaseKey(g) == [g EXCEPT !.suppressed = FALSE]

\* The queued command asks everything again when its turn comes.
dispatchAdmitted(g, c, focus) ==
    c.r \in g.admitted /\ focus /\ g.active = c.r /\ g.epoch = c.epoch

=============================================================================
