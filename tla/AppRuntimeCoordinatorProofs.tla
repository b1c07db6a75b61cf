-------------------- MODULE AppRuntimeCoordinatorProofs --------------------
(***************************************************************************)
(* What the AppRuntimeCoordinator keeps, for any tabs, versions, plans and *)
(* bounds: every open authority is that of one live launch, a rollback     *)
(* fences the failed version before anything is recovered, events of       *)
(* launches whose authority was revoked change nothing, and no step        *)
(* promotes or launches what was not earned.                               *)
(*                                                                         *)
(* The inductive invariant is CoordinatorInv.  Its core, Sound, speaks of  *)
(* a coordinator c as a value, because a call may pass through many of     *)
(* them before it returns:                                                 *)
(*   TokensFollowTabs  epochs are issued once, and the token of a tab's    *)
(*                     launch is closed exactly when the tab has ended;    *)
(*   AdmittedIsLive    only a live tab is admitted;                        *)
(*   OneIncarnation    one runtime incarnation of a browser tab, the ones  *)
(*                     that wait for a drain included;                     *)
(*   FailedIsGone      nothing that failed is selected or runs, but where  *)
(*                     it was spared, and what a rollback revoked waits    *)
(*                     for its drain.                                      *)
(* An operation that keeps a coordinator sound is shown to be Quiet, Calm, *)
(* one that Keeps or one that is Allowed, in the order of how much it may  *)
(* change, and what the parts of a call do adds up (AfterQuiet, FlagAfter, *)
(* FollowsTransitive); CallInv turns that into a step of the specification.*)
(* The loops over the map of tabs are recursive functions on sets of tabs. *)
(* Induction over them is by a minimal counterexample, which a finite set  *)
(* of sets has (LeastSubset): LoopExists for the function itself, and      *)
(* LoopInduction for what it computes.                                     *)
(***************************************************************************)
EXTENDS AppRuntimeCoordinator, FiniteSetTheorems, NaturalsInduction,
        WellFoundedInduction, TLAPS

\* The values that the coordinator and its parts range over.
Supervisors ==
    [activation : Nat, attempt : Nat, hasAttempt : BOOLEAN,
     lastFailed : Sup!AttemptKey, state : Sup!SupervisorStates,
     attemptStart : Nat, handshake : Nat, lastHeartbeat : Nat,
     restartUsed : BOOLEAN, rollbackCalled : BOOLEAN,
     crashLoop : BOOLEAN, handshaken : BOOLEAN]
Leases ==
    [version : Versions \cup {NoVersion} \cup Sites, generation : Nat,
     epoch : Nat]
Tabs ==
    [sup : Supervisors, attempt : Sup!AttemptKey, lease : Leases,
     admitted : BOOLEAN, healthy : BOOLEAN, candidate : BOOLEAN,
     revoked : BOOLEAN, retired : BOOLEAN, failedClosed : BOOLEAN,
     start : Nat]
Descriptors == {NoDescriptor} \cup [version : Versions, generation : Nat]
Drains ==
    [id : Nat, tickets : SUBSET Nat, deadline : Nat,
     affected : SUBSET Authorities, timedOut : BOOLEAN,
     terminalFailure : BOOLEAN]
Coordinators ==
    [store : Store!ActivationStates, present : SUBSET Versions,
     corrupt : SUBSET Versions, sites : SUBSET Sites, closed : SUBSET Nat,
     current : Descriptors, candidate : Descriptors, lkg : Descriptors,
     tabs : [Authorities -> Tabs], drain : Drains, cleanupPending : BOOLEAN,
     nextEpoch : Nat, nextDrain : Nat, candidatePromoted : BOOLEAN,
     rollbackStarted : BOOLEAN, shuttingDown : BOOLEAN,
     failedClosed : BOOLEAN]

-----------------------------------------------------------------------------
\* Supervisors.

\* Ids stay natural numbers when they wrap around.
LEMMA NextIdType ==
    ASSUME NEW n \in Nat PROVE Sup!nextId(n) \in Nat
BY DEF Sup!nextId

\* The default-constructed key and supervisor are in range.
LEMMA NewSupervisorType ==
    /\ Sup!NoKey \in Sup!AttemptKey
    /\ Sup!NewSupervisor \in Supervisors
BY DEF Supervisors, Sup!NewSupervisor, Sup!NoKey, Sup!AttemptKey,
       Sup!SupervisorStates

\* What an activation and an attempt begin with.
LEMMA BeginType ==
    ASSUME NEW s \in Supervisors, NEW at \in Nat
    PROVE  /\ Sup!beginActivation(s, at) \in Supervisors
           /\ Sup!beginAttempt(s, at) \in Supervisors
           /\ Sup!keyOf(s) \in Sup!AttemptKey
<1>1. Sup!nextId(s.activation) \in Nat /\ Sup!nextId(s.attempt) \in Nat
  BY NextIdType DEF Supervisors
<1>2. Sup!beginActivation(s, at) \in Supervisors
  BY <1>1, NewSupervisorType
     DEF Sup!beginActivation, Supervisors, Sup!SupervisorStates
<1>3. Sup!beginAttempt(s, at) \in Supervisors
  BY <1>1 DEF Sup!beginAttempt, Supervisors, Sup!SupervisorStates
<1>4. Sup!keyOf(s) \in Sup!AttemptKey
  BY DEF Sup!keyOf, Sup!AttemptKey, Supervisors
<1> QED
  BY <1>2, <1>3, <1>4

\* What a report makes of a supervisor: typed, and still handshaken.
Answers(s) ==
    {r \in [sup : Supervisors, action : Sup!SupervisionActions] :
        r.sup.handshaken = s.handshaken}

\* Both failure reports answer with a supervisor in range.
LEMMA AnswersType ==
    ASSUME NEW s \in Supervisors, NEW key \in Sup!AttemptKey, NEW at \in Nat
    PROVE  /\ Sup!checkHealth(s, key, at) \in Answers(s)
           /\ \A reason \in Sup!ExitReasons :
                 Sup!workerExited(s, key, reason, at) \in Answers(s)
<1>1. Sup!unexpectedFailure(s, key, at) \in Answers(s)
  BY DEF Sup!unexpectedFailure, Answers, Supervisors, Sup!SupervisorStates,
         Sup!SupervisionActions
<1>2. Sup!staleReport(s, key) \in Answers(s)
  BY DEF Sup!staleReport, Answers, Sup!SupervisionActions
<1>3. [sup |-> s, action |-> "None"] \in Answers(s)
  BY DEF Answers, Sup!SupervisionActions
<1>4. Sup!checkHealth(s, key, at) \in Answers(s)
  BY <1>1, <1>2, <1>3 DEF Sup!checkHealth
<1>5. ASSUME NEW reason \in Sup!ExitReasons
      PROVE  Sup!workerExited(s, key, reason, at) \in Answers(s)
  <2>1. [sup |-> [s EXCEPT !.state = "Retired"], action |-> "None"]
          \in Answers(s)
    BY DEF Answers, Supervisors, Sup!SupervisorStates, Sup!SupervisionActions
  <2>2. [sup |-> [s EXCEPT !.lastFailed = key, !.state = "Retired",
                           !.rollbackCalled = TRUE],
         action |-> "StartupRollback"] \in Answers(s)
    BY DEF Answers, Supervisors, Sup!SupervisorStates, Sup!SupervisionActions
  <2>3. Sup!currentExit(s, key, reason, at) \in Answers(s)
    BY <1>1, <2>1, <2>2 DEF Sup!currentExit, Sup!ExitReasons
  <2> QED
    BY <1>2, <1>3, <2>3 DEF Sup!workerExited
<1> QED
  BY <1>4, <1>5

\* A handshake that is allowed leaves a handshaken supervisor, a heartbeat
\* changes nothing of it.
LEMMA AliveType ==
    ASSUME NEW s \in Supervisors, NEW key \in Sup!AttemptKey, NEW at \in Nat
    PROVE  /\ Sup!heartbeat(s, key, at) \in Supervisors
           /\ Sup!heartbeat(s, key, at).handshaken = s.handshaken
           /\ Sup!handshakeAllowed(s, key, at)
              => /\ Sup!authenticatedHandshake(s, key, at) \in Supervisors
                 /\ Sup!authenticatedHandshake(s, key, at).handshaken
BY DEF Sup!heartbeat, Sup!authenticatedHandshake, Supervisors

-----------------------------------------------------------------------------
\* The store.

\* The changes of the record that select and that promote a version.
LEMMA StateChangeType ==
    ASSUME NEW s \in Store!ActivationStates,
           NEW w \in Versions \cup {NoVersion}
    PROVE  /\ [s EXCEPT !.previous = s.current, !.current = w,
                        !.generation = @ + 1] \in Store!ActivationStates
           /\ [s EXCEPT !.previous = s.current, !.current = w,
                        !.generation = @ + 1].lastKnownGood = s.lastKnownGood
           /\ [s EXCEPT !.lastKnownGood = s.current, !.generation = @ + 1]
                \in Store!ActivationStates
<1> DEFINE Dirs == Versions \cup {NoVersion}
<1>1. s \in [current : Dirs, previous : Dirs, lastKnownGood : Dirs,
             generation : Nat]
      /\ w \in Dirs
  BY DEF Store!ActivationStates
<1>2. Store!ActivationStates =
        [current : Dirs, previous : Dirs, lastKnownGood : Dirs,
         generation : Nat]
  BY DEF Store!ActivationStates
<1> HIDE DEF Dirs
<1>3. ASSUME NEW g \in Nat
      PROVE  /\ [s EXCEPT !.previous = s.current, !.current = w,
                          !.generation = g] \in Store!ActivationStates
             /\ [s EXCEPT !.previous = s.current, !.current = w,
                          !.generation = g].lastKnownGood = s.lastKnownGood
             /\ [s EXCEPT !.lastKnownGood = s.current, !.generation = g]
                  \in Store!ActivationStates
  BY <1>1, <1>2
<1>4. s.generation + 1 \in Nat
  BY <1>1
<1> QED
  BY <1>3, <1>4

\* Each transaction the coordinator makes leaves a record in range, and only
\* the promotion changes the last known good.
LEMMA StoreType ==
    ASSUME NEW s \in Store!ActivationStates, NEW present \in SUBSET Versions,
           NEW v \in Versions, NEW expected
    PROVE  /\ Store!activateVerified(s, present, v).next
                \in Store!ActivationStates
           /\ Store!activateVerified(s, present, v).next.lastKnownGood
                = s.lastKnownGood
           /\ Store!recoverLastKnownGood(s, present, expected).next
                \in Store!ActivationStates
           /\ Store!recoverLastKnownGood(s, present, expected).next
                .lastKnownGood = s.lastKnownGood
           /\ Store!rollback(s, present, expected).next
                \in Store!ActivationStates
           /\ Store!rollback(s, present, expected).next.lastKnownGood
                = s.lastKnownGood
           /\ Store!markCurrentLastKnownGood(s, present, expected).next
                \in Store!ActivationStates
<1> DEFINE Fine(r) == r.next \in Store!ActivationStates
           Same(r) == r.next.lastKnownGood = s.lastKnownGood
<1>1. Fine(Store!Refused(s)) /\ Same(Store!Refused(s))
      /\ Fine(Store!Unchanged(s)) /\ Same(Store!Unchanged(s))
  BY DEF Store!Refused, Store!Unchanged
<1>2. ASSUME NEW next \in Store!ActivationStates
      PROVE  /\ Fine(Store!Written(s, next, present))
             /\ next.lastKnownGood = s.lastKnownGood
                => Same(Store!Written(s, next, present))
  BY DEF Store!Written, Store!Refused
<1>3. ASSUME NEW w \in Versions \cup {NoVersion}
      PROVE  /\ [s EXCEPT !.previous = s.current, !.current = w,
                          !.generation = @ + 1] \in Store!ActivationStates
             /\ [s EXCEPT !.previous = s.current, !.current = w,
                          !.generation = @ + 1].lastKnownGood
                  = s.lastKnownGood
  BY StateChangeType
<1>4. [current |-> s.lastKnownGood, previous |-> NoVersion,
       lastKnownGood |-> s.lastKnownGood, generation |-> s.generation + 1]
        \in Store!ActivationStates
  BY DEF Store!ActivationStates
<1>5. [s EXCEPT !.lastKnownGood = s.current, !.generation = @ + 1]
        \in Store!ActivationStates
  BY StateChangeType
<1>6. Store!rollbackTarget(s) \in Versions \cup {NoVersion}
  BY DEF Store!rollbackTarget, Store!ActivationStates
<1> HIDE DEF Fine, Same
<1>7. Fine(Store!activateVerified(s, present, v))
      /\ Same(Store!activateVerified(s, present, v))
  BY <1>1, <1>2, <1>3 DEF Store!activateVerified
<1>8. Fine(Store!recoverLastKnownGood(s, present, expected))
      /\ Same(Store!recoverLastKnownGood(s, present, expected))
  BY <1>1, <1>2, <1>4 DEF Store!recoverLastKnownGood
<1>9. Fine(Store!rollback(s, present, expected))
      /\ Same(Store!rollback(s, present, expected))
  BY <1>1, <1>2, <1>3, <1>6 DEF Store!rollback
<1>10. Fine(Store!markCurrentLastKnownGood(s, present, expected))
  BY <1>1, <1>2, <1>5 DEF Store!markCurrentLastKnownGood
<1> QED
  BY <1>7, <1>8, <1>9, <1>10 DEF Fine, Same

\* A successful activation selects what it was asked for.
LEMMA ActivateSelects ==
    ASSUME NEW s \in Store!ActivationStates, NEW present \in SUBSET Versions,
           NEW v \in Versions, Store!activateVerified(s, present, v).ok
    PROVE  Store!activateVerified(s, present, v).next.current = v
BY DEF Store!activateVerified, Store!ActivationStates, Store!Refused,
       Store!Unchanged, Store!Written

\* A rollback that succeeds selects another version; a transaction that does
\* not succeed writes nothing.
LEMMA RollbackSelects ==
    ASSUME NEW s \in Store!ActivationStates, NEW present \in SUBSET Versions,
           NEW expected
    PROVE  LET r == Store!rollback(s, present, expected)
           IN  /\ r.ok => /\ s.current = expected.directory
                          /\ r.next.current # s.current
                          /\ r.next.current \in Versions
               /\ ~r.ok => r.next = s
<1> DEFINE r == Store!rollback(s, present, expected)
           v == Store!rollbackTarget(s)
           next == [s EXCEPT !.previous = s.current, !.current = v,
                             !.generation = @ + 1]
<1>1. \/ r = Store!Refused(s)
      \/ /\ Store!matches(s, expected) /\ v # s.current /\ v \in present
         /\ r = Store!Written(s, next, present)
  BY DEF Store!rollback, Store!stateTargetIsValid
<1>2. next.current = v
  BY DEF Store!ActivationStates
<1>3. Store!matches(s, expected) => s.current = expected.directory
  BY DEF Store!matches, Store!bindingForState, Store!NoBinding
<1> HIDE DEF r, v, next
<1>4. /\ r.ok => /\ s.current = expected.directory
                 /\ r.next.current # s.current
                 /\ r.next.current \in Versions
      /\ ~r.ok => r.next = s
  BY <1>1, <1>2, <1>3 DEF Store!Refused, Store!Written
<1> QED
  BY <1>4 DEF r

\* The recovery of the last known good selects it.
LEMMA RecoverSelects ==
    ASSUME NEW s \in Store!ActivationStates, NEW present \in SUBSET Versions,
           NEW expected,
           Store!recoverLastKnownGood(s, present, expected).ok
    PROVE  Store!recoverLastKnownGood(s, present, expected).next.current
             = s.lastKnownGood
BY DEF Store!recoverLastKnownGood, Store!ActivationStates, Store!Refused,
       Store!Unchanged, Store!Written

\* The version that is promoted is the one that was expected.
LEMMA MarkSelects ==
    ASSUME NEW s \in Store!ActivationStates, NEW present \in SUBSET Versions,
           NEW expected,
           Store!markCurrentLastKnownGood(s, present, expected).ok
    PROVE  LET r == Store!markCurrentLastKnownGood(s, present, expected)
           IN  /\ s.current = expected.directory
               /\ r.next.current = s.current
               /\ r.next.lastKnownGood = s.current
BY DEF Store!markCurrentLastKnownGood, Store!ActivationStates, Store!Refused,
       Store!Unchanged, Store!Written, Store!matches, Store!bindingForState,
       Store!NoBinding

-----------------------------------------------------------------------------
\* The loops over the map of tabs.

\* A family of subsets of a finite set has a member that contains no other.
LEMMA LeastSubset ==
    ASSUME NEW A, IsFiniteSet(A), NEW T \in SUBSET (SUBSET A), T # {}
    PROVE  \E S \in T : \A R \in T : R \subseteq S => R = S
<1>1. IsWellFoundedOn(StrictSubsetOrdering(A), SUBSET A)
  BY FS_StrictSubsetOrderingWellFounded, FS_FiniteSubsetsOfFinite
<1>2. PICK S \in T : \A R \in T : <<R, S>> \notin StrictSubsetOrdering(A)
  BY <1>1, WFMin
<1>3. ASSUME NEW R \in T, R \subseteq S PROVE R = S
  <2>1. R \in SUBSET A /\ S \in SUBSET A
    OBVIOUS
  <2> QED
    BY <1>2, <1>3, <2>1 DEF StrictSubsetOrdering
<1> QED
  BY <1>3

\* A set of natural numbers has a least member.
LEMMA LeastNumber ==
    ASSUME NEW T \in SUBSET Nat, T # {}
    PROVE  \E n \in T : \A m \in T : n <= m
<1>1. IsWellFoundedOn(OpToRel(<, Nat), Nat)
  BY NatLessThanWellFounded
<1>2. PICK n \in T : \A m \in T : <<m, n>> \notin OpToRel(<, Nat)
  BY <1>1, WFMin
<1>3. ASSUME NEW m \in T PROVE n <= m
  <2>1. m \in Nat /\ n \in Nat /\ ~(m < n)
    BY <1>2 DEF OpToRel
  <2> QED
    BY <2>1
<1> QED
  BY <1>3

\* There are finitely many tabs.
LEMMA AuthoritiesFinite == IsFiniteSet(Authorities)
<1> DEFINE Pairs == TabIds \X (1 .. MaxIncarnation)
           f == [p \in Pairs |-> [tab |-> p[1], incarnation |-> p[2]]]
<1>1. IsFiniteSet(Pairs)
  <2>1. IsFiniteSet(1 .. MaxIncarnation)
    BY MaxIncarnationAssumption, FS_Interval
  <2> QED
    BY <2>1, TabIdsAssumption, FS_Product
<1>2. f \in Surjection(Pairs, Authorities)
  <2>1. f \in [Pairs -> Authorities]
    BY DEF Authorities
  <2>2. ASSUME NEW a \in Authorities PROVE \E p \in Pairs : f[p] = a
    <3>1. <<a.tab, a.incarnation>> \in Pairs
      BY DEF Authorities
    <3>2. f[<<a.tab, a.incarnation>>] = a
      BY <3>1 DEF Authorities
    <3> QED
      BY <3>1, <3>2
  <2> HIDE DEF f, Pairs
  <2> QED
    BY <2>1, <2>2 DEF Surjection
<1> HIDE DEF f, Pairs
<1> QED
  BY <1>1, <1>2, FS_Surjection

\* The order of the map is total.
LEMMA AuthorityOrder ==
    /\ \A a, b \in Authorities :
          a # b => AuthorityLess(a, b) \/ AuthorityLess(b, a)
    /\ \A a, b, d \in Authorities :
          AuthorityLess(a, b) /\ AuthorityLess(b, d) => AuthorityLess(a, d)
<1>1. ASSUME NEW a \in Authorities
      PROVE  a.tab \in Nat /\ a.incarnation \in Nat
  <2>1. a.tab \in TabIds /\ a.incarnation \in 1 .. MaxIncarnation
    BY DEF Authorities
  <2>2. a.tab \in Nat
    BY <2>1, TabIdsAssumption
  <2>3. a.incarnation \in Nat
    BY <2>1, MaxIncarnationAssumption
  <2> QED
    BY <2>2, <2>3
<1>2. ASSUME NEW a \in Authorities, NEW b \in Authorities, a # b
      PROVE  a.tab # b.tab \/ a.incarnation # b.incarnation
  BY <1>2 DEF Authorities
<1> QED
  BY <1>1, <1>2 DEF AuthorityLess

\* A loop over tabs that are there has a first and a last one.
LEMMA FirstAndLast ==
    ASSUME NEW S \in SUBSET Authorities, S # {}
    PROVE  firstOf(S) \in S /\ lastOf(S) \in S
<1> DEFINE first(R, a) == \A b \in R \ {a} : AuthorityLess(a, b)
           last(R, a) == \A b \in R \ {a} : AuthorityLess(b, a)
           T == {R \in SUBSET Authorities :
                   R # {} /\ ~((\E a \in R : first(R, a))
                                /\ (\E a \in R : last(R, a)))}
<1>1. T = {}
  <2> SUFFICES ASSUME T # {} PROVE FALSE
    OBVIOUS
  <2>1. PICK R \in T : \A Q \in T : Q \subseteq R => Q = R
    <3>1. T \in SUBSET (SUBSET Authorities)
      OBVIOUS
    <3> HIDE DEF T
    <3> QED
      BY <3>1, AuthoritiesFinite, LeastSubset
  <2>2. PICK a \in R : TRUE
    OBVIOUS
  <2> DEFINE Q == R \ {a}
  <2>3. Q # R /\ Q \subseteq R /\ Q \in SUBSET Authorities
        /\ R = Q \cup {a} /\ a \in Authorities
    BY <2>2
  <2>4. Q \notin T
    BY <2>1, <2>3
  <2>5. CASE Q = {}
    <3>1. first(R, a) /\ last(R, a)
      BY <2>3, <2>5
    <3> QED
      BY <2>2, <3>1
  <2>6. CASE Q # {}
    <3>1. PICK m \in Q : first(Q, m)
      BY <2>3, <2>4, <2>6
    <3>2. PICK n \in Q : last(Q, n)
      BY <2>3, <2>4, <2>6
    <3> HIDE DEF Q
    <3>3. \E x \in R : first(R, x)
      <4>1. CASE AuthorityLess(m, a)
        BY <2>3, <3>1, <4>1
      <4>2. CASE AuthorityLess(a, m)
        <5>1. first(R, a)
          BY <2>3, <3>1, <4>2, AuthorityOrder
        <5> QED
          BY <2>2, <5>1
      <4> QED
        BY <2>3, <3>1, <4>1, <4>2, AuthorityOrder DEF Q
    <3>4. \E x \in R : last(R, x)
      <4>1. CASE AuthorityLess(a, n)
        BY <2>3, <3>2, <4>1
      <4>2. CASE AuthorityLess(n, a)
        <5>1. last(R, a)
          BY <2>3, <3>2, <4>2, AuthorityOrder
        <5> QED
          BY <2>2, <5>1
      <4> QED
        BY <2>3, <3>2, <4>1, <4>2, AuthorityOrder DEF Q
    <3> QED
      BY <3>3, <3>4
  <2> QED
    BY <2>5, <2>6
<1>2. (\E a \in S : first(S, a)) /\ (\E a \in S : last(S, a))
  BY <1>1
<1> QED
  BY <1>2 DEF firstOf, lastOf

\* A function that takes the last tab of a set off, step by step.
LoopIsThere(A, W, base, body) ==
    \E f \in [SUBSET A -> W] : \A S \in SUBSET A :
       f[S] = IF S = {} THEN base
              ELSE body[<<f[S \ {lastOf(S)}], lastOf(S)>>]

\* It exists: it is built for the sets of n tabs from the one for n - 1.
LEMMA LoopExists ==
    ASSUME NEW A \in SUBSET Authorities, NEW W, NEW base \in W,
           NEW body \in [W \X A -> W]
    PROVE  LoopIsThere(A, W, base, body)
<1> DEFINE Upto(n) == {S \in SUBSET A : Cardinality(S) <= n}
           next(f, S) == IF S = {} THEN base
                         ELSE body[<<f[S \ {lastOf(S)}], lastOf(S)>>]
           P(n) == \E f \in [Upto(n) -> W] :
                      \A S \in Upto(n) : f[S] = next(f, S)
           T == {n \in Nat : ~P(n)}
<1>1. IsFiniteSet(A) /\ \A S \in SUBSET A : IsFiniteSet(S)
  BY AuthoritiesFinite, FS_Subset
<1>2. \A S \in SUBSET A : Cardinality(S) \in Nat
  BY <1>1, FS_CardinalityType
<1>3. ASSUME NEW n \in Nat, NEW S \in Upto(n), S # {}
      PROVE  /\ lastOf(S) \in A /\ S \ {lastOf(S)} \in Upto(n - 1)
             /\ n # 0
  <2>1. lastOf(S) \in S
    BY <1>3, FirstAndLast
  <2>2. Cardinality(S \ {lastOf(S)}) = Cardinality(S) - 1
    BY <1>1, <2>1, FS_RemoveElement
  <2>3. Cardinality(S) # 0
    BY <1>1, <1>3, FS_EmptySet
  <2> QED
    BY <1>2, <2>1, <2>2, <2>3
<1>4. T = {}
  <2> SUFFICES ASSUME T # {} PROVE FALSE
    OBVIOUS
  <2>1. PICK n \in T : \A m \in T : n <= m
    <3>1. T \in SUBSET Nat
      OBVIOUS
    <3> HIDE DEF T
    <3> QED
      BY <3>1, LeastNumber
  <2>2. CASE n = 0
    <3> DEFINE f == [S \in Upto(0) |-> base]
    <3>1. f \in [Upto(0) -> W]
      OBVIOUS
    <3>2. ASSUME NEW S \in Upto(0) PROVE f[S] = next(f, S)
      <4>1. S = {}
        BY <1>3
      <4> QED
        BY <4>1
    <3> HIDE DEF f
    <3>3. P(0)
      BY <3>1, <3>2
    <3> QED
      BY <2>1, <2>2, <3>3
  <2>3. CASE n # 0
    <3>1. n - 1 \in Nat /\ n - 1 \notin T
      <4>1. n \in Nat
        OBVIOUS
      <4> HIDE DEF T
      <4> QED
        BY <2>1, <2>3, <4>1
    <3>2. PICK f \in [Upto(n - 1) -> W] :
             \A S \in Upto(n - 1) : f[S] = next(f, S)
      BY <3>1
    <3> DEFINE h == [S \in Upto(n) |-> next(f, S)]
    <3>3. h \in [Upto(n) -> W]
      <4>1. ASSUME NEW S \in Upto(n) PROVE next(f, S) \in W
        <5>1. CASE S = {}
          BY <5>1
        <5>2. CASE S # {}
          <6>1. lastOf(S) \in A /\ S \ {lastOf(S)} \in Upto(n - 1)
            BY <1>3, <2>1, <5>2
          <6>2. f[S \ {lastOf(S)}] \in W
            BY <3>2, <6>1
          <6> QED
            BY <5>2, <6>1, <6>2
        <5> QED
          BY <5>1, <5>2
      <4> HIDE DEF next
      <4> QED
        BY <4>1
    <3>4. ASSUME NEW S \in Upto(n - 1) PROVE h[S] = f[S]
      <4>1. S \in Upto(n)
        BY <1>2, <2>1
      <4> HIDE DEF next
      <4> QED
        BY <3>2, <4>1
    <3>5. ASSUME NEW S \in Upto(n) PROVE h[S] = next(h, S)
      <4>1. h[S] = next(f, S)
        BY DEF h
      <4>2. CASE S = {}
        BY <4>1, <4>2
      <4>3. CASE S # {}
        <5>1. S \ {lastOf(S)} \in Upto(n - 1)
          BY <1>3, <2>1, <4>3
        <5>2. h[S \ {lastOf(S)}] = f[S \ {lastOf(S)}]
          BY <3>4, <5>1
        <5> HIDE DEF h
        <5> QED
          BY <4>1, <4>3, <5>2
      <4> QED
        BY <4>2, <4>3
    <3> HIDE DEF h
    <3>6. P(n)
      BY <3>3, <3>5
    <3> QED
      BY <2>1, <3>6
  <2> QED
    BY <2>2, <2>3
<1> DEFINE N == Cardinality(A)
<1>5. N \in Nat /\ Upto(N) = SUBSET A
  BY <1>1, <1>2, FS_Subset
<1>6. P(N)
  BY <1>4, <1>5
<1> QED
  BY <1>5, <1>6 DEF LoopIsThere

-----------------------------------------------------------------------------
\* The invariant of a coordinator.

\* A launch that has not ended.
live(t) == hasRequest(t) /\ ~ended(t)

\* A tab that keeps the other runtime incarnations of its browser tab out.
holds(t) == t # NoTab /\ ~t.retired /\ ~t.failedClosed

\* Every launch has an epoch of its own, and its token is open exactly as
\* long as its tab lives.
TokensFollowTabs(c) ==
    /\ c.nextEpoch >= 1
    /\ \A e \in c.closed : 1 <= e /\ e < c.nextEpoch
    /\ \A a \in Authorities : c.tabs[a].lease.epoch < c.nextEpoch
    /\ \A a, b \in Authorities :
          a # b /\ c.tabs[a].lease.epoch = c.tabs[b].lease.epoch
          => c.tabs[a].lease.epoch = 0
    /\ \A a \in Authorities :
          hasRequest(c.tabs[a])
          => (c.tabs[a].lease.epoch \in c.closed <=> ended(c.tabs[a]))

\* Only live tabs are admitted.
AdmittedIsLive(c) ==
    \A a \in Authorities :
        c.tabs[a].admitted => live(c.tabs[a]) /\ c.tabs[a].sup.handshaken

\* One runtime incarnation of a browser tab at a time; the tabs in draining
\* will be launched again when their authority has drained.
OneIncarnation(c, draining) ==
    \A a, b \in Authorities :
        /\ a # b /\ a.tab = b.tab
        /\ holds(c.tabs[a]) \/ a \in draining
        => ~holds(c.tabs[b]) /\ b \notin draining

\* What is known of the tabs and their tokens.
TabsOK(c, draining) ==
    /\ c \in Coordinators
    /\ TokensFollowTabs(c) /\ AdmittedIsLive(c) /\ OneIncarnation(c, draining)

\* What is known of a tab t of c when the versions in fs have failed and those
\* in ss were spared: no launch of a failed version lives on, but the ones that
\* were spared, and the tabs that run the candidate are marked so.
TabIsFenced(c, t, fs, ss) ==
    live(t) =>
        /\ t.lease.version \in fs => t.lease.version \in ss /\ ~t.candidate
        /\ candidateLease(c, t.lease) => t.candidate \/ t.lease.version \in ss

\* Revoked, but neither closed nor failed: the tab waits for a drain.
awaitsDrain(t) ==
    hasRequest(t) /\ t.revoked /\ ~t.retired /\ ~t.failedClosed

\* Nothing that would be launched next has failed.
SelectionIsGood(c, fs) ==
    ~c.failedClosed =>
        /\ c.store.current \notin fs /\ c.current.version \notin fs
        /\ ~c.candidatePromoted /\ c.candidate # NoDescriptor
           => c.candidate.version \notin fs
        /\ c.drain # NoDrain => /\ c.candidatePromoted
                                /\ c.lkg # NoDescriptor
                                /\ c.lkg.version \notin fs

\* What is known of the failed versions fs and the spared ones ss.
FailedIsGone(c, draining, fs, ss) ==
    /\ fs \subseteq Versions
    /\ \A a \in Authorities :
          /\ TabIsFenced(c, c.tabs[a], fs, ss)
          /\ awaitsDrain(c.tabs[a]) => c.failedClosed \/ a \in draining
          /\ a \in draining => ~live(c.tabs[a])
    /\ SelectionIsGood(c, fs)

\* What any call does to the tokens, the flags and the drain it finds.
Carries(c, d) ==
    /\ c.closed \subseteq d.closed /\ c.nextEpoch <= d.nextEpoch
    /\ \A a \in Authorities :
          hasRequest(c.tabs[a]) =>
             \/ /\ d.tabs[a].lease.epoch = c.tabs[a].lease.epoch
                /\ d.tabs[a].attempt = c.tabs[a].attempt
             \/ c.tabs[a].lease.epoch \in d.closed
    /\ c.failedClosed => d.failedClosed
    /\ c.shuttingDown => d.shuttingDown
    /\ ~launchAllowed(c) => d.nextEpoch = c.nextEpoch
    /\ c.drain # NoDrain => /\ d.drain # NoDrain
                            /\ d.drain.tickets = c.drain.tickets
                            /\ d.nextDrain = c.nextDrain
    /\ c.drain = NoDrain =>
          \/ d.drain = NoDrain /\ d.nextDrain = c.nextDrain
          \/ /\ d.drain # NoDrain /\ d.nextDrain > c.nextDrain
             /\ d.drain.tickets \subseteq d.closed

\* And what any call does but the one that promotes.
Follows(c, d) ==
    /\ Carries(c, d)
    /\ d.store.lastKnownGood = c.store.lastKnownGood

\* Calls that leave alone what is selected, and begin and end no drain.
Calm(c, d) ==
    /\ d.store = c.store /\ d.current = c.current /\ d.lkg = c.lkg
    /\ d.candidate = c.candidate
    /\ d.candidatePromoted = c.candidatePromoted
    /\ d.nextDrain = c.nextDrain /\ d.drain = c.drain
    /\ d.shuttingDown = c.shuttingDown

\* What two calls do adds up.
LEMMA CarriesTransitive ==
    ASSUME NEW c \in Coordinators, NEW d \in Coordinators,
           NEW e \in Coordinators, Carries(c, d), Carries(d, e)
    PROVE  Carries(c, e)
<1>1. /\ c.nextEpoch \in Nat /\ d.nextEpoch \in Nat /\ e.nextEpoch \in Nat
      /\ c.nextDrain \in Nat /\ d.nextDrain \in Nat /\ e.nextDrain \in Nat
  BY DEF Coordinators
<1>2. c.closed \subseteq e.closed /\ c.nextEpoch <= e.nextEpoch
  BY <1>1 DEF Carries
<1>3. ASSUME NEW a \in Authorities, hasRequest(c.tabs[a])
      PROVE  \/ /\ e.tabs[a].lease.epoch = c.tabs[a].lease.epoch
                /\ e.tabs[a].attempt = c.tabs[a].attempt
             \/ c.tabs[a].lease.epoch \in e.closed
  BY <1>3 DEF Carries, hasRequest
<1>4. ~launchAllowed(c) => e.nextEpoch = c.nextEpoch
  BY DEF Carries, launchAllowed
<1>5. /\ c.drain # NoDrain => /\ e.drain # NoDrain
                              /\ e.drain.tickets = c.drain.tickets
                              /\ e.nextDrain = c.nextDrain
      /\ c.drain = NoDrain =>
            \/ e.drain = NoDrain /\ e.nextDrain = c.nextDrain
            \/ /\ e.drain # NoDrain /\ e.nextDrain > c.nextDrain
               /\ e.drain.tickets \subseteq e.closed
  <2>1. CASE c.drain # NoDrain
    BY <2>1 DEF Carries
  <2>2. CASE c.drain = NoDrain /\ d.drain = NoDrain
    BY <1>1, <2>2 DEF Carries
  <2>3. CASE c.drain = NoDrain /\ d.drain # NoDrain
    BY <1>1, <2>3 DEF Carries
  <2> QED
    BY <2>1, <2>2, <2>3
<1> QED
  BY <1>2, <1>3, <1>4, <1>5 DEF Carries

\* So does what they leave alone.
LEMMA FollowsTransitive ==
    ASSUME NEW c \in Coordinators, NEW d \in Coordinators,
           NEW e \in Coordinators, Follows(c, d), Follows(d, e)
    PROVE  Follows(c, e)
BY CarriesTransitive DEF Follows

-----------------------------------------------------------------------------
\* A call that changes one tab.

\* The coordinator with tab t at a, and its new tokens.
put(c, a, t, closed, nextEpoch) ==
    [c EXCEPT !.tabs[a] = t, !.closed = closed, !.nextEpoch = nextEpoch]

\* The tab keeps its launch, loses it with its token closed, or gets a new one.
Moves(c, a, t, closed, nextEpoch) ==
    LET epoch == c.tabs[a].lease.epoch
    IN  /\ c.closed \subseteq closed
        /\ \A e \in closed : e \in c.closed \/ (e = epoch /\ epoch # 0)
        /\ t.admitted => live(t) /\ t.sup.handshaken
        /\ hasRequest(t) => (t.lease.epoch \in closed <=> ended(t))
        /\ \/ /\ t.lease.epoch = epoch /\ t.attempt = c.tabs[a].attempt
              /\ nextEpoch = c.nextEpoch
           \/ /\ t.lease.epoch = 0 /\ (epoch # 0 => epoch \in closed)
              /\ nextEpoch = c.nextEpoch
           \/ /\ t.lease.epoch = c.nextEpoch
              /\ epoch # 0 => epoch \in closed
              /\ nextEpoch = c.nextEpoch + 1
              /\ launchAllowed(c)

\* No other incarnation is kept out that was not kept out before.
Admits(c, a, t, draining) ==
    holds(t) =>
       \/ holds(c.tabs[a]) \/ a \in draining
       \/ \A b \in Authorities :
             b # a /\ b.tab = a.tab => ~holds(c.tabs[b]) /\ b \notin draining

\* Everything but the tab, the tokens and the epochs is as before.
SameButTab(c, d, a) ==
    /\ \A b \in Authorities : b # a => d.tabs[b] = c.tabs[b]
    /\ d.store = c.store /\ d.present = c.present
    /\ d.corrupt = c.corrupt /\ d.sites = c.sites
    /\ d.current = c.current /\ d.candidate = c.candidate
    /\ d.lkg = c.lkg /\ d.drain = c.drain
    /\ d.cleanupPending = c.cleanupPending
    /\ d.nextDrain = c.nextDrain
    /\ d.candidatePromoted = c.candidatePromoted
    /\ d.rollbackStarted = c.rollbackStarted
    /\ d.shuttingDown = c.shuttingDown
    /\ d.failedClosed = c.failedClosed

\* The fields of a coordinator that was changed so.
LEMMA PutFields ==
    ASSUME NEW c \in Coordinators, NEW a \in Authorities, NEW t \in Tabs,
           NEW x \in SUBSET Nat, NEW n \in Nat
    PROVE  /\ put(c, a, t, x, n) \in Coordinators
           /\ put(c, a, t, x, n).closed = x
           /\ put(c, a, t, x, n).nextEpoch = n
           /\ put(c, a, t, x, n).tabs[a] = t
           /\ SameButTab(c, put(c, a, t, x, n), a)
<1> DEFINE tabs == [c.tabs EXCEPT ![a] = t]
<1>1. tabs \in [Authorities -> Tabs] /\ tabs[a] = t
      /\ \A b \in Authorities : b # a => tabs[b] = c.tabs[b]
  BY DEF Coordinators
<1>2. put(c, a, t, x, n) =
        [c EXCEPT !.tabs = tabs, !.closed = x, !.nextEpoch = n]
  BY DEF put, Coordinators
<1> HIDE DEF tabs
<1>3. [c EXCEPT !.tabs = tabs, !.closed = x, !.nextEpoch = n] \in Coordinators
  BY <1>1 DEF Coordinators
<1>4. [c EXCEPT !.tabs = tabs, !.closed = x, !.nextEpoch = n].tabs = tabs
  BY DEF Coordinators
<1> QED
  BY <1>1, <1>2, <1>3, <1>4 DEF Coordinators, SameButTab

\* Such a call keeps the tokens and the tabs together.
LEMMA PutTabs ==
    ASSUME NEW draining, NEW c, TabsOK(c, draining),
           NEW a \in Authorities, NEW t \in Tabs,
           NEW x \in SUBSET Nat, NEW n \in Nat,
           Moves(c, a, t, x, n), Admits(c, a, t, draining)
    PROVE  TabsOK(put(c, a, t, x, n), draining)
<1> DEFINE d == put(c, a, t, x, n)
           epoch == c.tabs[a].lease.epoch
<1>1. c \in Coordinators
  BY DEF TabsOK
<1>2. /\ d \in Coordinators /\ d.closed = x /\ d.nextEpoch = n
      /\ d.tabs[a] = t
      /\ \A b \in Authorities : b # a => d.tabs[b] = c.tabs[b]
  BY <1>1, PutFields DEF SameButTab
<1> HIDE DEF d
<1>3. /\ c.nextEpoch \in Nat /\ epoch \in Nat /\ t.lease.epoch \in Nat
      /\ \A b \in Authorities : c.tabs[b].lease.epoch \in Nat
  BY <1>1 DEF Coordinators, Tabs, Leases
<1>4. /\ c.nextEpoch >= 1 /\ epoch < c.nextEpoch
      /\ \A e \in c.closed : 1 <= e /\ e < c.nextEpoch
      /\ \A b \in Authorities : c.tabs[b].lease.epoch < c.nextEpoch
      /\ \A b \in Authorities :
            b # a /\ c.tabs[b].lease.epoch = epoch => epoch = 0
      /\ \A b, b2 \in Authorities :
          b # b2 /\ c.tabs[b].lease.epoch = c.tabs[b2].lease.epoch
          => c.tabs[b].lease.epoch = 0
  BY DEF TabsOK, TokensFollowTabs
<1>5. /\ c.closed \subseteq x
      /\ \A e \in x : e \in c.closed \/ (e = epoch /\ epoch # 0)
      /\ n = c.nextEpoch \/ n = c.nextEpoch + 1
      /\ t.lease.epoch \in {epoch, 0} \/ (t.lease.epoch = c.nextEpoch
                                           /\ n = c.nextEpoch + 1)
  BY DEF Moves
<1>6. TokensFollowTabs(d)
  <2>1. d.nextEpoch >= 1
    BY <1>2, <1>3, <1>4, <1>5
  <2>2. ASSUME NEW e \in d.closed PROVE 1 <= e /\ e < d.nextEpoch
    <3>1. e \in Nat
      BY <1>2
    <3>2. 1 <= e /\ e < c.nextEpoch
      BY <1>2, <1>3, <1>4, <1>5, <3>1
    <3> QED
      BY <1>2, <1>3, <1>5, <3>1, <3>2
  <2>3. ASSUME NEW b \in Authorities PROVE d.tabs[b].lease.epoch < d.nextEpoch
    BY <1>2, <1>3, <1>4, <1>5
  <2>4. ASSUME NEW b \in Authorities, b # a,
               d.tabs[b].lease.epoch = d.tabs[a].lease.epoch
        PROVE  d.tabs[b].lease.epoch = 0
    BY <1>2, <1>3, <1>4, <1>5, <2>4
  <2>5. ASSUME NEW b \in Authorities, NEW b2 \in Authorities, b # b2,
               d.tabs[b].lease.epoch = d.tabs[b2].lease.epoch
        PROVE  d.tabs[b].lease.epoch = 0
    BY <1>2, <1>4, <2>4, <2>5
  <2>6. ASSUME NEW b \in Authorities, hasRequest(d.tabs[b])
        PROVE  d.tabs[b].lease.epoch \in d.closed <=> ended(d.tabs[b])
    <3>1. CASE b = a
      BY <1>2, <2>6, <3>1 DEF Moves
    <3>2. CASE b # a
      <4>1. c.tabs[b].lease.epoch \in c.closed <=> ended(c.tabs[b])
        BY <1>2, <2>6, <3>2 DEF TabsOK, TokensFollowTabs
      <4>2. c.tabs[b].lease.epoch # epoch
        BY <1>2, <1>4, <2>6, <3>2 DEF hasRequest
      <4> QED
        BY <1>2, <1>5, <3>2, <4>1, <4>2
    <3> QED
      BY <3>1, <3>2
  <2> QED
    BY <2>1, <2>2, <2>3, <2>5, <2>6 DEF TokensFollowTabs
<1>7. AdmittedIsLive(d)
  BY <1>2 DEF TabsOK, AdmittedIsLive, Moves
<1>8. OneIncarnation(d, draining)
  <2> SUFFICES ASSUME NEW b \in Authorities, NEW b2 \in Authorities,
                      b # b2, b.tab = b2.tab,
                      holds(d.tabs[b]) \/ b \in draining
               PROVE  ~holds(d.tabs[b2]) /\ b2 \notin draining
    BY DEF OneIncarnation
  <2>1. \A b3, b4 \in Authorities :
           /\ b3 # b4 /\ b3.tab = b4.tab
           /\ holds(c.tabs[b3]) \/ b3 \in draining
           => ~holds(c.tabs[b4]) /\ b4 \notin draining
    BY DEF TabsOK, OneIncarnation
  <2>2. CASE b # a /\ b2 # a
    BY <1>2, <2>1, <2>2
  <2>3. CASE b = a
    BY <1>2, <2>1, <2>3 DEF Admits
  <2>4. CASE b2 = a
    BY <1>2, <2>1, <2>4 DEF Admits
  <2> QED
    BY <2>2, <2>3, <2>4
<1> QED
  BY <1>2, <1>6, <1>7, <1>8 DEF TabsOK, d

\* It follows, and is calm.
LEMMA PutFollows ==
    ASSUME NEW c \in Coordinators, NEW a \in Authorities, NEW t \in Tabs,
           NEW x \in SUBSET Nat, NEW n \in Nat,
           Moves(c, a, t, x, n)
    PROVE  /\ Follows(c, put(c, a, t, x, n))
           /\ Calm(c, put(c, a, t, x, n))
           /\ put(c, a, t, x, n).failedClosed = c.failedClosed
<1> DEFINE d == put(c, a, t, x, n)
           epoch == c.tabs[a].lease.epoch
<1>1. /\ d.closed = x /\ d.nextEpoch = n
      /\ d.tabs[a] = t
      /\ \A b \in Authorities : b # a => d.tabs[b] = c.tabs[b]
      /\ d.store = c.store /\ d.current = c.current
      /\ d.candidate = c.candidate /\ d.lkg = c.lkg /\ d.drain = c.drain
      /\ d.nextDrain = c.nextDrain
      /\ d.candidatePromoted = c.candidatePromoted
      /\ d.shuttingDown = c.shuttingDown
      /\ d.failedClosed = c.failedClosed
  <2>1. d.closed = x /\ d.nextEpoch = n /\ d.tabs[a] = t /\ SameButTab(c, d, a)
    BY PutFields
  <2> QED
    BY <2>1 DEF SameButTab
<1> HIDE DEF d
<1>2. Calm(c, d)
  BY <1>1 DEF Calm
<1>3. c.closed \subseteq d.closed
  BY <1>1 DEF Moves
<1>4. /\ c.nextEpoch <= d.nextEpoch
      /\ ~launchAllowed(c) => d.nextEpoch = c.nextEpoch
  <2>1. c.nextEpoch \in Nat
    BY DEF Coordinators
  <2> QED
    BY <1>1, <2>1 DEF Moves
<1>5. ASSUME NEW b \in Authorities, hasRequest(c.tabs[b])
      PROVE  \/ /\ d.tabs[b].lease.epoch = c.tabs[b].lease.epoch
                /\ d.tabs[b].attempt = c.tabs[b].attempt
             \/ c.tabs[b].lease.epoch \in d.closed
  BY <1>1, <1>5 DEF Moves, hasRequest
<1> QED
  BY <1>1, <1>2, <1>3, <1>4, <1>5 DEF Follows, Carries, d

\* What failed stays gone when the new state of the tab agrees.
LEMMA PutGone ==
    ASSUME NEW c \in Coordinators, NEW a \in Authorities, NEW t \in Tabs,
           NEW x \in SUBSET Nat, NEW n \in Nat,
           NEW before, NEW left, NEW fs, NEW ss,
           FailedIsGone(c, before, fs, ss),
           \A b \in Authorities : b # a => (b \in left <=> b \in before),
           TabIsFenced(c, t, fs, ss),
           awaitsDrain(t) => c.failedClosed \/ a \in left,
           a \in left => ~live(t)
    PROVE  FailedIsGone(put(c, a, t, x, n), left, fs, ss)
<1> DEFINE d == put(c, a, t, x, n)
<1>1. /\ d.tabs[a] = t
      /\ \A b \in Authorities : b # a => d.tabs[b] = c.tabs[b]
      /\ d.store = c.store /\ d.current = c.current
      /\ d.candidate = c.candidate /\ d.lkg = c.lkg /\ d.drain = c.drain
      /\ d.candidatePromoted = c.candidatePromoted
      /\ d.failedClosed = c.failedClosed
  <2>1. d.closed = x /\ d.nextEpoch = n /\ d.tabs[a] = t /\ SameButTab(c, d, a)
    BY PutFields
  <2> QED
    BY <2>1 DEF SameButTab
<1> HIDE DEF d
<1>2. SelectionIsGood(d, fs)
  BY <1>1 DEF FailedIsGone, SelectionIsGood
<1>3. ASSUME NEW b \in Authorities
      PROVE  /\ TabIsFenced(d, d.tabs[b], fs, ss)
             /\ awaitsDrain(d.tabs[b]) => d.failedClosed \/ b \in left
             /\ b \in left => ~live(d.tabs[b])
  BY <1>1 DEF FailedIsGone, TabIsFenced, candidateLease
<1> QED
  BY <1>2, <1>3 DEF FailedIsGone, d

\* An edit of fields of a tab is a change of that tab.
LEMMA EditIsPut ==
    ASSUME NEW c \in Coordinators, NEW a \in Authorities, NEW t \in Tabs
    PROVE  [c EXCEPT !.tabs[a] = t] = put(c, a, t, c.closed, c.nextEpoch)
<1> DEFINE tabs == [c.tabs EXCEPT ![a] = t]
<1>1. put(c, a, t, c.closed, c.nextEpoch) =
        [c EXCEPT !.tabs = tabs, !.closed = c.closed,
                  !.nextEpoch = c.nextEpoch]
  BY DEF put, Coordinators
<1> HIDE DEF tabs
<1>2. [c EXCEPT !.tabs = tabs, !.closed = c.closed, !.nextEpoch = c.nextEpoch]
        = [c EXCEPT !.tabs = tabs]
  BY DEF Coordinators
<1> QED
  BY <1>1, <1>2 DEF tabs

\* The second of two changes of a tab counts.
LEMMA PutTwice ==
    ASSUME NEW c \in Coordinators, NEW a \in Authorities,
           NEW t \in Tabs, NEW x \in SUBSET Nat, NEW n \in Nat,
           NEW t2 \in Tabs, NEW x2 \in SUBSET Nat, NEW n2 \in Nat
    PROVE  put(put(c, a, t, x, n), a, t2, x2, n2) = put(c, a, t2, x2, n2)
<1> DEFINE tabs == [c.tabs EXCEPT ![a] = t]
           tabs2 == [c.tabs EXCEPT ![a] = t2]
           d == [c EXCEPT !.tabs = tabs, !.closed = x, !.nextEpoch = n]
<1>1. put(c, a, t, x, n) = d
  BY DEF put, Coordinators
<1>2. [tabs EXCEPT ![a] = t2] = tabs2
  BY DEF Coordinators
<1> HIDE DEF tabs, tabs2
<1>3. d.tabs = tabs
  BY DEF Coordinators
<1>4. [d EXCEPT !.tabs = tabs2, !.closed = x2, !.nextEpoch = n2]
        = [c EXCEPT !.tabs = tabs2, !.closed = x2, !.nextEpoch = n2]
  BY DEF Coordinators
<1>5. put(d, a, t2, x2, n2) =
        [d EXCEPT !.tabs = tabs2, !.closed = x2, !.nextEpoch = n2]
  BY <1>2, <1>3 DEF put
<1>6. put(c, a, t2, x2, n2) =
        [c EXCEPT !.tabs = tabs2, !.closed = x2, !.nextEpoch = n2]
  BY DEF put, tabs2
<1> HIDE DEF d
<1> QED
  BY <1>1, <1>4, <1>5, <1>6

\* The tokens that are closed when the one of tab a is.
closedWith(c, a) == c.closed \cup ({c.tabs[a].lease.epoch} \ {0})

\* The tab that revokeSilently leaves.
revokedTab(t) == [t EXCEPT !.revoked = TRUE, !.admitted = FALSE]

\* Revoking an authority changes its tab and the tokens only.
LEMMA RevokeIsPut ==
    ASSUME NEW c \in Coordinators, NEW a \in Authorities
    PROVE  /\ revokeSilently(c, a) =
                put(c, a, revokedTab(c.tabs[a]), closedWith(c, a), c.nextEpoch)
           /\ revokedTab(c.tabs[a]) \in Tabs
           /\ closedWith(c, a) \in SUBSET Nat
<1> DEFINE s == c.tabs[a]
<1>1. s \in Tabs /\ s.lease.epoch \in Nat
  BY DEF Coordinators, Tabs, Leases
<1>2. revokedTab(s) \in Tabs
  BY <1>1 DEF revokedTab, Tabs
<1>3. closedWith(c, a) \in SUBSET Nat
  BY <1>1 DEF closedWith, Coordinators
<1>4. [c EXCEPT !.closed = closedWith(c, a), !.tabs[a].revoked = TRUE,
                !.tabs[a].admitted = FALSE]
        = [c EXCEPT !.closed = closedWith(c, a), !.tabs[a] = revokedTab(s)]
  BY DEF revokedTab, Coordinators
<1>5. revokeSilently(c, a) =
        [c EXCEPT !.closed = closedWith(c, a), !.tabs[a] = revokedTab(s)]
  BY <1>4 DEF revokeSilently, closedWith
<1> DEFINE tabs == [c.tabs EXCEPT ![a] = revokedTab(s)]
<1>6. [c EXCEPT !.closed = closedWith(c, a), !.tabs = tabs]
        = [c EXCEPT !.tabs = tabs, !.closed = closedWith(c, a),
                    !.nextEpoch = c.nextEpoch]
  <2> HIDE DEF tabs
  <2> QED
    BY DEF Coordinators
<1> QED
  BY <1>2, <1>3, <1>5, <1>6 DEF put, Coordinators

-----------------------------------------------------------------------------
\* The changes of one tab the calls are made of.

\* The invariant of a coordinator.
Sound(c, draining, fs, ss) ==
    TabsOK(c, draining) /\ FailedIsGone(c, draining, fs, ss)

\* Calls that do not fail the app closed either.
Quiet(c, d) == Follows(c, d) /\ Calm(c, d) /\ d.failedClosed = c.failedClosed

\* A call that is refused changes nothing.
LEMMA QuietSame == ASSUME NEW c \in Coordinators PROVE Quiet(c, c)
<1>1. c.nextEpoch \in Nat
  BY DEF Coordinators
<1> QED
  BY <1>1 DEF Quiet, Follows, Carries, Calm

\* Quiet changes add up.
LEMMA QuietTransitive ==
    ASSUME NEW c \in Coordinators, NEW d \in Coordinators,
           NEW e \in Coordinators, Quiet(c, d), Quiet(d, e)
    PROVE  Quiet(c, e)
<1>1. Follows(c, e)
  BY FollowsTransitive DEF Quiet
<1> QED
  BY <1>1 DEF Quiet, Calm

\* The default-constructed tab holds nothing.
LEMMA NoTabType ==
    /\ NoTab \in Tabs /\ NoTab.lease.epoch = 0
    /\ ~hasRequest(NoTab) /\ ~NoTab.admitted /\ ~NoTab.revoked
    /\ ~NoTab.retired /\ ~NoTab.failedClosed
<1>1. NoLease \in Leases /\ NoLease.epoch = 0
  BY DEF NoLease, Leases
<1> QED
  BY <1>1, NewSupervisorType DEF NoTab, Tabs, hasRequest

\* The epoch of a tab without launch is 0, so closing its token closes none.
LEMMA ClosedWith ==
    ASSUME NEW c \in Coordinators, NEW a \in Authorities
    PROVE  /\ closedWith(c, a) \in SUBSET Nat
           /\ c.closed \subseteq closedWith(c, a)
           /\ \A e \in closedWith(c, a) :
                 \/ e \in c.closed
                 \/ e = c.tabs[a].lease.epoch /\ c.tabs[a].lease.epoch # 0
           /\ c.tabs[a].lease.epoch # 0
              => c.tabs[a].lease.epoch \in closedWith(c, a)
<1>1. c.tabs[a].lease.epoch \in Nat
  BY DEF Coordinators, Tabs, Leases
<1> QED
  BY <1>1 DEF closedWith, Coordinators

\* A tab is closed or fails: its token is closed and it keeps nobody out.
LEMMA EndTab ==
    ASSUME NEW draining, NEW fs, NEW ss, NEW c, Sound(c, draining, fs, ss),
           NEW a \in Authorities, NEW t \in Tabs,
           t.lease = c.tabs[a].lease, t.attempt = c.tabs[a].attempt,
           ~t.admitted, t.retired \/ t.failedClosed
    PROVE  LET d == put(c, a, t, closedWith(c, a), c.nextEpoch)
           IN  Sound(d, draining, fs, ss) /\ Quiet(c, d)
<1>1. c \in Coordinators /\ c.nextEpoch \in Nat
  BY DEF Sound, TabsOK, Coordinators
<1>2. Moves(c, a, t, closedWith(c, a), c.nextEpoch)
  BY <1>1, ClosedWith DEF Moves, hasRequest, ended
<1>3. Admits(c, a, t, draining)
  BY DEF Admits, holds
<1>4. TabIsFenced(c, t, fs, ss) /\ ~awaitsDrain(t) /\ ~live(t)
  BY DEF TabIsFenced, live, ended, awaitsDrain
<1>5. closedWith(c, a) \in SUBSET Nat
  BY <1>1, ClosedWith
<1> DEFINE x == closedWith(c, a)
           n == c.nextEpoch
<1> HIDE DEF x, n
<1>6. x \in SUBSET Nat /\ n \in Nat /\ Moves(c, a, t, x, n)
  BY <1>1, <1>2, <1>5 DEF x, n
<1>7. TabsOK(put(c, a, t, x, n), draining)
  BY <1>3, <1>6, PutTabs DEF Sound
<1>8. Quiet(c, put(c, a, t, x, n))
  BY <1>1, <1>6, PutFollows DEF Quiet
<1>9. FailedIsGone(put(c, a, t, x, n), draining, fs, ss)
  BY <1>1, <1>4, <1>6, PutGone DEF Sound
<1> QED
  BY <1>7, <1>8, <1>9 DEF Sound, x, n

\* A tab that lives keeps its launch.
LEMMA KeepTab ==
    ASSUME NEW draining, NEW fs, NEW ss, NEW c, Sound(c, draining, fs, ss),
           NEW a \in Authorities, live(c.tabs[a]), NEW t \in Tabs,
           t.lease = c.tabs[a].lease, t.attempt = c.tabs[a].attempt,
           t.candidate = c.tabs[a].candidate,
           t.admitted => t.sup.handshaken,
           ~ended(t)
    PROVE  LET d == put(c, a, t, c.closed, c.nextEpoch)
           IN  Sound(d, draining, fs, ss) /\ Quiet(c, d)
<1>1. /\ c \in Coordinators /\ c.nextEpoch \in Nat /\ c.closed \in SUBSET Nat
      /\ live(t) /\ t.lease.epoch \notin c.closed
  BY DEF Sound, TabsOK, Coordinators, TokensFollowTabs, live, hasRequest
<1>2. Moves(c, a, t, c.closed, c.nextEpoch)
  BY <1>1 DEF Moves, live
<1>3. Admits(c, a, t, draining)
  BY NoTabType DEF Admits, holds, live, ended
<1>4. TabIsFenced(c, t, fs, ss) /\ ~awaitsDrain(t) /\ a \notin draining
  BY DEF Sound, FailedIsGone, TabIsFenced, live, ended, awaitsDrain,
         candidateLease, sameLeaseIdentity
<1> DEFINE x == c.closed
           n == c.nextEpoch
<1> HIDE DEF x, n
<1>6. x \in SUBSET Nat /\ n \in Nat /\ Moves(c, a, t, x, n)
  BY <1>1, <1>2 DEF x, n
<1>7. TabsOK(put(c, a, t, x, n), draining)
  BY <1>3, <1>6, PutTabs DEF Sound
<1>8. Quiet(c, put(c, a, t, x, n))
  BY <1>1, <1>6, PutFollows DEF Quiet
<1>9. FailedIsGone(put(c, a, t, x, n), draining, fs, ss)
  BY <1>1, <1>4, <1>6, PutGone DEF Sound
<1> QED
  BY <1>7, <1>8, <1>9 DEF Sound, x, n

\* A launch that nobody was admitted for is forgotten.
LEMMA EraseTab ==
    ASSUME NEW draining, NEW fs, NEW ss, NEW c, Sound(c, draining, fs, ss),
           NEW a \in Authorities
    PROVE  LET d == put(c, a, NoTab, closedWith(c, a), c.nextEpoch)
           IN  Sound(d, draining, fs, ss) /\ Quiet(c, d)
<1>1. c \in Coordinators /\ c.nextEpoch \in Nat
  BY DEF Sound, TabsOK, Coordinators
<1>2. Moves(c, a, NoTab, closedWith(c, a), c.nextEpoch)
  BY <1>1, ClosedWith, NoTabType DEF Moves
<1>3. Admits(c, a, NoTab, draining)
  BY DEF Admits, holds
<1>4. TabIsFenced(c, NoTab, fs, ss) /\ ~awaitsDrain(NoTab) /\ ~live(NoTab)
  BY NoTabType DEF TabIsFenced, live, awaitsDrain
<1>5. closedWith(c, a) \in SUBSET Nat /\ NoTab \in Tabs
  BY <1>1, ClosedWith, NoTabType
<1> DEFINE x == closedWith(c, a)
           n == c.nextEpoch
<1> HIDE DEF x, n
<1>6. x \in SUBSET Nat /\ n \in Nat /\ Moves(c, a, NoTab, x, n)
  BY <1>1, <1>2, <1>5 DEF x, n
<1>7. TabsOK(put(c, a, NoTab, x, n), draining)
  BY <1>3, <1>5, <1>6, PutTabs DEF Sound
<1>8. Quiet(c, put(c, a, NoTab, x, n))
  BY <1>1, <1>5, <1>6, PutFollows DEF Quiet
<1>9. FailedIsGone(put(c, a, NoTab, x, n), draining, fs, ss)
  BY <1>1, <1>4, <1>5, <1>6, PutGone DEF Sound
<1> QED
  BY <1>7, <1>8, <1>9 DEF Sound, x, n


\* A tab is launched, on a version that has not failed or as a spared one.
LEMMA FreshTab ==
    ASSUME NEW draining, NEW before, NEW fs, NEW ss, NEW c,
           TabsOK(c, draining), FailedIsGone(c, before, fs, ss),
           launchAllowed(c),
           NEW a \in Authorities, NEW left, a \notin left,
           \A b \in Authorities : b # a => (b \in left <=> b \in before),
           NEW t \in Tabs,
           t.lease.epoch = c.nextEpoch, ~t.admitted, ~ended(t),
           t.candidate <=> candidateLease(c, t.lease),
           t.lease.version \in fs
           => t.lease.version \in ss /\ ~candidateLease(c, t.lease),
           \/ holds(c.tabs[a]) \/ a \in draining
           \/ \A b \in Authorities :
                 b # a /\ b.tab = a.tab
                 => ~holds(c.tabs[b]) /\ b \notin draining
    PROVE  LET d == put(c, a, t, closedWith(c, a), c.nextEpoch + 1)
           IN  /\ TabsOK(d, draining) /\ FailedIsGone(d, left, fs, ss)
               /\ Quiet(c, d)
<1>1. c \in Coordinators /\ c.nextEpoch \in Nat /\ c.nextEpoch + 1 \in Nat
  BY DEF TabsOK, Coordinators
<1>2. t.lease.epoch \notin closedWith(c, a)
  <2>1. t.lease.epoch \notin c.closed /\ c.tabs[a].lease.epoch < c.nextEpoch
    BY <1>1 DEF TabsOK, TokensFollowTabs
  <2>2. c.tabs[a].lease.epoch # t.lease.epoch
    BY <1>1, <2>1
  <2> QED
    BY <1>1, <2>1, <2>2, ClosedWith
<1>3. Moves(c, a, t, closedWith(c, a), c.nextEpoch + 1)
  BY <1>1, <1>2, ClosedWith DEF Moves
<1>4. Admits(c, a, t, draining)
  BY DEF Admits
<1>5. TabIsFenced(c, t, fs, ss) /\ ~awaitsDrain(t)
  BY DEF TabIsFenced, ended, awaitsDrain
<1>6. closedWith(c, a) \in SUBSET Nat
  BY <1>1, ClosedWith
<1> DEFINE x == closedWith(c, a)
           n == c.nextEpoch + 1
<1> HIDE DEF x, n
<1>7. x \in SUBSET Nat /\ n \in Nat /\ Moves(c, a, t, x, n)
  BY <1>1, <1>3, <1>6 DEF x, n
<1>8. TabsOK(put(c, a, t, x, n), draining)
  BY <1>4, <1>7, PutTabs
<1>9. Quiet(c, put(c, a, t, x, n))
  BY <1>1, <1>7, PutFollows DEF Quiet
<1>10. FailedIsGone(put(c, a, t, x, n), left, fs, ss)
  BY <1>1, <1>5, <1>7, PutGone
<1> QED
  BY <1>8, <1>9, <1>10 DEF x, n

-----------------------------------------------------------------------------
\* launchForTab.

\* The parts of launchForTab.
begunFor(c, a, reuseActivation, at) ==
    IF reuseActivation
      THEN c.tabs[a].sup
      ELSE Sup!beginActivation(Sup!NewSupervisor, at)
leaseOf(c, descriptor) ==
    [version |-> descriptor.version, generation |-> descriptor.generation,
     epoch |-> c.nextEpoch]
freshTab(c, sup, lease, at) ==
    [NoTab EXCEPT !.sup = sup, !.attempt = Sup!keyOf(sup), !.lease = lease,
                  !.candidate = candidateLease(c, lease), !.start = at]
refusedTab(t, sup) == [t EXCEPT !.sup = sup, !.failedClosed = TRUE]

\* The supervisor that begins the attempt, and the tabs that result.
LEMMA LaunchTypes ==
    ASSUME NEW c \in Coordinators, NEW a \in Authorities,
           NEW reuse \in BOOLEAN, NEW at \in Nat, NEW descriptor,
           descriptor.version \in Versions \cup {NoVersion} \cup Sites,
           descriptor.generation \in Nat
    PROVE  LET begun == begunFor(c, a, reuse, at)
           IN  /\ begun \in Supervisors
               /\ ~reuse => Sup!attemptAllowed(begun, begun.activation)
               /\ freshTab(c, Sup!beginAttempt(begun, at),
                           leaseOf(c, descriptor), at) \in Tabs
               /\ \A t \in Tabs : refusedTab(t, begun) \in Tabs
<1> DEFINE begun == begunFor(c, a, reuse, at)
           sup == Sup!beginAttempt(begun, at)
           lease == leaseOf(c, descriptor)
<1>1. begun \in Supervisors
  BY NewSupervisorType, BeginType DEF begunFor, Coordinators, Tabs
<1>2. ~reuse => Sup!attemptAllowed(begun, begun.activation)
  BY DEF begunFor, Sup!beginActivation, Sup!NewSupervisor, Sup!attemptAllowed
<1>3. lease \in Leases
  BY DEF leaseOf, Leases, Coordinators
<1> HIDE DEF begun, lease
<1>4. sup \in Supervisors /\ Sup!keyOf(sup) \in Sup!AttemptKey
  BY <1>1, BeginType
<1>5. candidateLease(c, lease) \in BOOLEAN
  BY DEF candidateLease
<1> HIDE DEF sup
<1>6. freshTab(c, sup, lease, at) \in Tabs
  BY <1>3, <1>4, <1>5, NoTabType DEF freshTab, Tabs
<1>7. \A t \in Tabs : refusedTab(t, begun) \in Tabs
  BY <1>1 DEF refusedTab, Tabs
<1> QED
  BY <1>1, <1>2, <1>6, <1>7 DEF begun, sup, lease

\* What the old launch of the tab leaves.
LEMMA OldLaunch ==
    ASSUME NEW c \in Coordinators, NEW a \in Authorities,
           NEW old, old = IF c.tabs[a] # NoTab THEN revokeSilently(c, a) ELSE c
    PROVE  \E t \in Tabs :
              /\ old = put(c, a, t, closedWith(c, a), c.nextEpoch)
              /\ t.lease = c.tabs[a].lease /\ t.attempt = c.tabs[a].attempt
              /\ ~t.admitted
<1>1. CASE c.tabs[a] # NoTab
  <2>1. /\ revokedTab(c.tabs[a]).lease = c.tabs[a].lease
        /\ revokedTab(c.tabs[a]).attempt = c.tabs[a].attempt
        /\ ~revokedTab(c.tabs[a]).admitted
    BY DEF revokedTab, Coordinators, Tabs
  <2> QED
    BY <1>1, <2>1, RevokeIsPut
<1>2. CASE c.tabs[a] = NoTab
  <2>1. closedWith(c, a) = c.closed
    BY <1>2, NoTabType DEF closedWith
  <2>2. c = [c EXCEPT !.tabs[a] = NoTab]
    <3>1. c.tabs = [c.tabs EXCEPT ![a] = NoTab]
      BY <1>2 DEF Coordinators
    <3> DEFINE tabs == [c.tabs EXCEPT ![a] = NoTab]
    <3> HIDE DEF tabs
    <3>2. c.tabs = tabs => c = [c EXCEPT !.tabs = tabs]
      BY DEF Coordinators
    <3> QED
      BY <3>1, <3>2 DEF tabs
  <2>3. c = put(c, a, NoTab, closedWith(c, a), c.nextEpoch)
    BY <2>1, <2>2, EditIsPut, NoTabType
  <2> QED
    BY <1>2, <2>3, NoTabType
<1> QED
  BY <1>1, <1>2

\* A launch that is allowed is a change of its tab.
LEMMA LaunchIsPut ==
    ASSUME NEW c \in Coordinators, NEW a \in Authorities,
           NEW reuse \in BOOLEAN, NEW at \in Nat, NEW descriptor,
           descriptor.version \in Versions \cup {NoVersion} \cup Sites,
           descriptor.generation \in Nat, launchAllowed(c)
    PROVE  LET begun == begunFor(c, a, reuse, at)
               fresh == freshTab(c, Sup!beginAttempt(begun, at),
                                 leaseOf(c, descriptor), at)
           IN  IF Sup!attemptAllowed(begun, begun.activation)
                 THEN launchForTab(c, a, descriptor, reuse, at)
                        = put(c, a, fresh, closedWith(c, a), c.nextEpoch + 1)
                 ELSE \E t \in Tabs :
                        /\ launchForTab(c, a, descriptor, reuse, at)
                             = put(c, a, refusedTab(t, begun),
                                   closedWith(c, a), c.nextEpoch)
                        /\ t.lease = c.tabs[a].lease
                        /\ t.attempt = c.tabs[a].attempt
                        /\ ~t.admitted
<1> DEFINE begun == begunFor(c, a, reuse, at)
           fresh == freshTab(c, Sup!beginAttempt(begun, at),
                             leaseOf(c, descriptor), at)
           old == IF c.tabs[a] # NoTab THEN revokeSilently(c, a) ELSE c
           x == closedWith(c, a)
           n == c.nextEpoch
<1>1. x \in SUBSET Nat /\ n \in Nat /\ n + 1 \in Nat
  BY ClosedWith DEF Coordinators
<1>2. PICK t \in Tabs : /\ old = put(c, a, t, x, n)
                        /\ t.lease = c.tabs[a].lease
                        /\ t.attempt = c.tabs[a].attempt /\ ~t.admitted
  BY OldLaunch
<1>3. /\ begun \in Supervisors /\ fresh \in Tabs
      /\ refusedTab(t, begun) \in Tabs
  BY LaunchTypes
<1>4. CASE Sup!attemptAllowed(begun, begun.activation)
  <2>1. launchForTab(c, a, descriptor, reuse, at)
          = [issueLeaseEpoch(old) EXCEPT !.tabs[a] = fresh]
    BY <1>4 DEF launchForTab, begunFor, freshTab, leaseOf
  <2>2. issueLeaseEpoch(old) = put(c, a, t, x, n + 1)
    <3> DEFINE tabs == [c.tabs EXCEPT ![a] = t]
    <3>1. \A k \in Nat :
            put(c, a, t, x, k) =
              [c EXCEPT !.tabs = tabs, !.closed = x, !.nextEpoch = k]
      BY DEF put, Coordinators
    <3> HIDE DEF tabs, x, n
    <3>2. put(c, a, t, x, n).nextEpoch = n
      BY <1>1, PutFields
    <3> DEFINE d == put(c, a, t, x, n)
    <3>3. d = [c EXCEPT !.tabs = tabs, !.closed = x, !.nextEpoch = n]
      BY <1>1, <3>1
    <3>4. put(c, a, t, x, n + 1)
            = [c EXCEPT !.tabs = tabs, !.closed = x, !.nextEpoch = n + 1]
      BY <1>1, <3>1
    <3>5. issueLeaseEpoch(d) = [d EXCEPT !.nextEpoch = n + 1]
      BY <3>2 DEF issueLeaseEpoch
    <3>6. \A k \in Nat :
            [[c EXCEPT !.tabs = tabs, !.closed = x, !.nextEpoch = n]
               EXCEPT !.nextEpoch = k]
              = [c EXCEPT !.tabs = tabs, !.closed = x, !.nextEpoch = k]
      BY DEF Coordinators
    <3> HIDE DEF d
    <3>7. issueLeaseEpoch(d) = put(c, a, t, x, n + 1)
      BY <1>1, <3>3, <3>4, <3>5, <3>6
    <3> QED
      BY <1>2, <3>7 DEF d
  <2> DEFINE old2 == put(c, a, t, x, n + 1)
  <2>3. old2 \in Coordinators /\ old2.closed = x /\ old2.nextEpoch = n + 1
    BY <1>1, PutFields
  <2> HIDE DEF old2, old, x, n, fresh
  <2>4. [old2 EXCEPT !.tabs[a] = fresh] = put(old2, a, fresh, x, n + 1)
    BY <1>3, <2>3, EditIsPut
  <2>5. put(old2, a, fresh, x, n + 1) = put(c, a, fresh, x, n + 1)
    BY <1>1, <1>3, PutTwice DEF old2
  <2>6. launchForTab(c, a, descriptor, reuse, at)
          = put(c, a, fresh, x, n + 1)
    BY <2>1, <2>2, <2>4, <2>5 DEF old2
  <2> QED
    BY <1>4, <2>6 DEF x, n, fresh
<1>5. CASE ~Sup!attemptAllowed(begun, begun.activation)
  <2>1. launchForTab(c, a, descriptor, reuse, at)
          = [old EXCEPT !.tabs[a].sup = begun,
                        !.tabs[a].failedClosed = TRUE]
    BY <1>5 DEF launchForTab, begunFor
  <2>2. /\ old \in Coordinators /\ old.closed = x /\ old.nextEpoch = n
        /\ old.tabs[a] = t
    BY <1>1, <1>2, PutFields
  <2> HIDE DEF old, x, n, begun
  <2>3. [old EXCEPT !.tabs[a].sup = begun, !.tabs[a].failedClosed = TRUE]
          = [old EXCEPT !.tabs[a] = refusedTab(t, begun)]
    BY <2>2 DEF refusedTab, Coordinators
  <2>4. [old EXCEPT !.tabs[a] = refusedTab(t, begun)]
          = put(old, a, refusedTab(t, begun), x, n)
    BY <1>3, <2>2, EditIsPut
  <2>5. put(old, a, refusedTab(t, begun), x, n)
          = put(c, a, refusedTab(t, begun), x, n)
    BY <1>1, <1>2, <1>3, PutTwice
  <2> QED
    BY <1>2, <1>5, <2>1, <2>3, <2>4, <2>5 DEF x, n, begun
<1> QED
  BY <1>4, <1>5

\* A launch that is allowed keeps the tabs sound.
LEMMA LaunchAllowed ==
    ASSUME NEW draining, NEW before, NEW fs, NEW ss, NEW c,
           TabsOK(c, draining), FailedIsGone(c, before, fs, ss),
           launchAllowed(c),
           NEW a \in Authorities, NEW left, a \notin left,
           \A b \in Authorities : b # a => (b \in left <=> b \in before),
           NEW reuse \in BOOLEAN,
           reuse => before = draining /\ left = draining,
           NEW at \in Nat, NEW descriptor,
           descriptor.version \in Versions \cup {NoVersion} \cup Sites,
           descriptor.generation \in Nat,
           descriptor.version \in fs
           => descriptor.version \in ss /\ ~candidateLease(c, descriptor),
           \/ holds(c.tabs[a]) \/ a \in draining
           \/ \A b \in Authorities :
                 b # a /\ b.tab = a.tab
                 => ~holds(c.tabs[b]) /\ b \notin draining
    PROVE  LET d == launchForTab(c, a, descriptor, reuse, at)
           IN  /\ TabsOK(d, draining) /\ FailedIsGone(d, left, fs, ss)
               /\ Quiet(c, d)
<1> DEFINE begun == begunFor(c, a, reuse, at)
           lease == leaseOf(c, descriptor)
           fresh == freshTab(c, Sup!beginAttempt(begun, at), lease, at)
<1>1. c \in Coordinators
  BY DEF TabsOK
<1>2. fresh \in Tabs /\ (~reuse => Sup!attemptAllowed(begun, begun.activation))
      /\ \A t \in Tabs : refusedTab(t, begun) \in Tabs
  BY <1>1, LaunchTypes
<1>3. CASE Sup!attemptAllowed(begun, begun.activation)
  <2>1. launchForTab(c, a, descriptor, reuse, at)
          = put(c, a, fresh, closedWith(c, a), c.nextEpoch + 1)
    BY <1>1, <1>3, LaunchIsPut
  <2>2. /\ fresh.lease = lease /\ ~fresh.admitted /\ ~ended(fresh)
        /\ fresh.candidate = candidateLease(c, lease)
    BY NoTabType DEF freshTab, Tabs, ended
  <2>3. lease.version = descriptor.version /\ lease.epoch = c.nextEpoch
        /\ candidateLease(c, lease) = candidateLease(c, descriptor)
    BY DEF leaseOf, candidateLease, sameLeaseIdentity
  <2> HIDE DEF fresh, lease
  <2>4. LET d == put(c, a, fresh, closedWith(c, a), c.nextEpoch + 1)
        IN  /\ TabsOK(d, draining) /\ FailedIsGone(d, left, fs, ss)
            /\ Quiet(c, d)
    BY <1>2, <2>2, <2>3, FreshTab
  <2> QED
    BY <2>1, <2>4
<1>4. CASE ~Sup!attemptAllowed(begun, begun.activation)
  <2>1. PICK t \in Tabs :
           /\ launchForTab(c, a, descriptor, reuse, at)
                = put(c, a, refusedTab(t, begun), closedWith(c, a),
                      c.nextEpoch)
           /\ t.lease = c.tabs[a].lease /\ t.attempt = c.tabs[a].attempt
           /\ ~t.admitted
    BY <1>1, <1>4, LaunchIsPut
  <2> DEFINE u == refusedTab(t, begun)
  <2>2. /\ u \in Tabs /\ u.lease = c.tabs[a].lease
        /\ u.attempt = c.tabs[a].attempt /\ ~u.admitted /\ u.failedClosed
    BY <1>2, <2>1 DEF refusedTab, Tabs
  <2> HIDE DEF u
  <2>3. LET d == put(c, a, u, closedWith(c, a), c.nextEpoch)
        IN  Sound(d, draining, fs, ss) /\ Quiet(c, d)
    <3>1. Sound(c, draining, fs, ss)
      BY <1>2, <1>4 DEF Sound
    <3> QED
      BY <2>2, <3>1, EndTab
  <2>4. left = draining
    BY <1>2, <1>4
  <2> QED
    BY <2>1, <2>3, <2>4 DEF Sound, u
<1> QED
  BY <1>3, <1>4

\* So does one that may be refused.
LEMMA LaunchInv ==
    ASSUME NEW draining, NEW fs, NEW ss, NEW c, Sound(c, draining, fs, ss),
           NEW a \in Authorities, launchAllowed(c) => a \notin draining,
           NEW reuse \in BOOLEAN, NEW at \in Nat, NEW descriptor,
           descriptor.version \in Versions \cup {NoVersion} \cup Sites,
           descriptor.generation \in Nat,
           launchAllowed(c) /\ descriptor.version \in fs
           => descriptor.version \in ss /\ ~candidateLease(c, descriptor),
           \/ holds(c.tabs[a]) \/ a \in draining
           \/ \A b \in Authorities :
                 b # a /\ b.tab = a.tab
                 => ~holds(c.tabs[b]) /\ b \notin draining
    PROVE  LET d == launchForTab(c, a, descriptor, reuse, at)
           IN  Sound(d, draining, fs, ss) /\ Quiet(c, d)
<1>1. CASE launchAllowed(c)
  BY <1>1, LaunchAllowed DEF Sound
<1>2. CASE ~launchAllowed(c)
  <2>1. launchForTab(c, a, descriptor, reuse, at) = c
    BY <1>2 DEF launchForTab
  <2> QED
    BY <2>1, QuietSame DEF Sound, TabsOK
<1> QED
  BY <1>1, <1>2

-----------------------------------------------------------------------------
\* The calls about one tab.

\* What is written into a tab whose authority was just revoked.
LEMMA RevokedEdit ==
    ASSUME NEW c \in Coordinators, NEW a \in Authorities, NEW t \in Tabs
    PROVE  /\ revokeSilently(c, a) \in Coordinators
           /\ revokeSilently(c, a).tabs[a] = revokedTab(c.tabs[a])
           /\ [revokeSilently(c, a) EXCEPT !.tabs[a] = t]
                = put(c, a, t, closedWith(c, a), c.nextEpoch)
<1> DEFINE x == closedWith(c, a)
           n == c.nextEpoch
           u == revokedTab(c.tabs[a])
           old == put(c, a, u, x, n)
<1>1. /\ x \in SUBSET Nat /\ n \in Nat /\ u \in Tabs
      /\ revokeSilently(c, a) = old
  BY RevokeIsPut DEF Coordinators
<1> HIDE DEF x, n, u
<1>2. /\ old \in Coordinators /\ old.closed = x /\ old.nextEpoch = n
      /\ old.tabs[a] = u
  BY <1>1, PutFields
<1>3. put(old, a, t, x, n) = put(c, a, t, x, n)
  BY <1>1, PutTwice
<1> HIDE DEF old
<1>4. [old EXCEPT !.tabs[a] = t] = put(old, a, t, x, n)
  BY <1>2, EditIsPut
<1> QED
  BY <1>1, <1>2, <1>3, <1>4 DEF x, n, u

\* The ways in which a tab ends.
failTab(c, a) == [revokeSilently(c, a) EXCEPT !.tabs[a].failedClosed = TRUE]
retireTab(c, a) == [revokeSilently(c, a) EXCEPT !.tabs[a].retired = TRUE]
exitTab(c, a, sup) ==
    [revokeSilently(c, a) EXCEPT !.tabs[a].sup = sup,
                                 !.tabs[a].retired = TRUE]

\* A tab that fails or is closed, with its token, leaves the rest sound.
LEMMA RevokedAndEnded ==
    ASSUME NEW draining, NEW fs, NEW ss, NEW c, Sound(c, draining, fs, ss),
           NEW a \in Authorities
    PROVE  /\ Sound(failTab(c, a), draining, fs, ss)
           /\ Quiet(c, failTab(c, a))
           /\ Sound(retireTab(c, a), draining, fs, ss)
           /\ Quiet(c, retireTab(c, a))
           /\ retireTab(c, a).tabs[a].retired
           /\ \A b \in Authorities :
                 b # a => retireTab(c, a).tabs[b] = c.tabs[b]
           /\ \A s \in Supervisors :
                 /\ Sound(exitTab(c, a, s), draining, fs, ss)
                 /\ Quiet(c, exitTab(c, a, s))
<1> DEFINE u == revokedTab(c.tabs[a])
           old == revokeSilently(c, a)
           t1 == [u EXCEPT !.failedClosed = TRUE]
           t2 == [u EXCEPT !.retired = TRUE]
           t3(s) == [u EXCEPT !.sup = s, !.retired = TRUE]
           Ended(t) == /\ t \in Tabs /\ t.lease = c.tabs[a].lease
                       /\ t.attempt = c.tabs[a].attempt
                       /\ ~t.admitted /\ (t.retired \/ t.failedClosed)
           Good(d) == Sound(d, draining, fs, ss) /\ Quiet(c, d)
<1>1. c \in Coordinators /\ c.nextEpoch \in Nat
  BY DEF Sound, TabsOK, Coordinators
<1>2. /\ u \in Tabs /\ ~u.admitted /\ u.lease = c.tabs[a].lease
      /\ u.attempt = c.tabs[a].attempt
  BY <1>1, RevokeIsPut DEF revokedTab, Coordinators, Tabs
<1>3. old \in Coordinators /\ old.tabs[a] = u
  BY <1>1, <1>2, RevokedEdit
<1> HIDE DEF u, old
<1>4. Ended(t1) /\ Ended(t2) /\ \A s \in Supervisors : Ended(t3(s))
  BY <1>2 DEF Tabs
<1>5. t2.retired
  BY <1>2 DEF Tabs
<1>6. /\ [old EXCEPT !.tabs[a].failedClosed = TRUE]
           = [old EXCEPT !.tabs[a] = t1]
      /\ [old EXCEPT !.tabs[a].retired = TRUE] = [old EXCEPT !.tabs[a] = t2]
  BY <1>3
<1>7. ASSUME NEW s \in Supervisors
      PROVE  [old EXCEPT !.tabs[a].sup = s, !.tabs[a].retired = TRUE]
               = [old EXCEPT !.tabs[a] = t3(s)]
  BY <1>3 DEF Coordinators
<1> HIDE DEF t1, t2, t3
<1>8. ASSUME NEW t, Ended(t)
      PROVE  /\ Good([old EXCEPT !.tabs[a] = t])
             /\ [old EXCEPT !.tabs[a] = t].tabs[a] = t
             /\ \A b \in Authorities :
                   b # a => [old EXCEPT !.tabs[a] = t].tabs[b] = c.tabs[b]
  <2> DEFINE d == put(c, a, t, closedWith(c, a), c.nextEpoch)
  <2>1. [old EXCEPT !.tabs[a] = t] = d
    BY <1>1, <1>8, RevokedEdit DEF old
  <2>2. Good(d)
    BY <1>8, EndTab
  <2>3. d.tabs[a] = t /\ SameButTab(c, d, a)
    BY <1>1, <1>8, PutFields, ClosedWith
  <2> HIDE DEF d
  <2> QED
    BY <2>1, <2>2, <2>3 DEF SameButTab
<1> HIDE DEF Ended, Good
<1>9. Good(failTab(c, a))
  BY <1>4, <1>6, <1>8 DEF failTab, old
<1>10. /\ Good(retireTab(c, a)) /\ retireTab(c, a).tabs[a].retired
       /\ \A b \in Authorities :
             b # a => retireTab(c, a).tabs[b] = c.tabs[b]
  BY <1>4, <1>5, <1>6, <1>8 DEF retireTab, old
<1>11. \A s \in Supervisors : Good(exitTab(c, a, s))
  BY <1>4, <1>7, <1>8 DEF exitTab, old
<1> QED
  BY <1>9, <1>10, <1>11 DEF Good

\* failClosedTab ends a tab that lives.
LEMMA FailClosedInv ==
    ASSUME NEW draining, NEW fs, NEW ss, NEW c, Sound(c, draining, fs, ss),
           NEW a \in Authorities
    PROVE  LET d == failClosedTab(c, a)
           IN  Sound(d, draining, fs, ss) /\ Quiet(c, d)
BY RevokedAndEnded, QuietSame DEF failClosedTab, failTab, Sound, TabsOK

\* closeTab.
LEMMA CloseInv ==
    ASSUME NEW draining, NEW fs, NEW ss, NEW c, Sound(c, draining, fs, ss),
           NEW a \in Authorities
    PROVE  LET d == closeTab(c, a)
           IN  /\ Sound(d, draining, fs, ss) /\ Quiet(c, d)
               /\ \A b \in Authorities : b # a => d.tabs[b] = c.tabs[b]
               /\ ~holds(d.tabs[a])
<1>1. CASE c.tabs[a] = NoTab \/ c.tabs[a].retired
  <2>1. closeTab(c, a) = c
    BY <1>1 DEF closeTab
  <2> QED
    BY <1>1, <2>1, QuietSame DEF Sound, TabsOK, holds
<1>2. CASE ~(c.tabs[a] = NoTab \/ c.tabs[a].retired)
  <2>1. closeTab(c, a) = retireTab(c, a)
    BY <1>2 DEF closeTab, retireTab
  <2> DEFINE r == retireTab(c, a)
  <2>2. /\ Sound(r, draining, fs, ss) /\ Quiet(c, r) /\ r.tabs[a].retired
        /\ \A b \in Authorities : b # a => r.tabs[b] = c.tabs[b]
    BY RevokedAndEnded
  <2> HIDE DEF r
  <2>3. ~holds(r.tabs[a])
    BY <2>2 DEF holds
  <2>4. closeTab(c, a) = r
    BY <2>1 DEF r
  <2> QED
    BY <2>2, <2>3, <2>4
<1> QED
  BY <1>1, <1>2

\* cancelPendingLaunch.
LEMMA CancelInv ==
    ASSUME NEW draining, NEW fs, NEW ss, NEW c, Sound(c, draining, fs, ss),
           NEW key, key.authority \in Authorities
    PROVE  LET d == cancelPendingLaunch(c, key)
           IN  Sound(d, draining, fs, ss) /\ Quiet(c, d)
<1> DEFINE a == key.authority
<1>1. c \in Coordinators
  BY DEF Sound, TabsOK
<1>2. [revokeSilently(c, a) EXCEPT !.tabs[a] = NoTab]
        = put(c, a, NoTab, closedWith(c, a), c.nextEpoch)
  BY <1>1, RevokedEdit, NoTabType
<1>3. LET d == put(c, a, NoTab, closedWith(c, a), c.nextEpoch)
      IN  Sound(d, draining, fs, ss) /\ Quiet(c, d)
  BY EraseTab
<1> QED
  BY <1>1, <1>2, <1>3, QuietSame DEF cancelPendingLaunch

\* Edits of a tab that lives, other than its launch.
LEMMA LiveEdit ==
    ASSUME NEW draining, NEW fs, NEW ss, NEW c, Sound(c, draining, fs, ss),
           NEW a \in Authorities, live(c.tabs[a]), NEW t \in Tabs,
           t.lease = c.tabs[a].lease, t.attempt = c.tabs[a].attempt,
           t.candidate = c.tabs[a].candidate,
           t.admitted => t.sup.handshaken, ~ended(t)
    PROVE  LET d == [c EXCEPT !.tabs[a] = t]
           IN  /\ Sound(d, draining, fs, ss) /\ Quiet(c, d)
               /\ live(d.tabs[a]) /\ d.tabs[a] = t
               /\ SameButTab(c, d, a)
<1> DEFINE d == put(c, a, t, c.closed, c.nextEpoch)
<1>1. c \in Coordinators /\ c.closed \in SUBSET Nat /\ c.nextEpoch \in Nat
  BY DEF Sound, TabsOK, Coordinators
<1>2. [c EXCEPT !.tabs[a] = t] = d
  BY <1>1, EditIsPut
<1>3. Sound(d, draining, fs, ss) /\ Quiet(c, d)
  BY KeepTab
<1>4. d.tabs[a] = t /\ SameButTab(c, d, a)
  BY <1>1, PutFields
<1>5. live(t)
  BY DEF live, hasRequest
<1> HIDE DEF d
<1> QED
  BY <1>2, <1>3, <1>4, <1>5

\* What nobody may launch has not failed, when a launch is allowed at all.
LEMMA CandidateIsGood ==
    ASSUME NEW draining, NEW fs, NEW ss, NEW c, Sound(c, draining, fs, ss),
           launchAllowed(c), NEW lease, lease.version \in fs
    PROVE  ~candidateLease(c, lease)
BY DEF Sound, FailedIsGone, SelectionIsGood, launchAllowed, candidateLease,
       sameLeaseIdentity

\* restartTab for a tab that lives.
LEMMA RestartInv ==
    ASSUME NEW draining, NEW fs, NEW ss, NEW c, Sound(c, draining, fs, ss),
           NEW a \in Authorities, live(c.tabs[a]), NEW at \in Nat
    PROVE  LET d == restartTab(c, a, at)
           IN  Sound(d, draining, fs, ss) /\ Quiet(c, d)
<1> DEFINE t == c.tabs[a]
           reuse == t.sup.state = "Stopped"
<1>1. t \in Tabs /\ t.lease \in Leases
  BY DEF Sound, TabsOK, Coordinators, Tabs
<1>2. /\ t.lease.version \in Versions \cup {NoVersion} \cup Sites
      /\ t.lease.generation \in Nat
  BY <1>1 DEF Leases
<1>3. t.lease.version \in fs => t.lease.version \in ss
  BY DEF Sound, FailedIsGone, TabIsFenced
<1>4. holds(t)
  BY NoTabType DEF live, ended, holds
<1>5. restartTab(c, a, at) = launchForTab(c, a, t.lease, reuse, at)
  BY DEF restartTab, live
<1>6. launchAllowed(c) /\ t.lease.version \in fs
      => t.lease.version \in ss /\ ~candidateLease(c, t.lease)
  BY <1>3, CandidateIsGood
<1>10. a \notin draining
  BY DEF Sound, FailedIsGone
<1> DEFINE lease == t.lease
<1> HIDE DEF t, lease
<1>7. reuse \in BOOLEAN
  OBVIOUS
<1> HIDE DEF reuse
<1>8. /\ holds(c.tabs[a])
      /\ lease.version \in Versions \cup {NoVersion} \cup Sites
      /\ lease.generation \in Nat
      /\ (launchAllowed(c) /\ lease.version \in fs
          => lease.version \in ss /\ ~candidateLease(c, lease))
  BY <1>2, <1>4, <1>6 DEF t, lease
<1>9. LET d == launchForTab(c, a, lease, reuse, at)
      IN  Sound(d, draining, fs, ss) /\ Quiet(c, d)
  BY <1>7, <1>8, <1>10, LaunchInv
<1> QED
  BY <1>5, <1>9 DEF lease

\* admitAuthenticatedWorker.
LEMMA AdmitInv ==
    ASSUME NEW draining, NEW fs, NEW ss, NEW c, Sound(c, draining, fs, ss),
           NEW key, key.authority \in Authorities,
           key.attempt \in Sup!AttemptKey, NEW at \in Nat
    PROVE  LET d == admitAuthenticatedWorker(c, key, at)
           IN  Sound(d, draining, fs, ss) /\ Quiet(c, d)
<1> DEFINE a == key.authority
           t == c.tabs[a]
           sup == Sup!authenticatedHandshake(t.sup, key.attempt, at)
           u == [t EXCEPT !.admitted = TRUE, !.sup = sup]
<1>1. c \in Coordinators /\ t \in Tabs
  BY DEF Sound, TabsOK, Coordinators
<1>2. CASE admitAuthenticatedWorker(c, key, at) = c
  BY <1>1, <1>2, QuietSame
<1>3. CASE admitAuthenticatedWorker(c, key, at) # c
  <2>1. /\ isLive(c, key)
        /\ Sup!handshakeAllowed(t.sup, key.attempt, at)
        /\ admitAuthenticatedWorker(c, key, at) =
             [c EXCEPT !.tabs[a].admitted = TRUE, !.tabs[a].sup = sup]
    BY <1>1, <1>3 DEF admitAuthenticatedWorker, Coordinators
  <2>2. live(t)
    BY <2>1 DEF isLive, live
  <2>3. sup \in Supervisors /\ sup.handshaken
    BY <1>1, <2>1, AliveType DEF Tabs
  <2>4. [c EXCEPT !.tabs[a].admitted = TRUE, !.tabs[a].sup = sup]
          = [c EXCEPT !.tabs[a] = u]
    BY <1>1 DEF Coordinators
  <2> HIDE DEF sup
  <2>5. /\ u \in Tabs /\ u.lease = t.lease /\ u.attempt = t.attempt
        /\ u.candidate = t.candidate /\ u.sup = sup
        /\ (ended(u) <=> ended(t))
    BY <1>1, <2>3 DEF Tabs, ended
  <2> HIDE DEF u
  <2>6. LET d == [c EXCEPT !.tabs[a] = u]
        IN  Sound(d, draining, fs, ss) /\ Quiet(c, d)
    BY <2>2, <2>3, <2>5, LiveEdit DEF live
  <2> QED
    BY <2>1, <2>4, <2>6
<1> QED
  BY <1>2, <1>3

\* Changes that leave the tabs and the tokens alone.
LEMMA SameTabs ==
    ASSUME NEW draining, NEW c, TabsOK(c, draining), NEW d \in Coordinators,
           d.tabs = c.tabs, d.closed = c.closed, d.nextEpoch = c.nextEpoch
    PROVE  TabsOK(d, draining)
<1>1. TokensFollowTabs(d)
  BY DEF TabsOK, TokensFollowTabs
<1>2. AdmittedIsLive(d)
  BY DEF TabsOK, AdmittedIsLive
<1>3. OneIncarnation(d, draining)
  BY DEF TabsOK, OneIncarnation
<1> QED
  BY <1>1, <1>2, <1>3 DEF TabsOK

\* The app fails closed, or has a guard left to close.
LEMMA FlagChange ==
    ASSUME NEW draining, NEW fs, NEW ss, NEW c, Sound(c, draining, fs, ss),
           NEW p \in BOOLEAN, NEW f \in BOOLEAN, c.failedClosed => f
    PROVE  LET d == [c EXCEPT !.cleanupPending = p, !.failedClosed = f]
           IN  /\ Sound(d, draining, fs, ss) /\ Follows(c, d) /\ Calm(c, d)
               /\ d.failedClosed = f
<1> DEFINE d == [c EXCEPT !.cleanupPending = p, !.failedClosed = f]
<1>1. c \in Coordinators /\ c.nextEpoch \in Nat
  BY DEF Sound, TabsOK, Coordinators
<1>2. /\ d \in Coordinators
      /\ d.tabs = c.tabs /\ d.closed = c.closed /\ d.nextEpoch = c.nextEpoch
      /\ d.store = c.store /\ d.current = c.current
      /\ d.candidate = c.candidate /\ d.lkg = c.lkg /\ d.drain = c.drain
      /\ d.nextDrain = c.nextDrain
      /\ d.candidatePromoted = c.candidatePromoted
      /\ d.shuttingDown = c.shuttingDown
      /\ d.failedClosed = f
  BY <1>1 DEF Coordinators
<1> HIDE DEF d
<1>3. TabsOK(d, draining)
  BY <1>2, SameTabs DEF Sound
<1>4. SelectionIsGood(d, fs)
  BY <1>2 DEF Sound, FailedIsGone, SelectionIsGood
<1>5. ASSUME NEW b \in Authorities
      PROVE  /\ TabIsFenced(d, d.tabs[b], fs, ss)
             /\ awaitsDrain(d.tabs[b]) => d.failedClosed \/ b \in draining
             /\ b \in draining => ~live(d.tabs[b])
  BY <1>2 DEF Sound, FailedIsGone, TabIsFenced, candidateLease
<1>6. Follows(c, d) /\ Calm(c, d)
  BY <1>1, <1>2 DEF Follows, Carries, Calm
<1> QED
  BY <1>2, <1>3, <1>4, <1>5, <1>6 DEF Sound, FailedIsGone, d

\* workerCleanupFailed.
LEMMA CleanupFailedInv ==
    ASSUME NEW draining, NEW fs, NEW ss, NEW c, Sound(c, draining, fs, ss),
           NEW key, key.authority \in Authorities
    PROVE  LET d == workerCleanupFailed(c, key)
           IN  Sound(d, draining, fs, ss) /\ Follows(c, d) /\ Calm(c, d)
<1> DEFINE a == key.authority
           d == failTab(c, a)
           e == [d EXCEPT !.cleanupPending = d.cleanupPending,
                          !.failedClosed = TRUE]
<1>1. CASE c.tabs[a] = NoTab
  <2>1. workerCleanupFailed(c, key) = c
    BY <1>1 DEF workerCleanupFailed
  <2> QED
    BY <2>1, QuietSame DEF Sound, TabsOK, Quiet
<1>2. CASE c.tabs[a] # NoTab
  <2>1. Sound(d, draining, fs, ss) /\ Quiet(c, d)
    BY RevokedAndEnded
  <2>2. c \in Coordinators /\ d \in Coordinators
    BY <2>1 DEF Sound, TabsOK
  <2>3. workerCleanupFailed(c, key) = [d EXCEPT !.failedClosed = TRUE]
    BY <1>2 DEF workerCleanupFailed, failTab
  <2> HIDE DEF d
  <2>4. [d EXCEPT !.failedClosed = TRUE] = e
    BY <2>2 DEF Coordinators
  <2>5. d.cleanupPending \in BOOLEAN
    BY <2>2 DEF Coordinators
  <2>6. Sound(e, draining, fs, ss) /\ Follows(d, e) /\ Calm(d, e)
    BY <2>1, <2>5, FlagChange
  <2> HIDE DEF e
  <2>7. e \in Coordinators
    BY <2>6 DEF Sound, TabsOK
  <2>8. Follows(c, e)
    BY <2>1, <2>2, <2>6, <2>7, FollowsTransitive DEF Quiet
  <2>9. Calm(c, e)
    BY <2>1, <2>6 DEF Quiet, Calm
  <2> QED
    BY <2>3, <2>4, <2>6, <2>8, <2>9
<1> QED
  BY <1>1, <1>2

-----------------------------------------------------------------------------
\* Launch requests.

\* The coordinator without the other incarnation of the browser tab.
replaced(c, a) ==
    IF otherIncarnations(c, a) = {}
      THEN c
      ELSE closeTab(c, firstOf(otherIncarnations(c, a)))

\* Closing the other runtime incarnation of a browser tab leaves none.
LEMMA ReplaceInv ==
    ASSUME NEW draining, draining = {},
           NEW fs, NEW ss, NEW c, Sound(c, draining, fs, ss),
           NEW a \in Authorities,
           NEW d, d = replaced(c, a)
    PROVE  /\ Sound(d, draining, fs, ss) /\ Quiet(c, d)
           /\ d.tabs[a] = c.tabs[a]
           /\ \A b \in Authorities :
                 b # a /\ b.tab = a.tab => ~holds(d.tabs[b])
<1> DEFINE others == otherIncarnations(c, a)
           f == firstOf(others)
<1>1. c \in Coordinators
  BY DEF Sound, TabsOK
<1>2. others = {b \in Authorities :
                   b.tab = a.tab /\ b # a /\ holds(c.tabs[b])}
  BY DEF otherIncarnations, holds
<1>3. CASE others = {}
  <2>1. d = c
    BY <1>3 DEF replaced
  <2>2. \A b \in Authorities : b # a /\ b.tab = a.tab => ~holds(c.tabs[b])
    BY <1>2, <1>3
  <2> QED
    BY <1>1, <2>1, <2>2, QuietSame
<1>4. CASE others # {}
  <2>1. f \in others
    BY <1>2, <1>4, FirstAndLast
  <2> HIDE DEF f, others
  <2>2. f \in Authorities /\ f.tab = a.tab /\ f # a /\ holds(c.tabs[f])
    BY <1>2, <2>1
  <2>3. d = closeTab(c, f)
    BY <1>4 DEF f, others, replaced
  <2>4. /\ Sound(d, draining, fs, ss) /\ Quiet(c, d)
        /\ \A b \in Authorities : b # f => d.tabs[b] = c.tabs[b]
        /\ ~holds(d.tabs[f])
    BY <2>2, <2>3, CloseInv
  <2>5. ASSUME NEW b \in Authorities, b # f, b.tab = a.tab
        PROVE  ~holds(c.tabs[b])
    BY <2>2, <2>5 DEF Sound, TabsOK, OneIncarnation
  <2> QED
    BY <2>2, <2>4, <2>5
<1> QED
  BY <1>3, <1>4

\* requestTabLaunch, which only gets anywhere while no drain is pending.
LEMMA RequestInv ==
    ASSUME NEW draining, draining = {},
           NEW fs, NEW ss, NEW c, Sound(c, draining, fs, ss),
           launchAllowed(c), NEW a \in Authorities,
           NEW intent \in Intents, NEW package \in {App} \cup Sites,
           NEW settles \in BOOLEAN, NEW at \in Nat
    PROVE  LET d == requestTabLaunch(c, a, intent, package, settles, at)
           IN  Sound(d, draining, fs, ss) /\ Follows(c, d) /\ Calm(c, d)
<1> DEFINE call == requestTabLaunch(c, a, intent, package, settles, at)
           mid == replaced(c, a)
           t == mid.tabs[a]
           site == Descriptor(package, 1)
           held == [mid EXCEPT !.cleanupPending = TRUE]
           Good(d) == Sound(d, draining, fs, ss) /\ Follows(c, d) /\ Calm(c, d)
<1> SUFFICES Good(call)
  OBVIOUS
<1>1. /\ Sound(mid, draining, fs, ss) /\ Quiet(c, mid)
      /\ mid.tabs[a] = c.tabs[a]
      /\ \A b \in Authorities : b # a /\ b.tab = a.tab => ~holds(mid.tabs[b])
  BY ReplaceInv
<1>2. c \in Coordinators /\ mid \in Coordinators
  BY <1>1 DEF Sound, TabsOK
<1>3. CASE c.tabs[a].retired \/ c.tabs[a].failedClosed
  <2>1. call = c
    BY <1>3 DEF requestTabLaunch
  <2>2. Good(c)
    BY <1>2, QuietSame DEF Quiet
  <2> QED
    BY <2>1, <2>2
<1>4. CASE ~(c.tabs[a].retired \/ c.tabs[a].failedClosed)
  <2>1. \/ call = mid
        \/ hasRequest(t) /\ call = launchForTab(mid, a, t.lease, FALSE, at)
        \/ package \in c.sites /\ call = held
        \/ package \in c.sites
           /\ call = launchForTab(mid, a, site, FALSE, at)
        \/ c.current # NoDescriptor
           /\ call = launchForTab(mid, a, c.current, FALSE, at)
    <3> DEFINE keeps == /\ intent = "ActivateCurrent"
                        /\ hasRequest(t) /\ t.admitted /\ ~ended(t)
                        /\ leasesPackage(t, package)
    <3>1. CASE keeps
      <4>1. call = mid
        BY <1>4, <3>1 DEF requestTabLaunch, replaced
      <4> QED
        BY <4>1
    <3>2. CASE ~keeps /\ intent = "RestartPinned"
      <4>1. call = IF hasRequest(t)
                     THEN launchForTab(mid, a, t.lease, FALSE, at)
                     ELSE mid
        BY <1>4, <3>2 DEF requestTabLaunch, replaced
      <4> HIDE DEF call
      <4> QED
        BY <4>1
    <3>3. CASE ~keeps /\ intent # "RestartPinned" /\ package # App
      <4>1. call = IF package \notin c.sites
                     THEN mid
                     ELSE IF ~settles
                       THEN held
                       ELSE launchForTab(mid, a, site, FALSE, at)
        <5>1. mid.sites = c.sites => TRUE
          OBVIOUS
        <5> QED
          BY <1>4, <3>3 DEF requestTabLaunch, replaced
      <4> HIDE DEF call
      <4> QED
        BY <4>1
    <3>4. CASE ~keeps /\ intent # "RestartPinned" /\ package = App
      <4>1. call = IF c.current = NoDescriptor
                     THEN mid
                     ELSE launchForTab(mid, a, c.current, FALSE, at)
        BY <1>4, <3>4 DEF requestTabLaunch, replaced
      <4> HIDE DEF call
      <4> QED
        BY <4>1
    <3> QED
      BY <3>1, <3>2, <3>3, <3>4
  <2> HIDE DEF call, mid
  <2>2. launchAllowed(mid) /\ mid.current = c.current
    BY <1>1 DEF launchAllowed, Quiet, Calm
  <2>3. Good(mid)
    BY <1>1 DEF Quiet
  <2> HIDE DEF Good
  <2>4. ASSUME NEW e \in Coordinators, Sound(e, draining, fs, ss),
               Follows(mid, e), Calm(mid, e)
        PROVE  Good(e)
    <3>1. Follows(c, e)
      BY <1>1, <1>2, <2>4, FollowsTransitive DEF Quiet
    <3> QED
      BY <1>1, <2>4, <3>1 DEF Quiet, Calm, Good
  <2>5. ASSUME NEW descriptor,
               descriptor.version \in Versions \cup {NoVersion} \cup Sites,
               descriptor.generation \in Nat,
               descriptor.version \in fs => descriptor.version \in ss
        PROVE  Good(launchForTab(mid, a, descriptor, FALSE, at))
    <3> DEFINE e == launchForTab(mid, a, descriptor, FALSE, at)
    <3>1. descriptor.version \in fs => ~candidateLease(mid, descriptor)
      BY <1>1, <2>2, CandidateIsGood
    <3>2. Sound(e, draining, fs, ss) /\ Quiet(mid, e)
      <4>1. FALSE \in BOOLEAN
        OBVIOUS
      <4>2. \A b \in Authorities :
               b # a /\ b.tab = a.tab
               => ~holds(mid.tabs[b]) /\ b \notin draining
        BY <1>1
      <4> QED
        BY <1>1, <2>5, <3>1, <4>1, <4>2, LaunchInv
    <3> HIDE DEF e
    <3>3. e \in Coordinators
      BY <3>2 DEF Sound, TabsOK
    <3> QED
      BY <2>4, <3>2, <3>3 DEF Quiet, e
  <2>6. CASE hasRequest(t)
             /\ call = launchForTab(mid, a, t.lease, FALSE, at)
    <3>1. /\ t.lease.version \in Versions \cup {NoVersion} \cup Sites
          /\ t.lease.generation \in Nat
      BY <1>2 DEF Coordinators, Tabs, Leases
    <3>2. t.lease.version \in fs => t.lease.version \in ss
      <4>1. ~mid.failedClosed
        BY <2>2 DEF launchAllowed
      <4>2. TabIsFenced(mid, t, fs, ss) /\ ~awaitsDrain(t)
        BY <1>1, <4>1 DEF Sound, FailedIsGone
      <4>3. live(t)
        BY <1>1, <1>4, <2>6, <4>2 DEF live, ended, awaitsDrain
      <4> QED
        BY <4>2, <4>3 DEF TabIsFenced
    <3> HIDE DEF t
    <3> QED
      BY <2>5, <2>6, <3>1, <3>2
  <2>7. CASE /\ package \in c.sites
             /\ call = launchForTab(mid, a, site, FALSE, at)
    <3>1. package \in Sites /\ fs \subseteq Versions
      BY <1>2, <2>7 DEF Coordinators, Sound, FailedIsGone
    <3>2. package \notin fs
      BY <3>1, SitesAssumption
    <3>3. site.version = package /\ site.generation = 1
      BY DEF Descriptor
    <3>4. /\ site.version \in Versions \cup {NoVersion} \cup Sites
          /\ site.generation \in Nat /\ site.version \notin fs
      BY <3>1, <3>2, <3>3
    <3> HIDE DEF site
    <3> QED
      BY <2>5, <2>7, <3>4
  <2>8. CASE c.current # NoDescriptor
             /\ call = launchForTab(mid, a, c.current, FALSE, at)
    <3>1. c.current.version \in Versions /\ c.current.generation \in Nat
      BY <1>2, <2>8 DEF Coordinators, Descriptors
    <3>2. c.current.version \notin fs
      BY DEF launchAllowed, Sound, FailedIsGone, SelectionIsGood
    <3> QED
      BY <2>5, <2>8, <3>1, <3>2
  <2>9. CASE call = held
    <3> DEFINE flag == mid.failedClosed
    <3>1. flag \in BOOLEAN /\ (mid.failedClosed => flag)
      BY <1>2 DEF Coordinators
    <3>2. held = [mid EXCEPT !.cleanupPending = TRUE,
                             !.failedClosed = flag]
      BY <1>2 DEF Coordinators
    <3> HIDE DEF held, flag
    <3>3. /\ Sound(held, draining, fs, ss)
          /\ Follows(mid, held) /\ Calm(mid, held)
      BY <1>1, <3>1, <3>2, FlagChange
    <3> HIDE DEF held
    <3>4. held \in Coordinators
      BY <3>3 DEF Sound, TabsOK
    <3> QED
      BY <2>4, <2>9, <3>3, <3>4
  <2> QED
    BY <2>1, <2>3, <2>6, <2>7, <2>8, <2>9
<1> QED
  BY <1>3, <1>4

-----------------------------------------------------------------------------
\* The rollback of the candidate.

\* What the history variables become when a call takes c to d.
FailedAfter(c, d, fs) ==
    (fs \ {v \in {d.store.current} : v # c.store.current})
      \cup {v \in {d.candidate.version} : d.nextDrain > c.nextDrain}

\* The candidate was selected, newly or again: see Selects.
selects(c, d) ==
    /\ ~d.candidatePromoted /\ d.candidate # NoDescriptor
    /\ d.candidate # c.candidate \/ c.candidatePromoted

\* See NewlySpared.
SparedAfter(c, d, ss) ==
    ss \cup {v \in {d.candidate.version} :
               selects(c, d) /\ \E a \in Authorities :
                                   runsUnmarked(d.tabs[a], v)}

\* A call that keeps c sound, and what it is to one.
Keeps(c, d, fs, ss) ==
    /\ Sound(d, d.drain.affected, FailedAfter(c, d, fs), SparedAfter(c, d, ss))
    /\ Follows(c, d)

\* A calm call changes no history.
LEMMA CalmKeeps ==
    ASSUME NEW fs, NEW ss, NEW c \in Coordinators, NEW d,
           Sound(d, c.drain.affected, fs, ss), Follows(c, d), Calm(c, d)
    PROVE  Keeps(c, d, fs, ss)
<1>1. d \in Coordinators
  BY DEF Sound, TabsOK
<1>2. c.nextDrain \in Nat
  BY DEF Coordinators
<1>3. FailedAfter(c, d, fs) = fs
  BY <1>2 DEF FailedAfter, Calm
<1>4. SparedAfter(c, d, ss) = ss
  BY DEF SparedAfter, selects, Calm
<1>5. d.drain = c.drain
  BY DEF Calm
<1> QED
  BY <1>3, <1>4, <1>5 DEF Keeps

\* The record a rollback leaves is in range.
LEMMA RollbackType ==
    ASSUME NEW s \in Store!ActivationStates, NEW present \in SUBSET Versions,
           NEW expected, NEW v \in Versions
    PROVE  /\ Store!rollback(s, present, expected).next
                \in Store!ActivationStates
           /\ Store!rollback(s, present, expected).next.lastKnownGood
                = s.lastKnownGood
BY StoreType

\* The transaction of the store that a rollback makes.
LEMMA RolledBack ==
    ASSUME NEW c \in Coordinators, c.candidate # NoDescriptor, NEW io
    PROVE  LET r == rolledBack(c, io)
           IN  /\ r.next \in Store!ActivationStates
               /\ r.next.lastKnownGood = c.store.lastKnownGood
               /\ r.ok => /\ r.next.current # c.candidate.version
                          /\ r.next.current # c.store.current
                          /\ r.next.current \in Versions
               /\ ~r.ok => r.next = c.store
               /\ recovers(c, io) => r.ok
<1>1. /\ c.store \in Store!ActivationStates /\ c.present \in SUBSET Versions
      /\ c.candidate.version \in Versions
  BY DEF Coordinators, Descriptors
<1>2. CASE io = "writeFails"
  <2>1. rolledBack(c, io) = [ok |-> FALSE, next |-> c.store]
    BY <1>2 DEF rolledBack, Store!Refused
  <2> QED
    BY <1>1, <2>1 DEF recovers
<1>3. CASE io # "writeFails"
  <2> DEFINE expected == bindingOf(c.candidate)
             r == Store!rollback(c.store, c.present, expected)
  <2>1. rolledBack(c, io) = r
    BY <1>3 DEF rolledBack
  <2>2. expected.directory = c.candidate.version
    BY DEF bindingOf
  <2> HIDE DEF expected
  <2>3. r.next \in Store!ActivationStates
        /\ r.next.lastKnownGood = c.store.lastKnownGood
    BY <1>1, RollbackType
  <2>4. /\ r.ok => /\ c.store.current = expected.directory
                   /\ r.next.current # c.store.current
                   /\ r.next.current \in Versions
        /\ ~r.ok => r.next = c.store
    BY <1>1, RollbackSelects
  <2> HIDE DEF r
  <2> QED
    BY <2>1, <2>2, <2>3, <2>4 DEF recovers
<1> QED
  BY <1>2, <1>3

\* What a rollback makes of the tabs and the tokens.
fencedTab(c, io, t) ==
    [t EXCEPT !.revoked = TRUE, !.admitted = FALSE,
              !.failedClosed = ~recovers(c, io)]

\* The tokens that a rollback revokes.
ticketsOf(c) == {c.tabs[a].lease.epoch : a \in affectedTabs(c)}
fencedTabs(c, io) ==
    [a \in Authorities |-> IF a \in affectedTabs(c)
                             THEN fencedTab(c, io, c.tabs[a])
                             ELSE c.tabs[a]]

\* The drain that it begins.
drainAfter(c, io, at) ==
    [id |-> c.nextDrain, tickets |-> ticketsOf(c),
     deadline |-> at + DrainTimeout, affected |-> affectedTabs(c),
     timedOut |-> FALSE, terminalFailure |-> ~recovers(c, io)]

\* The coordinator it leaves, but for what is selected.
Fenced(c, d, io, at) ==
    /\ d \in Coordinators
    /\ d.closed = c.closed \cup ticketsOf(c)
    /\ d.tabs = fencedTabs(c, io)
    /\ d.store = rolledBack(c, io).next
    /\ d.drain = drainAfter(c, io, at)
    /\ d.nextDrain = c.nextDrain + 1
    /\ d.candidate = c.candidate
    /\ d.nextEpoch = c.nextEpoch /\ d.shuttingDown = c.shuttingDown

\* The fields of the coordinator that a rollback leaves.
LEMMA FenceFields ==
    ASSUME NEW c \in Coordinators, c.candidate # NoDescriptor, NEW io,
           NEW at \in Nat
    PROVE  /\ Fenced(c, fenceCandidate(c, io, at), io, at)
           /\ fenceCandidate(c, io, at).current = c.current
           /\ fenceCandidate(c, io, at).lkg = c.lkg
           /\ fenceCandidate(c, io, at).candidatePromoted
                = c.candidatePromoted
           /\ fenceCandidate(c, io, at).failedClosed = c.failedClosed
<1> DEFINE x == c.closed \cup ticketsOf(c)
           tabs == fencedTabs(c, io)
           store == rolledBack(c, io).next
           drain == drainAfter(c, io, at)
           d == [c EXCEPT !.closed = x, !.tabs = tabs, !.store = store,
                          !.drain = drain, !.nextDrain = @ + 1,
                          !.rollbackStarted = TRUE]
<1>1. store \in Store!ActivationStates
  BY RolledBack
<1>2. affectedTabs(c) \in SUBSET Authorities
  BY DEF affectedTabs
<1>3. \A a \in Authorities :
         c.tabs[a] \in Tabs /\ c.tabs[a].lease.epoch \in Nat
  BY DEF Coordinators, Tabs, Leases
<1>4. ticketsOf(c) \in SUBSET Nat
  BY <1>2, <1>3 DEF ticketsOf
<1>5. x \in SUBSET Nat
  BY <1>4 DEF Coordinators
<1>6. recovers(c, io) \in BOOLEAN
  BY DEF recovers
<1>7. ASSUME NEW t \in Tabs PROVE fencedTab(c, io, t) \in Tabs
  BY <1>6 DEF fencedTab, Tabs
<1>8. tabs \in [Authorities -> Tabs]
  BY <1>3, <1>7 DEF fencedTabs
<1>9. drain \in Drains
  <2>1. at + DrainTimeout \in Nat
    BY DrainTimeoutAssumption
  <2>2. c.nextDrain \in Nat
    BY DEF Coordinators
  <2> QED
    BY <1>2, <1>4, <1>6, <2>1, <2>2 DEF drainAfter, Drains
<1>10. fenceCandidate(c, io, at) = d
  BY DEF fenceCandidate, ticketsOf, fencedTabs, fencedTab, drainAfter,
         Coordinators
<1> HIDE DEF x, tabs, store, drain
<1>11. c.nextDrain \in Nat /\ c.nextDrain + 1 \in Nat
  BY DEF Coordinators
<1>12. /\ d \in Coordinators /\ d.closed = x /\ d.tabs = tabs
       /\ d.store = store /\ d.drain = drain
       /\ d.nextDrain = c.nextDrain + 1
       /\ d.candidate = c.candidate
       /\ d.nextEpoch = c.nextEpoch /\ d.shuttingDown = c.shuttingDown
       /\ d.current = c.current /\ d.lkg = c.lkg
       /\ d.candidatePromoted = c.candidatePromoted
       /\ d.failedClosed = c.failedClosed
  <2> DEFINE k == c.nextDrain + 1
  <2>1. d = [c EXCEPT !.closed = x, !.tabs = tabs, !.store = store,
                      !.drain = drain, !.nextDrain = k,
                      !.rollbackStarted = TRUE]
    OBVIOUS
  <2>2. k \in Nat
    BY <1>11
  <2> HIDE DEF k, d
  <2>3. d \in Coordinators
    BY <1>1, <1>5, <1>8, <1>9, <2>1, <2>2 DEF Coordinators
  <2> QED
    BY <2>1, <2>3 DEF Coordinators, k
<1> QED
  BY <1>10, <1>12 DEF Fenced, x, tabs, store, drain

\* The tabs that a rollback leaves.
LEMMA FencedTab ==
    ASSUME NEW c \in Coordinators, NEW io, NEW d, d.tabs = fencedTabs(c, io),
           NEW a \in Authorities
    PROVE  /\ a \notin affectedTabs(c) => d.tabs[a] = c.tabs[a]
           /\ a \in affectedTabs(c) =>
                /\ live(c.tabs[a])
                /\ d.tabs[a].lease = c.tabs[a].lease
                /\ d.tabs[a].attempt = c.tabs[a].attempt
                /\ d.tabs[a].revoked /\ ~d.tabs[a].admitted
                /\ d.tabs[a].retired = c.tabs[a].retired
<1>1. c.tabs[a] \in Tabs
  BY DEF Coordinators
<1>2. d.tabs[a] = IF a \in affectedTabs(c) THEN fencedTab(c, io, c.tabs[a])
                                           ELSE c.tabs[a]
  BY DEF fencedTabs
<1>3. a \in affectedTabs(c) => live(c.tabs[a])
  BY DEF affectedTabs, affectedByRollback, live
<1> QED
  BY <1>1, <1>2, <1>3 DEF fencedTab, Tabs

\* Their tokens are closed, and they wait for the drain.
LEMMA FencedTabsOK ==
    ASSUME NEW c, TabsOK(c, {}), NEW io, NEW at \in Nat,
           NEW d \in Coordinators, d.closed = c.closed \cup ticketsOf(c),
           d.tabs = fencedTabs(c, io), d.nextEpoch = c.nextEpoch
    PROVE  TabsOK(d, affectedTabs(c))
<1>1. c \in Coordinators
  BY DEF TabsOK
<1>2. ASSUME NEW a \in Authorities
      PROVE  /\ c.tabs[a].lease.epoch \in Nat
             /\ c.tabs[a].lease.epoch < c.nextEpoch
             /\ d.tabs[a].lease = c.tabs[a].lease
             /\ a \notin affectedTabs(c) => d.tabs[a] = c.tabs[a]
             /\ a \in affectedTabs(c) =>
                  /\ live(c.tabs[a])
                  /\ d.tabs[a].revoked /\ ~d.tabs[a].admitted
             /\ hasRequest(c.tabs[a])
                => (c.tabs[a].lease.epoch \in c.closed <=> ended(c.tabs[a]))
             /\ c.tabs[a].admitted
                => live(c.tabs[a]) /\ c.tabs[a].sup.handshaken
  <2>1. c.tabs[a].lease.epoch \in Nat
    BY <1>1 DEF Coordinators, Tabs, Leases
  <2>2. d.tabs[a].lease = c.tabs[a].lease
    BY <1>1, FencedTab
  <2> QED
    BY <1>1, <2>1, <2>2, FencedTab
       DEF TabsOK, TokensFollowTabs, AdmittedIsLive
<1>3. ASSUME NEW a \in Authorities, NEW b \in Authorities, a # b,
             c.tabs[a].lease.epoch = c.tabs[b].lease.epoch
      PROVE  c.tabs[a].lease.epoch = 0
  BY <1>3 DEF TabsOK, TokensFollowTabs
<1>4. ASSUME NEW a \in Authorities, hasRequest(c.tabs[a])
      PROVE  c.tabs[a].lease.epoch \in ticketsOf(c) <=> a \in affectedTabs(c)
  <2>1. ASSUME c.tabs[a].lease.epoch \in ticketsOf(c)
        PROVE  a \in affectedTabs(c)
    <3>1. PICK b \in affectedTabs(c) :
             c.tabs[a].lease.epoch = c.tabs[b].lease.epoch
      BY <2>1 DEF ticketsOf
    <3>2. b \in Authorities
      BY DEF affectedTabs
    <3> QED
      BY <1>3, <1>4, <3>1, <3>2 DEF hasRequest
  <2> QED
    BY <2>1 DEF ticketsOf
<1>5. ASSUME NEW e \in ticketsOf(c)
      PROVE  e \in Nat /\ 1 <= e /\ e < c.nextEpoch
  <2>1. PICK b \in affectedTabs(c) : e = c.tabs[b].lease.epoch
    BY DEF ticketsOf
  <2>2. b \in Authorities /\ hasRequest(c.tabs[b])
    BY DEF affectedTabs, affectedByRollback
  <2> QED
    BY <1>2, <2>1, <2>2 DEF hasRequest
<1>6. TokensFollowTabs(d)
  <2>1. /\ c.nextEpoch >= 1
        /\ \A e \in c.closed : 1 <= e /\ e < c.nextEpoch
    BY DEF TabsOK, TokensFollowTabs
  <2>2. \A e \in d.closed : 1 <= e /\ e < d.nextEpoch
    BY <1>5, <2>1
  <2>3. \A a \in Authorities : d.tabs[a].lease.epoch < d.nextEpoch
    BY <1>2
  <2>4. \A a, b \in Authorities :
          a # b /\ d.tabs[a].lease.epoch = d.tabs[b].lease.epoch
          => d.tabs[a].lease.epoch = 0
    BY <1>2, <1>3
  <2>5. ASSUME NEW a \in Authorities, hasRequest(d.tabs[a])
        PROVE  d.tabs[a].lease.epoch \in d.closed <=> ended(d.tabs[a])
    <3>1. hasRequest(c.tabs[a])
      BY <1>2, <2>5 DEF hasRequest
    <3>2. CASE a \in affectedTabs(c)
      BY <1>2, <1>4, <3>1, <3>2 DEF ended
    <3>3. CASE a \notin affectedTabs(c)
      BY <1>2, <1>4, <3>1, <3>3
    <3> QED
      BY <3>2, <3>3
  <2> QED
    BY <2>1, <2>2, <2>3, <2>4, <2>5 DEF TokensFollowTabs
<1>7. AdmittedIsLive(d)
  BY <1>2 DEF AdmittedIsLive
<1>8. OneIncarnation(d, affectedTabs(c))
  <2>1. ASSUME NEW a \in Authorities,
               holds(d.tabs[a]) \/ a \in affectedTabs(c)
        PROVE  holds(c.tabs[a])
    BY <1>2, <2>1, NoTabType DEF holds, live, ended
  <2>2. ASSUME NEW a \in Authorities, NEW b \in Authorities,
               a # b, a.tab = b.tab, holds(c.tabs[a])
        PROVE  ~holds(c.tabs[b])
    BY <2>2 DEF TabsOK, OneIncarnation
  <2> QED
    BY <2>1, <2>2 DEF OneIncarnation
<1> QED
  BY <1>6, <1>7, <1>8 DEF TabsOK

\* What a rollback leaves follows, as long as it fails closed when it must.
LEMMA FenceFollows ==
    ASSUME NEW c, TabsOK(c, {}), c.candidate # NoDescriptor, c.drain = NoDrain,
           NEW io, NEW at \in Nat, NEW d, Fenced(c, d, io, at),
           c.failedClosed => d.failedClosed
    PROVE  Follows(c, d) /\ d.drain # NoDrain
<1>1. c \in Coordinators /\ c.nextDrain \in Nat /\ c.nextEpoch \in Nat
  BY DEF TabsOK, Coordinators
<1>2. c.closed \subseteq d.closed /\ c.nextEpoch <= d.nextEpoch
      /\ d.nextEpoch = c.nextEpoch
  BY <1>1 DEF Fenced
<1>3. ASSUME NEW a \in Authorities
      PROVE  /\ d.tabs[a].lease.epoch = c.tabs[a].lease.epoch
             /\ d.tabs[a].attempt = c.tabs[a].attempt
  <2>1. d.tabs = fencedTabs(c, io)
    BY DEF Fenced
  <2> QED
    BY <1>1, <2>1, FencedTab
<1>4. d.store.lastKnownGood = c.store.lastKnownGood
  BY <1>1, RolledBack DEF Fenced
<1>5. d.drain # NoDrain
  <2>1. d.drain.deadline = at + DrainTimeout /\ NoDrain.deadline = 0
    BY DEF Fenced, drainAfter, NoDrain
  <2>2. at + DrainTimeout # 0
    BY DrainTimeoutAssumption
  <2> QED
    BY <2>1, <2>2
<1>6. d.nextDrain > c.nextDrain /\ d.drain.tickets \subseteq d.closed
  BY <1>1 DEF Fenced, drainAfter
<1> QED
  BY <1>2, <1>3, <1>4, <1>5, <1>6 DEF Follows, Carries, Fenced

\* Whatever the store does, the rolled back version is gone: its launches were
\* fenced, and it is not what is selected.
LEMMA FencedIsGone ==
    ASSUME NEW fs, NEW ss, NEW c, Sound(c, {}, fs, ss),
           c.candidate # NoDescriptor, ~c.candidatePromoted,
           NEW io, NEW at \in Nat, NEW d, Fenced(c, d, io, at),
           c.failedClosed => d.failedClosed,
           d.candidatePromoted \/ d.failedClosed,
           SelectionIsGood(d, FailedAfter(c, d, fs))
    PROVE  FailedIsGone(d, affectedTabs(c), FailedAfter(c, d, fs),
                        SparedAfter(c, d, ss))
<1> DEFINE fs2 == FailedAfter(c, d, fs)
           ss2 == SparedAfter(c, d, ss)
<1>1. c \in Coordinators /\ fs \subseteq Versions
      /\ c.candidate.version \in Versions
  BY DEF Sound, TabsOK, FailedIsGone, Coordinators, Descriptors
<1>2. /\ fs2 \subseteq Versions
      /\ \A v \in fs2 : v \in fs \/ v = c.candidate.version
  BY <1>1 DEF FailedAfter, Fenced
<1>3. ss \subseteq ss2
  BY DEF SparedAfter
<1> HIDE DEF fs2, ss2
<1>4. ASSUME NEW a \in Authorities
      PROVE  /\ TabIsFenced(d, d.tabs[a], fs2, ss2)
             /\ awaitsDrain(d.tabs[a])
                => d.failedClosed \/ a \in affectedTabs(c)
             /\ a \in affectedTabs(c) => ~live(d.tabs[a])
  <2>1. CASE a \in affectedTabs(c)
    <3>1. ~live(d.tabs[a])
      BY <1>1, <2>1, FencedTab DEF Fenced, live, ended
    <3> QED
      BY <2>1, <3>1 DEF TabIsFenced
  <2>2. CASE a \notin affectedTabs(c)
    <3>1. d.tabs[a] = c.tabs[a]
      <4>1. d.tabs = fencedTabs(c, io)
        BY DEF Fenced
      <4> QED
        BY <1>1, <2>2, <4>1, FencedTab
    <3> DEFINE t == c.tabs[a]
    <3>2. TabIsFenced(c, t, fs, ss)
          /\ (awaitsDrain(t) => c.failedClosed)
      BY DEF Sound, FailedIsGone
    <3>3. ~affectedByRollback(c, t)
      BY <2>2 DEF affectedTabs
    <3>4. candidateLease(d, t.lease) => candidateLease(c, t.lease)
      BY DEF Fenced, candidateLease
    <3>5. t.lease.version = c.candidate.version => candidateLease(c, t.lease)
      BY DEF candidateLease, sameLeaseIdentity
    <3> HIDE DEF t
    <3>6. ASSUME live(t), t.lease.version \in fs2
          PROVE  t.lease.version \in ss2 /\ ~t.candidate
      <4>1. CASE t.lease.version \in fs
        BY <1>3, <3>2, <3>6, <4>1 DEF TabIsFenced
      <4>2. CASE t.lease.version = c.candidate.version
        <5>1. ~t.candidate
          BY <3>3, <3>6, <4>2
             DEF live, affectedByRollback, sameLeaseIdentity
        <5> QED
          BY <1>3, <3>2, <3>5, <3>6, <4>2, <5>1 DEF TabIsFenced
      <4> QED
        BY <1>2, <3>6, <4>1, <4>2
    <3>7. TabIsFenced(d, t, fs2, ss2)
      BY <1>3, <3>2, <3>4, <3>6 DEF TabIsFenced
    <3> QED
      BY <2>2, <3>1, <3>2, <3>7 DEF t
  <2> QED
    BY <2>1, <2>2
<1>5. SelectionIsGood(d, fs2)
  BY DEF fs2
<1> QED
  BY <1>2, <1>4, <1>5 DEF FailedIsGone, fs2, ss2

\* beginCandidateRollback.
LEMMA RollbackInv ==
    ASSUME NEW fs, NEW ss, NEW c, Sound(c, c.drain.affected, fs, ss),
           ~c.candidatePromoted, NEW io, NEW at \in Nat
    PROVE  Keeps(c, beginCandidateRollback(c, io, at), fs, ss)
<1> DEFINE rolled == rolledBack(c, io)
           back == Descriptor(rolled.next.current, rolled.next.generation)
           mid == fenceCandidate(c, io, at)
           good == [mid EXCEPT !.current = back, !.lkg = back,
                               !.candidatePromoted = TRUE]
           pending == c.cleanupPending
                        \/ (rolled.ok /\ io = "guardFails"
                            /\ verifies(c, rolled.next.current))
           bad == [mid EXCEPT !.failedClosed = TRUE,
                              !.cleanupPending = pending]
           d == beginCandidateRollback(c, io, at)
<1> SUFFICES Keeps(c, d, fs, ss)
  OBVIOUS
<1>1. c \in Coordinators
  BY DEF Sound, TabsOK
<1>2. CASE d = c
  <2>1. Follows(c, c) /\ Calm(c, c)
    BY <1>1, QuietSame DEF Quiet
  <2> HIDE DEF d
  <2> QED
    BY <1>1, <1>2, <2>1, CalmKeeps DEF d
<1>3. CASE d # c
  <2>1. c.drain = NoDrain /\ c.candidate # NoDescriptor
        /\ d = IF recovers(c, io) THEN good ELSE bad
    <3>1. mid.cleanupPending = c.cleanupPending
      BY <1>1 DEF fenceCandidate, Coordinators
    <3> HIDE DEF mid
    <3>2. [mid EXCEPT !.failedClosed = TRUE,
                      !.cleanupPending =
                         @ \/ (rolled.ok /\ io = "guardFails"
                               /\ verifies(c, rolled.next.current))]
            = bad
      BY <3>1
    <3> HIDE DEF bad
    <3> QED
      BY <1>3, <3>2 DEF beginCandidateRollback, mid
  <2> HIDE DEF d
  <2>2. Sound(c, {}, fs, ss)
    BY <2>1 DEF NoDrain
  <2>3. /\ Fenced(c, mid, io, at)
        /\ mid.current = c.current /\ mid.lkg = c.lkg
        /\ mid.candidatePromoted = c.candidatePromoted
        /\ mid.failedClosed = c.failedClosed
        /\ mid \in Coordinators
    BY <1>1, <2>1, FenceFields DEF Fenced
  <2>4. /\ rolled.next \in Store!ActivationStates
        /\ rolled.ok => /\ rolled.next.current # c.candidate.version
                        /\ rolled.next.current # c.store.current
                        /\ rolled.next.current \in Versions
        /\ recovers(c, io) => rolled.ok
    BY <1>1, <2>1, RolledBack
  <2>5. c.nextDrain \in Nat
    BY <1>1 DEF Coordinators
  <2>6. ASSUME Fenced(c, d, io, at), c.failedClosed => d.failedClosed,
               d.candidatePromoted \/ d.failedClosed,
               SelectionIsGood(d, FailedAfter(c, d, fs))
        PROVE  Keeps(c, d, fs, ss)
    <3>1. Follows(c, d)
      BY <2>1, <2>2, <2>6, FenceFollows DEF Sound
    <3>2. TabsOK(d, affectedTabs(c))
      BY <2>2, <2>6, FencedTabsOK DEF Sound, Fenced
    <3>3. FailedIsGone(d, affectedTabs(c), FailedAfter(c, d, fs),
                       SparedAfter(c, d, ss))
      BY <2>1, <2>2, <2>6, FencedIsGone
    <3>4. d.drain.affected = affectedTabs(c)
      BY <2>6 DEF Fenced, drainAfter
    <3> QED
      BY <3>1, <3>2, <3>3, <3>4 DEF Keeps, Sound
  <2>7. CASE recovers(c, io)
    <3>1. back \in Descriptors /\ back.version = rolled.next.current
          /\ back # NoDescriptor
      <4>1. back.version = rolled.next.current
            /\ back.generation = rolled.next.generation
        BY DEF Descriptor
      <4>2. rolled.next.generation \in Nat
        BY <2>4 DEF Store!ActivationStates
      <4>3. back \in [version : Versions, generation : Nat]
        BY <2>4, <2>7, <4>2 DEF Descriptor
      <4> QED
        BY <2>4, <2>7, <4>1, <4>3, NoVersionAssumption
           DEF Descriptors, NoDescriptor
    <3> HIDE DEF back, mid
    <3>2. /\ good \in Coordinators /\ Fenced(c, good, io, at)
          /\ good.current = back /\ good.lkg = back /\ good.candidatePromoted
          /\ good.failedClosed = c.failedClosed
      <4>1. good \in Coordinators
        BY <2>3, <3>1 DEF Coordinators
      <4>2. /\ good.closed = mid.closed /\ good.tabs = mid.tabs
            /\ good.store = mid.store /\ good.drain = mid.drain
            /\ good.nextDrain = mid.nextDrain
            /\ good.candidate = mid.candidate
            /\ good.nextEpoch = mid.nextEpoch
            /\ good.shuttingDown = mid.shuttingDown
            /\ good.current = back /\ good.lkg = back
            /\ good.candidatePromoted
            /\ good.failedClosed = mid.failedClosed
        BY <2>3 DEF Coordinators
      <4> HIDE DEF good
      <4> QED
        BY <2>3, <4>1, <4>2 DEF Fenced
    <3> HIDE DEF good
    <3>3. d = good
      BY <2>1, <2>7
    <3>4. good.store.current = rolled.next.current
          /\ good.candidate = c.candidate
      BY <3>2 DEF Fenced
    <3> HIDE DEF rolled
    <3>5. rolled.next.current \notin FailedAfter(c, good, fs)
      BY <2>4, <2>7, <3>4 DEF FailedAfter
    <3>6. SelectionIsGood(good, FailedAfter(c, good, fs))
      BY <3>1, <3>2, <3>4, <3>5 DEF SelectionIsGood
    <3> QED
      BY <2>6, <3>2, <3>3, <3>6
  <2>8. CASE ~recovers(c, io)
    <3> HIDE DEF mid
    <3>1. pending \in BOOLEAN
      BY <1>1 DEF Coordinators
    <3> HIDE DEF pending
    <3>2. /\ bad \in Coordinators /\ Fenced(c, bad, io, at)
          /\ bad.failedClosed
      <4>1. bad \in Coordinators
        BY <2>3, <3>1 DEF Coordinators
      <4>2. /\ bad.closed = mid.closed /\ bad.tabs = mid.tabs
            /\ bad.store = mid.store /\ bad.drain = mid.drain
            /\ bad.nextDrain = mid.nextDrain
            /\ bad.candidate = mid.candidate
            /\ bad.nextEpoch = mid.nextEpoch
            /\ bad.shuttingDown = mid.shuttingDown
            /\ bad.failedClosed
        BY <2>3 DEF Coordinators
      <4> HIDE DEF bad
      <4> QED
        BY <2>3, <4>1, <4>2 DEF Fenced
    <3> HIDE DEF bad
    <3>3. d = bad
      BY <2>1, <2>8
    <3>4. SelectionIsGood(bad, FailedAfter(c, bad, fs))
      BY <3>2 DEF SelectionIsGood
    <3> QED
      BY <2>6, <3>2, <3>3, <3>4
  <2> QED
    BY <2>7, <2>8
<1> QED
  BY <1>2, <1>3

-----------------------------------------------------------------------------
\* What the reports about Workers do.

\* The last known good changes to what a tab runs admitted and healthy.
Earns(c, d) ==
    d.store.lastKnownGood # c.store.lastKnownGood =>
        \E a \in Authorities :
            /\ d.tabs[a].admitted /\ d.tabs[a].healthy
            /\ ~c.tabs[a].healthy
            /\ d.tabs[a].lease.version = d.store.lastKnownGood

\* What any call is, the promoting one included.
Allowed(c, d, fs, ss) ==
    /\ Sound(d, d.drain.affected, FailedAfter(c, d, fs), SparedAfter(c, d, ss))
    /\ Carries(c, d) /\ Earns(c, d)

\* A call after a quiet one.
LEMMA AfterQuiet ==
    ASSUME NEW fs, NEW ss, NEW c \in Coordinators, NEW e \in Coordinators,
           Quiet(c, e), NEW d, Keeps(e, d, fs, ss)
    PROVE  Keeps(c, d, fs, ss)
<1>1. d \in Coordinators
  BY DEF Keeps, Sound, TabsOK
<1>2. FailedAfter(c, d, fs) = FailedAfter(e, d, fs)
      /\ SparedAfter(c, d, ss) = SparedAfter(e, d, ss)
  BY DEF FailedAfter, SparedAfter, selects, Quiet, Calm
<1>3. Follows(c, d)
  BY <1>1, FollowsTransitive DEF Quiet, Keeps
<1> QED
  BY <1>2, <1>3 DEF Keeps

\* What keeps the coordinator sound is allowed.
LEMMA KeepsIsAllowed ==
    ASSUME NEW fs, NEW ss, NEW c, NEW d, Keeps(c, d, fs, ss)
    PROVE  Allowed(c, d, fs, ss)
BY DEF Keeps, Allowed, Earns, Follows

\* What a supervisor's answer makes of a tab that lives.
LEMMA SuperviseInv ==
    ASSUME NEW fs, NEW ss, NEW c, Sound(c, c.drain.affected, fs, ss),
           NEW a \in Authorities, live(c.tabs[a]),
           NEW answer \in Answers(c.tabs[a].sup), NEW io, NEW at \in Nat
    PROVE  LET d == supervise(c, a, answer, io, at)
           IN  /\ Keeps(c, d, fs, ss)
               /\ answer.action \notin {"StartupRollback", "CrashLoopRollback"}
                  => Sound(d, c.drain.affected, fs, ss) /\ Quiet(c, d)
<1> DEFINE t == c.tabs[a]
           u == [t EXCEPT !.sup = answer.sup]
           seen == [c EXCEPT !.tabs[a] = u]
           d == supervise(c, a, answer, io, at)
           draining == c.drain.affected
           rolls == answer.action \in {"StartupRollback", "CrashLoopRollback"}
<1>1. c \in Coordinators /\ t \in Tabs
  BY DEF Sound, TabsOK, Coordinators
<1>2. answer.sup \in Supervisors /\ answer.sup.handshaken = t.sup.handshaken
  BY DEF Answers
<1>3. /\ u \in Tabs /\ u.lease = t.lease /\ u.attempt = t.attempt
      /\ u.candidate = t.candidate /\ (u.admitted => u.sup.handshaken)
      /\ ~ended(u)
  <2>1. t.admitted => t.sup.handshaken
    BY DEF Sound, TabsOK, AdmittedIsLive
  <2> QED
    BY <1>1, <1>2, <2>1 DEF Tabs, live, ended
<1>4. [c EXCEPT !.tabs[a].sup = answer.sup] = seen
  BY <1>1 DEF Coordinators
<1> HIDE DEF u
<1>5. Sound(seen, draining, fs, ss) /\ Quiet(c, seen) /\ live(seen.tabs[a])
  BY <1>3, LiveEdit
<1> HIDE DEF seen
<1>6. d = IF answer.action = "Restart"
            THEN restartTab(seen, a, at)
            ELSE IF rolls
              THEN IF currentCandidateTab(seen, seen.tabs[a])
                     THEN beginCandidateRollback(seen, io, at)
                     ELSE failClosedTab(seen, a)
              ELSE seen
  BY <1>4 DEF supervise
<1> HIDE DEF d
<1>7. seen \in Coordinators /\ seen.drain = c.drain
  BY <1>5 DEF Sound, TabsOK, Quiet, Calm
<1>8. ASSUME Sound(d, draining, fs, ss), Quiet(seen, d)
      PROVE  Keeps(c, d, fs, ss) /\ Quiet(c, d)
  <2>1. d \in Coordinators
    BY <1>8 DEF Sound, TabsOK
  <2>2. Quiet(c, d)
    BY <1>1, <1>5, <1>7, <1>8, <2>1, QuietTransitive
  <2>3. Keeps(c, d, fs, ss)
    BY <1>1, <1>8, <2>2, CalmKeeps DEF Quiet
  <2> QED
    BY <2>2, <2>3
<1>9. CASE answer.action = "Restart"
  <2>1. d = restartTab(seen, a, at) /\ ~rolls
    BY <1>6, <1>9
  <2>2. Sound(d, draining, fs, ss) /\ Quiet(seen, d)
    BY <1>5, <2>1, RestartInv
  <2> QED
    BY <1>8, <2>2 DEF d
<1>10. CASE rolls
  <2>1. CASE currentCandidateTab(seen, seen.tabs[a])
    <3>1. d = beginCandidateRollback(seen, io, at) /\ ~seen.candidatePromoted
      BY <1>6, <1>10, <2>1 DEF currentCandidateTab
    <3>2. Keeps(seen, d, fs, ss)
      BY <1>5, <1>7, <3>1, RollbackInv
    <3>3. Keeps(c, d, fs, ss)
      BY <1>1, <1>5, <1>7, <3>2, AfterQuiet
    <3> QED
      BY <1>10, <3>3 DEF d
  <2>2. CASE ~currentCandidateTab(seen, seen.tabs[a])
    <3>1. d = failClosedTab(seen, a)
      BY <1>6, <1>10, <2>2
    <3>2. Sound(d, draining, fs, ss) /\ Quiet(seen, d)
      BY <1>5, <3>1, FailClosedInv
    <3> QED
      BY <1>8, <3>2 DEF d
  <2> QED
    BY <2>1, <2>2
<1>11. CASE answer.action # "Restart" /\ ~rolls
  <2>1. d = seen
    BY <1>6, <1>11
  <2>2. Quiet(seen, seen)
    BY <1>7, QuietSame
  <2> QED
    BY <1>5, <1>8, <2>1, <2>2 DEF d
<1> QED
  BY <1>9, <1>10, <1>11

\* The record a promotion leaves is in range.
LEMMA MarkType ==
    ASSUME NEW s \in Store!ActivationStates, NEW present \in SUBSET Versions,
           NEW expected, NEW v \in Versions
    PROVE  Store!markCurrentLastKnownGood(s, present, expected).next
             \in Store!ActivationStates
BY StoreType

\* promoteCandidate.
LEMMA PromoteInv ==
    ASSUME NEW fs, NEW ss, NEW c, Sound(c, c.drain.affected, fs, ss),
           c.candidate # NoDescriptor, NEW io
    PROVE  LET d == promoteCandidate(c, io)
           IN  /\ Sound(d, d.drain.affected, FailedAfter(c, d, fs),
                        SparedAfter(c, d, ss))
               /\ Carries(c, d) /\ d.tabs = c.tabs
               /\ d.store.lastKnownGood # c.store.lastKnownGood
                  => d.store.lastKnownGood = c.candidate.version
<1> DEFINE expected == bindingOf(c.candidate)
           marked == Store!markCurrentLastKnownGood(c.store, c.present,
                                                    expected)
           known == Descriptor(c.candidate.version, marked.next.generation)
           good == [c EXCEPT !.store = marked.next, !.candidatePromoted = TRUE,
                             !.candidate = known, !.current = known,
                             !.lkg = known]
           d == promoteCandidate(c, io)
<1>1. c \in Coordinators /\ c.nextEpoch \in Nat
  BY DEF Sound, TabsOK, Coordinators
<1>2. CASE d = c
  <2>1. Keeps(c, c, fs, ss)
    BY <1>1, QuietSame, CalmKeeps DEF Quiet
  <2> QED
    BY <1>2, <2>1 DEF Keeps, Follows
<1>3. CASE d # c
  <2>1. d = good /\ ~c.candidatePromoted /\ marked.ok
    BY <1>3 DEF promoteCandidate
  <2> HIDE DEF d
  <2>2. c.store \in Store!ActivationStates /\ c.present \in SUBSET Versions
        /\ c.candidate.version \in Versions
    BY <1>1 DEF Coordinators, Descriptors
  <2>3. expected.directory = c.candidate.version
    BY DEF bindingOf
  <2> HIDE DEF expected
  <2>4. /\ c.store.current = expected.directory
        /\ marked.next.current = c.store.current
        /\ marked.next.lastKnownGood = c.store.current
    BY <2>1, <2>2, MarkSelects
  <2>5. marked.next \in Store!ActivationStates
    BY <2>2, MarkType
  <2>6. marked.next.generation \in Nat
    BY <2>5 DEF Store!ActivationStates
  <2>7. known \in Descriptors /\ known.version = c.candidate.version
        /\ known # NoDescriptor
    BY <2>2, <2>6, NoVersionAssumption
       DEF Descriptor, Descriptors, NoDescriptor
  <2> HIDE DEF known, marked
  <2>8. /\ good \in Coordinators
        /\ good.tabs = c.tabs /\ good.closed = c.closed
        /\ good.nextEpoch = c.nextEpoch
        /\ good.store = marked.next /\ good.current = known
        /\ good.candidate = known /\ good.lkg = known
        /\ good.drain = c.drain /\ good.nextDrain = c.nextDrain
        /\ good.candidatePromoted
        /\ good.shuttingDown = c.shuttingDown
        /\ good.failedClosed = c.failedClosed
    BY <1>1, <2>5, <2>7 DEF Coordinators
  <2> HIDE DEF good
  <2>9. c.nextDrain \in Nat
    BY <1>1 DEF Coordinators
  <2>10. FailedAfter(c, good, fs) = fs /\ SparedAfter(c, good, ss) = ss
    BY <2>4, <2>8, <2>9 DEF FailedAfter, SparedAfter, selects
  <2>11. TabsOK(good, good.drain.affected)
    BY <2>8, SameTabs DEF Sound
  <2>12. SelectionIsGood(good, fs)
    <3>1. ~c.failedClosed => /\ c.store.current \notin fs
                             /\ c.candidate.version \notin fs
      BY <2>1 DEF Sound, FailedIsGone, SelectionIsGood
    <3> QED
      BY <2>4, <2>7, <2>8, <3>1 DEF SelectionIsGood
  <2>13. ASSUME NEW a \in Authorities
         PROVE  /\ TabIsFenced(good, good.tabs[a], fs, ss)
                /\ awaitsDrain(good.tabs[a])
                   => good.failedClosed \/ a \in good.drain.affected
                /\ a \in good.drain.affected => ~live(good.tabs[a])
    BY <2>8 DEF Sound, FailedIsGone, TabIsFenced, candidateLease
  <2>14. Carries(c, good)
    BY <1>1, <2>8 DEF Carries
  <2> QED
    BY <2>1, <2>3, <2>4, <2>8, <2>10, <2>11, <2>12, <2>13, <2>14
       DEF Sound, FailedIsGone, d
<1> QED
  BY <1>2, <1>3

\* heartbeat, which may promote the candidate.
LEMMA HeartbeatInv ==
    ASSUME NEW fs, NEW ss, NEW c, Sound(c, c.drain.affected, fs, ss),
           NEW key, key.authority \in Authorities,
           key.attempt \in Sup!AttemptKey, NEW io, NEW at \in Nat
    PROVE  Allowed(c, heartbeat(c, key, io, at), fs, ss)
<1> DEFINE a == key.authority
           t == c.tabs[a]
           answer == Sup!checkHealth(t.sup, key.attempt, at)
           beaten == Sup!heartbeat(t.sup, key.attempt, at)
           u == [t EXCEPT !.sup = beaten]
           seen == [c EXCEPT !.tabs[a] = u]
           v == [u EXCEPT !.healthy = TRUE]
           well == [seen EXCEPT !.tabs[a] = v]
           d == heartbeat(c, key, io, at)
           draining == c.drain.affected
<1> SUFFICES Allowed(c, d, fs, ss)
  OBVIOUS
<1>1. c \in Coordinators /\ t \in Tabs /\ t.sup \in Supervisors
  BY DEF Sound, TabsOK, Coordinators, Tabs
<1>2. Quiet(c, c)
  BY <1>1, QuietSame
<1>3. CASE d = c
  BY <1>1, <1>2, <1>3, CalmKeeps, KeepsIsAllowed DEF Quiet
<1>4. CASE d # c
  <2>1. isLive(c, key) /\ t.admitted
    BY <1>4 DEF heartbeat
  <2>2. live(t)
    BY <2>1 DEF isLive, live
  <2>3. answer \in Answers(t.sup)
    BY <1>1, AnswersType
  <2>4. beaten \in Supervisors /\ beaten.handshaken = t.sup.handshaken
    BY <1>1, AliveType
  <2>5. t.sup.handshaken
    BY <2>1 DEF Sound, TabsOK, AdmittedIsLive
  <2>6. [c EXCEPT !.tabs[a].sup = beaten] = seen
    BY <1>1 DEF Coordinators
  <2>7. /\ u \in Tabs /\ u.lease = t.lease /\ u.attempt = t.attempt
        /\ u.candidate = t.candidate /\ u.sup.handshaken /\ ~ended(u)
        /\ u.admitted /\ u.healthy = t.healthy
    BY <1>1, <2>1, <2>2, <2>4, <2>5 DEF Tabs, live, ended
  <2> HIDE DEF u
  <2>8. /\ Sound(seen, draining, fs, ss) /\ Quiet(c, seen)
        /\ live(seen.tabs[a]) /\ seen.tabs[a] = u
    BY <2>2, <2>7, LiveEdit
  <2> HIDE DEF seen
  <2>9. seen \in Coordinators
    BY <2>8 DEF Sound, TabsOK
  <2>10. [seen EXCEPT !.tabs[a].healthy = TRUE] = well
    BY <2>8
  <2>11. /\ v \in Tabs /\ v.lease = u.lease /\ v.attempt = u.attempt
         /\ v.candidate = u.candidate /\ v.sup.handshaken /\ ~ended(v)
         /\ v.admitted /\ v.healthy
    BY <2>7 DEF Tabs, ended
  <2> HIDE DEF v
  <2>12. /\ Sound(well, draining, fs, ss) /\ Quiet(seen, well)
         /\ well.tabs[a] = v
    BY <2>8, <2>11, LiveEdit
  <2> HIDE DEF well, answer
  <2>13. well \in Coordinators /\ Quiet(c, well) /\ well.drain = c.drain
    <3>1. well \in Coordinators
      BY <2>12 DEF Sound, TabsOK
    <3>2. Quiet(c, well)
      BY <1>1, <2>8, <2>9, <2>12, <3>1, QuietTransitive
    <3> QED
      BY <3>1, <3>2 DEF Quiet, Calm
  <2>14. d = IF answer.action # "None"
               THEN supervise(c, a, answer, io, at)
               ELSE IF t.healthy \/ ~Sup!isHealthy(beaten, key.attempt, at)
                 THEN seen
                 ELSE IF currentCandidateTab(well, well.tabs[a])
                   THEN promoteCandidate(well, io)
                   ELSE well
    <3> DEFINE seen0 == [c EXCEPT !.tabs[a].sup = beaten]
               well0 == [seen0 EXCEPT !.tabs[a].healthy = TRUE]
    <3>1. d = IF answer.action # "None"
                THEN supervise(c, a, answer, io, at)
                ELSE IF t.healthy \/ ~Sup!isHealthy(beaten, key.attempt, at)
                  THEN seen0
                  ELSE IF currentCandidateTab(well0, well0.tabs[a])
                    THEN promoteCandidate(well0, io)
                    ELSE well0
      BY <2>1 DEF heartbeat, answer
    <3>2. seen0 = seen
      BY <2>6
    <3> HIDE DEF seen0
    <3>3. well0 = well
      BY <2>10, <3>2
    <3> HIDE DEF well0, d
    <3> QED
      BY <3>1, <3>2, <3>3
  <2> HIDE DEF d
  <2>15. CASE answer.action # "None"
    <3>1. d = supervise(c, a, answer, io, at)
      BY <2>14, <2>15
    <3>2. Keeps(c, d, fs, ss)
      BY <2>2, <2>3, <3>1, SuperviseInv
    <3> QED
      BY <3>2, KeepsIsAllowed
  <2>16. CASE d = seen
    BY <1>1, <2>8, <2>16, CalmKeeps, KeepsIsAllowed DEF Quiet
  <2>17. CASE d = well
    BY <1>1, <2>12, <2>13, <2>17, CalmKeeps, KeepsIsAllowed DEF Quiet
  <2>18. CASE /\ answer.action = "None" /\ ~t.healthy
              /\ currentCandidateTab(well, well.tabs[a])
              /\ d = promoteCandidate(well, io)
    <3>1. /\ well.candidate # NoDescriptor
          /\ well.tabs[a].lease.version = well.candidate.version
      BY <2>18 DEF currentCandidateTab, sameLeaseIdentity
    <3>2. /\ Sound(d, d.drain.affected, FailedAfter(well, d, fs),
                   SparedAfter(well, d, ss))
          /\ Carries(well, d) /\ d.tabs = well.tabs
          /\ d.store.lastKnownGood # well.store.lastKnownGood
             => d.store.lastKnownGood = well.candidate.version
      BY <2>12, <2>13, <2>18, <3>1, PromoteInv
    <3>3. d \in Coordinators
      BY <3>2 DEF Sound, TabsOK
    <3>4. Carries(c, d)
      BY <1>1, <2>13, <3>2, <3>3, CarriesTransitive DEF Quiet, Follows
    <3>5. FailedAfter(c, d, fs) = FailedAfter(well, d, fs)
          /\ SparedAfter(c, d, ss) = SparedAfter(well, d, ss)
      BY <2>13 DEF FailedAfter, SparedAfter, selects, Quiet, Calm
    <3>6. Earns(c, d)
      <4>1. well.store = c.store
        BY <2>13 DEF Quiet, Calm
      <4>2. d.tabs[a].admitted /\ d.tabs[a].healthy /\ ~c.tabs[a].healthy
        BY <2>11, <2>12, <2>18, <3>2
      <4> QED
        BY <3>1, <3>2, <4>1, <4>2 DEF Earns
    <3> QED
      BY <3>2, <3>4, <3>5, <3>6 DEF Allowed
  <2> QED
    BY <2>14, <2>15, <2>16, <2>17, <2>18
<1> QED
  BY <1>3, <1>4

\* workerExited.
LEMMA ExitedInv ==
    ASSUME NEW fs, NEW ss, NEW c, Sound(c, c.drain.affected, fs, ss),
           NEW key, key.authority \in Authorities,
           key.attempt \in Sup!AttemptKey, NEW reason \in Sup!ExitReasons,
           NEW io, NEW at \in Nat
    PROVE  Keeps(c, workerExited(c, key, reason, io, at), fs, ss)
<1> DEFINE a == key.authority
           t == c.tabs[a]
           answer == Sup!workerExited(t.sup, key.attempt, reason, at)
           d == workerExited(c, key, reason, io, at)
<1> SUFFICES Keeps(c, d, fs, ss)
  OBVIOUS
<1>1. c \in Coordinators /\ t \in Tabs /\ t.sup \in Supervisors
  BY DEF Sound, TabsOK, Coordinators, Tabs
<1>2. answer \in Answers(t.sup)
  BY <1>1, AnswersType
<1>3. answer.sup \in Supervisors
  BY <1>2 DEF Answers
<1> HIDE DEF answer
<1>4. CASE d = c
  BY <1>1, <1>4, QuietSame, CalmKeeps DEF Quiet
<1>5. CASE d # c
  <2>1. live(t) /\ d = IF reason = "Clean"
                         THEN exitTab(c, a, answer.sup)
                         ELSE supervise(c, a, answer, io, at)
    BY <1>5 DEF workerExited, exitTab, isLive, live, answer
  <2> HIDE DEF d
  <2>2. CASE reason = "Clean"
    <3>1. Sound(d, c.drain.affected, fs, ss) /\ Quiet(c, d)
      BY <1>3, <2>1, <2>2, RevokedAndEnded
    <3> QED
      BY <1>1, <3>1, CalmKeeps DEF Quiet
  <2>3. CASE reason # "Clean"
    BY <1>2, <2>1, <2>3, SuperviseInv
  <2> QED
    BY <2>2, <2>3
<1> QED
  BY <1>4, <1>5

\* workerAdmissionFailed.
LEMMA AdmissionFailedInv ==
    ASSUME NEW fs, NEW ss, NEW c, Sound(c, c.drain.affected, fs, ss),
           NEW key, key.authority \in Authorities, NEW io, NEW at \in Nat
    PROVE  Keeps(c, workerAdmissionFailed(c, key, io, at), fs, ss)
<1> DEFINE a == key.authority
           d == workerAdmissionFailed(c, key, io, at)
<1>1. c \in Coordinators
  BY DEF Sound, TabsOK
<1>2. CASE ~isLive(c, key)
  <2>1. d = c
    BY <1>2 DEF workerAdmissionFailed
  <2> QED
    BY <1>1, <2>1, QuietSame, CalmKeeps DEF Quiet
<1>3. CASE isLive(c, key) /\ currentCandidateTab(c, c.tabs[a])
  <2>1. d = beginCandidateRollback(c, io, at) /\ ~c.candidatePromoted
    BY <1>3 DEF workerAdmissionFailed, currentCandidateTab
  <2> QED
    BY <2>1, RollbackInv
<1>4. CASE isLive(c, key) /\ ~currentCandidateTab(c, c.tabs[a])
  <2>1. d = failClosedTab(c, a)
    BY <1>4 DEF workerAdmissionFailed
  <2>2. Sound(d, c.drain.affected, fs, ss) /\ Quiet(c, d)
    BY <2>1, FailClosedInv
  <2> QED
    BY <1>1, <2>2, CalmKeeps DEF Quiet
<1> QED
  BY <1>2, <1>3, <1>4

-----------------------------------------------------------------------------
\* The timer.

\* What can be said of a set of tabs once it can be said of it without its
\* last tab holds of every set.
LEMMA LoopInduction ==
    ASSUME NEW A \in SUBSET Authorities, NEW G \in SUBSET (SUBSET A),
           {} \in G,
           \A S \in SUBSET A : S # {} /\ S \ {lastOf(S)} \in G => S \in G
    PROVE  G = SUBSET A
<1> DEFINE T == (SUBSET A) \ G
<1> SUFFICES ASSUME T # {} PROVE FALSE
  OBVIOUS
<1>1. PICK S \in T : \A R \in T : R \subseteq S => R = S
  <2>1. IsFiniteSet(A)
    BY AuthoritiesFinite, FS_Subset
  <2>2. T \in SUBSET (SUBSET A)
    OBVIOUS
  <2> HIDE DEF T
  <2> QED
    BY <2>1, <2>2, LeastSubset
<1>2. S \in SUBSET A /\ S # {} /\ S \notin G
  OBVIOUS
<1>3. lastOf(S) \in S
  BY <1>2, FirstAndLast
<1>4. S \ {lastOf(S)} \in G
  BY <1>1, <1>2, <1>3
<1> QED
  BY <1>2, <1>4

\* The walk over the tabs.
walkOf(c, io, at) ==
    CHOOSE walk : walk =
        [S \in SUBSET Authorities |->
           IF S = {}
             THEN [c |-> c, stop |-> FALSE]
             ELSE checkTab(walk[S \ {lastOf(S)}], lastOf(S), io, at)]

\* The walk of checkHealth, by name.
LEMMA WalkDef ==
    ASSUME NEW c, NEW io, NEW at
    PROVE  checkHealth(c, io, at) =
             IF c.shuttingDown THEN c ELSE walkOf(c, io, at)[Authorities].c
BY DEF checkHealth, walkOf

\* While no tab has asked for a rollback the changes are quiet ones, and what
\* a rollback makes of the coordinator stays.
WalkOK(c, fs, ss, w) ==
    /\ w.c \in Coordinators /\ Keeps(c, w.c, fs, ss)
    /\ ~w.stop => Sound(w.c, c.drain.affected, fs, ss) /\ Quiet(c, w.c)

\* The values of the walk.
Walks(c, fs, ss) ==
    {w \in [c : Coordinators, stop : BOOLEAN] : WalkOK(c, fs, ss, w)}

\* One tab of the walk.
LEMMA CheckTabInv ==
    ASSUME NEW fs, NEW ss, NEW c, Sound(c, c.drain.affected, fs, ss),
           NEW w \in Walks(c, fs, ss), NEW a \in Authorities,
           NEW io, NEW at \in Nat
    PROVE  checkTab(w, a, io, at) \in Walks(c, fs, ss)
<1> DEFINE t == w.c.tabs[a]
           answer == Sup!checkHealth(t.sup, Sup!keyOf(t.sup), at)
           d == supervise(w.c, a, answer, io, at)
           rolls == answer.action \in {"StartupRollback", "CrashLoopRollback"}
           next == checkTab(w, a, io, at)
<1>1. /\ c \in Coordinators /\ w.c \in Coordinators /\ t \in Tabs
      /\ t.sup \in Supervisors
  BY DEF Walks, Sound, TabsOK, Coordinators, Tabs
<1>2. CASE next = w
  BY <1>2
<1>3. CASE next # w
  <2>1. ~w.stop /\ live(t) /\ next = [c |-> d, stop |-> rolls]
    BY <1>3 DEF checkTab, live
  <2>2. Sound(w.c, c.drain.affected, fs, ss) /\ Quiet(c, w.c)
    BY <2>1 DEF Walks, WalkOK
  <2>3. w.c.drain = c.drain
    BY <2>2 DEF Quiet, Calm
  <2>4. answer \in Answers(t.sup)
    BY <1>1, BeginType, AnswersType
  <2> HIDE DEF answer
  <2>5. /\ Keeps(w.c, d, fs, ss)
        /\ ~rolls => Sound(d, c.drain.affected, fs, ss) /\ Quiet(w.c, d)
    <3>1. Sound(w.c, w.c.drain.affected, fs, ss)
      BY <2>2, <2>3
    <3>2. LET e == supervise(w.c, a, answer, io, at)
          IN  /\ Keeps(w.c, e, fs, ss)
              /\ answer.action \notin {"StartupRollback", "CrashLoopRollback"}
                 => Sound(e, w.c.drain.affected, fs, ss) /\ Quiet(w.c, e)
      BY <2>1, <2>4, <3>1, SuperviseInv
    <3> QED
      BY <2>3, <3>2
  <2> HIDE DEF d
  <2>6. d \in Coordinators
    BY <2>5 DEF Keeps, Sound, TabsOK
  <2>7. Keeps(c, d, fs, ss)
    BY <1>1, <2>2, <2>5, AfterQuiet
  <2>8. ~rolls => Quiet(c, d)
    BY <1>1, <2>2, <2>5, <2>6, QuietTransitive
  <2> HIDE DEF rolls
  <2>9. rolls \in BOOLEAN
    BY DEF rolls
  <2> HIDE DEF next
  <2>10. next \in [c : Coordinators, stop : BOOLEAN]
         /\ next.c = d /\ next.stop = rolls
    BY <2>1, <2>6, <2>9
  <2> QED
    BY <2>5, <2>6, <2>7, <2>8, <2>10 DEF Walks, WalkOK, next
<1> QED
  BY <1>2, <1>3

\* checkHealth.
LEMMA CheckHealthInv ==
    ASSUME NEW fs, NEW ss, NEW c, Sound(c, c.drain.affected, fs, ss),
           NEW io, NEW at \in Nat
    PROVE  Keeps(c, checkHealth(c, io, at), fs, ss)
<1> DEFINE W == Walks(c, fs, ss)
           A == Authorities
           base == [c |-> c, stop |-> FALSE]
           body == [p \in W \X A |-> checkTab(p[1], p[2], io, at)]
           Is(f) == f = [S \in SUBSET A |->
                           IF S = {}
                             THEN base
                             ELSE checkTab(f[S \ {lastOf(S)}], lastOf(S),
                                           io, at)]
           walk == walkOf(c, io, at)
<1>1. c \in Coordinators
  BY DEF Sound, TabsOK
<1>2. Keeps(c, c, fs, ss)
  BY <1>1, QuietSame, CalmKeeps DEF Quiet
<1>3. base \in W
  BY <1>1, <1>2, QuietSame DEF Walks, WalkOK
<1>4. \A w \in W, a \in A : checkTab(w, a, io, at) \in W
  BY CheckTabInv
<1> HIDE DEF W, base
<1>5. \A S \in SUBSET A : S # {} => lastOf(S) \in A
  BY FirstAndLast
<1>6. \E f : Is(f)
  <2>1. body \in [W \X A -> W]
    BY <1>4
  <2>2. \A w \in W, a \in A : body[<<w, a>>] = checkTab(w, a, io, at)
    OBVIOUS
  <2> HIDE DEF body
  <2>3. PICK f \in [SUBSET A -> W] : \A S \in SUBSET A :
           f[S] = IF S = {} THEN base
                  ELSE body[<<f[S \ {lastOf(S)}], lastOf(S)>>]
    <3>1. LoopIsThere(A, W, base, body)
      BY <1>3, <2>1, LoopExists
    <3> QED
      BY <3>1 DEF LoopIsThere
  <2>4. ASSUME NEW S \in SUBSET A
        PROVE  f[S] = IF S = {}
                        THEN base
                        ELSE checkTab(f[S \ {lastOf(S)}], lastOf(S), io, at)
    <3>1. f[S \ {lastOf(S)}] \in W
      OBVIOUS
    <3> QED
      BY <1>5, <2>2, <2>3, <3>1
  <2>5. Is(f)
    BY <2>4
  <2> QED
    BY <2>5
<1>7. Is(walk)
  BY <1>6 DEF walkOf, base
<1> HIDE DEF walk
<1>8. \A S \in SUBSET A :
         walk[S] = IF S = {}
                     THEN base
                     ELSE checkTab(walk[S \ {lastOf(S)}], lastOf(S), io, at)
  BY <1>7
<1> DEFINE G == {S \in SUBSET A : walk[S] \in W}
<1>9. G = SUBSET A
  <2>1. {} \in G
    BY <1>3, <1>8
  <2>2. ASSUME NEW S \in SUBSET A, S # {}, S \ {lastOf(S)} \in G
        PROVE  S \in G
    BY <1>4, <1>5, <1>8, <2>2
  <2>3. G \in SUBSET (SUBSET A)
    OBVIOUS
  <2> HIDE DEF G
  <2> QED
    BY <2>1, <2>2, <2>3, LoopInduction
<1>10. walk[Authorities] \in W
  BY <1>9
<1>11. Keeps(c, walk[Authorities].c, fs, ss)
  BY <1>10 DEF W, Walks, WalkOK
<1> QED
  BY <1>2, <1>11, WalkDef DEF walk

-----------------------------------------------------------------------------
\* The end of a drain.

\* The loop that launches the affected tabs again.
afterOf(c, affected, at) ==
    CHOOSE after : after =
        [S \in SUBSET affected |->
           IF S = {} THEN c
                     ELSE relaunch(after[S \ {lastOf(S)}], lastOf(S), at)]

\* The loop of recover, by name.
LEMMA AfterDef ==
    ASSUME NEW c, NEW affected, NEW at
    PROVE  recover(c, affected, at) =
             [afterOf(c, affected, at)[affected] EXCEPT
                !.rollbackStarted = FALSE]
BY DEF recover, afterOf

\* A launch leaves a coordinator.
LEMMA RelaunchType ==
    ASSUME NEW c \in Coordinators, NEW a \in Authorities, NEW at \in Nat
    PROVE  relaunch(c, a, at) \in Coordinators
<1> DEFINE begun == begunFor(c, a, FALSE, at)
           fresh == freshTab(c, Sup!beginAttempt(begun, at),
                             leaseOf(c, c.lkg), at)
<1>1. CASE relaunch(c, a, at) = c
  BY <1>1
<1>2. CASE relaunch(c, a, at) # c
  <2>1. /\ c.lkg # NoDescriptor /\ launchAllowed(c)
        /\ relaunch(c, a, at) = launchForTab(c, a, c.lkg, FALSE, at)
    BY <1>2 DEF relaunch, launchForTab
  <2>2. c.lkg.version \in Versions /\ c.lkg.generation \in Nat
    BY <2>1 DEF Coordinators, Descriptors
  <2>3. FALSE \in BOOLEAN
    OBVIOUS
  <2>4. fresh \in Tabs /\ Sup!attemptAllowed(begun, begun.activation)
    BY <2>2, <2>3, LaunchTypes
  <2>5. launchForTab(c, a, c.lkg, FALSE, at)
          = put(c, a, fresh, closedWith(c, a), c.nextEpoch + 1)
    BY <2>1, <2>2, <2>3, <2>4, LaunchIsPut
  <2>6. closedWith(c, a) \in SUBSET Nat /\ c.nextEpoch + 1 \in Nat
    BY ClosedWith DEF Coordinators
  <2> DEFINE x == closedWith(c, a)
             n == c.nextEpoch + 1
  <2> HIDE DEF fresh, x, n
  <2>7. put(c, a, fresh, x, n) \in Coordinators
    BY <2>4, <2>6, PutFields DEF x, n
  <2> QED
    BY <2>1, <2>5, <2>7 DEF x, n
<1> QED
  BY <1>1, <1>2

\* What the loop has come to after the tabs in S.
Recovered(c, affected, fs, ss, S, w) ==
    /\ TabsOK(w, affected) /\ FailedIsGone(w, affected \ S, fs, ss)
    /\ Quiet(c, w)

\* One tab is launched again.
LEMMA RelaunchInv ==
    ASSUME NEW affected \in SUBSET Authorities, NEW fs, NEW ss,
           NEW c \in Coordinators, launchAllowed(c), c.candidatePromoted,
           c.lkg # NoDescriptor, c.lkg.version \notin fs,
           NEW S \in SUBSET affected, NEW a \in affected, a \notin S,
           NEW w, Recovered(c, affected, fs, ss, S, w), NEW at \in Nat
    PROVE  Recovered(c, affected, fs, ss, S \cup {a}, relaunch(w, a, at))
<1> DEFINE before == affected \ S
           left == affected \ (S \cup {a})
           d == relaunch(w, a, at)
<1>1. /\ w \in Coordinators /\ w.lkg = c.lkg /\ launchAllowed(w)
      /\ TabsOK(w, affected) /\ FailedIsGone(w, before, fs, ss) /\ Quiet(c, w)
  BY DEF Recovered, TabsOK, Quiet, Calm, launchAllowed
<1>2. a \in Authorities /\ a \notin left
      /\ \A b \in Authorities : b # a => (b \in left <=> b \in before)
  OBVIOUS
<1> HIDE DEF before, left
<1>3. CASE w.tabs[a] = NoTab
  <2>1. d = w
    BY <1>3 DEF relaunch
  <2>2. FailedIsGone(w, left, fs, ss)
    BY <1>1, <1>2, <1>3, NoTabType DEF FailedIsGone, awaitsDrain
  <2> QED
    BY <1>1, <2>1, <2>2 DEF Recovered, left
<1>4. CASE w.tabs[a] # NoTab
  <2>1. d = launchForTab(w, a, w.lkg, FALSE, at)
    BY <1>1, <1>4 DEF relaunch
  <2>2. w.lkg.version \in Versions /\ w.lkg.generation \in Nat
        /\ w.lkg.version \notin fs
    BY <1>1 DEF Coordinators, Descriptors
  <2> DEFINE descriptor == w.lkg
  <2>3. /\ descriptor.version \in Versions \cup {NoVersion} \cup Sites
        /\ descriptor.generation \in Nat /\ descriptor.version \notin fs
    BY <2>2
  <2> HIDE DEF descriptor
  <2>4. LET e == launchForTab(w, a, descriptor, FALSE, at)
        IN  /\ TabsOK(e, affected) /\ FailedIsGone(e, left, fs, ss)
            /\ Quiet(w, e)
    <3> DEFINE reuse == FALSE
    <3>1. reuse \in BOOLEAN /\ ~reuse
      OBVIOUS
    <3> HIDE DEF reuse
    <3>2. descriptor.version \in fs
          => descriptor.version \in ss /\ ~candidateLease(w, descriptor)
      BY <2>3
    <3>3. holds(w.tabs[a]) \/ a \in affected
      OBVIOUS
    <3>4. LET e == launchForTab(w, a, descriptor, reuse, at)
          IN  /\ TabsOK(e, affected) /\ FailedIsGone(e, left, fs, ss)
              /\ Quiet(w, e)
      BY <1>1, <1>2, <2>3, <3>1, <3>2, <3>3, LaunchAllowed
    <3> QED
      BY <3>4 DEF reuse
  <2>5. TabsOK(d, affected) /\ FailedIsGone(d, left, fs, ss) /\ Quiet(w, d)
    BY <2>1, <2>4 DEF descriptor
  <2> HIDE DEF d
  <2>6. d \in Coordinators
    BY <2>5 DEF TabsOK
  <2>7. Quiet(c, d)
    BY <1>1, <2>5, <2>6, QuietTransitive
  <2> QED
    BY <2>5, <2>7 DEF Recovered, left, d
<1> QED
  BY <1>3, <1>4

\* recover.
LEMMA RecoverLoop ==
    ASSUME NEW affected \in SUBSET Authorities, NEW fs, NEW ss,
           NEW c, Sound(c, affected, fs, ss), launchAllowed(c),
           c.candidatePromoted, c.lkg # NoDescriptor, c.lkg.version \notin fs,
           NEW at \in Nat
    PROVE  Recovered(c, affected, fs, ss, affected,
                     afterOf(c, affected, at)[affected])
<1> DEFINE A == affected
           W == Coordinators
           body == [p \in W \X A |-> relaunch(p[1], p[2], at)]
           Is(f) == f = [S \in SUBSET A |->
                           IF S = {}
                             THEN c
                             ELSE relaunch(f[S \ {lastOf(S)}], lastOf(S), at)]
           after == afterOf(c, affected, at)
<1>1. c \in W /\ Recovered(c, A, fs, ss, {}, c)
  <2>1. c \in W /\ A \ {} = A
    BY DEF Sound, TabsOK
  <2> HIDE DEF W
  <2> QED
    BY <2>1, QuietSame DEF Recovered, Sound, W
<1>2. \A w \in W, a \in A : relaunch(w, a, at) \in W
  BY RelaunchType
<1> HIDE DEF W
<1>3. \A S \in SUBSET A : S # {} => lastOf(S) \in S
  BY FirstAndLast
<1>4. \E f : Is(f)
  <2>1. body \in [W \X A -> W]
    BY <1>2
  <2>2. \A w \in W, a \in A : body[<<w, a>>] = relaunch(w, a, at)
    OBVIOUS
  <2> HIDE DEF body
  <2>3. PICK f \in [SUBSET A -> W] : \A S \in SUBSET A :
           f[S] = IF S = {} THEN c
                  ELSE body[<<f[S \ {lastOf(S)}], lastOf(S)>>]
    <3>1. LoopIsThere(A, W, c, body)
      BY <1>1, <2>1, LoopExists
    <3> QED
      BY <3>1 DEF LoopIsThere
  <2>4. ASSUME NEW S \in SUBSET A
        PROVE  f[S] = IF S = {}
                        THEN c
                        ELSE relaunch(f[S \ {lastOf(S)}], lastOf(S), at)
    <3>1. f[S \ {lastOf(S)}] \in W
      OBVIOUS
    <3> QED
      BY <1>3, <2>2, <2>3, <3>1
  <2>5. Is(f)
    BY <2>4
  <2> QED
    BY <2>5
<1>5. Is(after)
  BY <1>4 DEF afterOf
<1> HIDE DEF after
<1>6. \A S \in SUBSET A :
         after[S] = IF S = {}
                      THEN c
                      ELSE relaunch(after[S \ {lastOf(S)}], lastOf(S), at)
  BY <1>5
<1> DEFINE G == {S \in SUBSET A : Recovered(c, A, fs, ss, S, after[S])}
<1>7. G = SUBSET A
  <2>1. {} \in G
    BY <1>1, <1>6
  <2>2. ASSUME NEW S \in SUBSET A, S # {}, S \ {lastOf(S)} \in G
        PROVE  S \in G
    <3> DEFINE a == lastOf(S)
               R == S \ {a}
    <3>1. a \in S /\ a \in A /\ R \in SUBSET A /\ a \notin R /\ R \cup {a} = S
      BY <1>3, <2>2
    <3>2. Recovered(c, A, fs, ss, R, after[R])
      BY <2>2
    <3>3. after[S] = relaunch(after[R], a, at)
      BY <1>6, <2>2
    <3> HIDE DEF a, R
    <3>4. Recovered(c, A, fs, ss, R \cup {a}, relaunch(after[R], a, at))
      BY <1>1, <3>1, <3>2, RelaunchInv DEF W
    <3> QED
      BY <3>1, <3>3, <3>4
  <2>3. G \in SUBSET (SUBSET A)
    OBVIOUS
  <2> HIDE DEF G
  <2> QED
    BY <2>1, <2>2, <2>3, LoopInduction
<1> QED
  BY <1>7 DEF after

\* What a call about a drain does to the tokens, the flags and the selection.
Passes(c, d) ==
    /\ c.closed \subseteq d.closed /\ c.nextEpoch <= d.nextEpoch
    /\ \A a \in Authorities :
          hasRequest(c.tabs[a]) =>
             \/ /\ d.tabs[a].lease.epoch = c.tabs[a].lease.epoch
                /\ d.tabs[a].attempt = c.tabs[a].attempt
             \/ c.tabs[a].lease.epoch \in d.closed
    /\ c.failedClosed => d.failedClosed
    /\ c.shuttingDown => d.shuttingDown
    /\ c.failedClosed \/ c.shuttingDown => d.nextEpoch = c.nextEpoch
    /\ d.store = c.store /\ d.candidate = c.candidate
    /\ d.candidatePromoted = c.candidatePromoted
    /\ d.nextDrain = c.nextDrain

\* The drain stays as it is, or it ends when no token of it is in use.
DrainStep(c, d, uses, fs, ss) ==
    /\ Sound(d, d.drain.affected, fs, ss) /\ Passes(c, d)
    /\ c.drain = NoDrain => d.drain = NoDrain
    /\ c.drain # NoDrain =>
          \/ /\ d.drain # NoDrain /\ d.drain.tickets = c.drain.tickets
             /\ d.nextEpoch = c.nextEpoch
          \/ d.drain = NoDrain /\ c.drain.tickets \cap uses = {}

\* A call that is ignored.
LEMMA DrainSame ==
    ASSUME NEW uses, NEW fs, NEW ss, NEW c, Sound(c, c.drain.affected, fs, ss)
    PROVE  DrainStep(c, c, uses, fs, ss)
<1>1. c.nextEpoch \in Nat
  BY DEF Sound, TabsOK, Coordinators
<1> QED
  BY <1>1 DEF DrainStep, Passes

\* Nothing comes back that was given up.
LEMMA PassesTransitive ==
    ASSUME NEW c \in Coordinators, NEW d \in Coordinators,
           NEW e \in Coordinators, Passes(c, d), Passes(d, e)
    PROVE  Passes(c, e)
<1>1. c.nextEpoch \in Nat /\ d.nextEpoch \in Nat /\ e.nextEpoch \in Nat
  BY DEF Coordinators
<1>2. c.closed \subseteq e.closed /\ c.nextEpoch <= e.nextEpoch
  BY <1>1 DEF Passes
<1>3. ASSUME NEW a \in Authorities, hasRequest(c.tabs[a])
      PROVE  \/ /\ e.tabs[a].lease.epoch = c.tabs[a].lease.epoch
                /\ e.tabs[a].attempt = c.tabs[a].attempt
             \/ c.tabs[a].lease.epoch \in e.closed
  BY <1>3 DEF Passes, hasRequest
<1> QED
  BY <1>2, <1>3 DEF Passes

\* The deadline of a drain fails the app closed, and nothing else.
LEMMA TimeoutInv ==
    ASSUME NEW uses, NEW fs, NEW ss, NEW c, Sound(c, c.drain.affected, fs, ss),
           c.drain # NoDrain
    PROVE  /\ DrainStep(c, timeoutDrain(c), uses, fs, ss)
           /\ timeoutDrain(c).drain # NoDrain
           /\ timeoutDrain(c).drain.tickets = c.drain.tickets
<1> DEFINE drain == [c.drain EXCEPT !.timedOut = TRUE]
           d == [c EXCEPT !.drain = drain, !.failedClosed = TRUE]
<1>1. c \in Coordinators /\ c.drain \in Drains /\ c.nextEpoch \in Nat
  BY DEF Sound, TabsOK, Coordinators
<1>2. CASE timeoutDrain(c) = c
  BY <1>2, DrainSame
<1>3. CASE timeoutDrain(c) # c
  <2>1. timeoutDrain(c) = d
    <3>1. timeoutDrain(c) = [c EXCEPT !.drain.timedOut = TRUE,
                                      !.failedClosed = TRUE]
      BY <1>3 DEF timeoutDrain
    <3> QED
      BY <3>1
  <2>2. /\ drain \in Drains /\ drain.tickets = c.drain.tickets
        /\ drain.affected = c.drain.affected /\ drain.timedOut
    BY <1>1 DEF Drains
  <2> HIDE DEF drain
  <2>3. drain # NoDrain
    BY <2>2 DEF NoDrain
  <2>4. /\ d \in Coordinators
        /\ d.tabs = c.tabs /\ d.closed = c.closed /\ d.nextEpoch = c.nextEpoch
        /\ d.store = c.store /\ d.candidate = c.candidate /\ d.drain = drain
        /\ d.nextDrain = c.nextDrain
        /\ d.candidatePromoted = c.candidatePromoted
        /\ d.shuttingDown = c.shuttingDown /\ d.failedClosed
    BY <1>1, <2>2 DEF Coordinators
  <2> HIDE DEF d
  <2>5. TabsOK(d, d.drain.affected)
    BY <2>2, <2>4, SameTabs DEF Sound
  <2>6. FailedIsGone(d, d.drain.affected, fs, ss)
    <3>1. ASSUME NEW a \in Authorities
          PROVE  /\ TabIsFenced(d, d.tabs[a], fs, ss)
                 /\ a \in d.drain.affected => ~live(d.tabs[a])
      BY <2>2, <2>4 DEF Sound, FailedIsGone, TabIsFenced, candidateLease
    <3>2. SelectionIsGood(d, fs) /\ fs \subseteq Versions
      BY <2>4 DEF SelectionIsGood, Sound, FailedIsGone
    <3> QED
      BY <2>4, <3>1, <3>2 DEF FailedIsGone
  <2>7. Passes(c, d)
    BY <1>1, <2>4 DEF Passes
  <2> QED
    BY <2>1, <2>2, <2>3, <2>4, <2>5, <2>6, <2>7 DEF DrainStep, Sound
<1> QED
  BY <1>2, <1>3

\* The drained tabs are forgotten.
erasedTabs(c) ==
    [a \in Authorities |-> IF a \in c.drain.affected THEN NoTab ELSE c.tabs[a]]

\* A drain that ends without recovery erases the tabs that waited for it.
LEMMA ErasedInv ==
    ASSUME NEW fs, NEW ss, NEW c, Sound(c, c.drain.affected, fs, ss),
           NEW d \in Coordinators, d.tabs = erasedTabs(c),
           d.closed = c.closed, d.nextEpoch = c.nextEpoch,
           d.store = c.store, d.current = c.current,
           d.candidate = c.candidate, d.lkg = c.lkg, d.drain = NoDrain,
           d.nextDrain = c.nextDrain,
           d.candidatePromoted = c.candidatePromoted,
           d.shuttingDown = c.shuttingDown, d.failedClosed = c.failedClosed
    PROVE  Sound(d, {}, fs, ss) /\ Passes(c, d)
<1> DEFINE affected == c.drain.affected
<1>1. c \in Coordinators /\ c.nextEpoch \in Nat
  BY DEF Sound, TabsOK, Coordinators
<1>2. ASSUME NEW a \in Authorities
      PROVE  \/ d.tabs[a] = c.tabs[a] /\ a \notin affected
             \/ d.tabs[a] = NoTab
  BY DEF erasedTabs
<1>3. TokensFollowTabs(c) /\ AdmittedIsLive(c) /\ OneIncarnation(c, affected)
  BY DEF Sound, TabsOK
<1>4. TokensFollowTabs(d)
  <2>1. \A a \in Authorities : d.tabs[a].lease.epoch < d.nextEpoch
    BY <1>1, <1>2, <1>3, NoTabType DEF TokensFollowTabs
  <2>2. \A a, b \in Authorities :
           a # b /\ d.tabs[a].lease.epoch = d.tabs[b].lease.epoch
           => d.tabs[a].lease.epoch = 0
    BY <1>2, <1>3, NoTabType DEF TokensFollowTabs
  <2>3. ASSUME NEW a \in Authorities, hasRequest(d.tabs[a])
        PROVE  d.tabs[a].lease.epoch \in d.closed <=> ended(d.tabs[a])
    BY <1>2, <1>3, <2>3, NoTabType DEF TokensFollowTabs
  <2> QED
    BY <1>3, <2>1, <2>2, <2>3 DEF TokensFollowTabs
<1>5. AdmittedIsLive(d)
  BY <1>2, <1>3, NoTabType DEF AdmittedIsLive
<1>6. OneIncarnation(d, {})
  BY <1>2, <1>3 DEF OneIncarnation, holds
<1>7. FailedIsGone(d, {}, fs, ss)
  <2>1. ASSUME NEW a \in Authorities
        PROVE  /\ TabIsFenced(d, d.tabs[a], fs, ss)
               /\ awaitsDrain(d.tabs[a]) => d.failedClosed
    <3>1. CASE d.tabs[a] = NoTab
      BY <3>1, NoTabType DEF TabIsFenced, live, awaitsDrain
    <3>2. CASE d.tabs[a] = c.tabs[a] /\ a \notin affected
      BY <3>2 DEF Sound, FailedIsGone, TabIsFenced, candidateLease
    <3> QED
      BY <1>2, <3>1, <3>2
  <2>2. SelectionIsGood(d, fs) /\ fs \subseteq Versions
    BY DEF SelectionIsGood, Sound, FailedIsGone
  <2> QED
    BY <2>1, <2>2 DEF FailedIsGone
<1>8. Passes(c, d)
  <2>1. ASSUME NEW a \in Authorities, hasRequest(c.tabs[a])
        PROVE  \/ /\ d.tabs[a].lease.epoch = c.tabs[a].lease.epoch
                  /\ d.tabs[a].attempt = c.tabs[a].attempt
               \/ c.tabs[a].lease.epoch \in d.closed
    <3>1. CASE a \in affected
      <4>1. ~live(c.tabs[a])
        BY <3>1 DEF Sound, FailedIsGone
      <4> QED
        BY <1>3, <2>1, <4>1 DEF live, TokensFollowTabs
    <3>2. CASE a \notin affected
      BY <3>2 DEF erasedTabs
    <3> QED
      BY <3>1, <3>2
  <2> QED
    BY <1>1, <2>1 DEF Passes
<1> QED
  BY <1>4, <1>5, <1>6, <1>7, <1>8 DEF Sound, TabsOK

\* finishDrain.
LEMMA FinishInv ==
    ASSUME NEW uses, NEW fs, NEW ss, NEW c, Sound(c, c.drain.affected, fs, ss),
           NEW at \in Nat
    PROVE  DrainStep(c, finishDrain(c, uses, at), uses, fs, ss)
<1> DEFINE affected == c.drain.affected
           finished == [c EXCEPT !.drain = NoDrain]
           tabs == erasedTabs(c)
           erased == [finished EXCEPT !.tabs = tabs]
           w == afterOf(finished, affected, at)[affected]
           d == finishDrain(c, uses, at)
<1> SUFFICES DrainStep(c, d, uses, fs, ss)
  OBVIOUS
<1>1. c \in Coordinators /\ c.drain \in Drains
      /\ affected \in SUBSET Authorities /\ c.nextEpoch \in Nat
  BY DEF Sound, TabsOK, Coordinators, Drains
<1>2. CASE d = c
  BY <1>2, DrainSame
<1>3. CASE d # c
  <2>1. /\ c.drain # NoDrain /\ c.drain.tickets \cap uses = {}
        /\ \/ d = erased
           \/ /\ ~c.shuttingDown /\ ~c.failedClosed
              /\ d = recover(finished, affected, at)
    <3>1. finished.tabs = c.tabs
      BY <1>1 DEF Coordinators
    <3>2. d = IF \/ c.drain.timedOut \/ c.drain.terminalFailure
                 \/ c.shuttingDown \/ c.failedClosed
                THEN erased
                ELSE recover(finished, affected, at)
      <4>1. [finished EXCEPT !.tabs = [a \in Authorities |->
                IF a \in affected THEN NoTab ELSE @[a]]] = erased
        <5> HIDE DEF finished
        <5> QED
          BY <3>1 DEF erasedTabs
      <4> HIDE DEF erased
      <4> QED
        BY <1>3, <4>1 DEF finishDrain
    <3>3. c.drain # NoDrain /\ c.drain.tickets \cap uses = {}
      BY <1>3 DEF finishDrain, allTicketsDrained
    <3> HIDE DEF d, erased
    <3> QED
      BY <3>2, <3>3
  <2> HIDE DEF d
  <2>2. NoDrain \in Drains
    BY DEF NoDrain, Drains
  <2>3. /\ finished \in Coordinators
        /\ finished.tabs = c.tabs /\ finished.closed = c.closed
        /\ finished.nextEpoch = c.nextEpoch
        /\ finished.store = c.store /\ finished.current = c.current
        /\ finished.candidate = c.candidate /\ finished.lkg = c.lkg
        /\ finished.drain = NoDrain /\ finished.nextDrain = c.nextDrain
        /\ finished.candidatePromoted = c.candidatePromoted
        /\ finished.shuttingDown = c.shuttingDown
        /\ finished.failedClosed = c.failedClosed
    BY <1>1, <2>2 DEF Coordinators
  <2>4. ASSUME d.drain = NoDrain, Sound(d, {}, fs, ss), Passes(c, d)
        PROVE  DrainStep(c, d, uses, fs, ss)
    <3>1. NoDrain.affected = {}
      BY DEF NoDrain
    <3> QED
      BY <2>1, <2>4, <3>1 DEF DrainStep
  <2>5. CASE d = erased
    <3>1. tabs \in [Authorities -> Tabs]
      BY <1>1, NoTabType DEF erasedTabs, Coordinators
    <3> HIDE DEF tabs, finished
    <3>2. /\ erased \in Coordinators /\ erased.tabs = tabs
          /\ erased.closed = c.closed /\ erased.nextEpoch = c.nextEpoch
          /\ erased.store = c.store /\ erased.current = c.current
          /\ erased.candidate = c.candidate /\ erased.lkg = c.lkg
          /\ erased.drain = NoDrain /\ erased.nextDrain = c.nextDrain
          /\ erased.candidatePromoted = c.candidatePromoted
          /\ erased.shuttingDown = c.shuttingDown
          /\ erased.failedClosed = c.failedClosed
      BY <2>3, <3>1 DEF Coordinators
    <3> HIDE DEF erased
    <3>3. Sound(erased, {}, fs, ss) /\ Passes(c, erased)
      BY <3>2, ErasedInv DEF tabs
    <3> QED
      BY <2>4, <2>5, <3>2, <3>3
  <2>6. CASE /\ ~c.shuttingDown /\ ~c.failedClosed
             /\ d = recover(finished, affected, at)
    <3> HIDE DEF finished
    <3>1. Sound(finished, affected, fs, ss)
      <4>1. TabsOK(finished, affected)
        BY <2>3, SameTabs DEF Sound
      <4>2. ASSUME NEW a \in Authorities
            PROVE  /\ TabIsFenced(finished, finished.tabs[a], fs, ss)
                   /\ awaitsDrain(finished.tabs[a])
                      => finished.failedClosed \/ a \in affected
                   /\ a \in affected => ~live(finished.tabs[a])
        BY <2>3 DEF Sound, FailedIsGone, TabIsFenced, candidateLease
      <4>3. SelectionIsGood(finished, fs) /\ fs \subseteq Versions
        BY <2>3 DEF SelectionIsGood, Sound, FailedIsGone
      <4> QED
        BY <4>1, <4>2, <4>3 DEF Sound, FailedIsGone
    <3>2. launchAllowed(finished)
      BY <2>3, <2>6 DEF launchAllowed
    <3>3. /\ finished.candidatePromoted /\ finished.lkg # NoDescriptor
          /\ finished.lkg.version \notin fs
      BY <2>1, <2>3, <2>6 DEF Sound, FailedIsGone, SelectionIsGood
    <3>4. Recovered(finished, affected, fs, ss, affected, w)
      BY <1>1, <3>1, <3>2, <3>3, RecoverLoop
    <3>5. d = [w EXCEPT !.rollbackStarted = FALSE]
      BY <2>6, AfterDef
    <3> HIDE DEF w
    <3>6. w \in Coordinators /\ Quiet(finished, w) /\ TabsOK(w, affected)
          /\ FailedIsGone(w, {}, fs, ss)
      <4>1. affected \ affected = {}
        OBVIOUS
      <4> QED
        BY <3>4, <4>1 DEF Recovered, TabsOK
    <3>7. /\ d \in Coordinators
          /\ d.tabs = w.tabs /\ d.closed = w.closed
          /\ d.nextEpoch = w.nextEpoch
          /\ d.store = w.store /\ d.current = w.current
          /\ d.candidate = w.candidate /\ d.lkg = w.lkg
          /\ d.drain = w.drain /\ d.nextDrain = w.nextDrain
          /\ d.candidatePromoted = w.candidatePromoted
          /\ d.shuttingDown = w.shuttingDown
          /\ d.failedClosed = w.failedClosed
      BY <3>5, <3>6 DEF Coordinators
    <3>8. TabsOK(d, {})
      <4>1. TabsOK(d, affected)
        BY <3>6, <3>7, SameTabs
      <4> QED
        BY <4>1 DEF TabsOK, OneIncarnation
    <3>9. FailedIsGone(d, {}, fs, ss)
      <4>1. ASSUME NEW a \in Authorities
            PROVE  /\ TabIsFenced(d, d.tabs[a], fs, ss)
                   /\ awaitsDrain(d.tabs[a]) => d.failedClosed
        BY <3>6, <3>7 DEF FailedIsGone, TabIsFenced, candidateLease
      <4>2. SelectionIsGood(d, fs) /\ fs \subseteq Versions
        BY <3>6, <3>7 DEF SelectionIsGood, FailedIsGone
      <4> QED
        BY <4>1, <4>2 DEF FailedIsGone
    <3>10. Passes(c, d)
      <4>1. Follows(finished, w) /\ Calm(finished, w)
            /\ w.failedClosed = finished.failedClosed
        BY <3>6 DEF Quiet
      <4>2. ~launchAllowed(finished) <=> c.failedClosed \/ c.shuttingDown
        BY <2>3 DEF launchAllowed
      <4> QED
        BY <2>3, <3>7, <4>1, <4>2 DEF Follows, Carries, Calm, Passes
    <3>11. d.drain = NoDrain
      BY <2>3, <3>6, <3>7 DEF Quiet, Calm
    <3> QED
      BY <2>4, <3>8, <3>9, <3>10, <3>11 DEF Sound
  <2> QED
    BY <2>1, <2>5, <2>6
<1> QED
  BY <1>2, <1>3

\* The reports of a drain thread.
LEMMA DrainReportInv ==
    ASSUME NEW uses, NEW fs, NEW ss, NEW c, Sound(c, c.drain.affected, fs, ss),
           NEW id, NEW at \in Nat
    PROVE  /\ DrainStep(c, authorityDrainTimedOut(c, id, at), uses, fs, ss)
           /\ DrainStep(c, authorityDrainCompleted(c, id, uses, at), uses,
                        fs, ss)
<1>1. DrainStep(c, c, uses, fs, ss)
  BY DrainSame
<1>2. CASE c.drain = NoDrain
  BY <1>1, <1>2 DEF authorityDrainTimedOut, authorityDrainCompleted
<1>3. CASE c.drain # NoDrain
  <2> DEFINE m == timeoutDrain(c)
             e == finishDrain(m, uses, at)
  <2>1. /\ DrainStep(c, m, uses, fs, ss) /\ m.drain # NoDrain
        /\ m.drain.tickets = c.drain.tickets
    BY <1>3, TimeoutInv
  <2> HIDE DEF m
  <2>2. DrainStep(m, e, uses, fs, ss)
    BY <2>1, FinishInv DEF DrainStep
  <2> HIDE DEF e
  <2>3. DrainStep(c, e, uses, fs, ss)
    <3>1. c \in Coordinators /\ m \in Coordinators /\ e \in Coordinators
      BY <2>1, <2>2 DEF DrainStep, Sound, TabsOK
    <3>2. Passes(c, e)
      BY <2>1, <2>2, <3>1, PassesTransitive DEF DrainStep
    <3>3. m.nextEpoch = c.nextEpoch
      BY <1>3, <2>1 DEF DrainStep
    <3> QED
      BY <1>3, <2>1, <2>2, <3>2, <3>3 DEF DrainStep
  <2>4. DrainStep(c, finishDrain(c, uses, at), uses, fs, ss)
    BY FinishInv
  <2> QED
    BY <1>1, <2>1, <2>3, <2>4
       DEF authorityDrainTimedOut, authorityDrainCompleted, m, e
<1> QED
  BY <1>2, <1>3

-----------------------------------------------------------------------------
\* Installation and startup.

\* What selecting a version leaves alone.
SameButSelection(c, d) ==
    /\ d.tabs = c.tabs /\ d.closed = c.closed /\ d.nextEpoch = c.nextEpoch
    /\ d.drain = c.drain /\ d.nextDrain = c.nextDrain
    /\ d.shuttingDown = c.shuttingDown /\ d.failedClosed = c.failedClosed
    /\ d.store.lastKnownGood = c.store.lastKnownGood

\* What is selected: what was selected before, or what the store selects now.
Selected(c, d) ==
    \/ /\ d.current = c.current /\ d.candidate = c.candidate
       /\ d.candidatePromoted = c.candidatePromoted
    \/ /\ d.current.version = d.store.current
       /\ d.candidate.version = d.store.current

\* A selection, made while launches are allowed.
LEMMA SelectionInv ==
    ASSUME NEW fs, NEW ss, NEW c, Sound(c, c.drain.affected, fs, ss),
           launchAllowed(c), NEW d \in Coordinators,
           SameButSelection(c, d), Selected(c, d)
    PROVE  Keeps(c, d, fs, ss)
<1> DEFINE fs2 == FailedAfter(c, d, fs)
           ss2 == SparedAfter(c, d, ss)
           draining == c.drain.affected
<1>1. c \in Coordinators /\ c.nextDrain \in Nat /\ c.nextEpoch \in Nat
  BY DEF Sound, TabsOK, Coordinators
<1>2. fs2 \subseteq fs /\ (d.store.current = c.store.current
                           \/ d.store.current \notin fs2)
  BY <1>1 DEF FailedAfter, SameButSelection
<1>3. ss \subseteq ss2
  BY DEF SparedAfter
<1>4. \A a \in Authorities :
         /\ selects(c, d) /\ runsUnmarked(d.tabs[a], d.candidate.version)
         => d.candidate.version \in ss2
  BY DEF SparedAfter
<1> HIDE DEF fs2, ss2
<1>5. TabsOK(d, draining)
  BY SameTabs DEF Sound, SameButSelection
<1>6. SelectionIsGood(d, fs2)
  BY <1>2 DEF Sound, FailedIsGone, SelectionIsGood, launchAllowed,
              SameButSelection, Selected
<1>7. fs2 \subseteq Versions
  BY <1>2 DEF Sound, FailedIsGone
<1>8. ASSUME NEW a \in Authorities
      PROVE  /\ TabIsFenced(d, d.tabs[a], fs2, ss2)
             /\ awaitsDrain(d.tabs[a]) => d.failedClosed \/ a \in draining
             /\ a \in draining => ~live(d.tabs[a])
  <2>1. /\ TabIsFenced(c, c.tabs[a], fs, ss)
        /\ awaitsDrain(c.tabs[a]) => c.failedClosed \/ a \in draining
        /\ a \in draining => ~live(c.tabs[a])
    BY DEF Sound, FailedIsGone
  <2>2. d.tabs[a] = c.tabs[a] /\ d.failedClosed = c.failedClosed
    BY DEF SameButSelection
  <2>3. ASSUME live(c.tabs[a]), candidateLease(d, c.tabs[a].lease),
               ~c.tabs[a].candidate
        PROVE  c.tabs[a].lease.version \in ss2
    <3>1. CASE selects(c, d)
      BY <1>4, <2>2, <2>3, <3>1
      DEF candidateLease, sameLeaseIdentity, runsUnmarked, live
    <3>2. CASE ~selects(c, d)
      BY <1>3, <2>1, <2>3, <3>2
      DEF candidateLease, sameLeaseIdentity, selects, TabIsFenced
    <3> QED
      BY <3>1, <3>2
  <2> QED
    BY <1>2, <1>3, <2>1, <2>2, <2>3 DEF TabIsFenced
<1>9. Follows(c, d)
  BY <1>1 DEF Follows, Carries, SameButSelection
<1>10. d.drain.affected = draining
  BY DEF SameButSelection
<1> QED
  BY <1>5, <1>6, <1>7, <1>8, <1>9, <1>10
  DEF Keeps, Sound, FailedIsGone, fs2, ss2

\* A flag that changes afterwards.
LEMMA FlagAfter ==
    ASSUME NEW fs, NEW ss, NEW c \in Coordinators, NEW e, Keeps(c, e, fs, ss),
           NEW p \in BOOLEAN, NEW f \in BOOLEAN, e.failedClosed => f
    PROVE  Keeps(c, [e EXCEPT !.cleanupPending = p, !.failedClosed = f],
                 fs, ss)
<1> DEFINE d == [e EXCEPT !.cleanupPending = p, !.failedClosed = f]
           fs2 == FailedAfter(c, e, fs)
           ss2 == SparedAfter(c, e, ss)
<1>1. Sound(e, e.drain.affected, fs2, ss2) /\ Follows(c, e)
  BY DEF Keeps
<1>2. e \in Coordinators
  BY <1>1 DEF Sound, TabsOK
<1>3. d.tabs = e.tabs
  BY <1>2 DEF Coordinators
<1> HIDE DEF fs2, ss2
<1>4. Sound(d, e.drain.affected, fs2, ss2) /\ Follows(e, d) /\ Calm(e, d)
  BY <1>1, FlagChange
<1> HIDE DEF d
<1>5. d \in Coordinators
  BY <1>4 DEF Sound, TabsOK
<1>6. Follows(c, d)
  BY <1>1, <1>2, <1>4, <1>5, FollowsTransitive
<1>7. FailedAfter(c, d, fs) = fs2
  BY <1>4 DEF FailedAfter, Calm, fs2
<1>8. SparedAfter(c, d, ss) = ss2
  BY <1>3, <1>4 DEF SparedAfter, selects, Calm, ss2
<1>9. d.drain = e.drain
  BY <1>4 DEF Calm
<1> QED
  BY <1>4, <1>6, <1>7, <1>8, <1>9 DEF Keeps, d

\* A refused call.
LEMMA KeepsSame ==
    ASSUME NEW fs, NEW ss, NEW c, Sound(c, c.drain.affected, fs, ss)
    PROVE  Keeps(c, c, fs, ss)
<1>1. c \in Coordinators
  BY DEF Sound, TabsOK
<1> QED
  BY <1>1, QuietSame, CalmKeeps DEF Quiet

\* The guard that is left is closed, or fails the app closed.
LEMMA RetryInv ==
    ASSUME NEW fs, NEW ss, NEW c, Sound(c, c.drain.affected, fs, ss),
           NEW closes \in BOOLEAN
    PROVE  LET d == retryCleanup(c, closes)
           IN  /\ Keeps(c, d, fs, ss) /\ d.store = c.store
               /\ launchAllowed(d)
                  => Quiet(c, d) /\ Sound(d, d.drain.affected, fs, ss)
<1> DEFINE p == c.cleanupPending /\ ~closes
           f == IF p THEN TRUE ELSE c.failedClosed
           d == [c EXCEPT !.cleanupPending = p, !.failedClosed = f]
<1>1. c \in Coordinators /\ c.cleanupPending \in BOOLEAN
      /\ c.failedClosed \in BOOLEAN
  BY DEF Sound, TabsOK, Coordinators
<1>2. retryCleanup(c, closes) = d
  BY <1>1 DEF retryCleanup, Coordinators
<1>3. p \in BOOLEAN /\ f \in BOOLEAN /\ (c.failedClosed => f)
      /\ (~f => ~p)
  BY <1>1
<1> HIDE DEF p, f
<1> DEFINE draining == c.drain.affected
<1> HIDE DEF draining
<1>9. Sound(c, draining, fs, ss)
  BY DEF draining
<1>10. Sound(d, draining, fs, ss) /\ Follows(c, d) /\ Calm(c, d)
  BY <1>3, <1>9, FlagChange
<1>11. d.failedClosed = f
  BY <1>1 DEF Coordinators
<1>5. /\ Sound(d, c.drain.affected, fs, ss) /\ Follows(c, d) /\ Calm(c, d)
      /\ d.failedClosed = f
  BY <1>10, <1>11 DEF draining
<1>6. d.store = c.store
  BY <1>5 DEF Calm
<1> HIDE DEF d
<1>7. Keeps(c, d, fs, ss)
  BY <1>1, <1>5, CalmKeeps
<1>8. launchAllowed(d) => Quiet(c, d) /\ Sound(d, d.drain.affected, fs, ss)
  BY <1>1, <1>3, <1>5 DEF launchAllowed, Quiet, Calm
<1> QED
  BY <1>2, <1>6, <1>7, <1>8

\* The record that an activation leaves is in range.
LEMMA ActivateType ==
    ASSUME NEW s \in Store!ActivationStates, NEW present \in SUBSET Versions,
           NEW v \in Versions
    PROVE  /\ Store!activateVerified(s, present, v).next
                \in Store!ActivationStates
           /\ Store!activateVerified(s, present, v).next.lastKnownGood
                = s.lastKnownGood
<1> DEFINE expected == Store!NoBinding
<1> HIDE DEF expected
<1> QED
  BY StoreType

\* What PackageInstaller::install leaves of the coordinator.
Installed(c, r, v) ==
    /\ r.c \in Coordinators /\ SameButSelection(c, r.c)
    /\ r.c.current = c.current /\ r.c.candidate = c.candidate
    /\ r.c.candidatePromoted = c.candidatePromoted
    /\ r.ok => r.c.store.current = v

\* Its tabs, tokens and flags are those before.
LEMMA InstallStep ==
    ASSUME NEW c \in Coordinators, NEW v \in Versions, NEW reach
    PROVE  Installed(c, install(c, v, reach), v)
<1> DEFINE present == c.present \cup {v}
           corrupt == c.corrupt \ {v}
           committed == [c EXCEPT !.present = present, !.corrupt = corrupt]
           done == Store!activateVerified(c.store, present, v)
           store == done.next
           activated == [committed EXCEPT !.store = store]
           r == install(c, v, reach)
<1> SUFFICES Installed(c, r, v)
  OBVIOUS
<1>1. /\ present \in SUBSET Versions /\ corrupt \in SUBSET Versions
      /\ c.store \in Store!ActivationStates
  BY DEF Coordinators
<1>2. committed.present = present
  BY DEF Coordinators
<1>3. \/ r = [c |-> c, ok |-> FALSE]
      \/ r = [c |-> committed, ok |-> FALSE]
      \/ r = [c |-> activated, ok |-> reach = "installed"] /\ done.ok
  BY <1>2 DEF install
<1> HIDE DEF present, corrupt, r
<1>4. /\ store \in Store!ActivationStates
      /\ store.lastKnownGood = c.store.lastKnownGood
  BY <1>1, ActivateType
<1>5. done.ok => store.current = v
  BY <1>1, ActivateSelects
<1> HIDE DEF store, done
<1>6. /\ committed \in Coordinators
      /\ committed.tabs = c.tabs /\ committed.closed = c.closed
      /\ committed.nextEpoch = c.nextEpoch /\ committed.drain = c.drain
      /\ committed.nextDrain = c.nextDrain
      /\ committed.shuttingDown = c.shuttingDown
      /\ committed.failedClosed = c.failedClosed
      /\ committed.store = c.store
      /\ committed.current = c.current
      /\ committed.candidate = c.candidate
      /\ committed.candidatePromoted = c.candidatePromoted
  BY <1>1 DEF Coordinators
<1> HIDE DEF committed
<1>7. /\ activated \in Coordinators
      /\ activated.tabs = committed.tabs /\ activated.closed = committed.closed
      /\ activated.nextEpoch = committed.nextEpoch
      /\ activated.drain = committed.drain
      /\ activated.nextDrain = committed.nextDrain
      /\ activated.shuttingDown = committed.shuttingDown
      /\ activated.failedClosed = committed.failedClosed
      /\ activated.store = store
      /\ activated.current = committed.current
      /\ activated.candidate = committed.candidate
      /\ activated.candidatePromoted = committed.candidatePromoted
  BY <1>4, <1>6 DEF Coordinators
<1> HIDE DEF activated
<1>8. CASE r = [c |-> c, ok |-> FALSE]
  BY <1>8 DEF Installed, SameButSelection
<1>9. CASE r = [c |-> committed, ok |-> FALSE]
  BY <1>6, <1>9 DEF Installed, SameButSelection
<1>10. CASE r = [c |-> activated, ok |-> reach = "installed"] /\ done.ok
  <2>1. r.c = activated
    BY <1>10
  <2> QED
    BY <1>4, <1>5, <1>6, <1>7, <1>10, <2>1 DEF Installed, SameButSelection
<1> QED
  BY <1>3, <1>8, <1>9, <1>10

\* The coordinator that is left when a guard cannot be closed.
LEMMA UnsettledInv ==
    ASSUME NEW fs, NEW ss, NEW c \in Coordinators, NEW e, Keeps(c, e, fs, ss)
    PROVE  Keeps(c, Unsettled(e), fs, ss)
BY FlagAfter DEF Unsettled

\* installSitePackage.
LEMMA InstallSiteInv ==
    ASSUME NEW fs, NEW ss, NEW c, Sound(c, c.drain.affected, fs, ss),
           NEW site \in Sites, NEW succeeds \in BOOLEAN,
           NEW settles \in BOOLEAN
    PROVE  Keeps(c, installSitePackage(c, site, succeeds, settles), fs, ss)
<1> DEFINE sites == c.sites \cup {site}
           d == [c EXCEPT !.sites = sites]
<1>1. c \in Coordinators
  BY DEF Sound, TabsOK
<1>2. \/ installSitePackage(c, site, succeeds, settles) = c
      \/ installSitePackage(c, site, succeeds, settles) = Unsettled(c)
      \/ /\ installSitePackage(c, site, succeeds, settles) = d
         /\ launchAllowed(c)
  BY DEF installSitePackage
<1>3. Keeps(c, c, fs, ss)
  BY KeepsSame
<1>4. Keeps(c, Unsettled(c), fs, ss)
  BY <1>1, <1>3, UnsettledInv
<1>5. ASSUME launchAllowed(c) PROVE Keeps(c, d, fs, ss)
  <2>1. sites \in SUBSET Sites
    BY <1>1 DEF Coordinators
  <2> HIDE DEF sites
  <2>2. d \in Coordinators
    BY <1>1, <2>1 DEF Coordinators
  <2>3. SameButSelection(c, d) /\ Selected(c, d)
    BY <1>1 DEF Coordinators, SameButSelection, Selected
  <2> HIDE DEF d
  <2> QED
    BY <1>5, <2>2, <2>3, SelectionInv
<1> HIDE DEF d
<1> QED
  BY <1>2, <1>3, <1>4, <1>5

\* installAndActivate, once the guard that was left is closed.
installReady(c, ready, v, reach, settles) ==
    LET before == c.store
        hadCurrent == /\ Store!targetsValid(before, c.present)
                      /\ before.current # NoVersion
                      /\ verifies(c, before.current)
        done == install(ready, v, reach)
        installed == Descriptor(v, done.c.store.generation)
    IN  IF settles = "beforeFails" /\ hadCurrent
          THEN Unsettled(ready)
          ELSE IF settles = "installedFails" /\ done.ok
            THEN Unsettled(done.c)
            ELSE IF ~done.ok
              THEN done.c
              ELSE [done.c EXCEPT
                      !.lkg = IF @ = NoDescriptor /\ hadCurrent
                                THEN Descriptor(before.current,
                                                before.generation)
                                ELSE @,
                      !.current = installed, !.candidate = installed,
                      !.candidatePromoted = FALSE,
                      !.rollbackStarted = FALSE]

\* It selects the installed version, or nothing new.
LEMMA InstallReadyInv ==
    ASSUME NEW fs, NEW ss, NEW c \in Coordinators,
           NEW ready, Sound(ready, ready.drain.affected, fs, ss),
           launchAllowed(ready), NEW v \in Versions, NEW reach, NEW settles
    PROVE  Keeps(ready, installReady(c, ready, v, reach, settles), fs, ss)
<1> DEFINE before == c.store
           hadCurrent == /\ Store!targetsValid(before, c.present)
                         /\ before.current # NoVersion
                         /\ verifies(c, before.current)
           done == install(ready, v, reach)
           e == done.c
           installed == Descriptor(v, e.store.generation)
           known == Descriptor(before.current, before.generation)
           lkg == IF e.lkg = NoDescriptor /\ hadCurrent THEN known ELSE e.lkg
           d == [e EXCEPT !.lkg = lkg, !.current = installed,
                          !.candidate = installed,
                          !.candidatePromoted = FALSE,
                          !.rollbackStarted = FALSE]
           r == installReady(c, ready, v, reach, settles)
<1> SUFFICES Keeps(ready, r, fs, ss)
  OBVIOUS
<1>1. ready \in Coordinators
  BY DEF Sound, TabsOK
<1>2. Installed(ready, done, v)
  BY <1>1, InstallStep
<1>3. e \in Coordinators
  BY <1>2 DEF Installed
<1>4. \/ r = Unsettled(ready)
      \/ r = Unsettled(e)
      \/ r = e
      \/ r = d /\ done.ok
  BY <1>3 DEF installReady, Coordinators
<1>5. /\ SameButSelection(ready, e) /\ Selected(ready, e)
      /\ done.ok => e.store.current = v
  BY <1>2 DEF Installed, Selected
<1>6. installed \in Descriptors /\ installed.version = v
  BY <1>3 DEF Descriptor, Descriptors, Coordinators, Store!ActivationStates
<1>7. hadCurrent => known \in Descriptors
  BY DEF Descriptor, Descriptors, Coordinators, Store!ActivationStates
<1> HIDE DEF hadCurrent, known, done, r
<1>8. lkg \in Descriptors
  BY <1>3, <1>7 DEF Coordinators
<1> HIDE DEF e, installed, lkg
<1>9. Keeps(ready, e, fs, ss)
  BY <1>3, <1>5, SelectionInv
<1>10. Keeps(ready, Unsettled(e), fs, ss)
  BY <1>1, <1>9, UnsettledInv
<1>11. Keeps(ready, Unsettled(ready), fs, ss)
  BY <1>1, KeepsSame, UnsettledInv
<1>12. ASSUME done.ok PROVE Keeps(ready, d, fs, ss)
  <2>1. /\ d \in Coordinators
        /\ d.tabs = e.tabs /\ d.closed = e.closed
        /\ d.nextEpoch = e.nextEpoch /\ d.drain = e.drain
        /\ d.nextDrain = e.nextDrain /\ d.shuttingDown = e.shuttingDown
        /\ d.failedClosed = e.failedClosed /\ d.store = e.store
        /\ d.current = installed /\ d.candidate = installed
    BY <1>3, <1>6, <1>8 DEF Coordinators
  <2> HIDE DEF d
  <2>2. SameButSelection(ready, d)
    BY <1>5, <2>1 DEF SameButSelection
  <2>3. Selected(ready, d)
    BY <1>5, <1>6, <1>12, <2>1 DEF Selected
  <2> QED
    BY <2>1, <2>2, <2>3, SelectionInv
<1> HIDE DEF d
<1> QED
  BY <1>4, <1>9, <1>10, <1>11, <1>12

\* installAndActivate.
LEMMA InstallInv ==
    ASSUME NEW fs, NEW ss, NEW c, Sound(c, c.drain.affected, fs, ss),
           NEW v \in Versions, NEW reach, NEW settles, NEW closes \in BOOLEAN
    PROVE  Keeps(c, installAndActivate(c, v, reach, settles, closes), fs, ss)
<1> DEFINE ready == retryCleanup(c, closes)
           e == installReady(c, ready, v, reach, settles)
           d == installAndActivate(c, v, reach, settles, closes)
<1> SUFFICES Keeps(c, d, fs, ss)
  OBVIOUS
<1>1. c \in Coordinators
  BY DEF Sound, TabsOK
<1>2. d = IF c.shuttingDown THEN c ELSE IF ~launchAllowed(ready)
                                          THEN ready ELSE e
  BY DEF installAndActivate, installReady
<1>3. /\ Keeps(c, ready, fs, ss)
      /\ launchAllowed(ready)
         => Quiet(c, ready) /\ Sound(ready, ready.drain.affected, fs, ss)
  BY RetryInv
<1> HIDE DEF ready, d
<1>4. ready \in Coordinators
  BY <1>3 DEF Keeps, Sound, TabsOK
<1>5. ASSUME launchAllowed(ready) PROVE Keeps(c, e, fs, ss)
  <2>1. Keeps(ready, e, fs, ss)
    BY <1>1, <1>3, <1>5, InstallReadyInv
  <2> QED
    BY <1>1, <1>3, <1>4, <1>5, <2>1, AfterQuiet
<1>6. Keeps(c, c, fs, ss)
  BY KeepsSame
<1> HIDE DEF e
<1> QED
  BY <1>2, <1>3, <1>5, <1>6

\* A selection that startOffline makes.
LEMMA StartedInv ==
    ASSUME NEW fs, NEW ss, NEW c, Sound(c, c.drain.affected, fs, ss),
           launchAllowed(c), NEW store \in Store!ActivationStates,
           store.lastKnownGood = c.store.lastKnownGood,
           NEW current \in Descriptors, current.version = store.current,
           NEW lkg \in Descriptors, NEW promoted \in BOOLEAN
    PROVE  Keeps(c, Started(c, store, current, lkg, promoted), fs, ss)
<1> DEFINE d == Started(c, store, current, lkg, promoted)
<1>1. c \in Coordinators
  BY DEF Sound, TabsOK
<1>2. /\ d \in Coordinators
      /\ d.tabs = c.tabs /\ d.closed = c.closed
      /\ d.nextEpoch = c.nextEpoch /\ d.drain = c.drain
      /\ d.nextDrain = c.nextDrain /\ d.shuttingDown = c.shuttingDown
      /\ d.failedClosed = c.failedClosed /\ d.store = store
      /\ d.current = current /\ d.candidate = current
  BY <1>1 DEF Started, Coordinators
<1> HIDE DEF d
<1>3. SameButSelection(c, d) /\ Selected(c, d)
  BY <1>2 DEF SameButSelection, Selected
<1>4. Keeps(c, d, fs, ss)
  BY <1>2, <1>3, SelectionInv
<1> QED
  BY <1>4 DEF d

\* The record that a recovery leaves is in range.
LEMMA RecoverType ==
    ASSUME NEW s \in Store!ActivationStates, NEW present \in SUBSET Versions,
           NEW expected, NEW v \in Versions
    PROVE  /\ Store!recoverLastKnownGood(s, present, expected).next
                \in Store!ActivationStates
           /\ Store!recoverLastKnownGood(s, present, expected).next
                .lastKnownGood = s.lastKnownGood
BY StoreType

\* What startOffline selects.
LEMMA SelectOfflineInv ==
    ASSUME NEW fs, NEW ss, NEW c, Sound(c, c.drain.affected, fs, ss),
           launchAllowed(c)
    PROVE  Keeps(c, selectOffline(c), fs, ss)
<1> DEFINE s == c.store
           expected == Store!bindingForState(s)
           recovered == Store!recoverLastKnownGood(s, c.present, expected)
           next == recovered.next
           back == Descriptor(next.current, next.generation)
           current == Descriptor(s.current, s.generation)
           good == Descriptor(s.lastKnownGood, s.generation)
           d == selectOffline(c)
<1> SUFFICES Keeps(c, d, fs, ss)
  OBVIOUS
<1>1. c \in Coordinators /\ s \in Store!ActivationStates
      /\ c.present \in SUBSET Versions
  BY DEF Sound, TabsOK, Coordinators
<1>2. \/ d = c
      \/ /\ s.current # NoVersion
         /\ s.lastKnownGood # NoVersion
         /\ d = Started(c, s, current, good, FALSE)
      \/ s.current # NoVersion /\ d = Started(c, s, current, current, TRUE)
      \/ /\ s.current # NoVersion
         /\ d = Started(c, s, current, NoDescriptor, FALSE)
      \/ /\ recovered.ok /\ s.lastKnownGood # NoVersion
         /\ d = Started(c, next, back, back, TRUE)
  BY DEF selectOffline, offlineStateUsable
<1>3. /\ s.current # NoVersion
         => current \in Descriptors /\ current.version = s.current
      /\ s.lastKnownGood # NoVersion
         => /\ good \in Descriptors
            /\ s.lastKnownGood \in Versions
  BY <1>1 DEF Descriptor, Descriptors, Store!ActivationStates
<1>4. NoDescriptor \in Descriptors
  BY DEF Descriptors
<1>5. Keeps(c, c, fs, ss)
  BY KeepsSame
<1> HIDE DEF expected
<1>6. recovered.ok => next.current = s.lastKnownGood
  BY <1>1, RecoverSelects
<1>7. s.lastKnownGood # NoVersion
      => next \in Store!ActivationStates
         /\ next.lastKnownGood = s.lastKnownGood
  BY <1>1, <1>3, RecoverType
<1> HIDE DEF recovered, next
<1>8. recovered.ok /\ s.lastKnownGood # NoVersion
      => back \in Descriptors /\ back.version = next.current
  <2>1. s.lastKnownGood # NoVersion => next.generation \in Nat
    BY <1>7 DEF Store!ActivationStates
  <2> QED
    BY <1>3, <1>6, <2>1 DEF Descriptor, Descriptors
<1> DEFINE st == c.store
<1> HIDE DEF current, good, back, d, st
<1>9. CASE s.current # NoVersion /\ s.lastKnownGood # NoVersion
           /\ d = Started(c, s, current, good, FALSE)
  BY <1>1, <1>3, <1>9, StartedInv
<1>10. CASE s.current # NoVersion /\ d = Started(c, s, current, current, TRUE)
  BY <1>1, <1>3, <1>10, StartedInv
<1>11. CASE s.current # NoVersion
            /\ d = Started(c, s, current, NoDescriptor, FALSE)
  BY <1>1, <1>3, <1>4, <1>11, StartedInv
<1>12. CASE recovered.ok /\ s.lastKnownGood # NoVersion
            /\ d = Started(c, next, back, back, TRUE)
  BY <1>7, <1>8, <1>12, StartedInv
<1> QED
  BY <1>2, <1>5, <1>9, <1>10, <1>11, <1>12

\* startOffline.
LEMMA StartInv ==
    ASSUME NEW fs, NEW ss, NEW c, Sound(c, c.drain.affected, fs, ss),
           NEW settles \in BOOLEAN, NEW closes \in BOOLEAN
    PROVE  Keeps(c, startOffline(c, settles, closes), fs, ss)
<1> DEFINE ready == retryCleanup(c, closes)
           d == startOffline(c, settles, closes)
<1> SUFFICES Keeps(c, d, fs, ss)
  OBVIOUS
<1>1. c \in Coordinators
  BY DEF Sound, TabsOK
<1>2. \/ d = c
      \/ d = ready
      \/ launchAllowed(ready) /\ d = Unsettled(ready)
      \/ launchAllowed(ready) /\ d = selectOffline(ready)
  BY DEF startOffline
<1>3. /\ Keeps(c, ready, fs, ss)
      /\ launchAllowed(ready)
         => Quiet(c, ready) /\ Sound(ready, ready.drain.affected, fs, ss)
  BY RetryInv
<1> HIDE DEF ready, d
<1>4. ready \in Coordinators
  BY <1>3 DEF Keeps, Sound, TabsOK
<1>5. Keeps(c, Unsettled(ready), fs, ss)
  BY <1>1, <1>3, UnsettledInv
<1>6. ASSUME launchAllowed(ready) PROVE Keeps(c, selectOffline(ready), fs, ss)
  <2> DEFINE e == selectOffline(ready)
  <2>1. Keeps(ready, e, fs, ss)
    BY <1>3, <1>6, SelectOfflineInv
  <2> HIDE DEF e
  <2>2. Keeps(c, e, fs, ss)
    BY <1>1, <1>3, <1>4, <1>6, <2>1, AfterQuiet
  <2> QED
    BY <2>2 DEF e
<1>7. Keeps(c, c, fs, ss)
  BY KeepsSame
<1> QED
  BY <1>2, <1>3, <1>5, <1>6, <1>7

-----------------------------------------------------------------------------
\* Shutdown.

\* The tabs that beginShutdown retires, and what it makes of the map.
retiring(c) == {a \in Authorities : c.tabs[a] # NoTab /\ ~c.tabs[a].retired}

\* A tab that was retired.
retiredTab(t) ==
    [t EXCEPT !.revoked = TRUE, !.admitted = FALSE, !.retired = TRUE]

\* The map after that.
retiredTabs(c) ==
    [a \in Authorities |-> IF a \in retiring(c) THEN retiredTab(c.tabs[a])
                                                ELSE c.tabs[a]]

\* The tokens of the retired tabs.
epochsOf(c) == {c.tabs[a].lease.epoch : a \in retiring(c)} \ {0}

\* No tab lives on or waits for a drain.
LEMMA RetiredTabs ==
    ASSUME NEW draining, NEW c, TabsOK(c, draining),
           NEW d \in Coordinators, d.tabs = retiredTabs(c),
           NEW a \in Authorities
    PROVE  /\ d.tabs[a].lease = c.tabs[a].lease
           /\ d.tabs[a].attempt = c.tabs[a].attempt
           /\ ~d.tabs[a].admitted /\ ~holds(d.tabs[a])
           /\ hasRequest(d.tabs[a]) => d.tabs[a].retired
           /\ a \notin retiring(c) => d.tabs[a] = c.tabs[a]
<1> DEFINE t == c.tabs[a]
<1>1. t \in Tabs
  BY DEF TabsOK, Coordinators
<1>2. d.tabs[a] = IF a \in retiring(c) THEN retiredTab(t) ELSE t
  BY DEF retiredTabs
<1>3. a \notin retiring(c) => t = NoTab \/ t.retired
  BY DEF retiring
<1>4. t.admitted => live(t)
  BY DEF TabsOK, AdmittedIsLive
<1> HIDE DEF t
<1>5. CASE a \in retiring(c)
  <2>1. /\ retiredTab(t).lease = t.lease
        /\ retiredTab(t).attempt = t.attempt
        /\ ~retiredTab(t).admitted /\ retiredTab(t).retired
    BY <1>1 DEF retiredTab, Tabs
  <2> QED
    BY <1>2, <1>5, <2>1 DEF holds, t
<1>6. CASE a \notin retiring(c)
  BY <1>2, <1>3, <1>4, <1>6, NoTabType DEF holds, live, ended, t
<1> QED
  BY <1>5, <1>6

\* beginShutdown.
LEMMA ShutdownInv ==
    ASSUME NEW fs, NEW ss, NEW c, Sound(c, c.drain.affected, fs, ss)
    PROVE  Keeps(c, beginShutdown(c), fs, ss)
<1> DEFINE x == c.closed \cup epochsOf(c)
           tabs == retiredTabs(c)
           d == [c EXCEPT !.shuttingDown = TRUE, !.closed = x, !.tabs = tabs]
           draining == c.drain.affected
<1>1. c \in Coordinators /\ TabsOK(c, draining) /\ c.nextEpoch \in Nat
      /\ c.nextDrain \in Nat
  BY DEF Sound, TabsOK, Coordinators
<1>2. beginShutdown(c) = IF c.shuttingDown THEN c ELSE d
  BY DEF beginShutdown, epochsOf, retiredTabs, retiredTab, retiring
<1>3. ASSUME NEW a \in Authorities
      PROVE  c.tabs[a] \in Tabs /\ c.tabs[a].lease.epoch \in Nat
  BY <1>1 DEF Coordinators, Tabs, Leases
<1>4. x \in SUBSET Nat
  BY <1>1, <1>3 DEF Coordinators, epochsOf, retiring
<1>5. \A t \in Tabs : retiredTab(t) \in Tabs
  BY DEF retiredTab, Tabs
<1>6. tabs \in [Authorities -> Tabs]
  BY <1>3, <1>5 DEF retiredTabs
<1>7. \A e \in x : e \in c.closed \/ (e # 0 /\ \E a \in Authorities :
                                         e = c.tabs[a].lease.epoch)
  BY DEF epochsOf, retiring
<1>8. \A a \in retiring(c) : c.tabs[a].lease.epoch # 0
                             => c.tabs[a].lease.epoch \in x
  BY DEF epochsOf
<1>9. c.closed \subseteq x
  OBVIOUS
<1> HIDE DEF x, tabs
<1>10. /\ d \in Coordinators /\ d.closed = x /\ d.tabs = tabs
       /\ d.store = c.store /\ d.current = c.current
       /\ d.candidate = c.candidate /\ d.lkg = c.lkg
       /\ d.drain = c.drain /\ d.nextDrain = c.nextDrain
       /\ d.nextEpoch = c.nextEpoch /\ d.shuttingDown
       /\ d.candidatePromoted = c.candidatePromoted
       /\ d.failedClosed = c.failedClosed
  BY <1>1, <1>4, <1>6 DEF Coordinators
<1> HIDE DEF d
<1>11. ASSUME NEW a \in Authorities
       PROVE  /\ d.tabs[a].lease = c.tabs[a].lease
              /\ d.tabs[a].attempt = c.tabs[a].attempt
              /\ ~d.tabs[a].admitted /\ ~holds(d.tabs[a])
              /\ hasRequest(d.tabs[a]) => d.tabs[a].retired
              /\ a \notin retiring(c) => d.tabs[a] = c.tabs[a]
  BY <1>1, <1>10, RetiredTabs DEF tabs
<1>12. TokensFollowTabs(d)
  <2>1. /\ c.nextEpoch >= 1
        /\ \A e \in c.closed : 1 <= e /\ e < c.nextEpoch
        /\ \A a \in Authorities : c.tabs[a].lease.epoch < c.nextEpoch
        /\ \A a, b \in Authorities :
              a # b /\ c.tabs[a].lease.epoch = c.tabs[b].lease.epoch
              => c.tabs[a].lease.epoch = 0
    BY <1>1 DEF TabsOK, TokensFollowTabs
  <2>2. \A e \in x : 1 <= e /\ e < c.nextEpoch
    BY <1>3, <1>7, <2>1
  <2>3. ASSUME NEW a \in Authorities, hasRequest(d.tabs[a])
        PROVE  d.tabs[a].lease.epoch \in x /\ ended(d.tabs[a])
    <3>1. hasRequest(c.tabs[a]) /\ d.tabs[a].retired
      BY <1>11, <2>3 DEF hasRequest
    <3>2. CASE a \in retiring(c)
      BY <1>8, <1>11, <3>1, <3>2 DEF ended, hasRequest
    <3>3. CASE a \notin retiring(c)
      BY <1>1, <1>9, <1>11, <3>1, <3>3 DEF ended, TabsOK, TokensFollowTabs
    <3> QED
      BY <3>2, <3>3
  <2> QED
    BY <1>10, <1>11, <2>1, <2>2, <2>3 DEF TokensFollowTabs
<1>13. AdmittedIsLive(d)
  BY <1>11 DEF AdmittedIsLive
<1>14. OneIncarnation(d, draining)
  BY <1>1, <1>11 DEF OneIncarnation, TabsOK
<1>15. SelectionIsGood(d, fs)
  BY <1>10 DEF Sound, FailedIsGone, SelectionIsGood
<1>16. \A a \in Authorities :
          ~live(d.tabs[a]) /\ ~awaitsDrain(d.tabs[a])
  BY <1>11 DEF live, awaitsDrain, ended
<1>17. Sound(d, draining, fs, ss)
  BY <1>10, <1>12, <1>13, <1>14, <1>15, <1>16
  DEF Sound, TabsOK, FailedIsGone, TabIsFenced
<1>18. Follows(c, d)
  BY <1>1, <1>9, <1>10, <1>11 DEF Follows, Carries
<1>19. FailedAfter(c, d, fs) = fs
  BY <1>1, <1>10 DEF FailedAfter
<1>20. SparedAfter(c, d, ss) = ss
  BY <1>10 DEF SparedAfter, selects
<1>21. Keeps(c, d, fs, ss)
  BY <1>10, <1>17, <1>18, <1>19, <1>20 DEF Keeps
<1> QED
  BY <1>2, <1>21, KeepsSame

\* beginHostShutdownCleanup.
LEMMA CleanupInv ==
    ASSUME NEW fs, NEW ss, NEW c, Sound(c, c.drain.affected, fs, ss)
    PROVE  Keeps(c, beginHostShutdownCleanup(c), fs, ss)
<1> DEFINE p == FALSE
           f == c.failedClosed
           d == [c EXCEPT !.cleanupPending = p, !.failedClosed = f]
<1>1. c \in Coordinators /\ f \in BOOLEAN /\ p \in BOOLEAN
  BY DEF Sound, TabsOK, Coordinators
<1>2. beginHostShutdownCleanup(c) = d
  BY <1>1 DEF beginHostShutdownCleanup, Coordinators
<1>3. c.failedClosed => f
  OBVIOUS
<1>4. Keeps(c, c, fs, ss)
  BY KeepsSame
<1> HIDE DEF p, f
<1>5. Keeps(c, d, fs, ss)
  BY <1>1, <1>3, <1>4, FlagAfter
<1> QED
  BY <1>2, <1>5

-----------------------------------------------------------------------------
\* The inductive invariant.

\* The keys of launches.
Keys == [authority : Authorities, attempt : Sup!AttemptKey, epoch : Nat \ {0}]

\* Every launch whose token is open is the one its tab holds.
OpenIsHeld ==
    /\ issued \subseteq Keys
    /\ \A k \in issued : k.epoch \notin co.closed
                         => k = keyOfTab(co, k.authority)

\* What a rollback fenced stays closed, and what is used of it is awaited.
FencedIsAwaited ==
    /\ fenced \subseteq co.closed
    /\ fenced \cap inUse \subseteq co.drain.tickets

\* Clocks and ids.
TimesOK ==
    /\ now \in Nat /\ restarts \in Nat
    /\ \A b \in waiting : b.id \in Nat /\ b.deadline \in Nat
    /\ \A r \in reports : r.at \in Nat

\* The invariant of the module.
CoordinatorInv ==
    /\ plan \in Plans
    /\ Sound(co, co.drain.affected, failed, spared)
    /\ OpenIsHeld /\ FencedIsAwaited /\ TimesOK

\* What PromotionIsEarned and NoLaunchWhenClosed say of a step.
EarnedStep ==
    restarts' = restarts =>
      /\ co'.store.lastKnownGood # co.store.lastKnownGood
         => \E a \in Authorities :
              /\ co'.tabs[a].admitted /\ co'.tabs[a].healthy
              /\ ~co.tabs[a].healthy
              /\ co'.tabs[a].lease.version = co'.store.lastKnownGood
      /\ co.failedClosed => co'.failedClosed
      /\ co.shuttingDown => co'.shuttingDown
      /\ co.failedClosed \/ co.shuttingDown
            \/ (co.drain # NoDrain /\ co'.drain # NoDrain)
         => co'.nextEpoch = co.nextEpoch

\* The history variables after a call.
LEMMA CallHistory ==
    ASSUME NEW d, Call(d)
    PROVE  /\ co' = d
           /\ failed' = FailedAfter(co, d, failed)
           /\ spared' = SparedAfter(co, d, spared)
<1>1. failed' = FailedAfter(co, d, failed)
  BY DEF Call, FailedAfter, NewlySelected, NewDrains
<1>2. spared' = SparedAfter(co, d, spared)
  BY DEF Call, SparedAfter, NewlySpared, Selects, selects
<1> QED
  BY <1>1, <1>2 DEF Call

\* What a call makes of the keys that were issued.
LEMMA CallKeys ==
    ASSUME NEW d, co \in Coordinators, TokensFollowTabs(co),
           d \in Coordinators, Call(d), OpenIsHeld,
           co.closed \subseteq d.closed,
           \A a \in Authorities :
              hasRequest(co.tabs[a]) =>
                 \/ /\ d.tabs[a].lease.epoch = co.tabs[a].lease.epoch
                    /\ d.tabs[a].attempt = co.tabs[a].attempt
                 \/ co.tabs[a].lease.epoch \in d.closed
    PROVE  OpenIsHeld'
<1>1. co' = d /\ issued' = issued \cup NewLaunches(d)
  BY DEF Call
<1>2. co.nextEpoch \in Nat /\ co.nextEpoch >= 1
  BY DEF Coordinators, TokensFollowTabs
<1>3. ASSUME NEW k \in NewLaunches(d)
      PROVE  k \in Keys /\ k = keyOfTab(d, k.authority)
  <2>1. PICK a \in Authorities :
           d.tabs[a].lease.epoch >= co.nextEpoch /\ k = keyOfTab(d, a)
    BY <1>3 DEF NewLaunches
  <2>2. d.tabs[a].attempt \in Sup!AttemptKey /\ d.tabs[a].lease.epoch \in Nat
    BY DEF Coordinators, Tabs, Leases
  <2>3. d.tabs[a].lease.epoch \in Nat \ {0}
    BY <1>2, <2>1, <2>2
  <2> QED
    BY <2>1, <2>2, <2>3 DEF keyOfTab, Keys
<1>4. ASSUME NEW k \in issued, k.epoch \notin d.closed
      PROVE  k = keyOfTab(d, k.authority)
  <2>1. k \in Keys /\ k = keyOfTab(co, k.authority)
    BY <1>4 DEF OpenIsHeld
  <2>2. /\ k.authority \in Authorities /\ k.epoch # 0
        /\ k.epoch = co.tabs[k.authority].lease.epoch
        /\ k.attempt = co.tabs[k.authority].attempt
    BY <2>1 DEF Keys, keyOfTab
  <2>3. /\ d.tabs[k.authority].lease.epoch = k.epoch
        /\ d.tabs[k.authority].attempt = k.attempt
    BY <1>4, <2>2 DEF hasRequest
  <2> QED
    BY <2>1, <2>3 DEF Keys, keyOfTab
<1>5. issued' \subseteq Keys
  BY <1>1, <1>3 DEF OpenIsHeld
<1>6. ASSUME NEW k \in issued', k.epoch \notin d.closed
      PROVE  k = keyOfTab(d, k.authority)
  BY <1>1, <1>3, <1>4, <1>6
<1> QED
  BY <1>1, <1>5, <1>6 DEF OpenIsHeld

\* A batch that a call hands to a drain thread has an id and a deadline.
LEMMA CallTimes ==
    ASSUME NEW d, d \in Coordinators, Call(d), TimesOK,
           now' = now, restarts' = restarts, reports' \subseteq reports
    PROVE  TimesOK'
<1>1. d.drain.id \in Nat /\ d.drain.deadline \in Nat
  BY DEF Coordinators, Drains
<1>2. ASSUME NEW b \in waiting' PROVE b.id \in Nat /\ b.deadline \in Nat
  BY <1>1 DEF Call, NewDrains, TimesOK
<1> QED
  BY <1>2 DEF TimesOK

\* A call from the Host's queue.
LEMMA CallInv ==
    ASSUME CoordinatorInv, NEW d, Call(d), Allowed(co, d, failed, spared),
           inUse' = inUse, reports' = reports, now' = now,
           restarts' = restarts, plan' = plan
    PROVE  CoordinatorInv' /\ EarnedStep
<1>1. /\ co' = d
      /\ failed' = FailedAfter(co, d, failed)
      /\ spared' = SparedAfter(co, d, spared)
  BY CallHistory
<1>2. /\ Sound(d, d.drain.affected, FailedAfter(co, d, failed),
               SparedAfter(co, d, spared))
      /\ Carries(co, d) /\ Earns(co, d)
  BY DEF Allowed
<1>3. co \in Coordinators /\ d \in Coordinators /\ TokensFollowTabs(co)
      /\ co.nextDrain \in Nat /\ d.nextDrain \in Nat
  BY <1>2 DEF CoordinatorInv, Sound, TabsOK, Coordinators
<1>4. OpenIsHeld'
  BY <1>2, <1>3, CallKeys DEF CoordinatorInv, Carries
<1>5. TimesOK'
  BY <1>3, CallTimes DEF CoordinatorInv
<1>6. FencedIsAwaited'
  <2>1. /\ fenced \subseteq co.closed
        /\ fenced \cap inUse \subseteq co.drain.tickets
        /\ fenced' = fenced \cup UNION {x.tickets : x \in NewDrains(d)}
    BY DEF CoordinatorInv, FencedIsAwaited, Call
  <2>2. CASE co.drain # NoDrain \/ d.drain = NoDrain
    <3>1. NewDrains(d) = {}
      BY <1>2, <1>3, <2>2 DEF NewDrains, Carries
    <3>2. fenced' = fenced
      BY <2>1, <3>1
    <3>3. co.drain = NoDrain => fenced \cap inUse = {}
      BY <2>1 DEF NoDrain
    <3> QED
      BY <1>1, <1>2, <2>1, <2>2, <3>2, <3>3 DEF FencedIsAwaited, Carries
  <2>3. CASE co.drain = NoDrain /\ d.drain # NoDrain
    <3>1. NewDrains(d) = {d.drain} /\ d.drain.tickets \subseteq d.closed
      BY <1>2, <1>3, <2>3 DEF NewDrains, Carries
    <3>2. fenced' = fenced \cup d.drain.tickets
      BY <2>1, <3>1
    <3>3. fenced \cap inUse = {}
      BY <2>1, <2>3 DEF NoDrain
    <3> QED
      BY <1>1, <1>2, <2>1, <3>1, <3>2, <3>3 DEF FencedIsAwaited, Carries
  <2> QED
    BY <2>2, <2>3
<1>7. EarnedStep
  BY <1>1, <1>2 DEF EarnedStep, Earns, Carries, launchAllowed
<1> QED
  BY <1>1, <1>2, <1>4, <1>5, <1>6, <1>7 DEF CoordinatorInv

-----------------------------------------------------------------------------
\* The steps.

\* A call from the queue that changes something.
LEMMA EventInv ==
    ASSUME CoordinatorInv, NEW d, Event(d), Allowed(co, d, failed, spared),
           plan' = plan
    PROVE  CoordinatorInv' /\ EarnedStep
BY CallInv DEF Event

\* Calls that are calm, or quiet.
LEMMA CalmEvent ==
    ASSUME CoordinatorInv, NEW d, Event(d),
           Sound(d, co.drain.affected, failed, spared),
           Follows(co, d), Calm(co, d), plan' = plan
    PROVE  CoordinatorInv' /\ EarnedStep
<1>1. co \in Coordinators
  BY DEF CoordinatorInv, Sound, TabsOK
<1>2. Allowed(co, d, failed, spared)
  BY <1>1, CalmKeeps, KeepsIsAllowed
<1> QED
  BY <1>2, EventInv

\* Calls that promote nothing.
LEMMA KeepsEvent ==
    ASSUME CoordinatorInv, NEW d, Event(d), Keeps(co, d, failed, spared),
           plan' = plan
    PROVE  CoordinatorInv' /\ EarnedStep
BY KeepsIsAllowed, EventInv

\* Installation and startup.
LEMMA PackageCallInv ==
    ASSUME CoordinatorInv, PackageCall, plan' = plan
    PROVE  CoordinatorInv' /\ EarnedStep
<1>1. Sound(co, co.drain.affected, failed, spared) /\ plan \in Plans
  BY DEF CoordinatorInv
<1>2. Guards \subseteq BOOLEAN
  BY DEF Guards
<1>3. plan.sites \subseteq Sites
  BY <1>1, PlansAssumption
<1>4. ASSUME NEW v \in Versions, NEW reach \in Stages,
             NEW settles \in InstallGuards, NEW closes \in Guards,
             InstallAndActivate(v, reach, settles, closes)
      PROVE  CoordinatorInv' /\ EarnedStep
  <2> DEFINE d == installAndActivate(co, v, reach, settles, closes)
  <2>1. Event(d)
    BY <1>4 DEF InstallAndActivate
  <2>2. closes \in BOOLEAN
    BY <1>2
  <2>3. Keeps(co, d, failed, spared)
    BY <1>1, <2>2, InstallInv
  <2> HIDE DEF d
  <2> QED
    BY <2>1, <2>3, KeepsEvent
<1>5. ASSUME NEW site \in plan.sites, NEW succeeds \in BOOLEAN,
             NEW settles \in Guards,
             InstallSitePackage(site, succeeds, settles)
      PROVE  CoordinatorInv' /\ EarnedStep
  <2> DEFINE d == installSitePackage(co, site, succeeds, settles)
  <2>1. Event(d)
    BY <1>5 DEF InstallSitePackage
  <2>2. settles \in BOOLEAN /\ site \in Sites
    BY <1>2, <1>3
  <2>3. Keeps(co, d, failed, spared)
    BY <1>1, <2>2, InstallSiteInv
  <2> HIDE DEF d
  <2> QED
    BY <2>1, <2>3, KeepsEvent
<1>6. ASSUME NEW settles \in Guards, NEW closes \in Guards,
             StartOffline(settles, closes)
      PROVE  CoordinatorInv' /\ EarnedStep
  <2> DEFINE d == startOffline(co, settles, closes)
  <2>1. Event(d)
    BY <1>6 DEF StartOffline
  <2>2. settles \in BOOLEAN /\ closes \in BOOLEAN
    BY <1>2
  <2>3. Keeps(co, d, failed, spared)
    BY <1>1, <2>2, StartInv
  <2> HIDE DEF d
  <2> QED
    BY <2>1, <2>3, KeepsEvent
<1> QED
  BY <1>4, <1>5, <1>6 DEF PackageCall

\* Launch requests, closing and shutdown.
LEMMA TabCallInv ==
    ASSUME CoordinatorInv, TabCall, plan' = plan
    PROVE  CoordinatorInv' /\ EarnedStep
<1>1. /\ Sound(co, co.drain.affected, failed, spared) /\ plan \in Plans
      /\ now \in Nat
  BY DEF CoordinatorInv, TimesOK
<1>2. Guards \subseteq BOOLEAN
  BY DEF Guards
<1>3. Packages \subseteq {App} \cup Sites
  BY <1>1, PlansAssumption DEF Packages
<1>4. Called \subseteq Authorities
  BY DEF Called
<1>5. ASSUME NEW a \in Called, NEW intent \in Intents,
             NEW package \in Packages, NEW settles \in Guards,
             RequestTabLaunch(a, intent, package, settles)
      PROVE  CoordinatorInv' /\ EarnedStep
  <2> DEFINE d == requestTabLaunch(co, a, intent, package, settles, now)
  <2>1. Event(d) /\ d # co
    BY <1>5 DEF RequestTabLaunch, Event
  <2>2. settles \in BOOLEAN /\ a \in Authorities
        /\ package \in {App} \cup Sites
    BY <1>2, <1>3, <1>4
  <2>3. launchAllowed(co)
    BY <2>1 DEF requestTabLaunch
  <2> DEFINE draining == co.drain.affected
  <2>4. draining = {}
    BY <2>3 DEF launchAllowed, NoDrain
  <2>5. Sound(co, draining, failed, spared)
    BY <1>1
  <2> HIDE DEF draining
  <2>6. Sound(d, draining, failed, spared) /\ Follows(co, d) /\ Calm(co, d)
    BY <1>1, <2>2, <2>3, <2>4, <2>5, RequestInv
  <2> HIDE DEF d
  <2> QED
    BY <2>1, <2>6, CalmEvent DEF draining
<1>6. ASSUME NEW a \in Called, CloseTab(a)
      PROVE  CoordinatorInv' /\ EarnedStep
  <2> DEFINE d == closeTab(co, a)
  <2>1. Event(d)
    BY <1>6 DEF CloseTab
  <2>2. Sound(d, co.drain.affected, failed, spared) /\ Quiet(co, d)
    BY <1>1, <1>4, CloseInv
  <2> HIDE DEF d
  <2> QED
    BY <2>1, <2>2, CalmEvent DEF Quiet
<1>7. ASSUME BeginShutdown PROVE CoordinatorInv' /\ EarnedStep
  <2> DEFINE d == beginShutdown(co)
  <2>1. Event(d)
    BY <1>7 DEF BeginShutdown
  <2>2. Keeps(co, d, failed, spared)
    BY <1>1, ShutdownInv
  <2> HIDE DEF d
  <2> QED
    BY <2>1, <2>2, KeepsEvent
<1>8. ASSUME BeginHostShutdownCleanup PROVE CoordinatorInv' /\ EarnedStep
  <2> DEFINE d == beginHostShutdownCleanup(co)
  <2>1. Event(d)
    BY <1>8 DEF BeginHostShutdownCleanup
  <2>2. Keeps(co, d, failed, spared)
    BY <1>1, CleanupInv
  <2> HIDE DEF d
  <2> QED
    BY <2>1, <2>2, KeepsEvent
<1> QED
  BY <1>5, <1>6, <1>7, <1>8 DEF TabCall

\* Events of Workers, late ones included.
LEMMA WorkerEventInv ==
    ASSUME CoordinatorInv, WorkerEvent, plan' = plan
    PROVE  CoordinatorInv' /\ EarnedStep
<1>1. /\ Sound(co, co.drain.affected, failed, spared) /\ now \in Nat
      /\ issued \subseteq Keys
  BY DEF CoordinatorInv, TimesOK, OpenIsHeld
<1>2. CapturedTimes \subseteq Nat
  BY <1>1 DEF CapturedTimes
<1>3. ASSUME NEW key \in issued
      PROVE  key.authority \in Authorities /\ key.attempt \in Sup!AttemptKey
  BY <1>1 DEF Keys
<1>4. ASSUME NEW key \in issued, CancelPendingLaunch(key)
      PROVE  CoordinatorInv' /\ EarnedStep
  <2> DEFINE d == cancelPendingLaunch(co, key)
  <2>1. Event(d)
    BY <1>4 DEF CancelPendingLaunch
  <2>2. Sound(d, co.drain.affected, failed, spared) /\ Quiet(co, d)
    BY <1>1, <1>3, CancelInv
  <2> HIDE DEF d
  <2> QED
    BY <2>1, <2>2, CalmEvent DEF Quiet
<1>5. ASSUME NEW key \in issued, WorkerCleanupFailed(key)
      PROVE  CoordinatorInv' /\ EarnedStep
  <2> DEFINE d == workerCleanupFailed(co, key)
  <2>1. Event(d)
    BY <1>5 DEF WorkerCleanupFailed
  <2>2. /\ Sound(d, co.drain.affected, failed, spared)
        /\ Follows(co, d) /\ Calm(co, d)
    BY <1>1, <1>3, CleanupFailedInv
  <2> HIDE DEF d
  <2> QED
    BY <2>1, <2>2, CalmEvent
<1>6. ASSUME NEW key \in issued, NEW at \in CapturedTimes,
             AdmitAuthenticatedWorker(key, at)
      PROVE  CoordinatorInv' /\ EarnedStep
  <2> DEFINE d == admitAuthenticatedWorker(co, key, at)
  <2>1. Event(d)
    BY <1>6 DEF AdmitAuthenticatedWorker
  <2>2. Sound(d, co.drain.affected, failed, spared) /\ Quiet(co, d)
    BY <1>1, <1>2, <1>3, AdmitInv
  <2> HIDE DEF d
  <2> QED
    BY <2>1, <2>2, CalmEvent DEF Quiet
<1>7. ASSUME NEW key \in issued, NEW io \in Outcomes,
             WorkerAdmissionFailed(key, io)
      PROVE  CoordinatorInv' /\ EarnedStep
  <2> DEFINE d == workerAdmissionFailed(co, key, io, now)
  <2>1. Event(d)
    BY <1>7 DEF WorkerAdmissionFailed
  <2>2. Keeps(co, d, failed, spared)
    BY <1>1, <1>3, AdmissionFailedInv
  <2> HIDE DEF d
  <2> QED
    BY <2>1, <2>2, KeepsEvent
<1>8. ASSUME NEW key \in issued, NEW io \in Outcomes,
             NEW at \in CapturedTimes, Heartbeat(key, io, at)
      PROVE  CoordinatorInv' /\ EarnedStep
  <2> DEFINE d == heartbeat(co, key, io, at)
  <2>1. Event(d)
    BY <1>8 DEF Heartbeat
  <2>2. Allowed(co, d, failed, spared)
    BY <1>1, <1>2, <1>3, HeartbeatInv
  <2> HIDE DEF d
  <2> QED
    BY <2>1, <2>2, EventInv
<1>9. ASSUME NEW key \in issued, NEW io \in Outcomes,
             NEW reason \in Sup!ExitReasons, WorkerExited(key, reason, io)
      PROVE  CoordinatorInv' /\ EarnedStep
  <2> DEFINE d == workerExited(co, key, reason, io, now)
  <2>1. Event(d)
    BY <1>9 DEF WorkerExited
  <2>2. Keeps(co, d, failed, spared)
    BY <1>1, <1>3, ExitedInv
  <2> HIDE DEF d
  <2> QED
    BY <2>1, <2>2, KeepsEvent
<1>10. ASSUME NEW io \in Outcomes, NEW at \in CapturedTimes,
              CheckHealth(io, at)
       PROVE  CoordinatorInv' /\ EarnedStep
  <2> DEFINE d == checkHealth(co, io, at)
  <2>1. Event(d)
    BY <1>10 DEF CheckHealth
  <2>2. Keeps(co, d, failed, spared)
    BY <1>1, <1>2, CheckHealthInv
  <2> HIDE DEF d
  <2> QED
    BY <2>1, <2>2, KeepsEvent
<1> QED
  BY <1>4, <1>5, <1>6, <1>7, <1>8, <1>9, <1>10 DEF WorkerEvent

\* The drain thread and its reports.
LEMMA DrainThreadInv ==
    ASSUME CoordinatorInv, DrainThread, plan' = plan
    PROVE  CoordinatorInv' /\ EarnedStep
<1>1. /\ Sound(co, co.drain.affected, failed, spared) /\ TimesOK
      /\ OpenIsHeld /\ FencedIsAwaited
  BY DEF CoordinatorInv
<1>2. ASSUME NEW batch \in waiting, DrainWaitReturns(batch)
      PROVE  CoordinatorInv' /\ EarnedStep
  <2>1. /\ co' = co /\ now' = now /\ inUse' = inUse /\ restarts' = restarts
        /\ issued' = issued /\ fenced' = fenced /\ failed' = failed
        /\ spared' = spared
        /\ waiting' = waiting \ {batch}
        /\ reports' = reports \cup {[id |-> batch.id,
                                     drained |-> drained(batch),
                                     at |-> completionTime(batch)]}
    BY <1>2 DEF DrainWaitReturns, host
  <2>2. completionTime(batch) \in Nat
    BY <1>1 DEF completionTime, TimesOK
  <2>3. TimesOK'
    BY <1>1, <2>1, <2>2 DEF TimesOK
  <2>4. OpenIsHeld' /\ FencedIsAwaited'
    BY <1>1, <2>1 DEF OpenIsHeld, FencedIsAwaited
  <2>5. EarnedStep
    BY <2>1 DEF EarnedStep
  <2> QED
    BY <2>1, <2>3, <2>4, <2>5 DEF CoordinatorInv
<1>3. ASSUME NEW r \in reports, DeliverDrainReport(r)
      PROVE  CoordinatorInv' /\ EarnedStep
  <2> DEFINE d == IF r.drained
                    THEN authorityDrainCompleted(co, r.id, inUse, r.at)
                    ELSE authorityDrainTimedOut(co, r.id, r.at)
             uses == inUse
             fs == failed
             ss == spared
  <2>1. /\ reports' = reports \ {r} /\ Call(d)
        /\ now' = now /\ inUse' = inUse /\ restarts' = restarts
    BY <1>3 DEF DeliverDrainReport, host
  <2>2. r.at \in Nat
    BY <1>1 DEF TimesOK
  <2>3. DrainStep(co, d, inUse, failed, spared)
    BY <1>1, <2>2, DrainReportInv
  <2> HIDE DEF d
  <2>4. /\ Sound(d, d.drain.affected, failed, spared) /\ Passes(co, d)
        /\ co.drain = NoDrain => d.drain = NoDrain
        /\ co.drain # NoDrain =>
              \/ /\ d.drain # NoDrain /\ d.drain.tickets = co.drain.tickets
                 /\ d.nextEpoch = co.nextEpoch
              \/ d.drain = NoDrain /\ co.drain.tickets \cap inUse = {}
    BY <2>3 DEF DrainStep
  <2>5. /\ co' = d
        /\ failed' = FailedAfter(co, d, failed)
        /\ spared' = SparedAfter(co, d, spared)
    BY <2>1, CallHistory
  <2>6. co \in Coordinators /\ d \in Coordinators /\ TokensFollowTabs(co)
        /\ co.nextDrain \in Nat
    BY <1>1, <2>4 DEF Sound, TabsOK, Coordinators
  <2>7. failed' = failed /\ spared' = spared
    BY <2>4, <2>5, <2>6 DEF FailedAfter, SparedAfter, selects, Passes
  <2>8. OpenIsHeld'
    BY <1>1, <2>1, <2>4, <2>6, CallKeys DEF Passes
  <2>9. TimesOK'
    BY <1>1, <2>1, <2>6, CallTimes
  <2>10. FencedIsAwaited'
    <3>1. NewDrains(d) = {}
      BY <2>4, <2>6 DEF NewDrains, Passes
    <3>2. fenced' = fenced
      BY <2>1, <3>1 DEF Call
    <3>3. /\ fenced \subseteq co.closed
          /\ fenced \cap inUse \subseteq co.drain.tickets
      BY <1>1 DEF FencedIsAwaited
    <3>4. co.drain = NoDrain => fenced \cap inUse = {}
      BY <3>3 DEF NoDrain
    <3>5. fenced \cap inUse \subseteq d.drain.tickets
      BY <2>4, <3>3, <3>4
    <3> QED
      BY <2>1, <2>4, <2>5, <3>2, <3>3, <3>5 DEF FencedIsAwaited, Passes
  <2>11. EarnedStep
    BY <2>4, <2>5 DEF EarnedStep, Passes
  <2> QED
    BY <2>4, <2>5, <2>7, <2>8, <2>9, <2>10, <2>11 DEF CoordinatorInv
<1> QED
  BY <1>2, <1>3 DEF DrainThread

\* A version directory is altered or goes away.
LEMMA DirectoriesInv ==
    ASSUME NEW draining, NEW fs, NEW ss, NEW c, Sound(c, draining, fs, ss),
           NEW present \in SUBSET Versions, NEW corrupt \in SUBSET Versions
    PROVE  LET d == [c EXCEPT !.present = present, !.corrupt = corrupt]
           IN  Sound(d, draining, fs, ss)
<1> DEFINE d == [c EXCEPT !.present = present, !.corrupt = corrupt]
<1>1. c \in Coordinators
  BY DEF Sound, TabsOK
<1>2. /\ d \in Coordinators
      /\ d.tabs = c.tabs /\ d.closed = c.closed
      /\ d.nextEpoch = c.nextEpoch /\ d.drain = c.drain
      /\ d.shuttingDown = c.shuttingDown
      /\ d.failedClosed = c.failedClosed /\ d.store = c.store
      /\ d.current = c.current /\ d.candidate = c.candidate
      /\ d.lkg = c.lkg /\ d.candidatePromoted = c.candidatePromoted
  BY <1>1 DEF Coordinators
<1> HIDE DEF d
<1>3. TabsOK(d, draining)
  BY <1>2, SameTabs DEF Sound
<1>4. SelectionIsGood(d, fs)
  BY <1>2 DEF Sound, FailedIsGone, SelectionIsGood
<1>5. ASSUME NEW a \in Authorities
      PROVE  /\ TabIsFenced(d, d.tabs[a], fs, ss)
             /\ awaitsDrain(d.tabs[a]) => d.failedClosed \/ a \in draining
             /\ a \in draining => ~live(d.tabs[a])
  BY <1>2 DEF Sound, FailedIsGone, TabIsFenced, candidateLease
<1>6. fs \subseteq Versions
  BY DEF Sound, FailedIsGone
<1> QED
  BY <1>2, <1>3, <1>4, <1>5, <1>6 DEF Sound, FailedIsGone, d

\* A coordinator that was just constructed: nothing runs, and the version that
\* the record selects has been selected again.
LEMMA NewInv ==
    ASSUME NEW store \in Store!ActivationStates,
           NEW present \in SUBSET Versions, NEW corrupt \in SUBSET Versions,
           NEW sites \in SUBSET Sites, NEW fs \in SUBSET Versions,
           store.current \notin fs, NEW ss
    PROVE  LET d == NewCoordinator(store, present, corrupt, sites)
           IN  Sound(d, d.drain.affected, fs, ss)
<1> DEFINE tabs == [a \in Authorities |-> NoTab]
           d == NewCoordinator(store, present, corrupt, sites)
<1>1. tabs \in [Authorities -> Tabs] /\ \A a \in Authorities : tabs[a] = NoTab
  BY NoTabType
<1>2. NoDescriptor \in Descriptors /\ NoDescriptor.version \notin fs
  BY NoVersionAssumption DEF Descriptors, NoDescriptor
<1>3. NoDrain \in Drains /\ NoDrain.affected = {}
  BY DEF NoDrain, Drains
<1>4. /\ d.tabs = tabs /\ d.closed = {} /\ d.nextEpoch = 1
      /\ d.drain = NoDrain /\ d.store = store
      /\ d.current = NoDescriptor /\ d.candidate = NoDescriptor
  BY DEF NewCoordinator
<1>5. d \in Coordinators
  <2> HIDE DEF tabs
  <2>1. d = [store |-> store, present |-> present, corrupt |-> corrupt,
             sites |-> sites, closed |-> {},
             current |-> NoDescriptor, candidate |-> NoDescriptor,
             lkg |-> NoDescriptor, tabs |-> tabs,
             drain |-> NoDrain, cleanupPending |-> FALSE,
             nextEpoch |-> 1, nextDrain |-> 1,
             candidatePromoted |-> FALSE, rollbackStarted |-> FALSE,
             shuttingDown |-> FALSE, failedClosed |-> FALSE]
    BY DEF NewCoordinator, tabs
  <2> HIDE DEF d
  <2> QED
    BY <1>1, <1>2, <1>3, <2>1 DEF Coordinators
<1> HIDE DEF tabs, d
<1>6. TokensFollowTabs(d)
  BY <1>1, <1>4, NoTabType DEF TokensFollowTabs
<1>7. AdmittedIsLive(d)
  BY <1>1, <1>4, NoTabType DEF AdmittedIsLive
<1>8. OneIncarnation(d, {})
  BY <1>1, <1>4 DEF OneIncarnation, holds
<1>9. \A a \in Authorities :
         ~live(d.tabs[a]) /\ ~awaitsDrain(d.tabs[a])
  BY <1>1, <1>4, NoTabType DEF live, awaitsDrain
<1>10. SelectionIsGood(d, fs)
  BY <1>2, <1>4 DEF SelectionIsGood
<1>11. Sound(d, {}, fs, ss)
  BY <1>5, <1>6, <1>7, <1>8, <1>9, <1>10
  DEF Sound, TabsOK, FailedIsGone, TabIsFenced
<1> QED
  BY <1>3, <1>4, <1>11 DEF d

\* What happens around the coordinator.
LEMMA EnvironmentInv ==
    ASSUME CoordinatorInv, Environment, plan' = plan
    PROVE  CoordinatorInv' /\ EarnedStep
<1>1. /\ Sound(co, co.drain.affected, failed, spared) /\ TimesOK
      /\ OpenIsHeld /\ FencedIsAwaited
  BY DEF CoordinatorInv
<1>2. co \in Coordinators
  BY <1>1 DEF Sound, TabsOK
<1>3. ASSUME UNCHANGED <<co, waiting, reports, issued, fenced, failed,
                         spared, restarts>>,
             now' \in Nat, FencedIsAwaited'
      PROVE  CoordinatorInv' /\ EarnedStep
  <2>1. OpenIsHeld' /\ TimesOK'
    BY <1>1, <1>3 DEF OpenIsHeld, TimesOK
  <2>2. EarnedStep
    BY <1>3 DEF EarnedStep
  <2> QED
    BY <1>1, <1>3, <2>1, <2>2 DEF CoordinatorInv
<1>4. ASSUME NEW key \in issued, AcquireUse(key)
      PROVE  CoordinatorInv' /\ EarnedStep
  <2>1. key.epoch \notin fenced
    BY <1>1, <1>4 DEF AcquireUse, FencedIsAwaited
  <2>2. FencedIsAwaited'
    BY <1>1, <1>4, <2>1 DEF AcquireUse, FencedIsAwaited
  <2> QED
    BY <1>1, <1>3, <1>4, <2>2 DEF AcquireUse, TimesOK
<1>5. ASSUME NEW epoch \in inUse, ReleaseUse(epoch)
      PROVE  CoordinatorInv' /\ EarnedStep
  <2>1. FencedIsAwaited'
    BY <1>1, <1>5 DEF ReleaseUse, FencedIsAwaited
  <2> QED
    BY <1>1, <1>3, <1>5, <2>1 DEF ReleaseUse, TimesOK
<1>6. ASSUME Tick PROVE CoordinatorInv' /\ EarnedStep
  <2>1. FencedIsAwaited'
    BY <1>1, <1>6 DEF Tick, FencedIsAwaited
  <2>2. now' \in Nat
    BY <1>1, <1>6 DEF Tick, TimesOK
  <2> QED
    BY <1>3, <1>6, <2>1, <2>2 DEF Tick
<1>7. ASSUME NEW present \in SUBSET Versions, NEW corrupt \in SUBSET Versions,
             co' = [co EXCEPT !.present = present, !.corrupt = corrupt],
             UNCHANGED <<host, waiting, reports, issued, fenced, failed,
                         spared>>
      PROVE  CoordinatorInv' /\ EarnedStep
  <2> DEFINE draining == co.drain.affected
             d == [co EXCEPT !.present = present, !.corrupt = corrupt]
  <2>7. Sound(co, draining, failed, spared)
    BY <1>1
  <2> HIDE DEF draining
  <2>8. Sound(d, draining, failed, spared)
    BY <2>7, DirectoriesInv
  <2>10. /\ d.tabs = co.tabs /\ d.closed = co.closed
         /\ d.nextEpoch = co.nextEpoch /\ d.drain = co.drain
         /\ d.shuttingDown = co.shuttingDown
         /\ d.failedClosed = co.failedClosed /\ d.store = co.store
    BY <1>2 DEF Coordinators
  <2>9. co' = d
    BY <1>7
  <2> HIDE DEF d
  <2>1. /\ Sound(co', co.drain.affected, failed, spared)
        /\ co'.tabs = co.tabs /\ co'.closed = co.closed
        /\ co'.nextEpoch = co.nextEpoch /\ co'.drain = co.drain
        /\ co'.shuttingDown = co.shuttingDown
        /\ co'.failedClosed = co.failedClosed /\ co'.store = co.store
    BY <2>8, <2>9, <2>10 DEF draining
  <2>2. OpenIsHeld'
    BY <1>1, <1>7, <2>1 DEF OpenIsHeld, keyOfTab
  <2>3. FencedIsAwaited'
    BY <1>1, <1>7, <2>1 DEF FencedIsAwaited, host
  <2>4. TimesOK'
    BY <1>1, <1>7 DEF TimesOK, host
  <2>5. EarnedStep
    BY <2>1 DEF EarnedStep
  <2>6. failed' = failed /\ spared' = spared
    BY <1>7
  <2> QED
    BY <2>1, <2>2, <2>3, <2>4, <2>5, <2>6 DEF CoordinatorInv
<1>8. ASSUME NEW v \in Versions, DamageVersion(v)
      PROVE  CoordinatorInv' /\ EarnedStep
  <2> DEFINE present == co.present
             corrupt == co.corrupt \cup {v}
  <2>1. present \in SUBSET Versions /\ corrupt \in SUBSET Versions
    BY <1>2 DEF Coordinators
  <2>2. /\ co' = [co EXCEPT !.present = present, !.corrupt = corrupt]
        /\ UNCHANGED <<host, waiting, reports, issued, fenced, failed, spared>>
    BY <1>2, <1>8 DEF DamageVersion, Coordinators
  <2> HIDE DEF present, corrupt
  <2> QED
    BY <1>7, <2>1, <2>2
<1>9. ASSUME NEW v \in Versions, LoseVersion(v)
      PROVE  CoordinatorInv' /\ EarnedStep
  <2> DEFINE present == co.present \ {v}
             corrupt == co.corrupt \cup {v}
  <2>1. present \in SUBSET Versions /\ corrupt \in SUBSET Versions
    BY <1>2 DEF Coordinators
  <2>2. /\ co' = [co EXCEPT !.present = present, !.corrupt = corrupt]
        /\ UNCHANGED <<host, waiting, reports, issued, fenced, failed, spared>>
    BY <1>9 DEF LoseVersion
  <2> HIDE DEF present, corrupt
  <2> QED
    BY <1>7, <2>1, <2>2
<1>10. ASSUME RestartHost PROVE CoordinatorInv' /\ EarnedStep
  <2> DEFINE fs == failed \ {co.store.current}
  <2>1. /\ co' = NewCoordinator(co.store, co.present, co.corrupt, co.sites)
        /\ restarts' = restarts + 1 /\ now' = now
        /\ inUse' = {} /\ waiting' = {} /\ reports' = {}
        /\ issued' = {} /\ fenced' = {} /\ spared' = {} /\ failed' = fs
    BY <1>10 DEF RestartHost
  <2>2. fs \in SUBSET Versions /\ co.store.current \notin fs
    BY <1>1 DEF Sound, FailedIsGone
  <2>3. /\ co.store \in Store!ActivationStates
        /\ co.present \in SUBSET Versions /\ co.corrupt \in SUBSET Versions
        /\ co.sites \in SUBSET Sites
    BY <1>2 DEF Coordinators
  <2> HIDE DEF fs
  <2>4. Sound(co', co'.drain.affected, failed', spared')
    BY <2>1, <2>2, <2>3, NewInv
  <2>5. OpenIsHeld' /\ FencedIsAwaited' /\ TimesOK'
    BY <1>1, <2>1 DEF OpenIsHeld, FencedIsAwaited, TimesOK
  <2>6. restarts' # restarts
    BY <1>1, <2>1 DEF TimesOK
  <2>7. EarnedStep
    BY <2>6 DEF EarnedStep
  <2> QED
    BY <2>4, <2>5, <2>7 DEF CoordinatorInv
<1> QED
  BY <1>4, <1>5, <1>6, <1>8, <1>9, <1>10 DEF Environment

-----------------------------------------------------------------------------
\* The invariant holds.

\* It holds when the Host starts.
LEMMA CoordinatorInit ==
    ASSUME Init PROVE CoordinatorInv
<1> DEFINE store == InitialStore
           present == {plan.knownGood} \ {NoVersion}
           none == {}
<1>1. plan \in Plans /\ plan.knownGood \in Versions \cup {NoVersion}
  BY PlansAssumption DEF Init
<1>2. store \in Store!ActivationStates /\ present \in SUBSET Versions
  BY <1>1 DEF InitialStore, Store!EmptyState, Store!ActivationStates
<1>3. co = NewCoordinator(store, present, none, none)
      /\ failed = none /\ spared = none
  BY DEF Init
<1>4. none \in SUBSET Versions /\ none \in SUBSET Sites
      /\ store.current \notin none
  OBVIOUS
<1>5. OpenIsHeld /\ FencedIsAwaited /\ TimesOK
  BY DEF Init, OpenIsHeld, FencedIsAwaited, TimesOK
<1> HIDE DEF store, present, none
<1>6. Sound(co, co.drain.affected, failed, spared)
  BY <1>2, <1>3, <1>4, NewInv
<1> QED
  BY <1>1, <1>5, <1>6 DEF CoordinatorInv

\* And every step keeps it, and is earned.
LEMMA CoordinatorStep ==
    ASSUME CoordinatorInv, [Next]_vars
    PROVE  CoordinatorInv' /\ (Next => EarnedStep)
<1>1. CASE UNCHANGED vars
  <2>1. CoordinatorInv'
    BY <1>1 DEF vars, CoordinatorInv, OpenIsHeld, FencedIsAwaited, TimesOK
  <2>2. EarnedStep
    BY <1>1 DEF vars, EarnedStep
  <2> QED
    BY <2>1, <2>2
<1>2. CASE Next
  <2>1. plan' = plan
    BY <1>2 DEF Next
  <2> QED
    BY <1>2, <2>1, PackageCallInv, TabCallInv, WorkerEventInv, DrainThreadInv,
       EnvironmentInv DEF Next
<1> QED
  BY <1>1, <1>2

\* So it always holds.
LEMMA CoordinatorInvHolds == Spec => []CoordinatorInv
<1>1. Init => CoordinatorInv
  BY CoordinatorInit
<1>2. CoordinatorInv /\ [Next]_vars => CoordinatorInv'
  BY CoordinatorStep
<1> QED
  BY <1>1, <1>2, PTL DEF Spec

-----------------------------------------------------------------------------
\* The theorems.

\* No launch, restart, cancellation or replacement orphans an authority: every
\* open token is that of the one live launch of its browser tab, and every
\* admitted Worker holds one.
THEOREM AuthoritiesAreLive == Spec => []AuthorityIsLive
<1>1. ASSUME CoordinatorInv PROVE AuthorityIsLive
  <2>1. /\ co \in Coordinators
        /\ TokensFollowTabs(co) /\ AdmittedIsLive(co)
        /\ OneIncarnation(co, co.drain.affected)
    BY <1>1 DEF CoordinatorInv, Sound, TabsOK
  <2>2. ASSUME NEW k \in issued, k.epoch \notin co.closed
        PROVE  /\ k.authority \in Authorities
               /\ k = keyOfTab(co, k.authority)
               /\ co.tabs[k.authority].lease.epoch = k.epoch
               /\ ~ended(co.tabs[k.authority])
               /\ holds(co.tabs[k.authority])
    <3>1. k \in Keys /\ k = keyOfTab(co, k.authority)
      BY <1>1, <2>2 DEF CoordinatorInv, OpenIsHeld
    <3>2. /\ k.authority \in Authorities /\ k.epoch # 0
          /\ k.epoch = co.tabs[k.authority].lease.epoch
      BY <3>1 DEF Keys, keyOfTab
    <3>3. ~ended(co.tabs[k.authority])
      BY <2>1, <2>2, <3>2 DEF TokensFollowTabs, hasRequest
    <3> QED
      BY <3>1, <3>2, <3>3, NoTabType DEF holds, ended, hasRequest
  <2>3. OneOpenAuthorityPerTab
    <3>1. ASSUME NEW j \in issued, NEW k \in issued,
                 j.epoch \notin co.closed, k.epoch \notin co.closed,
                 j.authority.tab = k.authority.tab
          PROVE  j = k
      <4>1. /\ j.authority \in Authorities /\ holds(co.tabs[j.authority])
            /\ j = keyOfTab(co, j.authority)
        BY <2>2, <3>1
      <4>2. /\ k.authority \in Authorities /\ holds(co.tabs[k.authority])
            /\ k = keyOfTab(co, k.authority)
        BY <2>2, <3>1
      <4>3. j.authority = k.authority
        BY <2>1, <3>1, <4>1, <4>2 DEF OneIncarnation
      <4> QED
        BY <4>1, <4>2, <4>3
    <3> QED
      BY <2>2, <3>1 DEF OneOpenAuthorityPerTab
  <2>4. AdmittedAuthorityIsLive
    <3>1. ASSUME NEW a \in Authorities, co.tabs[a].admitted
          PROVE  /\ co.tabs[a].lease.epoch \in 1 .. co.nextEpoch - 1
                 /\ co.tabs[a].lease.epoch \notin co.closed
                 /\ ~ended(co.tabs[a])
                 /\ co.tabs[a].sup.handshaken
      <4>1. live(co.tabs[a]) /\ co.tabs[a].sup.handshaken
        BY <2>1, <3>1 DEF AdmittedIsLive
      <4>2. co.tabs[a].lease.epoch \in Nat /\ co.nextEpoch \in Nat
        BY <2>1 DEF Coordinators, Tabs, Leases
      <4>3. /\ co.tabs[a].lease.epoch # 0
            /\ co.tabs[a].lease.epoch < co.nextEpoch
            /\ co.tabs[a].lease.epoch \notin co.closed
        BY <2>1, <4>1 DEF live, hasRequest, TokensFollowTabs
      <4>4. ASSUME NEW e \in Nat, NEW n \in Nat, e # 0, e < n
            PROVE  e \in 1 .. n - 1
        BY <4>4
      <4>5. co.tabs[a].lease.epoch \in 1 .. co.nextEpoch - 1
        BY <4>2, <4>3, <4>4
      <4> QED
        BY <4>1, <4>3, <4>5 DEF live
    <3> QED
      BY <3>1 DEF AdmittedAuthorityIsLive
  <2> QED
    BY <2>3, <2>4 DEF AuthorityIsLive
<1> QED
  BY <1>1, CoordinatorInvHolds, PTL

\* A rollback fences the failed version in every tab, and its drain stays
\* pending until the last use of an authority it revoked is released.
THEOREM RollbacksAreFenced == Spec => []RollbackIsFenced
<1>1. ASSUME CoordinatorInv PROVE RollbackIsFenced
  <2>1. /\ TokensFollowTabs(co)
        /\ FailedIsGone(co, co.drain.affected, failed, spared)
    BY <1>1 DEF CoordinatorInv, Sound, TabsOK
  <2>2. ASSUME NEW k \in issued, k.epoch \notin co.closed,
               co.tabs[k.authority].lease.version \in failed
        PROVE  /\ co.tabs[k.authority].lease.version \in spared
               /\ ~co.tabs[k.authority].candidate
    <3>1. k \in Keys /\ k = keyOfTab(co, k.authority)
      BY <1>1, <2>2 DEF CoordinatorInv, OpenIsHeld
    <3>2. /\ k.authority \in Authorities /\ k.epoch # 0
          /\ k.epoch = co.tabs[k.authority].lease.epoch
      BY <3>1 DEF Keys, keyOfTab
    <3>3. live(co.tabs[k.authority])
      BY <2>1, <2>2, <3>2 DEF TokensFollowTabs, live, hasRequest
    <3> QED
      BY <2>1, <2>2, <3>2, <3>3 DEF FailedIsGone, TabIsFenced
  <2>3. FailedCandidateIsFenced
    BY <2>2 DEF FailedCandidateIsFenced
  <2>4. DrainPrecedesRecovery
    BY <1>1 DEF CoordinatorInv, FencedIsAwaited, DrainPrecedesRecovery, NoDrain
  <2> QED
    BY <2>3, <2>4 DEF RollbackIsFenced
<1> QED
  BY <1>1, CoordinatorInvHolds, PTL

\* The epoch tells the launches of a tab apart: what is reported of one whose
\* token was closed changes nothing.
THEOREM StaleEventsDoNoHarm == Spec => []StaleEventsAreHarmless
<1>1. ASSUME CoordinatorInv, NEW k \in issued, k.epoch \in co.closed
      PROVE  ~isLive(co, k)
  <2>1. k.authority \in Authorities
    BY <1>1 DEF CoordinatorInv, OpenIsHeld, Keys
  <2>2. TokensFollowTabs(co)
    BY <1>1 DEF CoordinatorInv, Sound, TabsOK
  <2> QED
    BY <1>1, <2>1, <2>2 DEF TokensFollowTabs, isLive, keyMatches
<1>2. ASSUME CoordinatorInv PROVE StaleEventsAreHarmless
  <2>1. ASSUME NEW k \in issued, k.epoch \in co.closed
        PROVE  /\ cancelPendingLaunch(co, k) = co
               /\ admitAuthenticatedWorker(co, k, now) = co
               /\ heartbeat(co, k, "ok", now) = co
               /\ workerAdmissionFailed(co, k, "ok", now) = co
               /\ \A reason \in Sup!ExitReasons :
                     workerExited(co, k, reason, "ok", now) = co
    <3>1. ~isLive(co, k)
      BY <1>1, <1>2, <2>1
    <3> QED
      BY <3>1 DEF cancelPendingLaunch, admitAuthenticatedWorker, heartbeat,
         workerAdmissionFailed, workerExited
  <2> QED
    BY <2>1 DEF StaleEventsAreHarmless
<1> QED
  BY <1>2, CoordinatorInvHolds, PTL

\* No step promotes a version that no tab runs admitted and healthy, and none
\* launches after the app has failed closed or while it drains or shuts down.
THEOREM StepsAreAllEarned == Spec => StepsAreEarned
<1>1. CoordinatorInv /\ [Next]_vars
      => [restarts' = restarts
            /\ co'.store.lastKnownGood # co.store.lastKnownGood
          => \E a \in Authorities :
               /\ co'.tabs[a].admitted /\ co'.tabs[a].healthy
               /\ ~co.tabs[a].healthy
               /\ co'.tabs[a].lease.version = co'.store.lastKnownGood]_vars
  BY CoordinatorStep DEF EarnedStep
<1>2. CoordinatorInv /\ [Next]_vars
      => [restarts' = restarts =>
            /\ co.failedClosed => co'.failedClosed
            /\ co.shuttingDown => co'.shuttingDown
            /\ co.failedClosed \/ co.shuttingDown
                  \/ (co.drain # NoDrain /\ co'.drain # NoDrain)
               => co'.nextEpoch = co.nextEpoch]_vars
  BY CoordinatorStep DEF EarnedStep
<1> QED
  BY <1>1, <1>2, CoordinatorInvHolds, PTL
  DEF Spec, StepsAreEarned, PromotionIsEarned, NoLaunchWhenClosed
=============================================================================
