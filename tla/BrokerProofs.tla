---------------------------- MODULE BrokerProofs ----------------------------
(***************************************************************************)
(* Proofs about what a Worker's capability requests reach.  Of the storage *)
(* brokers: an answer is kept and a refused create restores every access   *)
(* list, for any number of apps, of brokers and of Host processes, and     *)
(* however often these die.  Of the capability runtimes: the one file      *)
(* dialog is never lost, a runtime is retired in order and no gesture     *)
(* counts twice, for any number of tabs, runtimes and requests.            *)
(***************************************************************************)
EXTENDS StorageBroker, CapabilityRuntime, FiniteSetTheorems, SequenceTheorems,
        TLAPS

-----------------------------------------------------------------------------
\* The inductive invariant of the storage brokers.

Contents == UNION {[ks -> Values] : ks \in SUBSET Keys}
AccessLists == [Apps \cup {Root} -> {"found", "host", "frozen"}]
Stored(a) == IF data[a] = Absent THEN <<>> ELSE data[a]

ShapeOK ==
    /\ data \in [Apps -> Contents \cup {Absent}]
    /\ acl \in AccessLists
    /\ DOMAIN b = Brokers
    /\ \A p \in Brokers : DOMAIN b[p] = DOMAIN Closed
    /\ DOMAIN promise = Apps
    /\ \A a \in Apps : DOMAIN promise[a] = Keys
    /\ crashes \in Nat

\* What a broker does between taking the lock and releasing it.
InvokeSteps == {"invokeMutex", "invokeLock", "load", "write", "commit", "verify"}
LockSteps == {"validate", "load", "write", "commit", "verify"} \cup CreateSteps
LockIsHeld(p) == At(p, LockSteps) => lock = p

\* values answers a change of the key k: a set put v there, a remove removed k.
Answers(values, op, k, v) ==
    IF op = "set" THEN k \in DOMAIN values /\ values[k] = v
                  ELSE k \notin DOMAIN values

\* What a broker is going to publish is the file it read, changed at one key.
ChangeIsCurrent(p) ==
    /\ At(p, InvokeSteps) => b[p].key \in Keys /\ b[p].value \in Values
    /\ At(p, {"write", "commit"}) =>
         b[p].loaded = changed(Stored(AppOf[p]), b[p].op, b[p].key, b[p].value)
    /\ At(p, {"write", "commit", "verify"}) =>
         /\ b[p].loaded \in Contents
         /\ Answers(b[p].loaded, b[p].op, b[p].key, b[p].value)

\* What a create changed is marked, and it remembers how everything was.
CreateIsReversible(p) ==
    /\ At(p, CreateSteps) => b[p].before \in AccessLists
    /\ At(p, {"freeze"}) => acl = b[p].before
    /\ At(p, {"match", "apply"}) =>
         \A o \in Apps \cup {Root} : o \in b[p].dirty \/ acl[o] = b[p].before[o]

BrokerInv(p) == LockIsHeld(p) /\ ChangeIsCurrent(p) /\ CreateIsReversible(p)

IInv ==
    /\ ShapeOK
    /\ \A p \in Brokers : BrokerInv(p)
    /\ AnswersAreKept

-----------------------------------------------------------------------------
\* Lemmas about the operators.

\* An empty file is a file.
LEMMA EmptyContents == <<>> \in Contents /\ DOMAIN <<>> = {}
<1>1. <<>> \in [{} -> Values]
    OBVIOUS
<1> QED
    BY <1>1 DEF Contents

\* A change answers its key, and leaves the others as they were.
LEMMA ChangedAnswers ==
    ASSUME NEW values \in Contents, NEW op, NEW k \in Keys, NEW v \in Values
    PROVE  /\ changed(values, op, k, v) \in Contents
           /\ Answers(changed(values, op, k, v), op, k, v)
           /\ \A j \in Keys : j # k =>
                /\ j \in DOMAIN changed(values, op, k, v) <=> j \in DOMAIN values
                /\ j \in DOMAIN values =>
                     changed(values, op, k, v)[j] = values[j]
<1>1. PICK ks \in SUBSET Keys : values \in [ks -> Values]
    BY DEF Contents
<1> DEFINE new == changed(values, op, k, v)
           dom == (ks \ {k}) \cup (IF op = "set" THEN {k} ELSE {})
<1>2. /\ DOMAIN new = dom
      /\ \A x \in dom : new[x] = IF x = k THEN v ELSE values[x]
    BY <1>1 DEF changed
<1>3. new \in [dom -> Values] /\ dom \in SUBSET Keys
    BY <1>1 DEF changed
<1>4. new \in Contents
    BY <1>3 DEF Contents
<1> QED
    BY <1>1, <1>2, <1>4 DEF Answers

\* Putting back what was changed gives the lists that were found.
LEMMA RestoreRestores ==
    ASSUME NEW current, DOMAIN current = Apps \cup {Root}, NEW x,
           x.before \in AccessLists,
           \A o \in Apps \cup {Root} : o \in x.dirty \/ current[o] = x.before[o]
    PROVE  restoreDirty(x, current) = x.before
<1>1. restoreDirty(x, current) = [o \in Apps \cup {Root} |-> x.before[o]]
    BY DEF restoreDirty
<1> QED
    BY <1>1 DEF AccessLists

\* What one broker does leaves the others alone, for only the one that holds
\* the lock touches the directory.
LEMMA OthersKeep ==
    ASSUME NEW p \in Brokers, NEW q \in Brokers, q # p, BrokerInv(q),
           b'[q] = b[q],
           \/ lock' = lock
           \/ lock = None /\ lock' = p
           \/ lock = p /\ lock' = None,
           UNCHANGED <<data, acl>> \/ lock = p
    PROVE  BrokerInv(q)'
<1>1. None \notin Brokers
    BY StorageAssumption
<1>2. LockIsHeld(q)'
    BY <1>1 DEF BrokerInv, LockIsHeld, At
<1>3. ChangeIsCurrent(q)'
    BY DEF BrokerInv, LockIsHeld, LockSteps, ChangeIsCurrent, At, Stored
<1>4. CreateIsReversible(q)'
    BY DEF BrokerInv, LockIsHeld, LockSteps, CreateIsReversible, CreateSteps, At
<1> QED
    BY <1>2, <1>3, <1>4 DEF BrokerInv

\* The pc moves and nothing else of the broker.
LEMMA GotoMoves ==
    ASSUME ShapeOK, NEW p \in Brokers, NEW pc, goto(p, pc)
    PROVE  /\ DOMAIN b' = Brokers /\ DOMAIN b'[p] = DOMAIN Closed
           /\ \A q \in Brokers : q # p => b'[q] = b[q]
           /\ b'[p].pc = pc
           /\ b'[p].before = b[p].before /\ b'[p].dirty = b[p].dirty
           /\ b'[p].op = b[p].op /\ b'[p].key = b[p].key
           /\ b'[p].value = b[p].value /\ b'[p].loaded = b[p].loaded
BY DEF ShapeOK, goto, Closed
\* A broker that is closed, open or waits to create has nothing to keep.
LEMMA RestingIsFine ==
    ASSUME NEW p,
           b'[p].pc \in {"closed", "open", "createMutex", "createLock"}
    PROVE  BrokerInv(p)'
BY DEF BrokerInv, LockIsHeld, LockSteps, ChangeIsCurrent, InvokeSteps,
       CreateIsReversible, CreateSteps, At

\* What a broker that does not exist yet looks like.
LEMMA ClosedRests == Closed.pc = "closed" /\ DOMAIN Closed = DOMAIN [Closed EXCEPT !.pc = "open"]
BY DEF Closed

\* One broker's step keeps the invariant.
LEMMA StepKeeps ==
    ASSUME IInv, NEW p \in Brokers,
           DOMAIN b' = Brokers, DOMAIN b'[p] = DOMAIN Closed,
           \A q \in Brokers : q # p => b'[q] = b[q],
           \/ lock' = lock
           \/ lock = None /\ lock' = p
           \/ lock = p /\ lock' = None,
           UNCHANGED <<data, acl>> \/ lock = p,
           data' \in [Apps -> Contents \cup {Absent}], acl' \in AccessLists,
           DOMAIN promise' = Apps, \A a \in Apps : DOMAIN promise'[a] = Keys,
           crashes' \in Nat,
           BrokerInv(p)', AnswersAreKept'
    PROVE  IInv'
<1>1. \A q \in Brokers : BrokerInv(q)'
    BY OthersKeep DEF IInv
<1>2. ShapeOK'
    BY DEF IInv, ShapeOK
<1> QED
    BY <1>1, <1>2 DEF IInv

\* The same for a step that touches neither the directory nor the answers.
LEMMA QuietStepKeeps ==
    ASSUME IInv, NEW p \in Brokers,
           DOMAIN b' = Brokers, DOMAIN b'[p] = DOMAIN Closed,
           \A q \in Brokers : q # p => b'[q] = b[q],
           \/ lock' = lock
           \/ lock = None /\ lock' = p
           \/ lock = p /\ lock' = None,
           UNCHANGED <<data, acl, promise>>, crashes' = crashes,
           BrokerInv(p)'
    PROVE  IInv'
<1>1. AnswersAreKept'
    BY DEF IInv, AnswersAreKept
<1>2. /\ data' \in [Apps -> Contents \cup {Absent}] /\ acl' \in AccessLists
      /\ DOMAIN promise' = Apps /\ \A a \in Apps : DOMAIN promise'[a] = Keys
      /\ crashes' \in Nat
    BY DEF IInv, ShapeOK
<1> QED
    BY <1>1, <1>2, StepKeeps

\* Locks are released by who holds them.
LEMMA ReleaseReleases ==
    ASSUME NEW p \in Brokers, ReleaseLocks(p)
    PROVE  lock' = lock \/ (lock = p /\ lock' = None)
BY DEF ReleaseLocks

-----------------------------------------------------------------------------
\* The actions.

\* Initially nothing is promised.
LEMMA InitIsInductive == Init => IInv
<1> SUFFICES ASSUME Init PROVE IInv
    OBVIOUS
<1>1. ShapeOK
  <2>1. data \in [Apps -> Contents \cup {Absent}]
    BY EmptyContents DEF Init
  <2>2. acl \in AccessLists
    BY DEF Init, AccessLists
  <2> QED
    BY <2>1, <2>2 DEF Init, ShapeOK
<1>2. \A p \in Brokers : b[p].pc = "closed"
    BY DEF Init, Closed
<1>3. \A p \in Brokers : BrokerInv(p)
    BY <1>2
    DEF BrokerInv, LockIsHeld, LockSteps, ChangeIsCurrent, InvokeSteps,
        CreateIsReversible, CreateSteps, At
<1>4. AnswersAreKept
  <2> SUFFICES ASSUME NEW a \in Apps, NEW k \in Keys
               PROVE  promise[a][k] = Absent /\ k \notin DOMAIN Stored(a)
    BY DEF AnswersAreKept, Stored
  <2>1. Stored(a) = <<>>
    BY DEF Init, Stored
  <2> QED
    BY <2>1, EmptyContents DEF Init
<1> QED
    BY <1>1, <1>3, <1>4 DEF IInv

\* The locks are taken, or given up.
LEMMA LocksKeep ==
    ASSUME IInv, NEW p \in Brokers,
           TakeMutex(p) \/ TakeLock(p) \/ LockTimesOut(p)
    PROVE  IInv'
<1> USE DEF IInv
<1>1. UNCHANGED <<data, acl, promise, crashes>>
    BY DEF TakeMutex, TakeLock, LockTimesOut
<1>2. CASE TakeMutex(p)
  <2>1. /\ goto(p, IF At(p, {"createMutex"}) THEN "createLock"
                                            ELSE "invokeLock")
        /\ lock' = lock /\ b[p].pc \in {"createMutex", "invokeMutex"}
    BY <1>2 DEF TakeMutex, At
  <2>2. CASE b[p].pc = "createMutex"
    <3>1. goto(p, "createLock")
        BY <2>1, <2>2 DEF At
    <3>2. BrokerInv(p)'
        BY <3>1, GotoMoves, RestingIsFine
    <3> QED
        BY <1>1, <2>1, <3>1, <3>2, GotoMoves, QuietStepKeeps
  <2>3. CASE b[p].pc = "invokeMutex"
    <3>1. goto(p, "invokeLock")
        BY <2>1, <2>3 DEF At
    <3>2. BrokerInv(p)'
        BY <2>3, <3>1, GotoMoves
        DEF BrokerInv, LockIsHeld, LockSteps, ChangeIsCurrent, InvokeSteps,
            CreateIsReversible, CreateSteps, At
    <3> QED
        BY <1>1, <2>1, <3>1, <3>2, GotoMoves, QuietStepKeeps
  <2> QED
    BY <2>1, <2>2, <2>3
<1>3. CASE TakeLock(p)
  <2>1. /\ goto(p, IF At(p, {"createLock"}) THEN "validate" ELSE "load")
        /\ lock = None /\ lock' = p /\ b[p].pc \in {"createLock", "invokeLock"}
    BY <1>3 DEF TakeLock, At, mayLock
  <2>2. CASE b[p].pc = "createLock"
    <3>1. goto(p, "validate")
        BY <2>1, <2>2 DEF At
    <3>2. BrokerInv(p)'
        BY <2>1, <3>1, GotoMoves
        DEF BrokerInv, LockIsHeld, LockSteps, ChangeIsCurrent, InvokeSteps,
            CreateIsReversible, CreateSteps, At
    <3> QED
        BY <1>1, <2>1, <3>1, <3>2, GotoMoves, QuietStepKeeps
  <2>3. CASE b[p].pc = "invokeLock"
    <3>1. goto(p, "load")
        BY <2>1, <2>3 DEF At
    <3>2. BrokerInv(p)'
        BY <2>1, <2>3, <3>1, GotoMoves
        DEF BrokerInv, LockIsHeld, LockSteps, ChangeIsCurrent, InvokeSteps,
            CreateIsReversible, CreateSteps, At
    <3> QED
        BY <1>1, <2>1, <3>1, <3>2, GotoMoves, QuietStepKeeps
  <2> QED
    BY <2>1, <2>2, <2>3
<1>4. CASE LockTimesOut(p)
  <2>1. /\ \E pc \in {"closed", "open"} : goto(p, pc)
        /\ ReleaseLocks(p)
    BY <1>4 DEF LockTimesOut
  <2>2. PICK pc \in {"closed", "open"} : goto(p, pc)
    BY <2>1
  <2>3. BrokerInv(p)'
    BY <2>2, GotoMoves, RestingIsFine
  <2> QED
    BY <1>1, <2>1, <2>2, <2>3, GotoMoves, ReleaseReleases, QuietStepKeeps
<1> QED
    BY <1>2, <1>3, <1>4

\* Calls begin and brokers are destroyed.
LEMMA BeginKeeps ==
    ASSUME IInv, NEW p \in Brokers, BeginCreate(p) \/ BeginInvoke(p) \/ Destroy(p)
    PROVE  IInv'
<1> USE DEF IInv
<1>1. UNCHANGED <<data, acl, promise, crashes, lock>>
    BY DEF BeginCreate, BeginInvoke, Destroy
<1>2. CASE BeginCreate(p)
  <2>1. goto(p, "createMutex")
    BY <1>2 DEF BeginCreate
  <2>2. BrokerInv(p)'
    BY <2>1, GotoMoves, RestingIsFine
  <2> QED
    BY <1>1, <2>1, <2>2, GotoMoves, QuietStepKeeps
<1>3. CASE BeginInvoke(p)
  <2>1. PICK op \in Operations, k \in Keys, v \in Values :
          b' = [b EXCEPT ![p].pc = "invokeMutex", ![p].op = op, ![p].key = k,
                         ![p].value = v]
    BY <1>3 DEF BeginInvoke
  <2>2. /\ DOMAIN b' = Brokers /\ DOMAIN b'[p] = DOMAIN Closed
        /\ \A q \in Brokers : q # p => b'[q] = b[q]
        /\ b'[p].pc = "invokeMutex" /\ b'[p].key = k /\ b'[p].value = v
    BY <2>1 DEF ShapeOK, Closed
  <2>3. BrokerInv(p)'
    BY <2>2
    DEF BrokerInv, LockIsHeld, LockSteps, ChangeIsCurrent, CreateIsReversible,
        CreateSteps, At
  <2> QED
    BY <1>1, <2>2, <2>3, QuietStepKeeps
<1>4. CASE Destroy(p)
  <2>1. b' = [b EXCEPT ![p] = Closed]
    BY <1>4 DEF Destroy
  <2>2. /\ DOMAIN b' = Brokers /\ b'[p] = Closed
        /\ \A q \in Brokers : q # p => b'[q] = b[q]
    BY <2>1 DEF ShapeOK
  <2>3. BrokerInv(p)'
    BY <2>2, ClosedRests, RestingIsFine
  <2> QED
    BY <1>1, <2>2, <2>3, QuietStepKeeps
<1> QED
    BY <1>2, <1>3, <1>4

\* A create that is refused closes the broker.
LEMMA RefuseKeeps ==
    ASSUME IInv, NEW p \in Brokers, At(p, LockSteps), Refuse(p),
           acl' \in AccessLists, UNCHANGED <<data, promise, crashes>>
    PROVE  IInv' /\ b'[p].pc = "closed"
<1> USE DEF IInv
<1>1. b' = [b EXCEPT ![p] = Closed] /\ ReleaseLocks(p) /\ lock = p
    BY DEF Refuse, BrokerInv, LockIsHeld
<1>2. /\ DOMAIN b' = Brokers /\ b'[p] = Closed
      /\ \A q \in Brokers : q # p => b'[q] = b[q]
    BY <1>1 DEF ShapeOK
<1>3. BrokerInv(p)'
    BY <1>2, ClosedRests, RestingIsFine
<1>4. AnswersAreKept'
    BY DEF AnswersAreKept
<1>5. /\ data' \in [Apps -> Contents \cup {Absent}]
      /\ DOMAIN promise' = Apps /\ \A a \in Apps : DOMAIN promise'[a] = Keys
      /\ crashes' \in Nat
    BY DEF ShapeOK
<1>6. IInv'
    BY <1>1, <1>2, <1>3, <1>4, <1>5, ReleaseReleases, StepKeeps
<1> QED
    BY <1>2, <1>6, ClosedRests
\* What a create that is refused puts back.
RefusalRestores(p) == b'[p].pc = "closed" => acl' = b[p].before

\* The layout is validated.
LEMMA ValidateKeeps == ASSUME IInv, NEW p \in Brokers, Validate(p) PROVE IInv'
<1> USE DEF IInv
<1>1. /\ b[p].pc = "validate" /\ lock = p
      /\ UNCHANGED <<data, acl, promise, crashes>>
    BY DEF Validate, At, BrokerInv, LockIsHeld, LockSteps
<1>2. CASE Refuse(p)
    BY <1>1, <1>2, RefuseKeeps DEF ShapeOK, At, LockSteps
<1>3. CASE /\ b' = [b EXCEPT ![p].pc = "freeze", ![p].before = acl,
                            ![p].objects = Append(SetToSeq(Files), Root)]
           /\ UNCHANGED <<mutex, lock>>
  <2>1. /\ DOMAIN b' = Brokers /\ DOMAIN b'[p] = DOMAIN Closed
        /\ \A q \in Brokers : q # p => b'[q] = b[q]
        /\ b'[p].pc = "freeze" /\ b'[p].before = acl
    BY <1>3 DEF ShapeOK, Closed
  <2>2. BrokerInv(p)'
    BY <1>1, <1>3, <2>1
    DEF BrokerInv, LockIsHeld, ChangeIsCurrent, InvokeSteps,
        CreateIsReversible, At, ShapeOK
  <2> QED
    BY <1>1, <1>3, <2>1, <2>2, QuietStepKeeps
<1> QED
    BY <1>2, <1>3 DEF Validate

\* The directory is frozen.
LEMMA FreezeKeeps ==
    ASSUME IInv, NEW p \in Brokers, freezeDirectoryMembership(p)
    PROVE  IInv' /\ RefusalRestores(p)
<1> USE DEF IInv
<1>1. /\ b[p].pc = "freeze" /\ lock = p /\ UNCHANGED <<data, promise, crashes>>
      /\ b[p].before \in AccessLists /\ acl = b[p].before
    BY DEF freezeDirectoryMembership, At, BrokerInv, LockIsHeld, LockSteps,
           CreateSteps, CreateIsReversible
<1>2. CASE acl' = b[p].before /\ Refuse(p)
    BY <1>1, <1>2, RefuseKeeps DEF At, LockSteps, CreateSteps, RefusalRestores
<1>3. CASE /\ acl' = [acl EXCEPT ![Root] = "frozen"]
           /\ b' = [b EXCEPT ![p].pc = "match", ![p].dirty = {Root}]
           /\ UNCHANGED <<mutex, lock>>
  <2>1. /\ DOMAIN b' = Brokers /\ DOMAIN b'[p] = DOMAIN Closed
        /\ \A q \in Brokers : q # p => b'[q] = b[q]
        /\ b'[p].pc = "match" /\ b'[p].before = b[p].before
        /\ b'[p].dirty = {Root}
    BY <1>3 DEF ShapeOK, Closed
  <2>2. /\ acl' \in AccessLists
        /\ \A o \in Apps \cup {Root} : o = Root \/ acl'[o] = acl[o]
    BY <1>3 DEF ShapeOK, AccessLists
  <2>3. BrokerInv(p)'
    BY <1>1, <1>3, <2>1, <2>2
    DEF BrokerInv, LockIsHeld, ChangeIsCurrent, InvokeSteps,
        CreateIsReversible, At
  <2>4. AnswersAreKept'
    BY <1>1 DEF AnswersAreKept
  <2>5. /\ data' \in [Apps -> Contents \cup {Absent}]
        /\ DOMAIN promise' = Apps /\ \A a \in Apps : DOMAIN promise'[a] = Keys
        /\ crashes' \in Nat
    BY <1>1 DEF ShapeOK
  <2>6. IInv'
    BY <1>1, <1>3, <2>1, <2>2, <2>3, <2>4, <2>5, StepKeeps
  <2> QED
    BY <2>1, <2>6 DEF RefusalRestores
<1> QED
    BY <1>2, <1>3 DEF freezeDirectoryMembership

\* The members are compared.
LEMMA MatchKeeps ==
    ASSUME IInv, NEW p \in Brokers, frozenMembershipMatches(p)
    PROVE  IInv' /\ RefusalRestores(p)
<1> USE DEF IInv
<1>1. /\ b[p].pc = "match" /\ lock = p /\ UNCHANGED <<data, promise, crashes>>
      /\ b[p].before \in AccessLists
    BY DEF frozenMembershipMatches, At, BrokerInv, LockIsHeld, LockSteps,
           CreateSteps, CreateIsReversible
<1>2. CASE acl' = b[p].before /\ Refuse(p)
    BY <1>1, <1>2, RefuseKeeps DEF At, LockSteps, CreateSteps, RefusalRestores
<1>3. CASE goto(p, "apply") /\ UNCHANGED <<acl, mutex, lock>>
  <2>1. BrokerInv(p)'
    BY <1>1, <1>3, GotoMoves
    DEF BrokerInv, LockIsHeld, ChangeIsCurrent, InvokeSteps,
        CreateIsReversible, CreateSteps, At
  <2>2. IInv'
    BY <1>1, <1>3, <2>1, GotoMoves, QuietStepKeeps
  <2> QED
    BY <1>3, <2>2, GotoMoves DEF RefusalRestores
<1> QED
    BY <1>2, <1>3 DEF frozenMembershipMatches

\* One access list is applied, or all are put back.
LEMMA ApplyKeeps ==
    ASSUME IInv, NEW p \in Brokers, applyAclsTransactionally(p)
    PROVE  IInv' /\ RefusalRestores(p)
<1> USE DEF IInv
<1> DEFINE x == b[p]
           o == x.objects[x.next]
           host == applyHostOnlyAcl(acl, o)
           applied == [x EXCEPT !.dirty = @ \cup {o}]
<1>1. /\ b[p].pc = "apply" /\ lock = p /\ UNCHANGED <<data, promise, crashes>>
      /\ x.before \in AccessLists
      /\ \A y \in Apps \cup {Root} : y \in x.dirty \/ acl[y] = x.before[y]
      /\ acl \in AccessLists /\ DOMAIN acl = Apps \cup {Root}
      /\ DOMAIN x = DOMAIN Closed
    BY DEF applyAclsTransactionally, At, BrokerInv, LockIsHeld, LockSteps,
           CreateSteps, CreateIsReversible, ShapeOK, AccessLists
<1>2. /\ \/ acl' = restoreDirty(x, acl) /\ Refuse(p)
         \/ acl' = restoreDirty(applied, host) /\ Refuse(p)
         \/ /\ acl' = host
            /\ b' = [b EXCEPT ![p] = [applied EXCEPT !.next = @ + 1]]
            /\ UNCHANGED <<mutex, lock>>
         \/ /\ acl' = host
            /\ b' = [b EXCEPT ![p] = [Closed EXCEPT !.pc = "open"]]
            /\ ReleaseLocks(p)
    BY DEF applyAclsTransactionally
<1>3. /\ applied.before = x.before /\ applied.dirty = x.dirty \cup {o}
      /\ applied.pc = x.pc /\ DOMAIN applied = DOMAIN Closed
    BY <1>1 DEF Closed
<1>4. /\ host \in AccessLists /\ DOMAIN host = Apps \cup {Root}
      /\ \A y \in Apps \cup {Root} : y = o \/ host[y] = acl[y]
    BY <1>1 DEF applyHostOnlyAcl, AccessLists
<1> HIDE DEF x, o, host
<1>5. \A y \in Apps \cup {Root} : y \in applied.dirty \/ host[y] = x.before[y]
    BY <1>1, <1>3, <1>4
<1> DEFINE moved == [applied EXCEPT !.next = @ + 1]
<1>6. /\ moved.before = x.before /\ moved.dirty = applied.dirty
      /\ moved.pc = x.pc /\ DOMAIN moved = DOMAIN Closed
    BY <1>3 DEF Closed
<1>7. restoreDirty(x, acl) = x.before
    BY <1>1, RestoreRestores
<1>8. restoreDirty(applied, host) = x.before
  <2> HIDE DEF applied
  <2> QED
    BY <1>1, <1>3, <1>4, <1>5, RestoreRestores
<1> HIDE DEF applied, moved
<1>9. CASE acl' = x.before /\ Refuse(p)
    BY <1>1, <1>9, RefuseKeeps
    DEF At, LockSteps, CreateSteps, RefusalRestores, x
<1>10. AnswersAreKept'
    BY <1>1 DEF AnswersAreKept
<1>11. /\ data' \in [Apps -> Contents \cup {Absent}]
       /\ DOMAIN promise' = Apps /\ \A a \in Apps : DOMAIN promise'[a] = Keys
       /\ crashes' \in Nat
    BY <1>1 DEF ShapeOK
<1>12. CASE /\ acl' = host /\ b' = [b EXCEPT ![p] = moved]
            /\ UNCHANGED <<mutex, lock>>
  <2>1. /\ DOMAIN b' = Brokers /\ b'[p] = moved
        /\ \A q \in Brokers : q # p => b'[q] = b[q]
    BY <1>12 DEF ShapeOK
  <2>2. BrokerInv(p)'
    BY <1>1, <1>3, <1>5, <1>6, <1>12, <2>1
    DEF BrokerInv, LockIsHeld, ChangeIsCurrent, InvokeSteps,
        CreateIsReversible, CreateSteps, At, x
  <2>3. IInv'
    BY <1>1, <1>4, <1>6, <1>10, <1>11, <1>12, <2>1, <2>2, StepKeeps
  <2> QED
    BY <1>1, <1>6, <2>1, <2>3 DEF RefusalRestores, x
<1>13. CASE /\ acl' = host
            /\ b' = [b EXCEPT ![p] = [Closed EXCEPT !.pc = "open"]]
            /\ ReleaseLocks(p)
  <2>1. /\ DOMAIN b' = Brokers /\ b'[p].pc = "open"
        /\ DOMAIN b'[p] = DOMAIN Closed
        /\ \A q \in Brokers : q # p => b'[q] = b[q]
    BY <1>13 DEF ShapeOK, Closed
  <2>2. BrokerInv(p)'
    BY <2>1, RestingIsFine
  <2>3. IInv'
    BY <1>1, <1>4, <1>10, <1>11, <1>13, <2>1, <2>2, ReleaseReleases, StepKeeps
  <2> QED
    BY <2>1, <2>3 DEF RefusalRestores
<1> QED
    BY <1>2, <1>7, <1>8, <1>9, <1>12, <1>13 DEF moved

\* invoke answers: the file is as it was.
LEMMA AnswerKeeps ==
    ASSUME IInv, NEW p \in Brokers, lock = p, answerAndRelease(p),
           UNCHANGED <<data, acl, promise, crashes>>
    PROVE  IInv'
<1>1. goto(p, "open") /\ ReleaseLocks(p)
    BY DEF answerAndRelease
<1>2. BrokerInv(p)'
    BY <1>1, GotoMoves, RestingIsFine DEF IInv
<1> QED
    BY <1>1, <1>2, GotoMoves, ReleaseReleases, QuietStepKeeps DEF IInv

\* The file is read and the change prepared.
LEMMA LoadKeeps == ASSUME IInv, NEW p \in Brokers, LoadValues(p) PROVE IInv'
<1> USE DEF IInv
<1> DEFINE new == changed(Stored(AppOf[p]), b[p].op, b[p].key, b[p].value)
<1>1. /\ b[p].pc = "load" /\ lock = p
      /\ b[p].key \in Keys /\ b[p].value \in Values
      /\ UNCHANGED <<data, acl, promise, crashes>>
    BY DEF LoadValues, At, BrokerInv, LockIsHeld, LockSteps, ChangeIsCurrent,
           InvokeSteps
<1>2. Stored(AppOf[p]) \in Contents
    BY EmptyContents, StorageAssumption DEF Stored, ShapeOK
<1>3. new \in Contents /\ Answers(new, b[p].op, b[p].key, b[p].value)
    BY <1>1, <1>2, ChangedAnswers
<1>4. CASE answerAndRelease(p)
    BY <1>1, <1>4, AnswerKeeps
<1>5. CASE /\ b' = [b EXCEPT ![p].pc = "write", ![p].loaded = new]
           /\ UNCHANGED <<mutex, lock>>
  <2> HIDE DEF new
  <2>1. /\ DOMAIN b' = Brokers /\ DOMAIN b'[p] = DOMAIN Closed
        /\ \A q \in Brokers : q # p => b'[q] = b[q]
        /\ b'[p].pc = "write" /\ b'[p].loaded = new
        /\ b'[p].op = b[p].op /\ b'[p].key = b[p].key
        /\ b'[p].value = b[p].value
    BY <1>5 DEF ShapeOK, Closed
  <2>2. BrokerInv(p)'
    <3>1. LockIsHeld(p)' /\ CreateIsReversible(p)'
        BY <1>1, <1>5, <2>1 DEF LockIsHeld, CreateIsReversible, CreateSteps, At
    <3>2. ChangeIsCurrent(p)'
        BY <1>1, <1>3, <2>1 DEF ChangeIsCurrent, At, Stored, new
    <3> QED
        BY <3>1, <3>2 DEF BrokerInv
  <2> QED
    BY <1>1, <1>5, <2>1, <2>2, QuietStepKeeps
<1> QED
    BY <1>4, <1>5 DEF LoadValues, Stored

\* The change is written to the temporary file.
LEMMA WriteKeeps == ASSUME IInv, NEW p \in Brokers, WriteTemporary(p) PROVE IInv'
<1> USE DEF IInv
<1>1. /\ b[p].pc = "write" /\ lock = p
      /\ UNCHANGED <<data, acl, promise, crashes>>
    BY DEF WriteTemporary, At, BrokerInv, LockIsHeld, LockSteps
<1>2. CASE answerAndRelease(p)
    BY <1>1, <1>2, AnswerKeeps
<1>3. CASE goto(p, "commit") /\ UNCHANGED lock
  <2>1. BrokerInv(p)'
    BY <1>1, <1>3, GotoMoves
    DEF BrokerInv, LockIsHeld, ChangeIsCurrent, InvokeSteps, Stored,
        CreateIsReversible, CreateSteps, At
  <2> QED
    BY <1>1, <1>3, <2>1, GotoMoves, QuietStepKeeps
<1> QED
    BY <1>2, <1>3 DEF WriteTemporary

\* The new file is the old one changed at one key, of which nothing is promised
\* from then on until invoke answers.
LEMMA CommitKeeps == ASSUME IInv, NEW p \in Brokers, CommitFile(p) PROVE IInv'
<1> USE DEF IInv
<1> DEFINE app == AppOf[p]
           key == b[p].key
<1>1. /\ b[p].pc = "commit" /\ lock = p /\ UNCHANGED crashes
      /\ key \in Keys /\ b[p].value \in Values /\ app \in Apps
      /\ b[p].loaded = changed(Stored(app), b[p].op, key, b[p].value)
      /\ b[p].loaded \in Contents
      /\ Answers(b[p].loaded, b[p].op, key, b[p].value)
    BY StorageAssumption
    DEF CommitFile, At, BrokerInv, LockIsHeld, LockSteps, ChangeIsCurrent,
        InvokeSteps
<1> HIDE DEF app, key
<1>2. CASE answerAndRelease(p) /\ UNCHANGED <<data, promise, acl>>
    BY <1>1, <1>2, AnswerKeeps
<1>3. CASE /\ data' = [data EXCEPT ![app] = b[p].loaded]
           /\ promise' = [promise EXCEPT ![app][key] = "unknown"]
           /\ acl' = [acl EXCEPT ![app] = IF acl[Root] = "host" THEN "host"
                                                                ELSE "found"]
           /\ goto(p, "verify")
           /\ UNCHANGED <<mutex, lock>>
  <2>1. /\ data' \in [Apps -> Contents \cup {Absent}]
        /\ data'[app] = b[p].loaded /\ data'[app] # Absent
        /\ \A a \in Apps : a # app => data'[a] = data[a]
    BY <1>1, <1>3, StorageAssumption DEF ShapeOK, Contents
  <2>2. acl' \in AccessLists
    BY <1>1, <1>3 DEF ShapeOK, AccessLists
  <2>3. /\ DOMAIN promise' = Apps /\ \A a \in Apps : DOMAIN promise'[a] = Keys
        /\ \A a \in Apps, k \in Keys :
             promise'[a][k] = IF a = app /\ k = key THEN "unknown"
                                                    ELSE promise[a][k]
    BY <1>1, <1>3 DEF ShapeOK
  <2>4. BrokerInv(p)'
    BY <1>1, <1>3, GotoMoves
    DEF BrokerInv, LockIsHeld, ChangeIsCurrent, InvokeSteps,
        CreateIsReversible, CreateSteps, At, key
  <2>5. AnswersAreKept'
    <3> SUFFICES ASSUME NEW a \in Apps, NEW k \in Keys,
                        promise'[a][k] # "unknown"
                 PROVE  IF promise'[a][k] = Absent THEN k \notin DOMAIN Stored(a)'
                        ELSE k \in DOMAIN Stored(a)' /\ Stored(a)'[k] = promise'[a][k]
        BY DEF AnswersAreKept, Stored
    <3>1. /\ promise'[a][k] = promise[a][k] /\ (a = app => k # key)
          /\ IF promise[a][k] = Absent THEN k \notin DOMAIN Stored(a)
             ELSE k \in DOMAIN Stored(a) /\ Stored(a)[k] = promise[a][k]
        BY <2>3 DEF AnswersAreKept, Stored
    <3>2. CASE a # app
        BY <2>1, <3>1, <3>2 DEF Stored
    <3>3. CASE a = app
      <4>1. Stored(app) \in Contents
        BY <1>1, EmptyContents DEF Stored, ShapeOK
      <4>2. Stored(app)' = b[p].loaded
        BY <2>1 DEF Stored
      <4>3. /\ k \in DOMAIN b[p].loaded <=> k \in DOMAIN Stored(app)
            /\ k \in DOMAIN Stored(app) => b[p].loaded[k] = Stored(app)[k]
        BY <1>1, <3>1, <3>3, <4>1, ChangedAnswers
      <4> QED
        BY <3>1, <3>3, <4>2, <4>3
    <3> QED
        BY <3>2, <3>3
  <2>6. crashes' \in Nat
    BY <1>1 DEF ShapeOK
  <2> QED
    BY <1>1, <1>3, <2>1, <2>2, <2>3, <2>4, <2>5, <2>6, GotoMoves, StepKeeps
<1> QED
    BY <1>2, <1>3 DEF CommitFile, app, key

\* The answer of success promises what the file then holds.
LEMMA VerifyKeeps == ASSUME IInv, NEW p \in Brokers, VerifyPublished(p) PROVE IInv'
<1> USE DEF IInv
<1> DEFINE app == AppOf[p]
           key == b[p].key
           said == IF b[p].op = "set" THEN b[p].value ELSE Absent
<1>1. /\ b[p].pc = "verify" /\ lock = p /\ UNCHANGED <<data, crashes>>
      /\ key \in Keys /\ b[p].value \in Values /\ app \in Apps
      /\ b[p].loaded \in Contents
      /\ Answers(b[p].loaded, b[p].op, key, b[p].value)
    BY StorageAssumption
    DEF VerifyPublished, At, BrokerInv, LockIsHeld, LockSteps, ChangeIsCurrent,
        InvokeSteps
<1> HIDE DEF app, key
<1>2. CASE answerAndRelease(p) /\ UNCHANGED <<acl, promise>>
    BY <1>1, <1>2, AnswerKeeps
<1>3. CASE /\ data[app] = b[p].loaded
           /\ acl' = applyHostOnlyAcl(acl, app)
           /\ promise' = [promise EXCEPT ![app][key] = said]
           /\ answerAndRelease(p)
  <2>1. goto(p, "open") /\ ReleaseLocks(p)
    BY <1>3 DEF answerAndRelease
  <2>2. /\ data' \in [Apps -> Contents \cup {Absent}]
        /\ acl' \in AccessLists /\ crashes' \in Nat
    BY <1>1, <1>3 DEF ShapeOK, AccessLists, applyHostOnlyAcl
  <2>3. /\ DOMAIN promise' = Apps /\ \A a \in Apps : DOMAIN promise'[a] = Keys
        /\ \A a \in Apps, k \in Keys :
             promise'[a][k] = IF a = app /\ k = key THEN said ELSE promise[a][k]
    BY <1>1, <1>3 DEF ShapeOK
  <2>4. BrokerInv(p)'
    BY <2>1, GotoMoves, RestingIsFine
  <2>5. Stored(app) = b[p].loaded
    BY <1>1, <1>3, StorageAssumption DEF Stored, Contents
  <2>6. AnswersAreKept'
    <3> SUFFICES ASSUME NEW a \in Apps, NEW k \in Keys,
                        promise'[a][k] # "unknown"
                 PROVE  IF promise'[a][k] = Absent THEN k \notin DOMAIN Stored(a)
                        ELSE k \in DOMAIN Stored(a) /\ Stored(a)[k] = promise'[a][k]
        BY <1>1 DEF AnswersAreKept, Stored
    <3>1. CASE a = app /\ k = key
        BY <1>1, <2>3, <2>5, <3>1, StorageAssumption DEF Answers
    <3>2. CASE ~(a = app /\ k = key)
        BY <2>3, <3>2 DEF AnswersAreKept, Stored
    <3> QED
        BY <3>1, <3>2
  <2> QED
    BY <1>1, <2>1, <2>2, <2>3, <2>4, <2>6, GotoMoves, ReleaseReleases, StepKeeps
<1> QED
    BY <1>2, <1>3 DEF VerifyPublished, app, key

\* A process dies: its brokers are closed, and the lock is free if one of them
\* held it.
LEMMA CrashKeeps == ASSUME IInv, NEW q \in Processes, Crash(q) PROVE IInv'
<1> USE DEF IInv
<1>1. /\ b' = [p \in Brokers |-> IF ProcessOf[p] = q THEN Closed ELSE b[p]]
      /\ lock' = IF lock # None /\ ProcessOf[lock] = q THEN None ELSE lock
      /\ crashes' = crashes + 1 /\ UNCHANGED <<data, acl, promise>>
    BY DEF Crash
<1>2. ASSUME NEW p \in Brokers PROVE BrokerInv(p)'
  <2>1. CASE ProcessOf[p] = q
    <3>1. b'[p] = Closed
        BY <1>1, <2>1
    <3> QED
        BY <3>1, ClosedRests, RestingIsFine
  <2>2. CASE ProcessOf[p] # q
    <3>1. b'[p] = b[p] /\ (lock = p => lock' = p)
        BY <1>1, <2>2
    <3> QED
        BY <1>1, <3>1
        DEF BrokerInv, LockIsHeld, ChangeIsCurrent, Stored, CreateIsReversible,
            At
  <2> QED
    BY <2>1, <2>2
<1>3. ShapeOK'
  <2>1. DOMAIN b' = Brokers /\ \A p \in Brokers : DOMAIN b'[p] = DOMAIN Closed
    BY <1>1 DEF ShapeOK
  <2> QED
    BY <1>1, <2>1 DEF ShapeOK
<1>4. AnswersAreKept'
    BY <1>1 DEF AnswersAreKept
<1> QED
    BY <1>2, <1>3, <1>4

BrokerStep(p) ==
    \/ BeginCreate(p) \/ BeginInvoke(p) \/ TakeMutex(p) \/ TakeLock(p)
    \/ LockTimesOut(p) \/ Validate(p) \/ freezeDirectoryMembership(p)
    \/ frozenMembershipMatches(p) \/ applyAclsTransactionally(p)
    \/ LoadValues(p) \/ WriteTemporary(p) \/ CommitFile(p)
    \/ VerifyPublished(p) \/ Destroy(p)

\* Every step keeps the invariant.
LEMMA NextIsInductive == IInv /\ [Next]_vars => IInv'
<1> SUFFICES ASSUME IInv, [Next]_vars PROVE IInv'
    OBVIOUS
<1>1. ASSUME NEW p \in Brokers, BrokerStep(p) PROVE IInv'
    BY <1>1, BeginKeeps, LocksKeep, ValidateKeeps, FreezeKeeps, MatchKeeps,
       ApplyKeeps, LoadKeeps, WriteKeeps, CommitKeeps, VerifyKeeps
    DEF BrokerStep
<1>2. ASSUME NEW q \in Processes, Crash(q) PROVE IInv'
    BY <1>2, CrashKeeps
<1>3. CASE UNCHANGED vars
  <2>1. ShapeOK' /\ AnswersAreKept'
    BY <1>3 DEF vars, IInv, ShapeOK, AnswersAreKept
  <2>2. \A p \in Brokers : BrokerInv(p)'
    BY <1>3
    DEF vars, IInv, BrokerInv, LockIsHeld, ChangeIsCurrent, Stored,
        CreateIsReversible, At
  <2> QED
    BY <2>1, <2>2 DEF IInv
<1> QED
    BY <1>1, <1>2, <1>3 DEF Next, BrokerStep

\* A step of another broker does not close this one, nor does one outside the
\* create.
LEMMA RefusalIsOwn ==
    ASSUME IInv, NEW p \in Brokers, At(p, CreateSteps), b'[p].pc = "closed",
           NEW q \in Brokers, BrokerStep(q)
    PROVE  acl' = b[p].before
<1> USE DEF IInv
<1>1. b[p].pc \in CreateSteps
    BY DEF At
<1>2. CASE q = p
  <2>1. \/ freezeDirectoryMembership(p) \/ frozenMembershipMatches(p)
        \/ applyAclsTransactionally(p)
    BY <1>1, <1>2
    DEF BrokerStep, BeginCreate, BeginInvoke, TakeMutex, TakeLock,
        LockTimesOut, Validate, LoadValues, WriteTemporary, CommitFile,
        VerifyPublished, Destroy, At, CreateSteps
  <2> QED
    BY <2>1, FreezeKeeps, MatchKeeps, ApplyKeeps DEF RefusalRestores
<1>3. CASE q # p
  <2>1. b'[p] = b[p]
    <3>1. \/ \E pc \in STRING : b' = [b EXCEPT ![q].pc = pc]
          \/ \E x : b' = [b EXCEPT ![q] = x]
        BY DEF BrokerStep, BeginCreate, BeginInvoke, TakeMutex, TakeLock,
               LockTimesOut, Validate, freezeDirectoryMembership,
               frozenMembershipMatches, applyAclsTransactionally, LoadValues,
               WriteTemporary, CommitFile, VerifyPublished, Destroy, goto,
               Refuse, answerAndRelease
    <3> QED
        BY <1>3, <3>1 DEF ShapeOK
  <2> QED
    BY <1>1, <2>1 DEF CreateSteps
<1> QED
    BY <1>2, <1>3

-----------------------------------------------------------------------------
\* The invariant holds in every state the brokers reach.
THEOREM BrokerInvariant == Spec => []IInv
BY InitIsInductive, NextIsInductive, PTL DEF Spec

\* What the last answered set or remove of a key said is what the file holds,
\* however the brokers interleave and whichever process dies.
THEOREM BrokersKeepAnswers == Spec => []AnswersAreKept
BY BrokerInvariant, PTL DEF IInv

\* A create that is refused half-way leaves every access list as it found it.
THEOREM RefusedCreatesRestore == Spec => RefusedCreateRestores
<1> DEFINE Restores ==
       \A p \in Brokers :
          At(p, CreateSteps) /\ b'[p].pc = "closed" /\ crashes' = crashes
              => acl' = b[p].before
<1>1. IInv /\ [Next]_vars => [Restores]_vars
  <2> SUFFICES ASSUME IInv, Next, NEW p \in Brokers, At(p, CreateSteps),
                      b'[p].pc = "closed", crashes' = crashes
               PROVE  acl' = b[p].before
    OBVIOUS
  <2>1. \A q \in Processes : ~Crash(q)
    BY DEF Crash, IInv, ShapeOK
  <2>2. PICK q \in Brokers : BrokerStep(q)
    BY <2>1 DEF Next, BrokerStep
  <2> QED
    BY <2>2, RefusalIsOwn
<1> QED
    BY <1>1, BrokerInvariant, PTL DEF Spec, RefusedCreateRestores


-----------------------------------------------------------------------------
\* What the variables of the capability runtimes hold.
Ops == Requests \cup {NoOp}
\* The outcomes of operations, and the messages of the window.
Outcomes == [op : Requests, status : Statuses]
Messages == {"start", "cancel", "shutdown"}
\* The coordinator.
DialogStates ==
    [available : BOOLEAN, stopping : BOOLEAN, active : Ops,
     pending : Seq(Requests), terminal : SUBSET Requests,
     cancels : SUBSET Requests, callbacks : Seq(Outcomes),
     msgs : Seq(Messages), quit : BOOLEAN, physical : Ops, shown : Statuses,
     cancelDelivered : BOOLEAN,
     sta : {"idle", "next", "show", "read", "tail", "exited"}]
\* The gesture router with the tokens.
Routers ==
    [bindings : [Tabs -> Runtimes \cup {NoRuntime}],
     active : Runtimes \cup {NoRuntime}, epoch : Nat,
     trusted : [Runtimes -> Nat], granted : [Runtimes -> Nat],
     used : [Runtimes -> SUBSET Nat], suppressed : BOOLEAN,
     admitted : SUBSET Runtimes, now : Nat, fresh : Nat]
\* A runtime.
RuntimeStates ==
    [phase : {"none", "open", "retiring", "retired", "gone"},
     accepting : BOOLEAN, bound : BOOLEAN,
     lane : {"none", "starting", "up", "broken", "quitStarting", "quit",
             "finished"},
     request : Ops, job : {"none", "queued", "waiting"}, jobOf : Ops,
     pendingFile : Ops, waitsFor : Ops]
\* What is queued to the GUI thread.
QueuedEvents ==
    [k : {"init"}, r : Runtimes, ok : BOOLEAN]
    \cup [k : {"done"}, r : Runtimes, q : Requests, result : {"ok", "error"}]
    \cup [k : {"file"}, r : Runtimes, q : Requests, status : Statuses]
    \cup [k : {"release"}, r : Runtimes]
    \cup [k : {"command"}, r : Runtimes, epoch : Nat, i : Nat]
\* The callback thread.
CallbackStates ==
    [op : Ops, keeps : Runtimes \cup {NoRuntime}, quiesced : SUBSET Requests,
     stopping : BOOLEAN, exited : BOOLEAN]
\* A clipboard read that was granted.
Reads == [q : Requests, r : Runtimes, id : Nat, input : Nat, turn : Nat]

-----------------------------------------------------------------------------
\* The inductive invariant of the capability runtimes.

\* The dialog on the screen is physical while the apartment thread is in Show
\* or reads the choice; one operation at most has the reservation, and it waits
\* or is on the screen.
ReservationOK(x) ==
    /\ x.physical # NoOp <=> x.sta \in {"show", "read"}
    /\ x.pending # <<>> => x.active # NoOp /\ x.pending = <<x.active>>
    /\ x.active # NoOp => x.pending = <<x.active>> \/ x.active = x.physical

\* Every terminal operation has one outcome, queued or reported.
ReportsOK(x, told) ==
    /\ \A i, j \in DOMAIN x.callbacks :
          x.callbacks[i].op = x.callbacks[j].op => i = j
    /\ \A i \in DOMAIN x.callbacks : x.callbacks[i].op \in x.terminal
    /\ \A q \in Requests :
          told[q] = IF /\ q \in x.terminal
                       /\ \A i \in DOMAIN x.callbacks : x.callbacks[i].op # q
                    THEN 1 ELSE 0

\* Both, of a coordinator x and what was reported so far.
DialogOK(x, told) ==
    x \in DialogStates /\ ReservationOK(x) /\ ReportsOK(x, told)

\* A waiting operation is started: by openAsync, which is not over yet, or by a
\* message.
StartOK(x, where) ==
    x.pending # <<>> /\ x.sta = "idle" =>
        where = "post" \/ \E i \in DOMAIN x.msgs : x.msgs[i] = "start"

\* The dialog's part of the invariant.
DialogPart ==
    /\ DialogOK(d, reported) /\ StartOK(d, gui)
    /\ gui \in {"run", "post", "joinSta", "joinCallback", "down"}
    /\ next \in Nat \ {0} /\ reported \in [Requests -> Nat]
    /\ gui = "post" => next - 1 \in Requests /\ d.active \in {NoOp, next - 1}

-----------------------------------------------------------------------------
\* Queues.

\* What Append, and Head and Tail, make of a queue's contents.
LEMMA Appended ==
    ASSUME NEW S, NEW s \in Seq(S), NEW e \in S
    PROVE  Append(s, e) \in Seq(S) /\ ToSet(Append(s, e)) = ToSet(s) \cup {e}
<1>1. /\ Append(s, e) \in Seq(S) /\ Len(Append(s, e)) = Len(s) + 1
      /\ DOMAIN Append(s, e) = 1 .. Len(s) + 1 /\ DOMAIN s = 1 .. Len(s)
      /\ Len(s) \in Nat
      /\ \A i \in 1 .. Len(s) : Append(s, e)[i] = s[i]
      /\ Append(s, e)[Len(s) + 1] = e
  BY AppendProperties, LenProperties
<1> QED
  BY <1>1 DEF ToSet

\* The first of a queue, and what is left.
LEMMA Taken ==
    ASSUME NEW S, NEW s \in Seq(S), s # <<>>
    PROVE  /\ Tail(s) \in Seq(S) /\ Head(s) \in S /\ Head(s) \in ToSet(s)
           /\ ToSet(s) = ToSet(Tail(s)) \cup {Head(s)}
<1>1. /\ Tail(s) \in Seq(S) /\ Len(Tail(s)) = Len(s) - 1 /\ Head(s) = s[1]
      /\ DOMAIN Tail(s) = 1 .. Len(s) - 1 /\ DOMAIN s = 1 .. Len(s)
      /\ Len(s) \in Nat \ {0}
      /\ \A i \in 1 .. Len(s) - 1 : Tail(s)[i] = s[i + 1]
  BY HeadTailProperties, LenProperties, EmptySeq
<1>2. Head(s) \in S /\ 1 \in DOMAIN s
  BY <1>1, ElementOfSeq
<1>3. \A i \in DOMAIN Tail(s) : i + 1 \in DOMAIN s /\ Tail(s)[i] = s[i + 1]
  BY <1>1
<1>4. \A i \in DOMAIN s :
         i = 1 \/ (i - 1 \in DOMAIN Tail(s) /\ s[i] = Tail(s)[i - 1])
  BY <1>1
<1>5. ToSet(Tail(s)) \subseteq ToSet(s) /\ Head(s) \in ToSet(s)
  BY <1>1, <1>2, <1>3 DEF ToSet
<1>6. ToSet(s) \subseteq ToSet(Tail(s)) \cup {Head(s)}
  BY <1>1, <1>4 DEF ToSet
<1> QED
  BY <1>1, <1>2, <1>5, <1>6

\* A waiting operation is found and taken out.
LEMMA RemovedOne ==
    ASSUME NEW o, NEW x
    PROVE  /\ RemoveFirst(<<>>, o) = <<>>
           /\ RemoveFirst(<<x>>, o) = IF x = o THEN <<>> ELSE <<x>>
<1>1. RemoveFirst(<<>>, o) = <<>>
  BY DEF RemoveFirst
<1>2. CASE x = o
  <2>1. SelectInSeq(<<o>>, LAMBDA v : v = o) = 1
    <3>1. {i \in 1 .. Len(<<o>>) : <<o>>[i] = o} = {1}
      OBVIOUS
    <3>2. Min({1}) = 1
      BY DEF Min
    <3> QED
      BY <3>1, <3>2 DEF SelectInSeq
  <2>2. RemoveAt(<<o>>, 1) = <<>>
    BY DEF RemoveAt
  <2>3. \E i \in 1 .. Len(<<o>>) : <<o>>[i] = o
    OBVIOUS
  <2> QED
    BY <1>1, <1>2, <2>1, <2>2, <2>3 DEF RemoveFirst
<1>3. CASE x # o
  <2>1. ~ \E i \in 1 .. Len(<<x>>) : <<x>>[i] = o
    BY <1>3
  <2> QED
    BY <1>1, <1>3, <2>1 DEF RemoveFirst
<1> QED
  BY <1>2, <1>3

-----------------------------------------------------------------------------
\* The dialog.

\* What matters of the dialog to its reservation.
SameReservation(x, y) ==
    /\ y.physical = x.physical /\ y.sta = x.sta
    /\ y.pending = x.pending /\ y.active = x.active

\* What matters of it to the outcomes.
SameReports(x, y) == y.callbacks = x.callbacks /\ y.terminal = x.terminal

\* The outcomes depend on nothing else.
LEMMA SameReportsOK ==
    ASSUME NEW x, NEW y, NEW told, ReportsOK(x, told), SameReports(x, y)
    PROVE  ReportsOK(y, told)
BY DEF ReportsOK, SameReports

\* finishLocked.
LEMMA FinishOK ==
    ASSUME NEW x, NEW told, DialogOK(x, told), NEW o \in Requests,
           NEW status \in Statuses, NEW y, y = finishLocked(x, o, status)
    PROVE  /\ DialogOK(y, told) /\ SameReservation(x, y) /\ y.msgs = x.msgs
           /\ o \in y.terminal
<1>1. CASE o \in x.terminal
  BY <1>1 DEF finishLocked, SameReservation
<1>2. CASE o \notin x.terminal
  <2> DEFINE e == [op |-> o, status |-> status]
             cs == Append(x.callbacks, e)
             ts == x.terminal \cup {o}
  <2>1. x \in DialogStates /\ x.callbacks \in Seq(Outcomes) /\ e \in Outcomes
    BY DEF DialogOK, DialogStates, Outcomes
  <2>2. y = [x EXCEPT !.terminal = ts, !.callbacks = cs]
    BY <1>2 DEF finishLocked
  <2>3. /\ cs \in Seq(Outcomes) /\ Len(x.callbacks) \in Nat
        /\ DOMAIN cs = 1 .. Len(x.callbacks) + 1
        /\ DOMAIN x.callbacks = 1 .. Len(x.callbacks)
        /\ \A i \in 1 .. Len(x.callbacks) : cs[i] = x.callbacks[i]
        /\ cs[Len(x.callbacks) + 1] = e
    BY <2>1, AppendProperties, LenProperties
  <2> HIDE DEF cs
  <2>4. ts \in SUBSET Requests
    BY <2>1 DEF DialogStates
  <2>5. /\ y \in DialogStates /\ SameReservation(x, y) /\ y.msgs = x.msgs
        /\ y.callbacks = cs /\ y.terminal = ts
    BY <2>1, <2>2, <2>3, <2>4 DEF DialogStates, SameReservation
  <2>6. ReservationOK(y)
    BY <2>5 DEF DialogOK, ReservationOK, SameReservation
  <2>7. ReportsOK(x, told) /\ e.op = o
    BY DEF DialogOK
  <2>8. \A i \in DOMAIN x.callbacks : x.callbacks[i].op # o
    BY <1>2, <2>7 DEF ReportsOK
  <2> HIDE DEF e, ts
  <2>9. ASSUME NEW i \in DOMAIN cs, NEW j \in DOMAIN cs, cs[i].op = cs[j].op
        PROVE  i = j
    <3> DEFINE D == DOMAIN x.callbacks
               last == Len(x.callbacks) + 1
    <3>1. /\ i \in D \/ i = last
          /\ j \in D \/ j = last
      BY <2>3
    <3>2. CASE i \in D /\ j \in D
      BY <2>3, <2>7, <2>9, <3>2 DEF ReportsOK
    <3>3. CASE i \in D /\ j = last
      BY <2>3, <2>7, <2>8, <2>9, <3>3
    <3>4. CASE i = last /\ j \in D
      BY <2>3, <2>7, <2>8, <2>9, <3>4
    <3> QED
      BY <3>1, <3>2, <3>3, <3>4
  <2>10. \A i \in DOMAIN cs : cs[i].op \in ts
    BY <2>3, <2>7 DEF ReportsOK, ts
  <2>11. ASSUME NEW q \in Requests
         PROVE  told[q] = IF q \in ts /\ \A i \in DOMAIN cs : cs[i].op # q
                          THEN 1 ELSE 0
    <3>1. CASE q = o
      <4>1. told[q] = 0
        BY <1>2, <2>7, <3>1 DEF ReportsOK
      <4>2. \E i \in DOMAIN cs : cs[i].op = q
        BY <2>3, <2>7, <3>1
      <4> QED
        BY <4>1, <4>2
    <3>2. CASE q # o
      <4>1. (\A i \in DOMAIN cs : cs[i].op # q)
              <=> (\A i \in DOMAIN x.callbacks : x.callbacks[i].op # q)
        BY <2>3, <2>7, <3>2
      <4>2. q \in ts <=> q \in x.terminal
        BY <3>2 DEF ts
      <4> QED
        BY <2>7, <4>1, <4>2 DEF ReportsOK
    <3> QED
      BY <3>1, <3>2
  <2>12. ReportsOK(y, told)
    BY <2>5, <2>9, <2>10, <2>11 DEF ReportsOK
  <2> QED
    BY <2>5, <2>6, <2>12 DEF DialogOK, ts
<1> QED
  BY <1>1, <1>2

\* releaseOperationReservationLocked.
LEMMA ReleaseOK ==
    ASSUME NEW x, NEW told, DialogOK(x, told), NEW o \in Requests,
           NEW y, y = releaseOperationReservationLocked(x, o)
    PROVE  /\ DialogOK(y, told) /\ SameReports(x, y) /\ y.msgs = x.msgs
           /\ y.physical = x.physical /\ y.sta = x.sta
           /\ x.active \in {NoOp, o} => y.active = NoOp /\ y.pending = <<>>
           /\ y.pending = <<>> \/ y.pending = x.pending
           /\ y.active \in {NoOp, x.active}
<1> DEFINE ps == RemoveFirst(x.pending, o)
           a == IF x.active = o THEN NoOp ELSE x.active
<1>1. /\ x \in DialogStates /\ x.pending \in Seq(Requests) /\ a \in Ops
      /\ x.active \in Ops
  BY DEF DialogOK, DialogStates, Ops
<1>2. y = [x EXCEPT !.pending = ps, !.active = a]
  BY <1>1 DEF releaseOperationReservationLocked, DialogStates
<1>3. x.pending = <<>> \/ (x.active # NoOp /\ x.pending = <<x.active>>)
  <2>1. x.pending # <<>> => x.active # NoOp /\ x.pending = <<x.active>>
    BY DEF DialogOK, ReservationOK
  <2> QED
    BY <2>1
<1>4. ps = IF x.active = o THEN <<>> ELSE x.pending
  <2>1. o # NoOp
    BY CapabilityAssumption
  <2>2. CASE x.pending = <<>>
    BY <2>2, RemovedOne
  <2>3. CASE x.active # NoOp /\ x.pending = <<x.active>>
    <3>1. RemoveFirst(<<x.active>>, o)
            = IF x.active = o THEN <<>> ELSE <<x.active>>
      BY RemovedOne
    <3> QED
      BY <2>3, <3>1
  <2> QED
    BY <1>3, <2>2, <2>3
<1>5. ps \in Seq(Requests)
  BY <1>1, <1>4
<1> HIDE DEF ps
<1>6. /\ y \in DialogStates /\ SameReports(x, y) /\ y.msgs = x.msgs
      /\ y.physical = x.physical /\ y.sta = x.sta
      /\ y.pending = ps /\ y.active = a
  BY <1>1, <1>2, <1>5 DEF DialogStates, SameReports
<1>7. ReservationOK(y)
  BY <1>3, <1>4, <1>6 DEF DialogOK, ReservationOK
<1>8. ReportsOK(y, told)
  BY <1>6 DEF DialogOK, ReportsOK, SameReports
<1> QED
  BY <1>3, <1>4, <1>6, <1>7, <1>8 DEF DialogOK
\* What leaves both alone is harmless.
LEMMA Untouched ==
    ASSUME NEW x, NEW told, DialogOK(x, told), NEW y \in DialogStates,
           SameReservation(x, y), SameReports(x, y)
    PROVE  DialogOK(y, told)
<1>1. ReservationOK(y)
  BY DEF DialogOK, ReservationOK, SameReservation
<1>2. ReportsOK(y, told)
  BY DEF DialogOK, ReportsOK, SameReports
<1> QED
  BY <1>1, <1>2 DEF DialogOK

\* finishAndReleaseOperation.
LEMMA FinishAndReleaseOK ==
    ASSUME NEW x, NEW told, DialogOK(x, told), NEW o \in Requests,
           NEW status \in Statuses,
           NEW y, y = finishAndReleaseOperation(x, o, status)
    PROVE  /\ DialogOK(y, told) /\ y.msgs = x.msgs
           /\ y.physical = x.physical /\ y.sta = x.sta
           /\ x.active \in {NoOp, o} => y.active = NoOp /\ y.pending = <<>>
           /\ y.pending = <<>> \/ y.pending = x.pending
           /\ y.active \in {NoOp, x.active}
<1> DEFINE f == finishLocked(x, o, status)
<1>1. DialogOK(f, told) /\ SameReservation(x, f) /\ f.msgs = x.msgs
  BY FinishOK
<1>2. y = releaseOperationReservationLocked(f, o)
  BY DEF finishAndReleaseOperation
<1> HIDE DEF f
<1> QED
  BY <1>1, <1>2, ReleaseOK DEF SameReservation

\* A start message is queued.
Starting(x) == \E i \in DOMAIN x.msgs : x.msgs[i] = "start"

\* The same of the queue as a set.
LEMMA StartIsMember ==
    ASSUME NEW x PROVE Starting(x) <=> "start" \in ToSet(x.msgs)
BY DEF Starting, ToSet

\* postWindowMessage.
LEMMA PostOK ==
    ASSUME NEW x, NEW told, DialogOK(x, told), NEW m \in Messages,
           NEW y, y = postWindowMessage(x, m)
    PROVE  /\ DialogOK(y, told) /\ SameReservation(x, y) /\ SameReports(x, y)
           /\ Starting(x) => Starting(y)
           /\ m = "start" /\ x.sta # "exited" => Starting(y)
<1>1. CASE x.sta = "exited"
  BY <1>1 DEF postWindowMessage, SameReservation, SameReports
<1>2. CASE x.sta # "exited"
  <2> DEFINE ms == Append(x.msgs, m)
  <2>1. x \in DialogStates /\ x.msgs \in Seq(Messages)
    BY DEF DialogOK, DialogStates
  <2>2. ms \in Seq(Messages) /\ ToSet(ms) = ToSet(x.msgs) \cup {m}
    BY <2>1, Appended
  <2>3. y = [x EXCEPT !.msgs = ms]
    BY <1>2 DEF postWindowMessage
  <2> HIDE DEF ms
  <2>4. /\ y \in DialogStates /\ SameReservation(x, y) /\ SameReports(x, y)
        /\ y.msgs = ms
    BY <2>1, <2>2, <2>3 DEF DialogStates, SameReservation, SameReports
  <2>5. DialogOK(y, told)
    BY <2>4, Untouched
  <2> QED
    BY <1>2, <2>2, <2>4, <2>5, StartIsMember
<1> QED
  BY <1>1, <1>2

\* requestCancel.
LEMMA CancelOK ==
    ASSUME NEW x, NEW told, DialogOK(x, told), NEW o \in Requests,
           NEW y, y = requestCancel(x, o)
    PROVE  /\ DialogOK(y, told) /\ SameReservation(x, y)
           /\ Starting(x) => Starting(y)
<1>1. CASE x.active # o \/ o \in x.terminal
  BY <1>1 DEF requestCancel, SameReservation
<1>2. CASE ~(x.active # o \/ o \in x.terminal)
  <2> DEFINE f == finishLocked(x, o, "Cancelled")
             cs == f.cancels \cup {o}
             h == [f EXCEPT !.cancels = cs]
  <2>1. y = postWindowMessage(h, "cancel")
    BY <1>2 DEF requestCancel
  <2>2. DialogOK(f, told) /\ SameReservation(x, f) /\ f.msgs = x.msgs
    BY FinishOK DEF Statuses
  <2> HIDE DEF f
  <2>3. cs \in SUBSET Requests /\ f \in DialogStates
    BY <2>2 DEF DialogOK, DialogStates
  <2> HIDE DEF cs
  <2>4. /\ h \in DialogStates /\ SameReservation(f, h) /\ SameReports(f, h)
        /\ h.msgs = f.msgs
    BY <2>3 DEF DialogStates, SameReservation, SameReports
  <2> HIDE DEF h
  <2>5. DialogOK(h, told)
    BY <2>2, <2>4, Untouched
  <2>6. /\ DialogOK(y, told) /\ SameReservation(h, y)
        /\ Starting(h) => Starting(y)
    BY <2>1, <2>5, PostOK DEF Messages
  <2> QED
    BY <2>2, <2>4, <2>6 DEF SameReservation, Starting
<1> QED
  BY <1>1, <1>2

\* openAsync, for an operation of its own.
LEMMA OpenOK ==
    ASSUME NEW x, NEW told, DialogOK(x, told), NEW o \in Requests,
           NEW y, y = openAsync(x, o, TRUE)
    PROVE  /\ DialogOK(y, told) /\ y.sta = x.sta /\ y.msgs = x.msgs
           /\ Accepted(x, TRUE) => y.active = o
           /\ ~Accepted(x, TRUE) => SameReservation(x, y)
<1>1. CASE Accepted(x, TRUE)
  <2>1. /\ x \in DialogStates /\ x.active = NoOp /\ x.pending = <<>>
        /\ o \in Ops /\ o # NoOp
    BY <1>1, CapabilityAssumption
       DEF Accepted, DialogOK, ReservationOK, Ops
  <2>2. y = [x EXCEPT !.active = o, !.pending = <<o>>]
    BY <1>1, <2>1 DEF openAsync, DialogStates
  <2>3. <<o>> \in Seq(Requests)
    OBVIOUS
  <2>4. /\ y \in DialogStates /\ y.active = o /\ y.pending = <<o>>
        /\ y.sta = x.sta /\ y.msgs = x.msgs /\ y.physical = x.physical
        /\ SameReports(x, y)
    BY <2>1, <2>2, <2>3 DEF DialogStates, SameReports
  <2>5. ReservationOK(y)
    BY <2>1, <2>4 DEF DialogOK, ReservationOK
  <2>6. ReportsOK(y, told)
    BY <2>4, SameReportsOK DEF DialogOK
  <2> QED
    BY <1>1, <2>4, <2>5, <2>6 DEF DialogOK
<1>2. CASE ~Accepted(x, TRUE)
  <2>1. PICK status \in Statuses : y = finishLocked(x, o, status)
    BY <1>2 DEF openAsync, Statuses
  <2> QED
    <3> DEFINE f == finishLocked(x, o, status)
    <3>1. DialogOK(f, told) /\ SameReservation(x, f) /\ f.msgs = x.msgs
      BY FinishOK
    <3> HIDE DEF f
    <3>2. y = f
      BY <2>1 DEF f
    <3> QED
      BY <1>2, <3>1, <3>2 DEF SameReservation
<1> QED
  BY <1>1, <1>2

\* postStart.
LEMMA PostStartOK ==
    ASSUME NEW x, NEW told, DialogOK(x, told), NEW o \in Requests,
           x.active \in {NoOp, o}, NEW posted \in BOOLEAN,
           NEW y, y = postStart(x, o, posted)
    PROVE  DialogOK(y, told) /\ StartOK(y, "run")
<1>1. CASE posted /\ x.sta # "exited"
  <2>1. y = postWindowMessage(x, "start")
    BY <1>1 DEF postStart
  <2> QED
    <3>1. DialogOK(y, told) /\ Starting(y)
      BY <1>1, <2>1, PostOK DEF Messages
    <3> QED
      BY <3>1 DEF StartOK, Starting
<1>2. CASE ~(posted /\ x.sta # "exited")
  <2>1. y = finishAndReleaseOperation(x, o, "Failed")
    BY <1>2 DEF postStart
  <2> QED
    <3> DEFINE f == finishAndReleaseOperation(x, o, "Failed")
    <3>1. DialogOK(f, told) /\ f.pending = <<>>
      <4>1. "Failed" \in Statuses
        BY DEF Statuses
      <4> QED
        BY <4>1, FinishAndReleaseOK
    <3> HIDE DEF f
    <3>2. y = f
      BY <2>1 DEF f
    <3> QED
      BY <3>1, <3>2 DEF StartOK
<1> QED
  BY <1>1, <1>2

\* A message of the apartment thread's window.
LEMMA WindowProcedureOK ==
    ASSUME NEW x, NEW told, DialogOK(x, told), x.sta \in {"idle", "show"},
           x.msgs # <<>>, NEW where, StartOK(x, where),
           NEW y, y = windowProcedure(x)
    PROVE  /\ DialogOK(y, told) /\ StartOK(y, where) /\ y.active = x.active
<1> DEFINE ms == Tail(x.msgs)
           rest == [x EXCEPT !.msgs = ms]
<1>1. x \in DialogStates /\ x.msgs \in Seq(Messages)
  BY DEF DialogOK, DialogStates
<1>2. /\ ms \in Seq(Messages) /\ Head(x.msgs) \in Messages
      /\ ToSet(x.msgs) = ToSet(ms) \cup {Head(x.msgs)}
  BY <1>1, Taken
<1>3. /\ y = CASE Head(x.msgs) = "start" -> handleStartMessage(rest)
               [] Head(x.msgs) = "cancel" -> handleCancelMessage(rest)
               [] Head(x.msgs) = "shutdown" -> handleShutdownMessage(rest)
  BY DEF windowProcedure
<1> HIDE DEF ms
<1>4. /\ rest \in DialogStates /\ SameReservation(x, rest)
      /\ SameReports(x, rest) /\ rest.msgs = ms
  BY <1>1, <1>2 DEF DialogStates, SameReservation, SameReports
<1> HIDE DEF rest
<1>5. DialogOK(rest, told)
  BY <1>4, Untouched
<1>6. CASE Head(x.msgs) = "start"
  <2>1. y = handleStartMessage(rest)
    BY <1>3, <1>6
  <2>2. CASE rest.physical # NoOp
    <3>1. y = rest
      BY <2>1, <2>2 DEF handleStartMessage
    <3>2. rest.sta # "idle"
      BY <1>5, <2>2 DEF DialogOK, ReservationOK
    <3> QED
      BY <1>4, <1>5, <3>1, <3>2 DEF StartOK, SameReservation
  <2>3. CASE rest.physical = NoOp
    <3>1. y = [rest EXCEPT !.sta = "next"]
      BY <2>1, <2>3 DEF handleStartMessage
    <3>2. /\ y \in DialogStates /\ y.sta = "next" /\ SameReports(rest, y)
          /\ y.physical = rest.physical /\ y.pending = rest.pending
          /\ y.active = rest.active
      BY <1>4, <3>1 DEF DialogStates, SameReports
    <3>3. ReservationOK(y)
      BY <1>5, <2>3, <3>2 DEF DialogOK, ReservationOK
    <3>4. ReportsOK(y, told)
      BY <1>5, <3>2 DEF DialogOK, ReportsOK, SameReports
    <3> QED
      BY <1>4, <3>2, <3>3, <3>4 DEF DialogOK, StartOK, SameReservation
  <2> QED
    BY <2>2, <2>3
<1>7. CASE Head(x.msgs) \in {"cancel", "shutdown"}
  <2>1. /\ y \in DialogStates /\ SameReservation(rest, y)
        /\ SameReports(rest, y) /\ y.msgs = rest.msgs
    <3>1. CASE Head(x.msgs) = "cancel"
      <4>1. y = handleCancelMessage(rest)
        BY <1>3, <3>1
      <4> QED
        BY <1>4, <4>1
           DEF handleCancelMessage, deliverPhysicalCancellation, DialogStates,
               SameReservation, SameReports
    <3>2. CASE Head(x.msgs) = "shutdown"
      <4>1. y = handleShutdownMessage(rest)
        BY <1>3, <3>2
      <4> QED
        BY <1>4, <4>1
           DEF handleShutdownMessage, deliverPhysicalCancellation,
               DialogStates, SameReservation, SameReports
    <3> QED
      BY <1>7, <3>1, <3>2
  <2>2. DialogOK(y, told)
    BY <1>5, <2>1, Untouched
  <2>3. Starting(x) => Starting(y)
    BY <1>2, <1>4, <1>7, <2>1, StartIsMember
  <2> QED
    BY <1>4, <2>1, <2>2, <2>3 DEF StartOK, Starting, SameReservation
<1> QED
  BY <1>2, <1>6, <1>7 DEF Messages

\* A round of the loop of runNextOperation.
LEMMA RunNextOK ==
    ASSUME NEW x, NEW told, DialogOK(x, told), x.sta = "next",
           NEW y, y = runNextOperation(x)
    PROVE  DialogOK(y, told) /\ y.sta # "idle" /\ y.active \in {NoOp, x.active}
<1>1. /\ x \in DialogStates /\ x.physical = NoOp /\ x.pending \in Seq(Requests)
      /\ ReportsOK(x, told)
  BY DEF DialogOK, ReservationOK, DialogStates
<1>2. CASE x.pending = <<>>
  <2>1. y = [x EXCEPT !.sta = "tail"]
    BY <1>2 DEF runNextOperation
  <2>2. /\ y \in DialogStates /\ y.sta = "tail" /\ SameReports(x, y)
        /\ y.physical = x.physical /\ y.pending = x.pending
        /\ y.active = x.active
    BY <1>1, <2>1 DEF DialogStates, SameReports
  <2>3. ReservationOK(y)
    BY <1>1, <2>2 DEF DialogOK, ReservationOK
  <2> QED
    BY <1>1, <2>2, <2>3, SameReportsOK DEF DialogOK
<1>3. CASE x.pending # <<>>
  <2> DEFINE o == x.active
             popped == [x EXCEPT !.pending = <<>>]
  <2>1. o \in Requests /\ x.pending = <<o>>
    BY <1>1, <1>3 DEF DialogOK, ReservationOK, DialogStates, Ops
  <2>2. Head(x.pending) = o /\ Tail(x.pending) = <<>>
    BY <2>1
  <2>3. y = IF o \in x.terminal
              THEN releaseOperationReservationLocked(popped, o)
              ELSE [popped EXCEPT !.physical = o, !.cancelDelivered = FALSE,
                                  !.sta = "show"]
    BY <1>3, <2>2 DEF runNextOperation
  <2>4. <<>> \in Seq(Requests) /\ o \in Ops /\ o # NoOp
    BY <2>1, CapabilityAssumption DEF Ops
  <2>5. CASE o \in x.terminal
    <3>1. y = [popped EXCEPT !.pending = RemoveFirst(<<>>, o), !.active = NoOp]
      BY <1>1, <2>3, <2>5
         DEF releaseOperationReservationLocked, DialogStates
    <3>2. RemoveFirst(<<>>, o) = <<>>
      BY RemovedOne
    <3>3. NoOp \in Ops
      BY DEF Ops
    <3>4. y = [x EXCEPT !.pending = <<>>, !.active = NoOp]
      BY <1>1, <3>1, <3>2 DEF DialogStates
    <3>5. /\ y \in DialogStates /\ y.sta = "next" /\ SameReports(x, y)
          /\ y.physical = NoOp /\ y.pending = <<>> /\ y.active = NoOp
      BY <1>1, <2>4, <3>3, <3>4 DEF DialogStates, SameReports
    <3>6. ReservationOK(y)
      BY <3>5 DEF ReservationOK
    <3> QED
      BY <1>1, <3>5, <3>6, SameReportsOK DEF DialogOK
  <2>6. CASE o \notin x.terminal
    <3>1. y = [popped EXCEPT !.physical = o, !.cancelDelivered = FALSE,
                             !.sta = "show"]
      BY <2>3, <2>6
    <3>2. /\ y \in DialogStates /\ y.sta = "show" /\ SameReports(x, y)
          /\ y.physical = o /\ y.pending = <<>> /\ y.active = o
      BY <1>1, <2>4, <3>1 DEF DialogStates, SameReports
    <3>3. ReservationOK(y)
      BY <2>4, <3>2 DEF ReservationOK
    <3> QED
      BY <1>1, <3>2, <3>3, SameReportsOK DEF DialogOK
  <2> QED
    BY <2>5, <2>6
<1> QED
  BY <1>2, <1>3

\* Show returns.
LEMMA ShowReturnedOK ==
    ASSUME NEW x, NEW told, DialogOK(x, told), x.sta = "show",
           NEW status \in Statuses, NEW y, y = showReturned(x, status)
    PROVE  DialogOK(y, told) /\ y.sta # "idle" /\ y.active = x.active
<1>1. x \in DialogStates /\ ReportsOK(x, told)
  BY DEF DialogOK
<1>2. /\ y \in DialogStates /\ y.sta = "read" /\ SameReports(x, y)
      /\ y.physical = x.physical /\ y.pending = x.pending
      /\ y.active = x.active
  BY <1>1 DEF showReturned, DialogStates, SameReports
<1>3. ReservationOK(y)
  BY <1>2 DEF DialogOK, ReservationOK
<1> QED
  BY <1>1, <1>2, <1>3, SameReportsOK DEF DialogOK

\* The operation on the screen ends.
LEMMA RunOperationOK ==
    ASSUME NEW x, NEW told, DialogOK(x, told), x.sta = "read",
           NEW status \in Statuses, NEW y, y = runOperation(x, status)
    PROVE  DialogOK(y, told) /\ y.sta # "idle" /\ y.active \in {NoOp, x.active}
<1> DEFINE o == x.physical
           f == finishLocked(x, o, status)
           h == releaseOperationReservationLocked(f, o)
           z == [h EXCEPT !.physical = NoOp, !.sta = "tail"]
<1>1. /\ x \in DialogStates /\ o \in Requests
  BY DEF DialogOK, ReservationOK, DialogStates, Ops
<1>2. DialogOK(f, told) /\ SameReservation(x, f)
  BY <1>1, FinishOK
<1>3. y = z
  <2> DEFINE u == [x EXCEPT !.physical = NoOp, !.sta = "tail"]
             v == finishLocked(u, o, status)
  <2>1. v = [f EXCEPT !.physical = NoOp, !.sta = "tail"]
    BY <1>1 DEF finishLocked, DialogStates
  <2>2. y = releaseOperationReservationLocked(v, o)
    BY DEF runOperation, finishAndReleaseOperation
  <2>3. f \in DialogStates
    BY <1>2 DEF DialogOK
  <2> HIDE DEF f, v
  <2> QED
    BY <2>1, <2>2, <2>3 DEF releaseOperationReservationLocked, DialogStates
<1> HIDE DEF f
<1>4. /\ DialogOK(h, told) /\ h.physical = o
      /\ h.active \in {NoOp, x.active}
      /\ x.active \in {NoOp, o} => h.active = NoOp /\ h.pending = <<>>
      /\ h.pending = <<>> \/ h.pending = x.pending
  BY <1>1, <1>2, ReleaseOK DEF SameReservation
<1> HIDE DEF h
<1>5. /\ h \in DialogStates /\ NoOp \in Ops /\ ReportsOK(h, told)
  BY <1>4 DEF DialogOK, Ops
<1>6. /\ z \in DialogStates /\ z.sta = "tail" /\ SameReports(h, z)
      /\ z.physical = NoOp /\ z.pending = h.pending /\ z.active = h.active
  BY <1>5 DEF DialogStates, SameReports
<1> HIDE DEF z
<1>7. ReservationOK(h) /\ ReservationOK(x)
  BY <1>4 DEF DialogOK
<1>8. h.active # NoOp => h.pending = <<h.active>>
  BY <1>4, <1>7 DEF ReservationOK
<1>9. h.pending # <<>> => h.active # NoOp /\ h.pending = <<h.active>>
  BY <1>7 DEF ReservationOK
<1>10. ReservationOK(z)
  BY <1>6, <1>8, <1>9 DEF ReservationOK
<1>11. DialogOK(z, told)
  BY <1>5, <1>6, <1>10, SameReportsOK DEF DialogOK
<1> QED
  BY <1>3, <1>4, <1>6, <1>11

\* The end of runNextOperation.
LEMMA TailOK ==
    ASSUME NEW x, NEW told, DialogOK(x, told), x.sta = "tail",
           NEW where, NEW y, y = runNextOperationTail(x)
    PROVE  DialogOK(y, told) /\ StartOK(y, where) /\ y.active = x.active
<1> DEFINE idle == [x EXCEPT !.sta = "idle"]
           over == [idle EXCEPT !.quit = TRUE]
<1>1. x \in DialogStates /\ ReportsOK(x, told)
  BY DEF DialogOK
<1>2. /\ idle \in DialogStates /\ idle.sta = "idle" /\ SameReports(x, idle)
      /\ idle.physical = x.physical /\ idle.pending = x.pending
      /\ idle.active = x.active
  BY <1>1 DEF DialogStates, SameReports
<1>3. y = IF x.pending # <<>> THEN postWindowMessage(idle, "start")
          ELSE IF x.stopping THEN over ELSE idle
  BY DEF runNextOperationTail
<1> HIDE DEF idle
<1>4. /\ over \in DialogStates /\ SameReservation(idle, over)
      /\ SameReports(idle, over)
  BY <1>2 DEF DialogStates, SameReservation, SameReports
<1> HIDE DEF over
<1>5. ReservationOK(idle)
  BY <1>2 DEF DialogOK, ReservationOK
<1>6. DialogOK(idle, told)
  BY <1>1, <1>2, <1>5, SameReportsOK DEF DialogOK
<1>7. DialogOK(over, told)
  BY <1>4, <1>6, Untouched
<1>8. CASE x.pending # <<>>
  <2> DEFINE z == postWindowMessage(idle, "start")
  <2>1. DialogOK(z, told) /\ SameReservation(idle, z) /\ Starting(z)
    BY <1>2, <1>6, PostOK DEF Messages
  <2> HIDE DEF z
  <2>2. y = z
    BY <1>3, <1>8 DEF z
  <2> QED
    BY <1>2, <2>1, <2>2 DEF StartOK, Starting, SameReservation
<1>9. CASE x.pending = <<>>
  <2>1. y \in {over, idle}
    BY <1>3, <1>9
  <2> QED
    BY <1>2, <1>4, <1>6, <1>7, <1>9, <2>1 DEF StartOK, SameReservation
<1> QED
  BY <1>8, <1>9

\* beginShutdown.
LEMMA BeginShutdownOK ==
    ASSUME NEW x, NEW told, DialogOK(x, told),
           NEW y, y = beginShutdown(x)
    PROVE  /\ DialogOK(y, told) /\ SameReservation(x, y)
           /\ Starting(x) => Starting(y)
<1> DEFINE stopped == [x EXCEPT !.stopping = TRUE]
           z == IF x.active = NoOp THEN stopped
                ELSE requestCancel(stopped, x.active)
<1>1. x \in DialogStates
  BY DEF DialogOK
<1>2. /\ stopped \in DialogStates /\ SameReservation(x, stopped)
      /\ SameReports(x, stopped) /\ stopped.msgs = x.msgs
      /\ stopped.active = x.active
  BY <1>1 DEF DialogStates, SameReservation, SameReports
<1>3. y = x \/ y = postWindowMessage(z, "shutdown")
  BY <1>2 DEF beginShutdown
<1> HIDE DEF stopped
<1>4. DialogOK(stopped, told)
  BY <1>2, Untouched
<1>5. /\ DialogOK(z, told) /\ SameReservation(stopped, z)
      /\ Starting(stopped) => Starting(z)
  <2>1. CASE x.active = NoOp
    BY <1>4, <2>1 DEF SameReservation
  <2>2. CASE x.active # NoOp
    <3>1. x.active \in Requests
      BY <1>1, <2>2 DEF DialogStates, Ops
    <3>2. z = requestCancel(stopped, x.active)
      BY <2>2
    <3> QED
      BY <1>4, <3>1, <3>2, CancelOK
  <2> QED
    BY <2>1, <2>2
<1> HIDE DEF z
<1>6. CASE y = x
  BY <1>6 DEF SameReservation
<1>7. CASE y = postWindowMessage(z, "shutdown")
  <2>1. /\ DialogOK(y, told) /\ SameReservation(z, y)
        /\ Starting(z) => Starting(y)
    BY <1>5, <1>7, PostOK DEF Messages
  <2> QED
    BY <1>2, <1>5, <2>1 DEF SameReservation, Starting
<1> QED
  BY <1>3, <1>6, <1>7

\* One outcome is reported.
OutcomeReported(x, y, told, new) ==
    LET o == Head(x.callbacks).op
    IN  /\ x.callbacks # <<>> /\ y.callbacks = Tail(x.callbacks)
        /\ y.terminal = x.terminal /\ o \in Requests
        /\ new[o] = told[o] + 1
        /\ \A q \in Requests \ {o} : new[q] = told[q]

\* The outcome moves from the queue to those that were told.
LEMMA CallbackOK ==
    ASSUME NEW x, NEW told, told \in [Requests -> Nat], DialogOK(x, told),
           NEW y, y \in DialogStates, SameReservation(x, y),
           NEW new, OutcomeReported(x, y, told, new)
    PROVE  DialogOK(y, new)
<1> DEFINE cs == x.callbacks
           o == Head(cs).op
<1>1. /\ x \in DialogStates /\ cs \in Seq(Outcomes) /\ ReportsOK(x, told)
      /\ cs # <<>>
  BY DEF DialogOK, DialogStates, OutcomeReported
<1>2. /\ Tail(cs) \in Seq(Outcomes) /\ Head(cs) = cs[1]
      /\ Len(cs) \in Nat \ {0} /\ DOMAIN cs = 1 .. Len(cs)
      /\ DOMAIN Tail(cs) = 1 .. Len(cs) - 1
      /\ \A i \in 1 .. Len(cs) - 1 : Tail(cs)[i] = cs[i + 1]
  BY <1>1, HeadTailProperties, LenProperties, EmptySeq
<1>3. cs[1] \in Outcomes
  BY <1>1, <1>2, ElementOfSeq
<1>4. o \in Requests /\ o = cs[1].op
  BY <1>2, <1>3 DEF Outcomes
<1> DEFINE ts == Tail(cs)
<1>5. y.callbacks = ts /\ y.terminal = x.terminal
  BY DEF OutcomeReported
<1>6. ReservationOK(y)
  BY DEF DialogOK, ReservationOK, SameReservation
<1>7. /\ new[o] = told[o] + 1
      /\ \A q \in Requests : q # o => new[q] = told[q]
  BY <1>4 DEF OutcomeReported
<1> HIDE DEF ts, cs, o
<1>8. \A i \in DOMAIN ts : i + 1 \in DOMAIN cs /\ ts[i] = cs[i + 1] /\ i # 0
  BY <1>2 DEF ts
<1>9. \A i \in DOMAIN cs :
         i = 1 \/ (i - 1 \in DOMAIN ts /\ cs[i] = ts[i - 1])
  BY <1>2 DEF ts
<1>10. /\ \A i, j \in DOMAIN cs : cs[i].op = cs[j].op => i = j
       /\ \A i \in DOMAIN cs : cs[i].op \in x.terminal
       /\ 1 \in DOMAIN cs
  BY <1>1, <1>2 DEF ReportsOK, cs
<1>11. ASSUME NEW i \in DOMAIN ts, NEW j \in DOMAIN ts, ts[i].op = ts[j].op
       PROVE  i = j
  <2>1. i + 1 = j + 1
    BY <1>8, <1>10, <1>11
  <2>2. i \in Nat /\ j \in Nat
    BY <1>2 DEF ts
  <2> QED
    BY <2>1, <2>2
<1>12. \A i \in DOMAIN ts : ts[i].op \in x.terminal
  BY <1>8, <1>10
<1>13. ASSUME NEW q \in Requests
       PROVE  new[q] = IF q \in x.terminal /\ \A i \in DOMAIN ts : ts[i].op # q
                       THEN 1 ELSE 0
  <2>1. told[q] = IF q \in x.terminal /\ \A i \in DOMAIN cs : cs[i].op # q
                  THEN 1 ELSE 0
    BY <1>1 DEF ReportsOK, cs
  <2>2. CASE q = o
    <3>1. told[q] = 0 /\ q \in x.terminal
      BY <1>4, <1>10, <2>1, <2>2
    <3>2. ASSUME NEW i \in DOMAIN ts, ts[i].op = q PROVE FALSE
      <4>1. i + 1 = 1 /\ i \in Nat /\ i # 0
        <5>1. cs[i + 1].op = cs[1].op
          BY <1>4, <1>8, <2>2, <3>2
        <5>2. i + 1 = 1
          BY <1>8, <1>10, <5>1
        <5>3. i \in Nat
          BY <1>2 DEF ts
        <5> QED
          BY <1>8, <5>2, <5>3
      <4> QED
        BY <4>1
    <3> QED
      BY <1>7, <2>2, <3>1, <3>2
  <2>3. CASE q # o
    <3>1. (\A i \in DOMAIN ts : ts[i].op # q)
            <=> (\A i \in DOMAIN cs : cs[i].op # q)
      BY <1>4, <1>8, <1>9, <2>3
    <3> QED
      BY <1>7, <2>1, <2>3, <3>1
  <2> QED
    BY <2>2, <2>3
<1>14. ReportsOK(y, new)
  <2>1. \A i, j \in DOMAIN ts : ts[i].op = ts[j].op => i = j
    BY <1>11
  <2>2. \A q \in Requests :
           new[q] = IF q \in x.terminal /\ \A i \in DOMAIN ts : ts[i].op # q
                    THEN 1 ELSE 0
    BY <1>13
  <2> QED
    BY <1>5, <1>12, <2>1, <2>2 DEF ReportsOK
<1> QED
  BY <1>6, <1>14 DEF DialogOK

-----------------------------------------------------------------------------
\* The steps, for the dialog.

\* Steps of the others.
DialogKept == UNCHANGED <<d, gui, next, reported>>

\* They keep the dialog's part of the invariant.
LEMMA DialogKeptOK == DialogPart /\ DialogKept => DialogPart'
BY DEF DialogPart, DialogKept, DialogOK, ReservationOK, ReportsOK, StartOK

\* A plan asks for no more requests than there are.
LEMMA PlanBounds ==
    ASSUME plan \in Plans
    PROVE  /\ plan.kinds \subseteq Kinds /\ plan.requests \in 0 .. MaxRequests
           /\ MaxRequests \in Nat
BY CapabilityAssumption

\* A request is refused, or its dialog is opened.
LEMMA DispatchCases ==
    ASSUME NEW r \in Runtimes, NEW k \in plan.kinds, Dispatch(r, k),
           plan \in Plans, next \in Nat \ {0}
    PROVE  /\ gui = "run" /\ next \in Requests /\ next' = next + 1
           /\ reported' = reported
           /\ \/ UNCHANGED <<d, gui>>
              \/ /\ d' = openAsync(d, next, TRUE)
                 /\ gui' = IF Accepted(d, TRUE) THEN "post" ELSE gui
<1>1. /\ gui = "run" /\ next' = next + 1 /\ reported' = reported
      /\ next <= plan.requests
  BY DEF Dispatch, OnGui
<1>2. next \in Requests /\ k \in Kinds
  BY <1>1, PlanBounds DEF Requests
<1>3. CASE ~MayPublish(r)
  BY <1>1, <1>2, <1>3 DEF Dispatch
<1>4. CASE MayPublish(r)
  <2>1. CASE k = "file"
    <3>1. dispatchFile(r, next)
      BY <1>4, <2>1 DEF Dispatch
    <3> QED
      BY <1>1, <1>2, <3>1 DEF dispatchFile
  <2>2. CASE k # "file"
    <3>1. UNCHANGED <<d, gui>>
      BY <1>2, <1>4, <2>2 DEF Dispatch, Kinds
    <3> QED
      BY <1>1, <1>2, <3>1
  <2> QED
    BY <2>1, <2>2
<1> QED
  BY <1>3, <1>4

\* A dispatched request.
LEMMA DialogDispatch ==
    ASSUME DialogPart, plan \in Plans, NEW r \in Runtimes,
           NEW k \in plan.kinds, Dispatch(r, k)
    PROVE  DialogPart'
<1>1. /\ DialogOK(d, reported) /\ StartOK(d, gui) /\ next \in Nat \ {0}
      /\ reported \in [Requests -> Nat]
  BY DEF DialogPart
<1>2. /\ gui = "run" /\ next \in Requests /\ next' = next + 1
      /\ reported' = reported
      /\ \/ UNCHANGED <<d, gui>>
         \/ /\ d' = openAsync(d, next, TRUE)
            /\ gui' = IF Accepted(d, TRUE) THEN "post" ELSE gui
  BY <1>1, DispatchCases
<1>3. next' \in Nat \ {0} /\ next' - 1 = next
  BY <1>1, <1>2
<1>4. CASE UNCHANGED <<d, gui>>
  <2>1. DialogOK(d', reported') /\ StartOK(d', gui') /\ gui' = "run"
    BY <1>1, <1>2, <1>4
  <2> QED
    BY <1>1, <1>2, <1>3, <2>1 DEF DialogPart
<1>5. CASE /\ d' = openAsync(d, next, TRUE)
           /\ gui' = IF Accepted(d, TRUE) THEN "post" ELSE gui
  <2> DEFINE f == openAsync(d, next, TRUE)
  <2>1. /\ DialogOK(f, reported) /\ f.sta = d.sta /\ f.msgs = d.msgs
        /\ Accepted(d, TRUE) => f.active = next
        /\ ~Accepted(d, TRUE) => SameReservation(d, f)
    BY <1>1, <1>2, OpenOK
  <2>2. d' = f
    BY <1>5
  <2> HIDE DEF f
  <2>3. CASE Accepted(d, TRUE)
    <3>1. gui' = "post" /\ StartOK(f, "post")
      BY <1>5, <2>3 DEF StartOK
    <3>2. /\ DialogOK(d', reported') /\ StartOK(d', gui')
          /\ d'.active = next' - 1
      BY <1>2, <1>3, <2>1, <2>2, <2>3, <3>1
    <3> QED
      BY <1>1, <1>2, <1>3, <3>1, <3>2 DEF DialogPart
  <2>4. CASE ~Accepted(d, TRUE)
    <3>1. gui' = "run" /\ StartOK(f, "run")
      BY <1>1, <1>2, <1>5, <2>1, <2>4 DEF StartOK, SameReservation
    <3>2. DialogOK(d', reported') /\ StartOK(d', gui')
      BY <1>2, <2>1, <2>2, <3>1
    <3> QED
      BY <1>1, <1>2, <1>3, <3>1, <3>2 DEF DialogPart
  <2> QED
    BY <2>3, <2>4
<1> QED
  BY <1>2, <1>4, <1>5

\* A step of the apartment thread.
LEMMA DialogWorked ==
    ASSUME DialogPart, UNCHANGED <<gui, next, reported>>,
           DialogOK(d', reported), StartOK(d', gui),
           d'.active \in {NoOp, d.active}
    PROVE  DialogPart'
BY DEF DialogPart, DialogOK, ReservationOK, ReportsOK, StartOK

\* The start message is posted, or the operation fails.
LEMMA DialogPostStart ==
    ASSUME DialogPart, PostStart PROVE DialogPart'
<1>1. /\ DialogOK(d, reported) /\ next \in Nat \ {0} /\ next - 1 \in Requests
      /\ d.active \in {NoOp, next - 1} /\ reported \in [Requests -> Nat]
      /\ gui' = "run" /\ next' = next /\ reported' = reported
  BY DEF DialogPart, PostStart
<1>2. PICK posted \in BOOLEAN : d' = postStart(d, next - 1, posted)
  BY DEF PostStart
<1>3. DialogOK(d', reported) /\ StartOK(d', "run")
  BY <1>1, <1>2, PostStartOK
<1> QED
  BY <1>1, <1>3 DEF DialogPart, DialogOK, ReservationOK, ReportsOK, StartOK

\* A message of the window.
LEMMA DialogStaMessage ==
    ASSUME DialogPart, StaMessage PROVE DialogPart'
<1>1. /\ DialogOK(d, reported) /\ StartOK(d, gui)
      /\ d.sta \in {"idle", "show"} /\ d.msgs # <<>>
      /\ d' = windowProcedure(d) /\ UNCHANGED <<gui, next, reported>>
  BY DEF DialogPart, StaMessage
<1>2. DialogOK(d', reported) /\ StartOK(d', gui) /\ d'.active = d.active
  BY <1>1, WindowProcedureOK
<1> QED
  BY <1>1, <1>2, DialogWorked

\* The user closes the dialog.
LEMMA DialogAnswers ==
    ASSUME DialogPart, UserAnswers PROVE DialogPart'
<1>1. /\ DialogOK(d, reported) /\ d.sta = "show"
      /\ UNCHANGED <<gui, next, reported>>
  BY DEF DialogPart, UserAnswers
<1>2. PICK status \in Statuses : d' = showReturned(d, status)
  BY DEF UserAnswers, runNativeDialog, OnFileOk, openStablePath, Statuses
<1>3. DialogOK(d', reported) /\ d'.sta # "idle" /\ d'.active = d.active
  BY <1>1, <1>2, ShowReturnedOK
<1> QED
  BY <1>1, <1>3, DialogWorked DEF StartOK

\* The apartment thread goes on.
LEMMA DialogStaRun ==
    ASSUME DialogPart, StaRun PROVE DialogPart'
<1>1. /\ DialogOK(d, reported) /\ StartOK(d, gui) /\ d \in DialogStates
      /\ UNCHANGED <<gui, next, reported>>
  BY DEF DialogPart, StaRun, DialogOK
<1>2. CASE d.sta = "next" /\ d' = runNextOperation(d)
  <2>1. /\ DialogOK(d', reported) /\ d'.sta # "idle"
        /\ d'.active \in {NoOp, d.active}
    BY <1>1, <1>2, RunNextOK
  <2> QED
    BY <1>1, <2>1, DialogWorked DEF StartOK
<1>3. CASE d.sta = "show" /\ d' = showReturned(d, "Cancelled")
  <2>1. DialogOK(d', reported) /\ d'.sta # "idle" /\ d'.active = d.active
    BY <1>1, <1>3, ShowReturnedOK DEF Statuses
  <2> QED
    BY <1>1, <2>1, DialogWorked DEF StartOK
<1>4. CASE /\ d.sta = "read"
           /\ \E status \in materializeSelection(d) :
                 d' = runOperation(d, status)
  <2>1. PICK status \in Statuses : d' = runOperation(d, status)
    BY <1>1, <1>4 DEF materializeSelection, Statuses, DialogStates
  <2>2. /\ DialogOK(d', reported) /\ d'.sta # "idle"
        /\ d'.active \in {NoOp, d.active}
    BY <1>1, <1>4, <2>1, RunOperationOK
  <2> QED
    BY <1>1, <2>2, DialogWorked DEF StartOK
<1>5. CASE d.sta = "tail" /\ d' = runNextOperationTail(d)
  <2>1. DialogOK(d', reported) /\ StartOK(d', gui) /\ d'.active = d.active
    BY <1>1, <1>5, TailOK
  <2> QED
    BY <1>1, <2>1, DialogWorked
<1>6. CASE staLoopEnds(d) /\ d' = [d EXCEPT !.sta = "exited"]
  <2>1. /\ d' \in DialogStates /\ d'.sta = "exited" /\ SameReports(d, d')
        /\ d'.physical = d.physical /\ d'.pending = d.pending
        /\ d'.active = d.active /\ d.sta = "idle"
    BY <1>1, <1>6 DEF DialogStates, SameReports, staLoopEnds
  <2>2. ReservationOK(d')
    BY <1>1, <2>1 DEF DialogOK, ReservationOK
  <2>3. DialogOK(d', reported)
    BY <1>1, <2>1, <2>2, SameReportsOK DEF DialogOK
  <2> QED
    BY <1>1, <2>1, <2>3, DialogWorked DEF StartOK
<1> QED
  BY <1>2, <1>3, <1>4, <1>5, <1>6 DEF StaRun

\* A runtime that ends may cancel the dialog.
LEMMA InvalidatedOK ==
    ASSUME DialogPart, NEW dying \in SUBSET Runtimes,
           NEW y, y = invalidated(dying).d
    PROVE  /\ DialogOK(y, reported) /\ SameReservation(d, y)
           /\ Starting(d) => Starting(y)
<1> DEFINE files == {rt[r].pendingFile : r \in {s \in dying : rt[s].accepting}}
                        \ {NoOp}
<1>1. y = IF d.active \in files THEN requestCancel(d, d.active) ELSE d
  BY DEF invalidated
<1>2. DialogOK(d, reported) /\ d.active \in Requests \cup {NoOp}
  BY DEF DialogPart, DialogOK, DialogStates, Ops
<1>3. CASE d.active \in files
  <2>1. d.active \in Requests
    BY <1>2, <1>3
  <2> QED
    BY <1>1, <1>2, <1>3, <2>1, CancelOK
<1>4. CASE d.active \notin files
  <2>1. y = d
    BY <1>1, <1>4
  <2> QED
    BY <1>2, <2>1 DEF SameReservation
<1> QED
  BY <1>3, <1>4

\* The GUI thread touches the dialog of others, and does not start one.
LEMMA DialogCancelled ==
    ASSUME DialogPart, UNCHANGED <<next, reported>>, gui # "post",
           gui' \in {"run", "joinSta", "joinCallback", "down"},
           DialogOK(d', reported), SameReservation(d, d'),
           Starting(d) => Starting(d')
    PROVE  DialogPart'
<1>1. StartOK(d', gui')
  BY DEF DialogPart, StartOK, Starting, SameReservation
<1> QED
  BY <1>1 DEF DialogPart, DialogOK, ReservationOK, ReportsOK, StartOK

\* A runtime is cut off or retired.
LEMMA DialogEnds ==
    ASSUME DialogPart, NEW r \in Runtimes, Invalidate(r) \/ Retire(r)
    PROVE  DialogPart'
<1>1. /\ d' = invalidated({r}).d /\ UNCHANGED <<gui, next, reported>>
      /\ gui = "run"
  BY DEF Invalidate, Retire, OnGui
<1>2. /\ DialogOK(d', reported) /\ SameReservation(d, d')
      /\ Starting(d) => Starting(d')
  BY <1>1, InvalidatedOK
<1> QED
  BY <1>1, <1>2, DialogCancelled

\* The Host shuts the dialog down.
LEMMA DialogShutdown ==
    ASSUME DialogPart, Shutdown PROVE DialogPart'
<1> DEFINE x == invalidated({r \in Runtimes : rt[r].phase = "open"}).d
<1>1. /\ d' = beginShutdown(x) /\ UNCHANGED <<next, reported>>
      /\ gui = "run" /\ gui' = "joinSta"
  BY DEF Shutdown, OnGui
<1>2. /\ DialogOK(x, reported) /\ SameReservation(d, x)
      /\ Starting(d) => Starting(x)
  BY InvalidatedOK
<1> HIDE DEF x
<1>3. /\ DialogOK(d', reported) /\ SameReservation(x, d')
      /\ Starting(x) => Starting(d')
  BY <1>1, <1>2, BeginShutdownOK
<1>4. SameReservation(d, d')
  BY <1>2, <1>3 DEF SameReservation
<1> QED
  BY <1>1, <1>2, <1>3, <1>4, DialogCancelled

\* The Host waits for the dialog's threads.
LEMMA DialogJoin ==
    ASSUME DialogPart, JoinSta \/ JoinCallback PROVE DialogPart'
<1>1. /\ UNCHANGED <<d, next, reported>> /\ gui # "post"
      /\ gui' \in {"run", "joinSta", "joinCallback", "down"}
  BY DEF JoinSta, JoinCallback
<1>2. DialogOK(d, reported)
  BY DEF DialogPart
<1> QED
  BY <1>1, <1>2, DialogCancelled DEF SameReservation

\* The callback thread takes an outcome.
LEMMA DialogReports ==
    ASSUME DialogPart, CallbackRuns PROVE DialogPart'
<1>1. /\ d.callbacks # <<>> /\ d' = [d EXCEPT !.callbacks = Tail(@)]
      /\ reported' = [reported EXCEPT ![Head(d.callbacks).op] = @ + 1]
      /\ UNCHANGED <<gui, next>>
  BY DEF CallbackRuns
<1>2. DialogOK(d, reported) /\ reported \in [Requests -> Nat]
      /\ StartOK(d, gui)
  BY DEF DialogPart
<1> DEFINE o == Head(d.callbacks).op
<1>3. /\ d \in DialogStates /\ d.callbacks \in Seq(Outcomes)
  BY <1>2 DEF DialogOK, DialogStates
<1>4. Tail(d.callbacks) \in Seq(Outcomes) /\ Head(d.callbacks) \in Outcomes
  BY <1>1, <1>3, Taken
<1>5. /\ d' \in DialogStates /\ SameReservation(d, d') /\ d'.msgs = d.msgs
      /\ d'.callbacks = Tail(d.callbacks) /\ d'.terminal = d.terminal
  BY <1>1, <1>3, <1>4 DEF DialogStates, SameReservation
<1>6. o \in Requests
  BY <1>4 DEF Outcomes
<1>7. /\ reported' \in [Requests -> Nat] /\ reported'[o] = reported[o] + 1
      /\ \A q \in Requests \ {o} : reported'[q] = reported[q]
  BY <1>1, <1>2, <1>6
<1>8. OutcomeReported(d, d', reported, reported')
  BY <1>1, <1>5, <1>6, <1>7 DEF OutcomeReported
<1> HIDE DEF o
<1>9. DialogOK(d', reported')
  BY <1>2, <1>5, <1>8, CallbackOK
<1>10. StartOK(d', gui)
  BY <1>2, <1>5 DEF StartOK, SameReservation
<1> QED
  BY <1>1, <1>5, <1>7, <1>9, <1>10
     DEF DialogPart, DialogOK, ReservationOK, ReportsOK, StartOK,
         SameReservation

\* Every step.
LEMMA DialogStep ==
    ASSUME DialogPart, plan \in Plans, CapabilityNext
    PROVE  DialogPart'
<1>1. Step
  BY DEF CapabilityNext
<1>2. CASE GuiEvent \/ RunCommand \/ CallbackQuiesces \/ CallbackExits
  <2>1. DialogKept
    BY <1>2 DEF GuiEvent, RunCommand, CallbackQuiesces, CallbackExits,
                DialogKept, gestures
  <2> QED
    BY <2>1, DialogKeptOK
<1>3. CASE Synchronize \/ Input \/ Age \/ CommandKey \/ ReleaseKey
  <2>1. DialogKept
    BY <1>3 DEF Synchronize, Input, Age, CommandKey, ReleaseKey, DialogKept
  <2> QED
    BY <2>1, DialogKeptOK
<1>4. ASSUME NEW r \in Runtimes,
             \/ LaneInitialize(r) \/ LaneFinishes(r) \/ LaneDispatch(r)
             \/ NetworkAnswers(r) \/ RetirementSucceeds(r) \/ Create(r)
             \/ Revoke(r)
      PROVE  DialogPart'
  <2>1. DialogKept
    BY <1>4 DEF LaneInitialize, LaneFinishes, LaneDispatch, NetworkAnswers,
                RetirementSucceeds, Create, Revoke, DialogKept
  <2> QED
    BY <2>1, DialogKeptOK
<1>5. CASE PostStart
  BY <1>5, DialogPostStart
<1>6. CASE JoinSta \/ JoinCallback
  BY <1>6, DialogJoin
<1>7. CASE StaMessage
  BY <1>7, DialogStaMessage
<1>8. CASE StaRun
  BY <1>8, DialogStaRun
<1>9. CASE CallbackRuns
  BY <1>9, DialogReports
<1>10. CASE UserAnswers
  BY <1>10, DialogAnswers
<1>11. CASE Shutdown
  BY <1>11, DialogShutdown
<1>12. ASSUME NEW r \in Runtimes, Invalidate(r) \/ Retire(r)
       PROVE  DialogPart'
  BY <1>12, DialogEnds
<1>13. ASSUME NEW r \in Runtimes, NEW k \in plan.kinds, Dispatch(r, k)
       PROVE  DialogPart'
  BY <1>13, DialogDispatch
<1> QED
  BY <1>1, <1>2, <1>3, <1>4, <1>5, <1>6, <1>7, <1>8, <1>9, <1>10, <1>11,
     <1>12, <1>13 DEF Step, Progress

-----------------------------------------------------------------------------
\* The runtimes.

\* Nothing of the runtime is under way any more.
LetGo(x) == x.phase \in {"retired", "gone"}

\* The phases of a runtime and of its lane go together, a job needs the lane,
\* and a runtime that is let go of waited for its lane and for the file request
\* it had when it was retired.
RuntimeOK(x, quiesced) ==
    /\ x.bound => x.accepting
    /\ x.accepting => x.phase = "open"
    /\ x.phase = "none" <=> x.lane = "none"
    /\ x.phase = "open" <=> x.lane \in {"starting", "up", "broken"}
    /\ x.lane \in {"none", "finished"} => x.job = "none"
    /\ x.job # "none" => x.jobOf \in Requests
    /\ x.phase \in {"retiring", "retired", "gone"} =>
          x.pendingFile \in {NoOp, x.waitsFor}
    /\ LetGo(x) => /\ x.lane = "finished"
                   /\ x.waitsFor = NoOp \/ x.waitsFor \in quiesced

\* The runtimes' part of the invariant.
RuntimePart ==
    /\ rt \in [Runtimes -> RuntimeStates] /\ events \in Seq(QueuedEvents)
    /\ cb \in CallbackStates
    /\ \A r \in Runtimes : RuntimeOK(rt[r], cb.quiesced)
    /\ \A e \in ToSet(events) : e.k = "release" => LetGo(rt[e.r])

\* What a step may make of a runtime.
BecomesOf(x, y, quiesced) ==
    /\ y \in RuntimeStates /\ RuntimeOK(y, quiesced)
    /\ LetGo(x) => LetGo(y)

\* What is in an event.
LEMMA EventFields ==
    ASSUME NEW e \in QueuedEvents
    PROVE  /\ e.r \in Runtimes
           /\ e.k \in {"init", "done", "file", "release", "command"}
           /\ e.k = "init" => e.ok \in BOOLEAN
           /\ e.k \in {"done", "file"} => e.q \in Requests
           /\ e.k = "file" => e.status \in Statuses
           /\ e.k = "command" => e.epoch \in Nat /\ e.i \in Nat
<1>1. CASE e \in [k : {"init"}, r : Runtimes, ok : BOOLEAN]
  BY <1>1
<1>2. CASE e \in [k : {"done"}, r : Runtimes, q : Requests,
                  result : {"ok", "error"}]
  BY <1>2
<1>3. CASE e \in [k : {"file"}, r : Runtimes, q : Requests, status : Statuses]
  BY <1>3
<1>4. CASE e \in [k : {"release"}, r : Runtimes]
  BY <1>4
<1>5. CASE e \in [k : {"command"}, r : Runtimes, epoch : Nat, i : Nat]
  BY <1>5
<1> QED
  BY <1>1, <1>2, <1>3, <1>4, <1>5 DEF QueuedEvents

\* The events of a step: what was queued, without the first perhaps, and what
\* the step queues.
LEMMA QueueOK ==
    ASSUME events \in Seq(QueuedEvents), NEW e \in QueuedEvents
    PROVE  /\ Append(events, e) \in Seq(QueuedEvents)
           /\ ToSet(Append(events, e)) = ToSet(events) \cup {e}
           /\ events # <<>> =>
                 /\ Head(events) \in QueuedEvents
                 /\ Head(events) \in ToSet(events)
                 /\ Tail(events) \in Seq(QueuedEvents)
                 /\ ToSet(Tail(events)) \subseteq ToSet(events)
                 /\ Append(Tail(events), e) \in Seq(QueuedEvents)
                 /\ ToSet(Append(Tail(events), e))
                       \subseteq ToSet(events) \cup {e}
<1>1. /\ Append(events, e) \in Seq(QueuedEvents)
      /\ ToSet(Append(events, e)) = ToSet(events) \cup {e}
  BY Appended
<1>2. CASE events # <<>>
  <2>1. /\ Tail(events) \in Seq(QueuedEvents) /\ Head(events) \in QueuedEvents
        /\ Head(events) \in ToSet(events)
        /\ ToSet(events) = ToSet(Tail(events)) \cup {Head(events)}
    BY <1>2, Taken
  <2> DEFINE ts == Tail(events)
  <2> HIDE DEF ts
  <2>2. /\ ts \in Seq(QueuedEvents)
        /\ ToSet(events) = ToSet(ts) \cup {Head(events)}
    BY <2>1 DEF ts
  <2>3. /\ Append(ts, e) \in Seq(QueuedEvents)
        /\ ToSet(Append(ts, e)) = ToSet(ts) \cup {e}
    BY <2>2, Appended
  <2>4. ToSet(Append(ts, e)) \subseteq ToSet(events) \cup {e}
    BY <2>2, <2>3
  <2>5. ToSet(ts) \subseteq ToSet(events)
    BY <2>2
  <2> QED
    BY <1>1, <2>1, <2>2, <2>3, <2>4, <2>5 DEF ts
<1> QED
  BY <1>1, <1>2

\* The first event is taken.
LEMMA DequeueOK ==
    ASSUME events \in Seq(QueuedEvents), events # <<>>
    PROVE  /\ Head(events) \in QueuedEvents
           /\ Head(events) \in ToSet(events)
           /\ Tail(events) \in Seq(QueuedEvents)
           /\ ToSet(Tail(events)) \subseteq ToSet(events)
BY Taken

\* Every runtime takes a step of its own, or none.
LEMMA RuntimesMove ==
    ASSUME RuntimePart, rt' \in [Runtimes -> RuntimeStates],
           \A r \in Runtimes : rt'[r] = rt[r] \/
                BecomesOf(rt[r], rt'[r], cb.quiesced),
           events' \in Seq(QueuedEvents), cb' \in CallbackStates,
           cb.quiesced \subseteq cb'.quiesced,
           \A e \in ToSet(events') :
                \/ e \in ToSet(events)
                \/ e.k = "release" => LetGo(rt'[e.r])
    PROVE  RuntimePart'
<1>1. /\ \A r \in Runtimes : RuntimeOK(rt[r], cb.quiesced)
      /\ \A e \in ToSet(events) : e.k = "release" => LetGo(rt[e.r])
      /\ rt \in [Runtimes -> RuntimeStates] /\ events \in Seq(QueuedEvents)
  BY DEF RuntimePart
<1>2. ASSUME NEW r \in Runtimes
      PROVE  RuntimeOK(rt'[r], cb'.quiesced) /\ (LetGo(rt[r]) => LetGo(rt'[r]))
  <2>1. rt[r] \in RuntimeStates /\ RuntimeOK(rt[r], cb.quiesced)
    BY <1>1
  <2>2. RuntimeOK(rt'[r], cb.quiesced)
    BY <2>1 DEF BecomesOf
  <2>3. RuntimeOK(rt'[r], cb'.quiesced)
    BY <2>2 DEF RuntimeOK
  <2> QED
    BY <2>3 DEF BecomesOf
<1>3. ASSUME NEW e \in ToSet(events'), e.k = "release"
      PROVE  LetGo(rt'[e.r])
  <2>1. CASE e \in ToSet(events)
    <3>1. e \in QueuedEvents
      BY <1>1, <2>1, ElementOfSeq DEF ToSet
    <3>2. e.r \in Runtimes
      BY <3>1, EventFields
    <3> QED
      BY <1>1, <1>2, <1>3, <2>1, <3>2
  <2> QED
    BY <1>3, <2>1
<1> QED
  BY <1>2, <1>3 DEF RuntimePart

\* One runtime takes a step.
LEMMA RuntimeMoves ==
    ASSUME RuntimePart, NEW r \in Runtimes, NEW y,
           rt' = [rt EXCEPT ![r] = y], BecomesOf(rt[r], y, cb.quiesced),
           events' \in Seq(QueuedEvents), cb' \in CallbackStates,
           cb.quiesced \subseteq cb'.quiesced,
           \A e \in ToSet(events') :
                \/ e \in ToSet(events)
                \/ e.k = "release" => e.r = r /\ LetGo(y)
    PROVE  RuntimePart'
<1>1. rt \in [Runtimes -> RuntimeStates]
  BY DEF RuntimePart
<1>2. y \in RuntimeStates
  BY <1>1 DEF BecomesOf
<1>3. /\ rt' \in [Runtimes -> RuntimeStates] /\ rt'[r] = y
      /\ \A s \in Runtimes : s # r => rt'[s] = rt[s]
  BY <1>1, <1>2
<1>4. \A s \in Runtimes :
         rt'[s] = rt[s] \/ BecomesOf(rt[s], rt'[s], cb.quiesced)
  BY <1>3
<1>5. \A e \in ToSet(events') :
         \/ e \in ToSet(events)
         \/ e.k = "release" => LetGo(rt'[e.r])
  BY <1>3
<1> QED
  BY <1>3, <1>4, <1>5, RuntimesMove

\* Only the queue changes.
LEMMA EventsMove ==
    ASSUME RuntimePart, rt' = rt, events' \in Seq(QueuedEvents),
           cb' \in CallbackStates, cb.quiesced \subseteq cb'.quiesced,
           \A e \in ToSet(events') : e \in ToSet(events) \/ e.k # "release"
    PROVE  RuntimePart'
<1>1. rt' \in [Runtimes -> RuntimeStates]
  BY DEF RuntimePart
<1> QED
  BY <1>1, RuntimesMove

\* The steps of one runtime: it is created, ...
LEMMA OpensOK ==
    ASSUME NEW x \in RuntimeStates, NEW Q, RuntimeOK(x, Q),
           x.phase = "none", NEW y,
           y = [x EXCEPT !.phase = "open", !.accepting = TRUE,
                         !.lane = "starting"]
    PROVE  BecomesOf(x, y, Q)
<1>1. /\ y \in RuntimeStates
      /\ y.phase = "open" /\ y.accepting = TRUE /\ y.bound = x.bound
      /\ y.lane = "starting" /\ y.request = x.request /\ y.job = x.job
      /\ y.jobOf = x.jobOf /\ y.pendingFile = x.pendingFile
      /\ y.waitsFor = x.waitsFor
  BY DEF RuntimeStates, Ops
<1>2. RuntimeOK(y, Q)
  BY <1>1 DEF RuntimeOK, LetGo
<1> QED
  BY <1>1, <1>2 DEF BecomesOf, LetGo

\* ... its lane comes up, or not, ...
LEMMA InitializesOK ==
    ASSUME NEW x \in RuntimeStates, NEW Q, RuntimeOK(x, Q),
           x.lane \in {"starting", "quitStarting"}, NEW l,
           l \in (IF x.lane = "quitStarting" THEN {"quit"}
                  ELSE {"up", "broken"}),
           NEW y, y = [x EXCEPT !.lane = l]
    PROVE  BecomesOf(x, y, Q)
<1>1. /\ y \in RuntimeStates
      /\ y.phase = x.phase /\ y.accepting = x.accepting /\ y.bound = x.bound
      /\ y.lane = l /\ y.request = x.request /\ y.job = x.job
      /\ y.jobOf = x.jobOf /\ y.pendingFile = x.pendingFile
      /\ y.waitsFor = x.waitsFor
  BY DEF RuntimeStates, Ops
<1>2. RuntimeOK(y, Q)
  BY <1>1 DEF RuntimeOK, LetGo
<1> QED
  BY <1>1, <1>2 DEF BecomesOf, LetGo

\* ... its lane's thread ends, ...
LEMMA LaneFinishesOK ==
    ASSUME NEW x \in RuntimeStates, NEW Q, RuntimeOK(x, Q),
           x.lane = "quit", NEW y,
           y = [x EXCEPT !.lane = "finished", !.job = "none", !.jobOf = NoOp]
    PROVE  BecomesOf(x, y, Q)
<1>1. /\ y \in RuntimeStates
      /\ y.phase = x.phase /\ y.accepting = x.accepting /\ y.bound = x.bound
      /\ y.lane = "finished" /\ y.request = x.request /\ y.job = "none"
      /\ y.jobOf = NoOp /\ y.pendingFile = x.pendingFile
      /\ y.waitsFor = x.waitsFor
  BY DEF RuntimeStates, Ops
<1>2. RuntimeOK(y, Q)
  BY <1>1 DEF RuntimeOK, LetGo
<1> QED
  BY <1>1, <1>2 DEF BecomesOf, LetGo

\* ... its lane answers, ...
LEMMA JobEndsOK ==
    ASSUME NEW x \in RuntimeStates, NEW Q, RuntimeOK(x, Q),
           NEW y,
           y = [x EXCEPT !.job = "none", !.jobOf = NoOp]
    PROVE  BecomesOf(x, y, Q)
<1>1. /\ y \in RuntimeStates
      /\ y.phase = x.phase /\ y.accepting = x.accepting /\ y.bound = x.bound
      /\ y.lane = x.lane /\ y.request = x.request /\ y.job = "none"
      /\ y.jobOf = NoOp /\ y.pendingFile = x.pendingFile
      /\ y.waitsFor = x.waitsFor
  BY DEF RuntimeStates, Ops
<1>2. RuntimeOK(y, Q)
  BY <1>1 DEF RuntimeOK, LetGo
<1> QED
  BY <1>1, <1>2 DEF BecomesOf, LetGo

\* ... or waits for the network, ...
LEMMA JobWaitsOK ==
    ASSUME NEW x \in RuntimeStates, NEW Q, RuntimeOK(x, Q),
           x.job = "queued", NEW y,
           y = [x EXCEPT !.job = "waiting"]
    PROVE  BecomesOf(x, y, Q)
<1>1. /\ y \in RuntimeStates
      /\ y.phase = x.phase /\ y.accepting = x.accepting /\ y.bound = x.bound
      /\ y.lane = x.lane /\ y.request = x.request /\ y.job = "waiting"
      /\ y.jobOf = x.jobOf /\ y.pendingFile = x.pendingFile
      /\ y.waitsFor = x.waitsFor
  BY DEF RuntimeStates, Ops
<1>2. RuntimeOK(y, Q)
  BY <1>1 DEF RuntimeOK, LetGo
<1> QED
  BY <1>1, <1>2 DEF BecomesOf, LetGo

\* ... its session has a request, ...
LEMMA RequestsOK ==
    ASSUME NEW x \in RuntimeStates, NEW Q, RuntimeOK(x, Q),
           NEW q \in Ops, NEW y, y = [x EXCEPT !.request = q]
    PROVE  BecomesOf(x, y, Q)
<1>1. /\ y \in RuntimeStates
      /\ y.phase = x.phase /\ y.accepting = x.accepting /\ y.bound = x.bound
      /\ y.lane = x.lane /\ y.request = q /\ y.job = x.job
      /\ y.jobOf = x.jobOf /\ y.pendingFile = x.pendingFile
      /\ y.waitsFor = x.waitsFor
  BY DEF RuntimeStates, Ops
<1>2. RuntimeOK(y, Q)
  BY <1>1 DEF RuntimeOK, LetGo
<1> QED
  BY <1>1, <1>2 DEF BecomesOf, LetGo

\* ... which is queued to the lane, ...
LEMMA QueuesJobOK ==
    ASSUME NEW x \in RuntimeStates, NEW Q, RuntimeOK(x, Q),
           NEW q \in Requests,
           x.lane \in {"starting", "up", "broken"},
           NEW y, y = [x EXCEPT !.request = q, !.job = "queued", !.jobOf = q]
    PROVE  BecomesOf(x, y, Q)
<1>1. /\ y \in RuntimeStates
      /\ y.phase = x.phase /\ y.accepting = x.accepting /\ y.bound = x.bound
      /\ y.lane = x.lane /\ y.request = q /\ y.job = "queued"
      /\ y.jobOf = q /\ y.pendingFile = x.pendingFile
      /\ y.waitsFor = x.waitsFor
  BY DEF RuntimeStates, Ops
<1>2. RuntimeOK(y, Q)
  BY <1>1 DEF RuntimeOK, LetGo
<1> QED
  BY <1>1, <1>2 DEF BecomesOf, LetGo

\* ... or asks for a file, ...
LEMMA AsksFileOK ==
    ASSUME NEW x \in RuntimeStates, NEW Q, RuntimeOK(x, Q),
           NEW q \in Requests, x.phase = "open",
           NEW y, y = [x EXCEPT !.request = q, !.pendingFile = q]
    PROVE  BecomesOf(x, y, Q)
<1>1. /\ y \in RuntimeStates
      /\ y.phase = x.phase /\ y.accepting = x.accepting /\ y.bound = x.bound
      /\ y.lane = x.lane /\ y.request = q /\ y.job = x.job
      /\ y.jobOf = x.jobOf /\ y.pendingFile = q /\ y.waitsFor = x.waitsFor
  BY DEF RuntimeStates, Ops
<1>2. RuntimeOK(y, Q)
  BY <1>1 DEF RuntimeOK, LetGo
<1> QED
  BY <1>1, <1>2 DEF BecomesOf, LetGo

\* ... which is selected, ...
LEMMA FileAnsweredOK ==
    ASSUME NEW x \in RuntimeStates, NEW Q, RuntimeOK(x, Q),
           NEW y, y = [x EXCEPT !.pendingFile = NoOp]
    PROVE  BecomesOf(x, y, Q)
<1>1. /\ y \in RuntimeStates
      /\ y.phase = x.phase /\ y.accepting = x.accepting /\ y.bound = x.bound
      /\ y.lane = x.lane /\ y.request = x.request /\ y.job = x.job
      /\ y.jobOf = x.jobOf /\ y.pendingFile = NoOp /\ y.waitsFor = x.waitsFor
  BY DEF RuntimeStates, Ops
<1>2. RuntimeOK(y, Q)
  BY <1>1 DEF RuntimeOK, LetGo
<1> QED
  BY <1>1, <1>2 DEF BecomesOf, LetGo

\* ... its session binds itself, ...
LEMMA BindsOK ==
    ASSUME NEW x \in RuntimeStates, NEW Q, RuntimeOK(x, Q),
           x.accepting, NEW ok \in BOOLEAN,
           NEW y, y = [x EXCEPT !.bound = ok]
    PROVE  BecomesOf(x, y, Q)
<1>1. /\ y \in RuntimeStates
      /\ y.phase = x.phase /\ y.accepting = x.accepting /\ y.bound = ok
      /\ y.lane = x.lane /\ y.request = x.request /\ y.job = x.job
      /\ y.jobOf = x.jobOf /\ y.pendingFile = x.pendingFile
      /\ y.waitsFor = x.waitsFor
  BY DEF RuntimeStates, Ops
<1>2. RuntimeOK(y, Q)
  BY <1>1 DEF RuntimeOK, LetGo
<1> QED
  BY <1>1, <1>2 DEF BecomesOf, LetGo

\* ... it is cut off, ...
LEMMA InvalidatesOK ==
    ASSUME NEW x \in RuntimeStates, NEW Q, RuntimeOK(x, Q),
          
           NEW y, y = [x EXCEPT !.accepting = FALSE, !.bound = FALSE]
    PROVE  BecomesOf(x, y, Q) /\ y.phase = x.phase /\ y.accepting = FALSE
<1>1. /\ y \in RuntimeStates
      /\ y.phase = x.phase /\ y.accepting = FALSE /\ y.bound = FALSE
      /\ y.lane = x.lane /\ y.request = x.request /\ y.job = x.job
      /\ y.jobOf = x.jobOf /\ y.pendingFile = x.pendingFile
      /\ y.waitsFor = x.waitsFor
  BY DEF RuntimeStates, Ops
<1>2. RuntimeOK(y, Q)
  BY <1>1 DEF RuntimeOK, LetGo
<1> QED
  BY <1>1, <1>2 DEF BecomesOf, LetGo

\* ... it is retired, ...
LEMMA RetiresOK ==
    ASSUME NEW x \in RuntimeStates, NEW Q, RuntimeOK(x, Q),
           x.phase = "open",
           x.accepting = FALSE, NEW y, y = retire(x)
    PROVE  BecomesOf(x, y, Q)
BY DEF retire, BecomesOf, RuntimeStates, RuntimeOK, LetGo

\* ... the retirement succeeds, ...
LEMMA LetsGoOK ==
    ASSUME NEW x \in RuntimeStates, NEW Q, RuntimeOK(x, Q),
           x.phase = "retiring", x.lane = "finished",
           x.waitsFor = NoOp \/ x.waitsFor \in Q,
           NEW y, y = [x EXCEPT !.phase = "retired"]
    PROVE  BecomesOf(x, y, Q) /\ LetGo(y)
<1>1. /\ y \in RuntimeStates
      /\ y.phase = "retired" /\ y.accepting = x.accepting /\ y.bound = x.bound
      /\ y.lane = x.lane /\ y.request = x.request /\ y.job = x.job
      /\ y.jobOf = x.jobOf /\ y.pendingFile = x.pendingFile
      /\ y.waitsFor = x.waitsFor
  BY DEF RuntimeStates, Ops
<1>2. RuntimeOK(y, Q)
  BY <1>1 DEF RuntimeOK, LetGo
<1> QED
  BY <1>1, <1>2 DEF BecomesOf, LetGo

\* ... and the controller lets it go.
LEMMA GoesOK ==
    ASSUME NEW x \in RuntimeStates, NEW Q, RuntimeOK(x, Q),
           LetGo(x),
           NEW y, y = [x EXCEPT !.phase = "gone", !.pendingFile = NoOp]
    PROVE  BecomesOf(x, y, Q)
<1>1. /\ y \in RuntimeStates
      /\ y.phase = "gone" /\ y.accepting = x.accepting /\ y.bound = x.bound
      /\ y.lane = x.lane /\ y.request = x.request /\ y.job = x.job
      /\ y.jobOf = x.jobOf /\ y.pendingFile = NoOp /\ y.waitsFor = x.waitsFor
  BY DEF RuntimeStates, Ops
<1>2. RuntimeOK(y, Q)
  BY <1>1 DEF RuntimeOK, LetGo
<1> QED
  BY <1>1, <1>2 DEF BecomesOf, LetGo

\* The runtimes and the queue are left alone.
RuntimesKept ==
    UNCHANGED <<rt, events>> /\ cb' \in CallbackStates
    /\ cb.quiesced \subseteq cb'.quiesced

\* That keeps their part of the invariant.
LEMMA RuntimesKeptOK ==
    ASSUME RuntimePart, RuntimesKept PROVE RuntimePart'
<1>1. events' \in Seq(QueuedEvents) /\ events' = events
  BY DEF RuntimePart, RuntimesKept
<1>2. \A e \in ToSet(events') : e \in ToSet(events)
  BY <1>1
<1> QED
  BY <1>1, <1>2, EventsMove DEF RuntimesKept

\* What the invariant says of one of them.
LEMMA TypedRuntime ==
    ASSUME RuntimePart, NEW r \in Runtimes
    PROVE  /\ rt[r] \in RuntimeStates /\ RuntimeOK(rt[r], cb.quiesced)
           /\ rt \in [Runtimes -> RuntimeStates]
BY DEF RuntimePart

\* One runtime takes a step, and the rest is left alone.
LEMMA OneMoves ==
    ASSUME RuntimePart, NEW r \in Runtimes, NEW y,
           rt' = [rt EXCEPT ![r] = y], BecomesOf(rt[r], y, cb.quiesced),
           UNCHANGED <<events, cb>>
    PROVE  RuntimePart'
<1>1. events' \in Seq(QueuedEvents) /\ cb' \in CallbackStates
  BY DEF RuntimePart
<1>2. /\ \A e \in ToSet(events') : e \in ToSet(events)
      /\ cb.quiesced \subseteq cb'.quiesced
  OBVIOUS
<1> QED
  BY <1>1, <1>2, RuntimeMoves

\* One runtime takes a step, and an event that does not let go of it is queued.
LEMMA OneQueues ==
    ASSUME RuntimePart, NEW r \in Runtimes, NEW y,
           rt' = [rt EXCEPT ![r] = y], BecomesOf(rt[r], y, cb.quiesced),
           NEW e \in QueuedEvents, e.k # "release",
           events' = Append(events, e), cb' = cb
    PROVE  RuntimePart'
<1>1. /\ events \in Seq(QueuedEvents) /\ cb' \in CallbackStates
      /\ cb.quiesced \subseteq cb'.quiesced
  BY DEF RuntimePart
<1>2. /\ events' \in Seq(QueuedEvents)
      /\ ToSet(events') = ToSet(events) \cup {e}
  BY <1>1, QueueOK
<1>3. \A f \in ToSet(events') : f \in ToSet(events) \/ f.k # "release"
  BY <1>2
<1> QED
  BY <1>1, <1>2, <1>3, RuntimeMoves

\* The events there are.
LEMMA EventKinds ==
    ASSUME NEW r \in Runtimes
    PROVE  /\ \A ok \in BOOLEAN : [k |-> "init", r |-> r, ok |-> ok]
                                      \in QueuedEvents
           /\ \A q \in Requests, result \in {"ok", "error"} :
                 [k |-> "done", r |-> r, q |-> q, result |-> result]
                     \in QueuedEvents
           /\ \A q \in Requests, status \in Statuses :
                 [k |-> "file", r |-> r, q |-> q, status |-> status]
                     \in QueuedEvents
           /\ [k |-> "release", r |-> r] \in QueuedEvents
           /\ \A epoch, i \in Nat :
                 [k |-> "command", r |-> r, epoch |-> epoch, i |-> i]
                     \in QueuedEvents
BY DEF QueuedEvents

\* Create.
LEMMA RuntimeCreates ==
    ASSUME RuntimePart, NEW r \in Runtimes, Create(r) PROVE RuntimePart'
<1> DEFINE x == rt[r]
           y == [x EXCEPT !.phase = "open", !.accepting = TRUE,
                          !.lane = "starting"]
<1>1. /\ x \in RuntimeStates /\ RuntimeOK(x, cb.quiesced)
      /\ rt \in [Runtimes -> RuntimeStates] /\ x.phase = "none"
  BY TypedRuntime DEF Create
<1>2. rt' = [rt EXCEPT ![r] = y] /\ UNCHANGED <<events, cb>>
  BY <1>1 DEF Create
<1>3. BecomesOf(x, y, cb.quiesced)
  BY <1>1, OpensOK
<1> QED
  BY <1>2, <1>3, OneMoves

\* LaneInitialize.
LEMMA RuntimeInitializes ==
    ASSUME RuntimePart, NEW r \in Runtimes, LaneInitialize(r)
    PROVE  RuntimePart'
<1>1. PICK ok \in BOOLEAN :
         /\ rt[r].lane \in {"starting", "quitStarting"}
         /\ rt' = [rt EXCEPT ![r].lane = IF @ = "quitStarting" THEN "quit"
                                         ELSE IF ok THEN "up" ELSE "broken"]
         /\ events' = Append(events, [k |-> "init", r |-> r, ok |-> ok])
         /\ cb' = cb
  BY DEF LaneInitialize
<1> DEFINE x == rt[r]
           l == IF x.lane = "quitStarting" THEN "quit"
                ELSE IF ok THEN "up" ELSE "broken"
           y == [x EXCEPT !.lane = l]
           e == [k |-> "init", r |-> r, ok |-> ok]
<1>2. /\ x \in RuntimeStates /\ RuntimeOK(x, cb.quiesced)
      /\ rt \in [Runtimes -> RuntimeStates]
  BY TypedRuntime
<1>3. rt' = [rt EXCEPT ![r] = y]
  BY <1>1, <1>2
<1>4. BecomesOf(x, y, cb.quiesced)
  <2>1. l \in IF x.lane = "quitStarting" THEN {"quit"} ELSE {"up", "broken"}
    OBVIOUS
  <2> QED
    BY <1>1, <1>2, <2>1, InitializesOK
<1>5. e \in QueuedEvents /\ e.k # "release" /\ events' = Append(events, e)
  BY <1>1, EventKinds
<1>6. BecomesOf(rt[r], y, cb.quiesced) /\ cb' = cb
  BY <1>1, <1>4
<1> HIDE DEF x, y, e
<1> QED
  BY <1>3, <1>5, <1>6, OneQueues

\* LaneFinishes.
LEMMA RuntimeLaneFinishes ==
    ASSUME RuntimePart, NEW r \in Runtimes, LaneFinishes(r) PROVE RuntimePart'
<1> DEFINE x == rt[r]
           y == [x EXCEPT !.lane = "finished", !.job = "none", !.jobOf = NoOp]
<1>1. /\ x \in RuntimeStates /\ RuntimeOK(x, cb.quiesced)
      /\ rt \in [Runtimes -> RuntimeStates] /\ x.lane = "quit"
  BY TypedRuntime DEF LaneFinishes
<1>2. rt' = [rt EXCEPT ![r] = y] /\ UNCHANGED <<events, cb>>
  BY <1>1 DEF LaneFinishes
<1>3. BecomesOf(x, y, cb.quiesced)
  BY <1>1, LaneFinishesOK
<1> QED
  BY <1>2, <1>3, OneMoves

\* The lane answers its job.
LEMMA RuntimeLaneEnds ==
    ASSUME RuntimePart, NEW r \in Runtimes, rt[r].job # "none",
           NEW result \in {"ok", "error"}, laneEnds(r, result), cb' = cb
    PROVE  RuntimePart'
<1> DEFINE x == rt[r]
           y == [x EXCEPT !.job = "none", !.jobOf = NoOp]
           e == [k |-> "done", r |-> r, q |-> x.jobOf, result |-> result]
<1>1. /\ x \in RuntimeStates /\ RuntimeOK(x, cb.quiesced)
      /\ rt \in [Runtimes -> RuntimeStates]
  BY TypedRuntime
<1>2. rt' = [rt EXCEPT ![r] = y] /\ events' = Append(events, e)
  BY <1>1 DEF laneEnds, queueCompletion
<1>3. BecomesOf(x, y, cb.quiesced)
  BY <1>1, JobEndsOK
<1>4. e \in QueuedEvents /\ e.k # "release"
  <2>1. x.jobOf \in Requests
    BY <1>1 DEF RuntimeOK
  <2> QED
    BY <2>1, EventKinds
<1> HIDE DEF x, y, e
<1> QED
  BY <1>2, <1>3, <1>4, OneQueues DEF x

\* LaneDispatch and NetworkAnswers.
LEMMA RuntimeLaneDispatches ==
    ASSUME RuntimePart, NEW r \in Runtimes,
           LaneDispatch(r) \/ NetworkAnswers(r)
    PROVE  RuntimePart'
<1>1. CASE LaneDispatch(r)
  <2>1. rt[r].job = "queued" /\ cb' = cb
    BY <1>1 DEF LaneDispatch
  <2>2. CASE \E result \in brokerDispatch({"ok"}) : laneEnds(r, result)
    <3>1. PICK result \in {"ok", "error"} : laneEnds(r, result)
      BY <2>2 DEF brokerDispatch
    <3> QED
      BY <2>1, <3>1, RuntimeLaneEnds
  <2>3. CASE rt' = [rt EXCEPT ![r].job = "waiting"] /\ UNCHANGED events
    <3> DEFINE x == rt[r]
               y == [x EXCEPT !.job = "waiting"]
    <3>1. /\ x \in RuntimeStates /\ RuntimeOK(x, cb.quiesced)
          /\ rt \in [Runtimes -> RuntimeStates]
      BY TypedRuntime
    <3>2. rt' = [rt EXCEPT ![r] = y]
      BY <2>3, <3>1
    <3>3. BecomesOf(x, y, cb.quiesced)
      BY <2>1, <3>1, JobWaitsOK
    <3> QED
      BY <2>1, <2>3, <3>2, <3>3, OneMoves
  <2> QED
    BY <1>1, <2>2, <2>3 DEF LaneDispatch
<1>2. CASE NetworkAnswers(r)
  <2>1. rt[r].job # "none" /\ cb' = cb
    BY <1>2 DEF NetworkAnswers
  <2>2. PICK result \in {"ok", "error"} : laneEnds(r, result)
    BY <1>2 DEF NetworkAnswers, brokerDispatch, networkInvoke
  <2> QED
    BY <2>1, <2>2, RuntimeLaneEnds
<1> QED
  BY <1>1, <1>2

\* RetirementSucceeds.
LEMMA RuntimeRetired ==
    ASSUME RuntimePart, NEW r \in Runtimes, RetirementSucceeds(r)
    PROVE  RuntimePart'
<1> DEFINE x == rt[r]
           y == [x EXCEPT !.phase = "retired"]
           e == [k |-> "release", r |-> r]
<1>1. /\ x \in RuntimeStates /\ RuntimeOK(x, cb.quiesced)
      /\ rt \in [Runtimes -> RuntimeStates]
  BY TypedRuntime
<1>2. /\ rt' = [rt EXCEPT ![r] = y] /\ events' = Append(events, e)
      /\ cb' = cb
  BY <1>1 DEF RetirementSucceeds
<1>3. BecomesOf(x, y, cb.quiesced) /\ LetGo(y)
  BY <1>1, LetsGoOK DEF RetirementSucceeds
<1>4. e \in QueuedEvents /\ e.r = r
  BY EventKinds
<1>5. /\ events \in Seq(QueuedEvents) /\ cb' \in CallbackStates
      /\ cb.quiesced \subseteq cb'.quiesced
  BY <1>2 DEF RuntimePart
<1> HIDE DEF y, e
<1>6. /\ events' \in Seq(QueuedEvents)
      /\ ToSet(events') = ToSet(events) \cup {e}
  BY <1>2, <1>4, <1>5, QueueOK
<1>7. \A f \in ToSet(events') :
         f \in ToSet(events) \/ (f.k = "release" => f.r = r /\ LetGo(y))
  BY <1>3, <1>4, <1>6
<1> QED
  BY <1>2, <1>3, <1>5, <1>6, <1>7, RuntimeMoves

\* The request is refused, answered at once or dropped: one completion at most.
LEMMA RuntimeAnswers ==
    ASSUME RuntimePart, NEW r \in Runtimes, NEW q \in Requests,
           rt' = [rt EXCEPT ![r].request = q], cb' = cb,
           \/ events' = events
           \/ \E result \in {"ok", "error"} :
                 events' = queueCompletion(events, r, q, result)
    PROVE  RuntimePart'
<1> DEFINE x == rt[r]
           y == [x EXCEPT !.request = q]
<1>1. /\ x \in RuntimeStates /\ RuntimeOK(x, cb.quiesced)
      /\ rt \in [Runtimes -> RuntimeStates] /\ q \in Ops
  BY TypedRuntime DEF Ops
<1>2. rt' = [rt EXCEPT ![r] = y]
  BY <1>1
<1>3. BecomesOf(x, y, cb.quiesced)
  BY <1>1, RequestsOK
<1> HIDE DEF y
<1>4. CASE events' = events
  BY <1>2, <1>3, <1>4, OneMoves
<1>5. CASE \E result \in {"ok", "error"} :
              events' = queueCompletion(events, r, q, result)
  <2>1. PICK result \in {"ok", "error"} :
           events' = queueCompletion(events, r, q, result)
    BY <1>5
  <2> DEFINE e == [k |-> "done", r |-> r, q |-> q, result |-> result]
  <2>2. events' = Append(events, e)
    BY <2>1 DEF queueCompletion
  <2>3. e \in QueuedEvents /\ e.k # "release"
    BY EventKinds
  <2> HIDE DEF e
  <2> QED
    BY <1>2, <1>3, <2>2, <2>3, OneQueues
<1> QED
  BY <1>4, <1>5

\* Dispatch.
LEMMA RuntimeDispatches ==
    ASSUME RuntimePart, DialogPart, plan \in Plans, NEW r \in Runtimes,
           NEW k \in plan.kinds, Dispatch(r, k)
    PROVE  RuntimePart'
<1> DEFINE x == rt[r]
<1>1. /\ x \in RuntimeStates /\ RuntimeOK(x, cb.quiesced)
      /\ rt \in [Runtimes -> RuntimeStates]
  BY TypedRuntime
<1>2. next \in Requests /\ k \in Kinds
  BY DispatchCases, PlanBounds DEF DialogPart
<1>3. x.phase = "open" /\ x.lane \in {"starting", "up", "broken"}
  BY <1>1 DEF Dispatch, RuntimeOK
<1> HIDE DEF x
<1>4. CASE ~MayPublish(r)
  <2>1. /\ rt' = [rt EXCEPT ![r].request = next] /\ cb' = cb
        /\ events' = events
    BY <1>4 DEF Dispatch
  <2> QED
    BY <1>2, <2>1, RuntimeAnswers
<1>5. CASE MayPublish(r) /\ k = "file"
  <2>1. dispatchFile(r, next)
    BY <1>5 DEF Dispatch
  <2>2. cb' = cb
    BY <2>1 DEF dispatchFile
  <2>3. CASE /\ rt' = [rt EXCEPT ![r].request = next]
             /\ events' = queueCompletion(events, r, next, "error")
    BY <1>2, <2>2, <2>3, RuntimeAnswers
  <2>4. CASE /\ rt' = [rt EXCEPT ![r].request = next,
                                 ![r].pendingFile = next]
             /\ events' = events
    <3> DEFINE y == [x EXCEPT !.request = next, !.pendingFile = next]
    <3>1. rt' = [rt EXCEPT ![r] = y]
      BY <1>1, <2>4 DEF x
    <3>2. BecomesOf(x, y, cb.quiesced)
      BY <1>1, <1>2, <1>3, AsksFileOK
    <3> HIDE DEF y
    <3> QED
      BY <2>2, <2>4, <3>1, <3>2, OneMoves DEF x
  <2> QED
    BY <2>1, <2>3, <2>4 DEF dispatchFile
<1>6. CASE MayPublish(r) /\ k \in {"network", "storage"}
  <2>1. /\ rt' = [rt EXCEPT ![r].request = next, ![r].job = "queued",
                            ![r].jobOf = next]
        /\ UNCHANGED <<events, cb>>
    BY <1>6 DEF Dispatch
  <2> DEFINE y == [x EXCEPT !.request = next, !.job = "queued",
                            !.jobOf = next]
  <2>2. rt' = [rt EXCEPT ![r] = y]
    BY <1>1, <2>1 DEF x
  <2>3. BecomesOf(x, y, cb.quiesced)
    BY <1>1, <1>2, <1>3, QueuesJobOK
  <2> HIDE DEF y
  <2> QED
    BY <2>1, <2>2, <2>3, OneMoves DEF x
<1>7. CASE MayPublish(r) /\ k = "read"
  <2>1. dispatchRead(r, next) /\ cb' = cb
    BY <1>7 DEF Dispatch
  <2>2. /\ rt' = [rt EXCEPT ![r].request = next]
        /\ \E result \in {"ok", "error"} :
              events' = queueCompletion(events, r, next, result)
    BY <2>1 DEF dispatchRead, brokerDispatch
  <2> QED
    BY <1>2, <2>1, <2>2, RuntimeAnswers
<1>8. CASE MayPublish(r) /\ k \in {"clipboard", "audio"}
  <2>1. /\ rt' = [rt EXCEPT ![r].request = next] /\ cb' = cb
        /\ \E result \in {"ok", "error"} :
              events' = queueCompletion(events, r, next, result)
    BY <1>8 DEF Dispatch, brokerDispatch
  <2> QED
    BY <1>2, <2>1, RuntimeAnswers
<1> QED
  BY <1>2, <1>4, <1>5, <1>6, <1>7, <1>8 DEF Kinds

\* Those that end are cut off.
LEMMA InvalidatedRuntimes ==
    ASSUME RuntimePart, NEW dying \in SUBSET Runtimes,
           NEW y, y = invalidated(dying).rt
    PROVE  /\ y \in [Runtimes -> RuntimeStates]
           /\ \A r \in Runtimes :
                 /\ y[r] = rt[r] \/ BecomesOf(rt[r], y[r], cb.quiesced)
                 /\ y[r].phase = rt[r].phase
                 /\ r \in dying => y[r].accepting = FALSE
<1> DEFINE S == {r \in dying : rt[r].accepting}
<1>1. y = [r \in Runtimes |->
              IF r \in S THEN [rt[r] EXCEPT !.accepting = FALSE,
                                            !.bound = FALSE]
              ELSE rt[r]]
  BY DEF invalidated
<1>2. ASSUME NEW r \in Runtimes
      PROVE  /\ y[r] \in RuntimeStates
             /\ y[r] = rt[r] \/ BecomesOf(rt[r], y[r], cb.quiesced)
             /\ y[r].phase = rt[r].phase
             /\ r \in dying => y[r].accepting = FALSE
  <2> DEFINE x == rt[r]
             z == [x EXCEPT !.accepting = FALSE, !.bound = FALSE]
  <2>1. x \in RuntimeStates /\ RuntimeOK(x, cb.quiesced)
    BY TypedRuntime
  <2>2. /\ BecomesOf(x, z, cb.quiesced) /\ z.phase = x.phase
        /\ z.accepting = FALSE
    BY <2>1, InvalidatesOK
  <2>3. y[r] = IF r \in S THEN z ELSE x
    BY <1>1
  <2> HIDE DEF z
  <2>4. CASE r \in S
    BY <2>2, <2>3, <2>4 DEF BecomesOf
  <2>5. CASE r \notin S
    <3>1. r \in dying => x.accepting = FALSE
      BY <2>1, <2>5 DEF RuntimeStates
    <3> QED
      BY <2>1, <2>3, <2>5, <3>1
  <2> QED
    BY <2>4, <2>5
<1> HIDE DEF S
<1>3. y = [r \in Runtimes |-> y[r]]
  BY <1>1
<1>4. y \in [Runtimes -> RuntimeStates]
  BY <1>2, <1>3
<1> QED
  BY <1>2, <1>4

\* One thing after the other is one thing.
LEMMA BecomesTwice ==
    ASSUME NEW x, NEW y, NEW z, NEW Q, x = y \/ BecomesOf(x, y, Q),
           BecomesOf(y, z, Q)
    PROVE  BecomesOf(x, z, Q)
BY DEF BecomesOf

\* The runtimes of a set end: each is cut off, and some are retired.
LEMMA RuntimesEnd ==
    ASSUME RuntimePart, NEW dying \in SUBSET Runtimes,
           NEW retired \in SUBSET dying,
           \A r \in retired : rt[r].phase = "open",
           UNCHANGED <<events, cb>>,
           rt' = [r \in Runtimes |->
                    IF r \in retired THEN retire(invalidated(dying).rt[r])
                    ELSE invalidated(dying).rt[r]]
    PROVE  RuntimePart'
<1> DEFINE y == invalidated(dying).rt
<1>1. /\ y \in [Runtimes -> RuntimeStates]
      /\ \A r \in Runtimes :
            /\ y[r] = rt[r] \/ BecomesOf(rt[r], y[r], cb.quiesced)
            /\ y[r].phase = rt[r].phase
            /\ r \in dying => y[r].accepting = FALSE
  BY InvalidatedRuntimes
<1>2. rt' = [r \in Runtimes |-> IF r \in retired THEN retire(y[r]) ELSE y[r]]
  OBVIOUS
<1> HIDE DEF y
<1>3. ASSUME NEW r \in Runtimes
      PROVE  /\ rt'[r] \in RuntimeStates
             /\ rt'[r] = rt[r] \/ BecomesOf(rt[r], rt'[r], cb.quiesced)
  <2>1. CASE r \in retired
    <3> DEFINE z == retire(y[r])
    <3>1. /\ y[r] \in RuntimeStates /\ RuntimeOK(y[r], cb.quiesced)
          /\ y[r].phase = "open" /\ y[r].accepting = FALSE
      <4>1. RuntimeOK(rt[r], cb.quiesced)
        BY TypedRuntime
      <4> QED
        BY <1>1, <2>1, <4>1 DEF BecomesOf
    <3>2. BecomesOf(y[r], z, cb.quiesced)
      BY <3>1, RetiresOK
    <3>3. rt'[r] = z
      BY <1>2, <2>1
    <3> HIDE DEF z
    <3>4. BecomesOf(rt[r], z, cb.quiesced)
      BY <1>1, <3>2, BecomesTwice
    <3> QED
      BY <3>3, <3>4 DEF BecomesOf
  <2>2. CASE r \notin retired
    BY <1>1, <1>2, <2>2
  <2> QED
    BY <2>1, <2>2
<1>4. rt' \in [Runtimes -> RuntimeStates]
  <2>1. rt' = [r \in Runtimes |-> rt'[r]]
    BY <1>2
  <2> QED
    BY <1>3, <2>1
<1>5. /\ events' \in Seq(QueuedEvents) /\ cb' \in CallbackStates
      /\ cb.quiesced \subseteq cb'.quiesced
      /\ \A e \in ToSet(events') : e \in ToSet(events)
  BY DEF RuntimePart
<1> QED
  BY <1>3, <1>4, <1>5, RuntimesMove

\* Invalidate and Retire.
LEMMA RuntimeEnds ==
    ASSUME RuntimePart, NEW r \in Runtimes, Invalidate(r) \/ Retire(r)
    PROVE  RuntimePart'
<1> DEFINE y == invalidated({r}).rt
<1>1. y \in [Runtimes -> RuntimeStates]
  BY InvalidatedRuntimes
<1>2. UNCHANGED <<events, cb>> /\ rt[r].phase = "open"
  BY DEF Invalidate, Retire
<1>3. CASE Invalidate(r)
  <2>1. rt' = y
    BY <1>3 DEF Invalidate
  <2> DEFINE none == {s \in {r} : s # r}
  <2>2. rt' = [s \in Runtimes |-> IF s \in none THEN retire(y[s]) ELSE y[s]]
    BY <1>1, <2>1
  <2>3. none \in SUBSET {r} /\ \A s \in none : rt[s].phase = "open"
    OBVIOUS
  <2> HIDE DEF none
  <2> QED
    BY <1>2, <2>2, <2>3, RuntimesEnd
<1>4. CASE Retire(r)
  <2>1. rt' = [y EXCEPT ![r] = retire(y[r])]
    BY <1>4 DEF Retire
  <2>2. rt' = [s \in Runtimes |-> IF s \in {r} THEN retire(y[s]) ELSE y[s]]
    BY <1>1, <2>1
  <2> QED
    BY <1>2, <2>2, RuntimesEnd
<1> QED
  BY <1>3, <1>4

\* Shutdown.
LEMMA RuntimeShutdown ==
    ASSUME RuntimePart, Shutdown PROVE RuntimePart'
<1> DEFINE live == {r \in Runtimes : rt[r].phase = "open"}
<1>1. /\ rt' = [r \in Runtimes |->
                  IF r \in live THEN retire(invalidated(live).rt[r])
                  ELSE invalidated(live).rt[r]]
      /\ UNCHANGED <<events, cb>>
  BY DEF Shutdown
<1>2. live \in SUBSET Runtimes /\ \A r \in live : rt[r].phase = "open"
  OBVIOUS
<1> HIDE DEF live
<1> QED
  BY <1>1, <1>2, RuntimesEnd

\* What the callback thread queues.
LEMMA RuntimeReports ==
    ASSUME RuntimePart, DialogPart, CallbackRuns PROVE RuntimePart'
<1> DEFINE c == Head(d.callbacks)
           alive == {r \in OwnerOf(c.op) : rt[r].phase # "gone"}
           some == CHOOSE r \in alive : TRUE
           e == [k |-> "file", r |-> some, q |-> c.op, status |-> c.status]
<1>1. /\ d.callbacks # <<>> /\ rt' = rt
      /\ cb' = [cb EXCEPT !.op = c.op,
                          !.keeps = IF alive = {} THEN NoRuntime ELSE some]
      /\ events' = IF alive = {} THEN events ELSE Append(events, e)
  BY DEF CallbackRuns
<1>2. /\ d.callbacks \in Seq(Outcomes) /\ events \in Seq(QueuedEvents)
      /\ cb \in CallbackStates
  BY DEF DialogPart, DialogOK, DialogStates, RuntimePart
<1>3. c \in Outcomes
  BY <1>1, <1>2, Taken
<1>4. alive # {} => some \in Runtimes
  <2>1. alive \subseteq Runtimes
    BY DEF OwnerOf
  <2>2. alive # {} => some \in alive
    OBVIOUS
  <2> QED
    BY <2>1, <2>2
<1>5. c.op \in Requests /\ c.status \in Statuses
  BY <1>3 DEF Outcomes
<1>6. alive # {} => e \in QueuedEvents /\ e.k # "release"
  BY <1>4, <1>5, EventKinds
<1> HIDE DEF c, alive, some, e
<1>7. cb' \in CallbackStates /\ cb'.quiesced = cb.quiesced
  BY <1>1, <1>2, <1>4, <1>5 DEF CallbackStates, Ops
<1>8. CASE alive = {}
  BY <1>1, <1>2, <1>7, <1>8, EventsMove
<1>9. CASE alive # {}
  <2>1. events' = Append(events, e) /\ e \in QueuedEvents /\ e.k # "release"
    BY <1>1, <1>6, <1>9
  <2>2. /\ events' \in Seq(QueuedEvents)
        /\ ToSet(events') = ToSet(events) \cup {e}
    BY <1>2, <2>1, QueueOK
  <2>3. \A f \in ToSet(events') : f \in ToSet(events) \/ f.k # "release"
    BY <2>1, <2>2
  <2> QED
    BY <1>1, <1>7, <2>2, <2>3, EventsMove
<1> QED
  BY <1>8, <1>9

\* One event is taken.
LEMMA OneTakes ==
    ASSUME RuntimePart, NEW r \in Runtimes, NEW y,
           rt' = [rt EXCEPT ![r] = y], BecomesOf(rt[r], y, cb.quiesced),
           events # <<>>, events' = Tail(events), cb' = cb
    PROVE  RuntimePart'
<1>1. /\ events \in Seq(QueuedEvents) /\ cb' \in CallbackStates
      /\ cb.quiesced \subseteq cb'.quiesced
  BY DEF RuntimePart
<1>2. events' \in Seq(QueuedEvents) /\ ToSet(events') \subseteq ToSet(events)
  BY <1>1, DequeueOK
<1>3. \A f \in ToSet(events') : f \in ToSet(events)
  BY <1>2
<1> QED
  BY <1>1, <1>2, <1>3, RuntimeMoves

\* The same, of a runtime that is left alone.
LEMMA OnlyTakes ==
    ASSUME RuntimePart, rt' = rt, events # <<>>, events' = Tail(events),
           cb' = cb
    PROVE  RuntimePart'
<1>1. /\ events \in Seq(QueuedEvents) /\ cb' \in CallbackStates
      /\ cb.quiesced \subseteq cb'.quiesced
  BY DEF RuntimePart
<1>2. events' \in Seq(QueuedEvents) /\ ToSet(events') \subseteq ToSet(events)
  BY <1>1, DequeueOK
<1>3. \A f \in ToSet(events') : f \in ToSet(events)
  BY <1>2
<1> QED
  BY <1>1, <1>2, <1>3, EventsMove

\* completeFile.
LEMMA RuntimeFileAnswered ==
    ASSUME RuntimePart, events # <<>>, Head(events).k = "file",
           completeFile(Head(events)), cb' = cb
    PROVE  RuntimePart'
<1> DEFINE e == Head(events)
           r == e.r
           x == rt[r]
           y == [x EXCEPT !.pendingFile = NoOp]
<1>1. events \in Seq(QueuedEvents) /\ rt \in [Runtimes -> RuntimeStates]
  BY DEF RuntimePart
<1>2. e \in QueuedEvents
  BY <1>1, DequeueOK
<1>3. r \in Runtimes /\ e.q \in Requests
  BY <1>2, EventFields
<1> HIDE DEF e
<1>4. completeFile(e)
  BY DEF e
<1>5. x \in RuntimeStates /\ RuntimeOK(x, cb.quiesced)
  BY <1>3, TypedRuntime
<1>6. BecomesOf(x, y, cb.quiesced)
  BY <1>5, FileAnsweredOK
<1>7. CASE rt' = rt /\ events' = Tail(events)
  BY <1>7, OnlyTakes
<1>8. CASE /\ rt' = [rt EXCEPT ![r].pendingFile = NoOp]
           /\ events' = Tail(events)
  <2>1. rt' = [rt EXCEPT ![r] = y]
    BY <1>1, <1>3, <1>8
  <2> HIDE DEF y
  <2> QED
    BY <1>3, <1>6, <1>8, <2>1, OneTakes
<1>9. CASE /\ rt' = [rt EXCEPT ![r].pendingFile = NoOp]
           /\ \E result \in {"ok", "error"} :
                 events' = queueCompletion(Tail(events), r, e.q, result)
  <2>1. rt' = [rt EXCEPT ![r] = y]
    BY <1>1, <1>3, <1>9
  <2>2. PICK result \in {"ok", "error"} :
           events' = queueCompletion(Tail(events), r, e.q, result)
    BY <1>9
  <2> DEFINE f == [k |-> "done", r |-> r, q |-> e.q, result |-> result]
  <2>3. events' = Append(Tail(events), f)
    BY <2>2 DEF queueCompletion
  <2>4. f \in QueuedEvents /\ f.k # "release"
    BY <1>3, EventKinds
  <2> HIDE DEF f, y
  <2>5. /\ events' \in Seq(QueuedEvents)
        /\ ToSet(events') \subseteq ToSet(events) \cup {f}
    BY <1>1, <2>3, <2>4, QueueOK
  <2>6. \A h \in ToSet(events') : h \in ToSet(events) \/ h.k # "release"
    BY <2>4, <2>5
  <2>7. cb' \in CallbackStates /\ cb.quiesced \subseteq cb'.quiesced
    BY DEF RuntimePart
  <2> QED
    BY <1>3, <1>6, <2>1, <2>5, <2>6, <2>7, RuntimeMoves
<1> QED
  <2>1. \A status : completeFileRequest(status) \subseteq {"ok", "error"}
    BY DEF completeFileRequest
  <2> QED
    BY <1>4, <1>7, <1>8, <1>9, <2>1 DEF completeFile

\* An event of the queue.
LEMMA RuntimeEvent ==
    ASSUME RuntimePart, GuiEvent PROVE RuntimePart'
<1> DEFINE e == Head(events)
           x == rt[e.r]
<1>1. /\ events \in Seq(QueuedEvents) /\ rt \in [Runtimes -> RuntimeStates]
      /\ \A f \in ToSet(events) : f.k = "release" => LetGo(rt[f.r])
  BY DEF RuntimePart
<1>2. events # <<>> /\ cb' = cb
  BY DEF GuiEvent
<1>3. e \in QueuedEvents /\ e \in ToSet(events)
  BY <1>1, <1>2, DequeueOK
<1>4. /\ e.r \in Runtimes
      /\ e.k \in {"init", "done", "file", "release", "command"}
      /\ e.k = "init" => e.ok \in BOOLEAN
  BY <1>3, EventFields
<1>5. x \in RuntimeStates /\ RuntimeOK(x, cb.quiesced)
  BY <1>4, TypedRuntime
<1>6. CASE e.k = "init"
  <2>1. completeWorkerInitialization(e) /\ events' = Tail(events)
    BY <1>6 DEF GuiEvent
  <2>2. CASE x.accepting
    <3> DEFINE y == [x EXCEPT !.bound = e.ok]
    <3>1. rt' = [rt EXCEPT ![e.r] = y]
      BY <1>1, <1>4, <2>1, <2>2 DEF completeWorkerInitialization
    <3>2. BecomesOf(x, y, cb.quiesced)
      BY <1>4, <1>5, <1>6, <2>2, BindsOK
    <3> HIDE DEF y
    <3> QED
      BY <1>2, <1>4, <2>1, <3>1, <3>2, OneTakes
  <2>3. CASE ~x.accepting
    <3>1. rt' = rt
      BY <2>1, <2>3 DEF completeWorkerInitialization
    <3> QED
      BY <1>2, <2>1, <3>1, OnlyTakes
  <2> QED
    BY <2>2, <2>3
<1>7. CASE e.k = "done"
  <2>1. publishCompletion(e) /\ events' = Tail(events)
    BY <1>7 DEF GuiEvent
  <2>2. CASE rt' = [rt EXCEPT ![e.r].request = NoOp]
    <3> DEFINE y == [x EXCEPT !.request = NoOp]
    <3>1. rt' = [rt EXCEPT ![e.r] = y]
      BY <1>1, <1>4, <2>2
    <3>2. BecomesOf(x, y, cb.quiesced)
      BY <1>5, RequestsOK DEF Ops
    <3> HIDE DEF y
    <3> QED
      BY <1>2, <1>4, <2>1, <3>1, <3>2, OneTakes
  <2>3. CASE rt' = rt
    BY <1>2, <2>1, <2>3, OnlyTakes
  <2> QED
    BY <2>1, <2>2, <2>3 DEF publishCompletion
<1>8. CASE e.k = "file"
  <2>1. completeFile(e)
    BY <1>8 DEF GuiEvent
  <2> QED
    BY <1>2, <1>8, <2>1, RuntimeFileAnswered
<1>9. CASE e.k = "release"
  <2> DEFINE y == [x EXCEPT !.phase = "gone", !.pendingFile = NoOp]
  <2>1. /\ rt' = [rt EXCEPT ![e.r].phase = "gone", ![e.r].pendingFile = NoOp]
        /\ events' = Tail(events)
    BY <1>9 DEF GuiEvent
  <2>2. rt' = [rt EXCEPT ![e.r] = y]
    BY <1>1, <1>4, <2>1
  <2>3. LetGo(x)
    BY <1>1, <1>3, <1>9
  <2>4. BecomesOf(x, y, cb.quiesced)
    BY <1>5, <2>3, GoesOK
  <2> HIDE DEF y
  <2> QED
    BY <1>2, <1>4, <2>1, <2>2, <2>4, OneTakes
<1>10. CASE e.k = "command"
  BY <1>10 DEF GuiEvent
<1> QED
  BY <1>4, <1>6, <1>7, <1>8, <1>9, <1>10

\* A command is queued.
LEMMA RuntimeCommandKey ==
    ASSUME RuntimePart, g \in Routers, Len(commands) \in Nat, CommandKey
    PROVE  RuntimePart'
<1>1. PICK focus, focusAgain \in BOOLEAN :
         IF CommandQueued(g, focus, focusAgain)
         THEN events' = Append(events, [k |-> "command", r |-> g.active,
                                        epoch |-> g.epoch,
                                        i |-> Len(commands) + 1])
         ELSE events' = events
  BY DEF CommandKey
<1>2. /\ UNCHANGED <<rt, cb>> /\ events \in Seq(QueuedEvents)
      /\ cb' \in CallbackStates /\ cb.quiesced \subseteq cb'.quiesced
  BY DEF CommandKey, RuntimePart
<1>3. CASE events' = events
  BY <1>2, <1>3, EventsMove
<1>4. CASE CommandQueued(g, focus, focusAgain)
  <2> DEFINE i == Len(commands) + 1
             e == [k |-> "command", r |-> g.active, epoch |-> g.epoch,
                   i |-> i]
  <2>1. g.active \in Runtimes /\ g.epoch \in Nat /\ i \in Nat
    BY <1>4 DEF CommandQueued, Routers
  <2>2. events' = Append(events, e)
    BY <1>1, <1>4
  <2> HIDE DEF i
  <2>3. e \in QueuedEvents /\ e.k # "release"
    BY <2>1, EventKinds
  <2> HIDE DEF e
  <2>4. /\ events' \in Seq(QueuedEvents)
        /\ ToSet(events') = ToSet(events) \cup {e}
    BY <1>2, <2>2, <2>3, QueueOK
  <2>5. \A f \in ToSet(events') : f \in ToSet(events) \/ f.k # "release"
    BY <2>3, <2>4
  <2> QED
    BY <1>2, <2>4, <2>5, EventsMove
<1> QED
  BY <1>1, <1>3, <1>4

\* Every step.
LEMMA RuntimeStep ==
    ASSUME RuntimePart, DialogPart, g \in Routers, plan \in Plans,
           Len(commands) \in Nat, CapabilityNext
    PROVE  RuntimePart'
<1>1. Step /\ cb \in CallbackStates
  BY DEF CapabilityNext, RuntimePart
<1>2. CASE PostStart \/ JoinCallback \/ StaMessage \/ StaRun \/ UserAnswers
  <2>1. RuntimesKept
    BY <1>1, <1>2 DEF PostStart, JoinCallback, StaMessage, StaRun,
                      UserAnswers, RuntimesKept
  <2> QED
    BY <2>1, RuntimesKeptOK
<1>3. CASE Synchronize \/ Input \/ Age \/ ReleaseKey
  <2>1. RuntimesKept
    BY <1>1, <1>3 DEF Synchronize, Input, Age, ReleaseKey, RuntimesKept
  <2> QED
    BY <2>1, RuntimesKeptOK
<1>4. CASE JoinSta \/ CallbackQuiesces \/ CallbackExits
  <2>1. UNCHANGED <<rt, events>>
    BY <1>4 DEF JoinSta, CallbackQuiesces, CallbackExits
  <2>2. cb' \in CallbackStates /\ cb.quiesced \subseteq cb'.quiesced
    <3>1. CASE JoinSta
      BY <1>1, <3>1 DEF JoinSta, CallbackStates
    <3>2. CASE CallbackQuiesces
      <4>1. cb.op \in Requests /\ NoOp \in Ops
        BY <1>1, <3>2 DEF CallbackQuiesces, CallbackStates, Ops
      <4> QED
        BY <1>1, <3>2, <4>1 DEF CallbackQuiesces, CallbackStates
    <3>3. CASE CallbackExits
      BY <1>1, <3>3 DEF CallbackExits, CallbackStates
    <3> QED
      BY <1>4, <3>1, <3>2, <3>3
  <2> QED
    BY <2>1, <2>2, RuntimesKeptOK DEF RuntimesKept
<1>5. ASSUME NEW r \in Runtimes, Revoke(r) PROVE RuntimePart'
  <2>1. RuntimesKept
    BY <1>1, <1>5 DEF Revoke, RuntimesKept
  <2> QED
    BY <2>1, RuntimesKeptOK
<1>6. CASE RunCommand
  <2>1. /\ events # <<>> /\ events' = Tail(events) /\ UNCHANGED <<rt, cb>>
    BY <1>6 DEF RunCommand
  <2> QED
    BY <2>1, OnlyTakes
<1>7. CASE CommandKey
  BY <1>7, RuntimeCommandKey
<1>8. CASE CallbackRuns
  BY <1>8, RuntimeReports
<1>9. CASE GuiEvent
  BY <1>9, RuntimeEvent
<1>10. CASE Shutdown
  BY <1>10, RuntimeShutdown
<1>11. ASSUME NEW r \in Runtimes, Invalidate(r) \/ Retire(r)
       PROVE  RuntimePart'
  BY <1>11, RuntimeEnds
<1>12. ASSUME NEW r \in Runtimes, NEW k \in plan.kinds, Dispatch(r, k)
       PROVE  RuntimePart'
  BY <1>12, RuntimeDispatches
<1>13. ASSUME NEW r \in Runtimes, LaneDispatch(r) \/ NetworkAnswers(r)
       PROVE  RuntimePart'
  BY <1>13, RuntimeLaneDispatches
<1>14. ASSUME NEW r \in Runtimes,
              \/ LaneInitialize(r) \/ LaneFinishes(r)
              \/ RetirementSucceeds(r) \/ Create(r)
       PROVE  RuntimePart'
  BY <1>14, RuntimeInitializes, RuntimeLaneFinishes, RuntimeRetired,
     RuntimeCreates
<1> QED
  BY <1>1, <1>2, <1>3, <1>4, <1>5, <1>6, <1>7, <1>8, <1>9, <1>10, <1>11,
     <1>12, <1>13, <1>14 DEF Step, Progress

-----------------------------------------------------------------------------
\* The gestures.

\* An input as it arrived, and a command key as it was pressed.
Arrivals == [r : Runtimes \cup {NoRuntime}, turn : Nat, focused : BOOLEAN]
Presses == [pressed : Nat, ran : Nat]

\* Evidence is of the active binding.
Fresh(x) == \A r \in Runtimes : x.trusted[r] # 0 => x.active = r

\* The evidence is of an input, which reached the active binding in its present
\* turn with the focus in it.
EvidenceOK ==
    \A r \in Runtimes : g.trusted[r] # 0 =>
        /\ g.trusted[r] \in 1 .. g.now
        /\ arrived[g.trusted[r]] = [r |-> r, turn |-> turn, focused |-> TRUE]

\* What was granted is remembered: the input as granted for, while it still is
\* the evidence, and the name of the request.
SpentOK ==
    \A y \in reads :
        /\ y.input \in 1 .. g.now /\ y.id \in g.used[y.r]
        /\ \A r \in Runtimes :
              g.trusted[r] = y.input => g.granted[r] = y.input

\* A queued command of the present epoch was pressed in the present turn.
QueuedOK ==
    \A e \in ToSet(events) : e.k = "command" =>
        /\ e.i \in DOMAIN commands /\ e.epoch <= g.epoch
        /\ e.epoch = g.epoch => commands[e.i].pressed = turn

\* What the gestures' variables hold.
GestureTypes ==
    /\ g \in Routers /\ turn \in Nat /\ arrived \in Seq(Arrivals)
    /\ reads \subseteq Reads /\ commands \in Seq(Presses) /\ plan \in Plans

\* The gestures' part of the invariant.
GesturePart ==
    /\ GestureTypes /\ g.now = Len(arrived)
    /\ Fresh(g) /\ EvidenceOK /\ SpentOK /\ QueuedOK /\ GesturesAreSpentOnce

-----------------------------------------------------------------------------
\* The router.

\* What becomes of the router when no input arrives and nothing is granted:
\* another binding is active only in a later epoch, and evidence that is left
\* is what it was, for a binding that stayed active.
Moves(x, y) ==
    /\ y \in Routers /\ y.now = x.now /\ y.used = x.used
    /\ y.epoch >= x.epoch /\ (y.active # x.active => y.epoch > x.epoch)
    /\ \A r \in Runtimes : y.trusted[r] # 0 =>
          /\ y.trusted[r] = x.trusted[r] /\ y.granted[r] = x.granted[r]
          /\ y.active = x.active

\* Nothing is known of any binding.
Blank(x) == \A r \in Runtimes : x.trusted[r] = 0

\* Two such moves are one.
LEMMA MovesTwice ==
    ASSUME NEW x \in Routers, NEW y, NEW z, Moves(x, y), Moves(y, z)
    PROVE  Moves(x, z)
<1>1. /\ x.epoch \in Nat /\ y.epoch \in Nat /\ z.epoch \in Nat
      /\ y \in Routers /\ z \in Routers
  BY DEF Moves, Routers
<1>2. /\ z.epoch >= x.epoch /\ (z.active # x.active => z.epoch > x.epoch)
  BY <1>1 DEF Moves
<1>3. \A r \in Runtimes : z.trusted[r] # 0 =>
          /\ z.trusted[r] = x.trusted[r] /\ z.granted[r] = x.granted[r]
          /\ z.active = x.active
  BY DEF Moves
<1> QED
  BY <1>1, <1>2, <1>3 DEF Moves

\* Evidence stays that of the active binding.
LEMMA StaysFresh ==
    ASSUME NEW x, NEW y, Fresh(x), Moves(x, y) PROVE Fresh(y)
BY DEF Fresh, Moves

\* No move is a move.
LEMMA StaysOK ==
    ASSUME NEW x \in Routers PROVE Moves(x, x)
BY DEF Moves, Routers

\* What is not about the evidence.
SameEvidence(x, y) ==
    /\ y.now = x.now /\ y.used = x.used /\ y.epoch = x.epoch
    /\ y.active = x.active /\ y.trusted = x.trusted /\ y.granted = x.granted

\* That is a move.
LEMMA SameEvidenceOK ==
    ASSUME NEW x \in Routers, NEW y \in Routers, SameEvidence(x, y)
    PROVE  Moves(x, y)
<1>1. x.epoch \in Nat
  BY DEF Routers
<1> QED
  BY <1>1 DEF Moves, SameEvidence

\* clearEvidence.
LEMMA ClearEvidenceOK ==
    ASSUME NEW x \in Routers, NEW S, NEW y, y = clearEvidence(x, S)
    PROVE  /\ Moves(x, y) /\ y.active = x.active /\ y.epoch = x.epoch
           /\ Blank(x) => Blank(y)
           /\ x.active \in S /\ Fresh(x) => Blank(y)
<1> DEFINE t == without(x.trusted, S)
           n == without(x.granted, S)
<1>1. t \in [Runtimes -> Nat] /\ n \in [Runtimes -> Nat]
  BY DEF without, Routers
<1>2. /\ \A r \in Runtimes :
            /\ t[r] = IF r \in S THEN 0 ELSE x.trusted[r]
            /\ n[r] = IF r \in S THEN 0 ELSE x.granted[r]
  BY DEF without
<1>3. y = [x EXCEPT !.trusted = t, !.granted = n]
  BY DEF clearEvidence
<1> HIDE DEF t, n
<1>4. /\ y \in Routers /\ y.now = x.now /\ y.used = x.used
      /\ y.epoch = x.epoch /\ y.active = x.active
      /\ y.trusted = t /\ y.granted = n /\ x.epoch \in Nat
  BY <1>1, <1>3 DEF Routers
<1>5. Moves(x, y)
  BY <1>2, <1>4 DEF Moves
<1>6. Blank(x) => Blank(y)
  BY <1>2, <1>4 DEF Blank
<1>7. x.active \in S /\ Fresh(x) => Blank(y)
  BY <1>2, <1>4 DEF Blank, Fresh
<1> QED
  BY <1>4, <1>5, <1>6, <1>7

\* clearActiveEvidence.
LEMMA ClearActiveOK ==
    ASSUME NEW x \in Routers, Fresh(x), NEW y, y = clearActiveEvidence(x)
    PROVE  Moves(x, y) /\ Blank(y) /\ y.active = NoRuntime
<1>1. CASE x.active = NoRuntime
  <2>1. y = x
    BY <1>1 DEF clearActiveEvidence
  <2>2. Blank(y)
    BY <1>1, <2>1, CapabilityAssumption DEF Fresh, Blank
  <2> QED
    BY <1>1, <2>1, <2>2, StaysOK
<1>2. CASE x.active # NoRuntime
  <2> DEFINE n == x.epoch + 1
             z == [x EXCEPT !.epoch = n, !.active = NoRuntime]
             t == without(z.trusted, {x.active})
             v == without(z.granted, {x.active})
  <2>1. n \in Nat /\ n > x.epoch /\ x.epoch \in Nat
    BY DEF Routers
  <2>2. y = clearEvidence(z, {x.active})
    BY <1>2 DEF clearActiveEvidence, Routers
  <2> HIDE DEF n
  <2>3. /\ z \in Routers /\ z.epoch = n /\ z.active = NoRuntime
        /\ z.now = x.now /\ z.used = x.used
        /\ z.trusted = x.trusted /\ z.granted = x.granted
    BY <2>1 DEF Routers
  <2> HIDE DEF z
  <2>4. y = [z EXCEPT !.trusted = t, !.granted = v]
    BY <2>2 DEF clearEvidence
  <2>5. /\ t \in [Runtimes -> Nat] /\ v \in [Runtimes -> Nat]
        /\ \A r \in Runtimes :
              t[r] = IF r = x.active THEN 0 ELSE z.trusted[r]
    BY <2>3 DEF without, Routers
  <2> HIDE DEF t, v
  <2>6. /\ y \in Routers /\ y.epoch = n /\ y.active = NoRuntime
        /\ y.now = x.now /\ y.used = x.used /\ y.trusted = t
    BY <2>3, <2>4, <2>5 DEF Routers
  <2>7. Blank(y)
    BY <2>3, <2>5, <2>6 DEF Blank, Fresh
  <2> QED
    BY <2>1, <2>6, <2>7 DEF Moves, Blank
<1> QED
  BY <1>1, <1>2

\* revoke.
LEMMA RevokeOK ==
    ASSUME NEW x \in Routers, NEW S, NEW y, y = revoke(x, S)
    PROVE  Moves(x, y)
<1> DEFINE a == x.admitted \ S
<1>1. a \in SUBSET Runtimes
  BY DEF Routers
<1>2. y = [x EXCEPT !.admitted = a]
  BY DEF revoke
<1> HIDE DEF a
<1>3. y \in Routers /\ SameEvidence(x, y)
  BY <1>1, <1>2 DEF Routers, SameEvidence
<1> QED
  BY <1>3, SameEvidenceOK

\* unregisterBinding.
LEMMA UnregisterOK ==
    ASSUME NEW x \in Routers, Fresh(x), NEW S, NEW y,
           y = unregisterBinding(x, S)
    PROVE  Moves(x, y)
<1> DEFINE bound == {r \in S : x.bindings[TabOf[r]] = r}
           left == IF x.active \in bound THEN clearActiveEvidence(x) ELSE x
           cleared == clearEvidence(left, bound)
           z == revoke(cleared, bound)
           after == [t \in Tabs |-> IF z.bindings[t] \in bound THEN NoRuntime
                                ELSE z.bindings[t]]
<1>1. y = [z EXCEPT !.bindings = after]
  BY DEF unregisterBinding
<1>2. Moves(x, left)
  BY ClearActiveOK, StaysOK
<1> HIDE DEF left
<1>3. left \in Routers
  BY <1>2 DEF Moves
<1>4. Moves(left, cleared)
  BY <1>3, ClearEvidenceOK
<1> HIDE DEF cleared
<1>5. cleared \in Routers /\ Moves(x, cleared)
  BY <1>2, <1>4, MovesTwice DEF Moves
<1>6. Moves(cleared, z)
  BY <1>5, RevokeOK
<1> HIDE DEF z
<1>7. z \in Routers /\ Moves(x, z)
  BY <1>5, <1>6, MovesTwice DEF Moves
<1>8. after \in [Tabs -> Runtimes \cup {NoRuntime}]
  BY <1>7 DEF Routers
<1> HIDE DEF after
<1>9. y \in Routers /\ SameEvidence(z, y)
  BY <1>1, <1>7, <1>8 DEF Routers, SameEvidence
<1>10. Moves(z, y)
  BY <1>7, <1>9, SameEvidenceOK
<1> QED
  BY <1>7, <1>10, MovesTwice

\* registerBinding.
LEMMA RegisterOK ==
    ASSUME NEW x \in Routers, Fresh(x), NEW r \in Runtimes, NEW y,
           y = registerBinding(x, r)
    PROVE  Moves(x, y)
<1> DEFINE old == x.bindings[TabOf[r]]
           alone == IF old = NoRuntime THEN x ELSE unregisterBinding(x, {old})
           after == [alone.bindings EXCEPT ![TabOf[r]] = r]
           bound == [alone EXCEPT !.bindings = after]
<1>1. y = IF r \in x.admitted THEN bound ELSE alone
  BY DEF registerBinding
<1>2. Moves(x, alone)
  BY UnregisterOK, StaysOK
<1> HIDE DEF alone
<1>3. alone \in Routers
  BY <1>2 DEF Moves
<1>4. after \in [Tabs -> Runtimes \cup {NoRuntime}]
  BY <1>3 DEF Routers
<1> HIDE DEF after
<1>5. bound \in Routers /\ SameEvidence(alone, bound)
  BY <1>3, <1>4 DEF Routers, SameEvidence
<1> HIDE DEF bound
<1>6. Moves(alone, bound)
  BY <1>3, <1>5, SameEvidenceOK
<1>7. Moves(x, bound)
  BY <1>2, <1>6, MovesTwice
<1> QED
  BY <1>1, <1>2, <1>7

\* activateBinding.
LEMMA ActivateOK ==
    ASSUME NEW x \in Routers, Fresh(x), NEW r \in Runtimes, NEW y,
           y = activateBinding(x, r)
    PROVE  Moves(x, y)
<1> DEFINE away == clearActiveEvidence(x)
           cleared == clearEvidence(away, {r})
           n == cleared.epoch + 1
           z == [cleared EXCEPT !.epoch = n, !.active = r]
<1>1. y = x \/ y = away \/ y = z \/ y = cleared
  BY DEF activateBinding
<1>2. Moves(x, away) /\ Blank(away)
  BY ClearActiveOK
<1> HIDE DEF away
<1>3. away \in Routers
  BY <1>2 DEF Moves
<1>4. Moves(away, cleared) /\ Blank(cleared)
  BY <1>2, <1>3, ClearEvidenceOK
<1> HIDE DEF cleared
<1>5. cleared \in Routers /\ Moves(x, cleared)
  BY <1>2, <1>4, MovesTwice DEF Moves
<1>6. n \in Nat /\ n > cleared.epoch /\ cleared.epoch \in Nat
  BY <1>5 DEF Routers
<1> HIDE DEF n
<1>7. /\ z \in Routers /\ z.epoch = n /\ z.now = cleared.now
      /\ z.used = cleared.used /\ z.trusted = cleared.trusted
  BY <1>5, <1>6 DEF Routers
<1> HIDE DEF z
<1>8. Moves(cleared, z)
  BY <1>4, <1>6, <1>7 DEF Moves, Blank
<1>9. Moves(x, z)
  BY <1>5, <1>8, MovesTwice
<1> QED
  BY <1>1, <1>2, <1>5, <1>9, StaysOK

\* The keyboard hook on a command key.
LEMMA CommandKeyOK ==
    ASSUME NEW x \in Routers, NEW focus, NEW focusAgain, NEW y,
           y = routeCommandKey(x, focus, focusAgain)
    PROVE  Moves(x, y) /\ y.active = x.active /\ y.epoch = x.epoch
<1> DEFINE cleared == clearEvidence(x, {x.active})
<1>1. /\ Moves(x, cleared) /\ cleared.active = x.active
      /\ cleared.epoch = x.epoch
  BY ClearEvidenceOK
<1>2. \/ y = x \/ y = cleared \/ y = [x EXCEPT !.suppressed = TRUE]
      \/ y = [cleared EXCEPT !.suppressed = TRUE]
  BY DEF routeCommandKey
<1> HIDE DEF cleared
<1>3. ASSUME NEW z \in Routers, y = [z EXCEPT !.suppressed = TRUE]
      PROVE  Moves(z, y) /\ y.active = z.active /\ y.epoch = z.epoch
  <2>1. y \in Routers /\ SameEvidence(z, y)
    BY <1>3 DEF Routers, SameEvidence
  <2> QED
    BY <2>1, SameEvidenceOK DEF SameEvidence
<1>4. cleared \in Routers
  BY <1>1 DEF Moves
<1>5. CASE y = x \/ y = cleared
  BY <1>1, <1>5, StaysOK
<1>6. CASE y = [x EXCEPT !.suppressed = TRUE]
  BY <1>3, <1>6
<1>7. CASE y = [cleared EXCEPT !.suppressed = TRUE]
  BY <1>1, <1>3, <1>4, <1>7, MovesTwice
<1> QED
  BY <1>2, <1>5, <1>6, <1>7

\* releaseKey.
LEMMA ReleaseKeyOK ==
    ASSUME NEW x \in Routers, NEW y, y = releaseKey(x) PROVE Moves(x, y)
<1>1. y \in Routers /\ SameEvidence(x, y)
  BY DEF releaseKey, Routers, SameEvidence
<1> QED
  BY <1>1, SameEvidenceOK

\* Those that end take their bindings along.
LEMMA InvalidatedRouter ==
    ASSUME g \in Routers, Fresh(g), NEW dying, NEW y, y = invalidated(dying).g
    PROVE  Moves(g, y)
<1> DEFINE S == {r \in dying : rt[r].accepting}
           z == unregisterBinding(g, S)
<1>1. y = revoke(z, S)
  BY DEF invalidated
<1>2. Moves(g, z)
  BY UnregisterOK
<1> HIDE DEF z
<1>3. z \in Routers
  BY <1>2 DEF Moves
<1>4. Moves(z, y)
  BY <1>1, <1>3, RevokeOK
<1> QED
  BY <1>2, <1>4, MovesTwice

-----------------------------------------------------------------------------
\* The steps, for the gestures.

\* No command is queued.
NoCommandQueued ==
    \A e \in ToSet(events') : e \in ToSet(events) \/ e.k # "command"

\* Append adds one element, whatever it is.
LEMMA AnyAppended ==
    ASSUME NEW S, NEW s \in Seq(S), NEW e
    PROVE  ToSet(Append(s, e)) = ToSet(s) \cup {e}
<1>1. s \in Seq(S \cup {e})
  <2>1. /\ s \in [1 .. Len(s) -> S] /\ Len(s) \in Nat
    BY LenProperties
  <2>2. s \in [1 .. Len(s) -> S \cup {e}]
    BY <2>1
  <2> QED
    BY <2>1, <2>2, SeqDef
<1> QED
  BY <1>1, Appended

\* A step that queues one event of another kind, or takes the first, or both.
LEMMA NoCommand ==
    ASSUME events \in Seq(QueuedEvents),
           \/ events' = events
           \/ events # <<>> /\ events' = Tail(events)
           \/ \E e : e.k # "command" /\ events' = Append(events, e)
           \/ events # <<>> /\ \E e : /\ e.k # "command"
                                      /\ events' = Append(Tail(events), e)
    PROVE  NoCommandQueued
<1>1. CASE events' = events
  BY <1>1 DEF NoCommandQueued
<1>2. CASE events # <<>> /\ events' = Tail(events)
  BY <1>2, DequeueOK DEF NoCommandQueued
<1>3. CASE \E e : e.k # "command" /\ events' = Append(events, e)
  BY <1>3, AnyAppended DEF NoCommandQueued
<1>4. CASE /\ events # <<>>
           /\ \E e : e.k # "command" /\ events' = Append(Tail(events), e)
  <2> DEFINE ts == Tail(events)
  <2>1. ts \in Seq(QueuedEvents) /\ ToSet(ts) \subseteq ToSet(events)
    BY <1>4, DequeueOK
  <2> HIDE DEF ts
  <2>2. PICK e : e.k # "command" /\ events' = Append(ts, e)
    BY <1>4 DEF ts
  <2>3. ToSet(events') = ToSet(ts) \cup {e}
    BY <2>1, <2>2, AnyAppended
  <2> QED
    BY <2>1, <2>2, <2>3 DEF NoCommandQueued
<1> QED
  BY <1>1, <1>2, <1>3, <1>4

\* Nothing but the router moves.
LEMMA GesturesMove ==
    ASSUME GesturePart, events \in Seq(QueuedEvents), Moves(g, g'),
           NoCommandQueued,
           UNCHANGED <<arrived, reads, commands, plan>>,
           turn' = turn + IF g'.active # g.active THEN 1 ELSE 0
    PROVE  GesturePart'
<1>1. /\ g \in Routers /\ turn \in Nat /\ g' \in Routers
      /\ g'.now = g.now /\ g'.used = g.used /\ g.epoch \in Nat
      /\ g'.epoch \in Nat
  BY DEF GesturePart, GestureTypes, Moves, Routers
<1>2. GestureTypes' /\ g'.now = Len(arrived')
  BY <1>1 DEF GesturePart, GestureTypes
<1>3. \A r \in Runtimes : g'.trusted[r] # 0 =>
         /\ g'.trusted[r] = g.trusted[r] /\ g'.granted[r] = g.granted[r]
         /\ g'.active = g.active /\ turn' = turn
  BY <1>1 DEF Moves
<1>4. Fresh(g')
  BY <1>3 DEF GesturePart, Fresh
<1>5. EvidenceOK'
  BY <1>1, <1>3 DEF GesturePart, EvidenceOK
<1>6. SpentOK'
  <2>1. ASSUME NEW y \in reads
        PROVE  /\ y.input \in 1 .. g'.now /\ y.id \in g'.used[y.r]
               /\ \A r \in Runtimes :
                     g'.trusted[r] = y.input => g'.granted[r] = y.input
    <3>1. /\ y.input \in 1 .. g.now /\ y.id \in g.used[y.r]
          /\ \A r \in Runtimes :
                g.trusted[r] = y.input => g.granted[r] = y.input
      BY DEF GesturePart, SpentOK
    <3>2. y.input # 0
      BY <3>1
    <3> QED
      BY <1>1, <1>3, <3>1, <3>2
  <2> QED
    BY <2>1 DEF SpentOK
<1>7. QueuedOK'
  <2>1. ASSUME NEW e \in ToSet(events'), e.k = "command"
        PROVE  /\ e.i \in DOMAIN commands /\ e.epoch <= g'.epoch
               /\ e.epoch = g'.epoch => commands[e.i].pressed = turn'
    <3>1. e \in ToSet(events)
      BY <2>1 DEF NoCommandQueued
    <3>2. /\ e.i \in DOMAIN commands /\ e.epoch <= g.epoch
          /\ e.epoch = g.epoch => commands[e.i].pressed = turn
      BY <2>1, <3>1 DEF GesturePart, QueuedOK
    <3>3. e.epoch \in Nat
      <4>1. e \in QueuedEvents
        BY <3>1, ElementOfSeq DEF ToSet
      <4> QED
        BY <2>1, <4>1, EventFields
    <3>4. /\ g'.epoch >= g.epoch
          /\ g'.active # g.active => g'.epoch > g.epoch
      BY DEF Moves
    <3>5. CASE g'.active # g.active
      BY <1>1, <3>2, <3>3, <3>4, <3>5
    <3>6. CASE g'.active = g.active
      <4>1. turn' = turn
        BY <1>1, <3>6
      <4> QED
        BY <1>1, <3>2, <3>3, <3>4, <4>1
    <3> QED
      BY <3>5, <3>6
  <2> QED
    BY <2>1 DEF QueuedOK
<1>8. GesturesAreSpentOnce'
  BY DEF GesturePart, GesturesAreSpentOnce
<1> QED
  BY <1>2, <1>4, <1>5, <1>6, <1>7, <1>8 DEF GesturePart

\* A step of the others.
LEMMA GesturesRest ==
    ASSUME GesturePart, events \in Seq(QueuedEvents), g' = g,
           NoCommandQueued, UNCHANGED <<arrived, reads, commands, plan>>,
           turn' = turn + IF g'.active # g.active THEN 1 ELSE 0
    PROVE  GesturePart'
<1>1. Moves(g, g')
  BY StaysOK DEF GesturePart, GestureTypes
<1> QED
  BY <1>1, GesturesMove

\* recordInput: an input counts for the active binding, or loses the evidence.
LEMMA InputOK ==
    ASSUME NEW x \in Routers, Fresh(x), NEW focus \in BOOLEAN,
           NEW focusAgain \in BOOLEAN, NEW y,
           y = recordInput(x, focus, focusAgain)
    PROVE  /\ y \in Routers /\ y.now = x.now + 1 /\ y.used = x.used
           /\ y.epoch = x.epoch /\ y.active = x.active
           /\ \A r \in Runtimes : y.trusted[r] # 0 =>
                 /\ y.active = r
                 /\ \/ /\ y.trusted[r] = x.trusted[r]
                       /\ y.granted[r] = x.granted[r]
                    \/ y.trusted[r] = x.now + 1 /\ focus /\ focusAgain
<1> DEFINE m == x.now + 1
           seen == [x EXCEPT !.now = m]
           t == [x.trusted EXCEPT ![x.active] = m]
           z == [seen EXCEPT !.trusted = t]
           cleared == clearEvidence(seen, {x.active})
<1>1. m \in Nat
  BY DEF Routers
<1> HIDE DEF m
<1>2. /\ seen \in Routers /\ seen.now = m /\ seen.used = x.used
      /\ seen.epoch = x.epoch /\ seen.active = x.active
      /\ seen.trusted = x.trusted /\ seen.granted = x.granted
  BY <1>1 DEF Routers
<1>3. \/ x.active = NoRuntime /\ y = seen
      \/ x.active # NoRuntime /\ focus /\ focusAgain /\ y = z
      \/ x.active # NoRuntime /\ y = cleared
  BY <1>2 DEF recordInput, m
<1> HIDE DEF seen
<1>4. CASE x.active = NoRuntime /\ y = seen
  BY <1>2, <1>4 DEF Fresh, m
<1>5. CASE x.active # NoRuntime /\ focus /\ focusAgain /\ y = z
  <2>1. x.active \in Runtimes
    BY <1>5 DEF Routers
  <2>2. /\ t \in [Runtimes -> Nat] /\ t[x.active] = m
        /\ \A r \in Runtimes : r # x.active => t[r] = x.trusted[r]
    BY <1>1, <2>1 DEF Routers
  <2> HIDE DEF t
  <2>3. /\ y \in Routers /\ y.now = m /\ y.used = x.used
        /\ y.epoch = x.epoch /\ y.active = x.active
        /\ y.trusted = t /\ y.granted = x.granted
    BY <1>2, <1>5, <2>2 DEF Routers
  <2>4. ASSUME NEW r \in Runtimes, y.trusted[r] # 0
        PROVE  y.active = r /\ y.trusted[r] = m
    BY <2>2, <2>3, <2>4 DEF Fresh
  <2> QED
    BY <1>5, <2>3, <2>4 DEF m
<1>6. CASE x.active # NoRuntime /\ y = cleared
  <2>1. Fresh(seen)
    BY <1>2 DEF Fresh
  <2>2. Moves(seen, y) /\ Blank(y) /\ y.active = x.active
        /\ y.epoch = x.epoch
    BY <1>2, <1>6, <2>1, ClearEvidenceOK
  <2> QED
    BY <1>2, <2>2 DEF Moves, Blank, m
<1> QED
  BY <1>3, <1>4, <1>5, <1>6

\* An input.
LEMMA GestureInput ==
    ASSUME GesturePart, Input,
           turn' = turn + IF g'.active # g.active THEN 1 ELSE 0
    PROVE  GesturePart'
<1>1. PICK focus \in BOOLEAN, focusAgain \in BOOLEAN :
         /\ g' = recordInput(g, focus, focusAgain)
         /\ arrived' = Append(arrived, [r |-> g.active, turn |-> turn,
                                        focused |-> focus /\ focusAgain])
  BY DEF Input
<1>2. UNCHANGED <<events, reads, commands, plan>>
  BY DEF Input
<1> DEFINE a == [r |-> g.active, turn |-> turn,
                 focused |-> focus /\ focusAgain]
<1>3. /\ g \in Routers /\ turn \in Nat /\ arrived \in Seq(Arrivals)
      /\ g.now = Len(arrived) /\ g.now \in Nat /\ Fresh(g)
      /\ g.active \in Runtimes \cup {NoRuntime}
  BY DEF GesturePart, GestureTypes, Routers
<1>4. a \in Arrivals
  BY <1>3 DEF Arrivals
<1>5. /\ g' \in Routers /\ g'.now = g.now + 1 /\ g'.used = g.used
      /\ g'.epoch = g.epoch /\ g'.active = g.active
      /\ \A r \in Runtimes : g'.trusted[r] # 0 =>
            /\ g'.active = r
            /\ \/ /\ g'.trusted[r] = g.trusted[r]
                  /\ g'.granted[r] = g.granted[r]
               \/ g'.trusted[r] = g.now + 1 /\ focus /\ focusAgain
  BY <1>1, <1>3, InputOK
<1>6. focus /\ focusAgain =>
         a = [r |-> g.active, turn |-> turn, focused |-> TRUE]
  OBVIOUS
<1>7. arrived' = Append(arrived, a)
  BY <1>1
<1> HIDE DEF a
<1>8. /\ arrived' \in Seq(Arrivals) /\ Len(arrived') = g.now + 1
      /\ \A i \in 1 .. g.now : arrived'[i] = arrived[i]
      /\ arrived'[g.now + 1] = a
  BY <1>3, <1>4, <1>7, AppendProperties
<1>9. turn' = turn
  BY <1>3, <1>5
<1>10. GestureTypes' /\ g'.now = Len(arrived') /\ Fresh(g')
  <2>1. GestureTypes
    BY DEF GesturePart
  <2>2. GestureTypes'
    BY <1>2, <1>5, <1>8, <1>9, <2>1 DEF GestureTypes
  <2>3. Fresh(g')
    BY <1>5 DEF Fresh
  <2> QED
    BY <1>5, <1>8, <2>2, <2>3
<1>11. ASSUME NEW r \in Runtimes, g'.trusted[r] # 0
       PROVE  /\ g'.trusted[r] \in 1 .. g'.now
              /\ arrived'[g'.trusted[r]]
                    = [r |-> r, turn |-> turn, focused |-> TRUE]
  <2>1. g'.active = r
    BY <1>5, <1>11
  <2>2. CASE g'.trusted[r] = g.trusted[r]
    <3>1. /\ g.trusted[r] \in 1 .. g.now
          /\ arrived[g.trusted[r]]
                = [r |-> r, turn |-> turn, focused |-> TRUE]
      BY <1>11, <2>2 DEF GesturePart, EvidenceOK
    <3> QED
      BY <1>3, <1>5, <1>8, <2>2, <3>1
  <2>3. CASE g'.trusted[r] = g.now + 1 /\ focus /\ focusAgain
    <3>1. g.now + 1 \in 1 .. g'.now
      BY <1>3, <1>5
    <3> QED
      BY <1>5, <1>6, <1>8, <2>1, <2>3, <3>1
  <2> QED
    BY <1>5, <1>11, <2>2, <2>3
<1>12. EvidenceOK'
  BY <1>9, <1>11 DEF EvidenceOK
<1>13. ASSUME NEW y \in reads
       PROVE  /\ y.input \in 1 .. g'.now /\ y.id \in g'.used[y.r]
              /\ \A r \in Runtimes :
                    g'.trusted[r] = y.input => g'.granted[r] = y.input
              /\ arrived'[y.input] = arrived[y.input]
  <2>1. /\ y.input \in 1 .. g.now /\ y.id \in g.used[y.r]
        /\ \A r \in Runtimes :
              g.trusted[r] = y.input => g.granted[r] = y.input
    BY DEF GesturePart, SpentOK
  <2>2. y.input \in 1 .. g'.now /\ y.input # g.now + 1 /\ y.input # 0
    BY <1>3, <1>5, <2>1
  <2> QED
    BY <1>5, <1>8, <2>1, <2>2
<1>14. SpentOK'
  BY <1>2, <1>13 DEF SpentOK
<1>15. QueuedOK'
  BY <1>2, <1>5, <1>9 DEF GesturePart, QueuedOK
<1>16. GesturesAreSpentOnce'
  BY <1>2, <1>13 DEF GesturePart, GesturesAreSpentOnce
<1> QED
  BY <1>10, <1>12, <1>14, <1>15, <1>16 DEF GesturePart

\* A grant spends the evidence and the name of the request.
LEMMA GestureGranted ==
    ASSUME GesturePart, NoCommandQueued, NEW r \in Runtimes,
           NEW q \in Requests, NEW id \in Nat, NEW focus, NEW focusAgain,
           issueGrantOk(g, r, id, focus, focusAgain),
           g' = issueGrant(g, r, id, TRUE),
           reads' = reads \cup {[q |-> q, r |-> r, id |-> id,
                                 input |-> g.trusted[r], turn |-> turn]},
           UNCHANGED <<arrived, commands, plan>>,
           turn' = turn + IF g'.active # g.active THEN 1 ELSE 0
    PROVE  GesturePart'
<1> DEFINE i == g.trusted[r]
           n == [g.granted EXCEPT ![r] = i]
           u == [g.used EXCEPT ![r] = g.used[r] \cup {id}]
           x == [q |-> q, r |-> r, id |-> id, input |-> i, turn |-> turn]
<1>1. /\ g \in Routers /\ turn \in Nat /\ g.now \in Nat
      /\ reads \subseteq Reads
      /\ Fresh(g) /\ EvidenceOK /\ SpentOK /\ QueuedOK
      /\ GesturesAreSpentOnce /\ GestureTypes /\ g.now = Len(arrived)
  BY DEF GesturePart, GestureTypes, Routers
<1>2. /\ g.active = r /\ i # 0 /\ i # g.granted[r] /\ id \notin g.used[r]
      /\ i \in Nat
  BY <1>1 DEF issueGrantOk, GrantIsDue, tryIssue, Routers
<1>3. /\ i \in 1 .. g.now
      /\ arrived[i] = [r |-> r, turn |-> turn, focused |-> TRUE]
  BY <1>1, <1>2 DEF EvidenceOK
<1>4. /\ n \in [Runtimes -> Nat] /\ n[r] = i
      /\ \A s \in Runtimes : s # r => n[s] = g.granted[s]
  BY <1>1, <1>2 DEF Routers
<1>5. /\ u \in [Runtimes -> SUBSET Nat] /\ id \in u[r]
      /\ \A s \in Runtimes : g.used[s] \subseteq u[s]
  BY <1>1 DEF Routers
<1>6. g' = [g EXCEPT !.granted = n, !.used = u]
  BY <1>1, <1>2 DEF issueGrant, Routers
<1>7. q \in Nat
  BY CapabilityAssumption DEF Requests
<1>8. x \in Reads /\ x.r = r /\ x.id = id /\ x.input = i /\ x.turn = turn
  BY <1>1, <1>2 DEF Reads
<1>9. reads' = reads \cup {x}
  OBVIOUS
<1> HIDE DEF n, u, x
<1>10. /\ g' \in Routers /\ g'.now = g.now /\ g'.used = u
       /\ g'.epoch = g.epoch /\ g'.active = g.active
       /\ g'.trusted = g.trusted /\ g'.granted = n
  BY <1>1, <1>4, <1>5, <1>6 DEF Routers
<1>11. turn' = turn
  BY <1>1, <1>10
<1>12. GestureTypes' /\ g'.now = Len(arrived') /\ Fresh(g')
  <2>1. GestureTypes'
    BY <1>1, <1>8, <1>9, <1>10, <1>11 DEF GestureTypes
  <2> QED
    BY <1>1, <1>10, <2>1 DEF Fresh
<1>13. EvidenceOK'
  BY <1>1, <1>10, <1>11 DEF EvidenceOK
<1>14. ASSUME NEW y \in reads
       PROVE  /\ y.input # i /\ (y.r = r => y.id # id)
              /\ y.input \in 1 .. g.now /\ y.id \in u[y.r]
              /\ \A s \in Runtimes : g.trusted[s] = y.input => n[s] = y.input
  <2>1. /\ y.input \in 1 .. g.now /\ y.id \in g.used[y.r]
        /\ \A s \in Runtimes :
              g.trusted[s] = y.input => g.granted[s] = y.input
    BY <1>1 DEF SpentOK
  <2>2. y.r \in Runtimes
    BY <1>1 DEF Reads
  <2>3. y.input # i
    BY <1>2, <2>1
  <2>4. y.r = r => y.id # id
    BY <1>2, <2>1
  <2>5. y.id \in u[y.r]
    BY <1>5, <2>1, <2>2
  <2>6. \A s \in Runtimes : g.trusted[s] = y.input => n[s] = y.input
    BY <1>4, <2>1, <2>3
  <2> QED
    BY <2>1, <2>3, <2>4, <2>5, <2>6
<1>15. \A s \in Runtimes : g.trusted[s] = i => n[s] = i
  BY <1>1, <1>2, <1>4 DEF Fresh
<1>16. SpentOK'
  <2>1. ASSUME NEW y \in reads'
        PROVE  /\ y.input \in 1 .. g'.now /\ y.id \in g'.used[y.r]
               /\ \A s \in Runtimes :
                     g'.trusted[s] = y.input => g'.granted[s] = y.input
    <3>1. CASE y \in reads
      BY <1>10, <1>14, <3>1
    <3>2. CASE y = x
      BY <1>3, <1>5, <1>8, <1>10, <1>15, <3>2
    <3> QED
      BY <1>9, <3>1, <3>2
  <2> QED
    BY <2>1 DEF SpentOK
<1>17. QueuedOK'
  BY <1>1, <1>10, <1>11 DEF QueuedOK, NoCommandQueued
<1>18. GesturesAreSpentOnce'
  <2>1. /\ \A y \in reads :
              /\ arrived[y.input]
                    = [r |-> y.r, turn |-> y.turn, focused |-> TRUE]
              /\ \A z \in reads \ {y} :
                    z.input # y.input /\ (z.r = y.r => z.id # y.id)
        /\ \A k \in DOMAIN commands : commands[k].ran = commands[k].pressed
    BY <1>1 DEF GesturesAreSpentOnce
  <2>2. ASSUME NEW y \in reads'
        PROVE  /\ arrived[y.input]
                     = [r |-> y.r, turn |-> y.turn, focused |-> TRUE]
               /\ \A z \in reads' \ {y} :
                     z.input # y.input /\ (z.r = y.r => z.id # y.id)
    <3>1. CASE y \in reads
      BY <1>8, <1>9, <1>14, <2>1, <3>1
    <3>2. CASE y = x
      BY <1>3, <1>8, <1>9, <1>14, <3>2
    <3> QED
      BY <1>9, <3>1, <3>2
  <2> QED
    BY <2>1, <2>2 DEF GesturesAreSpentOnce
<1> QED
  BY <1>12, <1>13, <1>16, <1>17, <1>18 DEF GesturePart

\* A clipboard read is asked for.
LEMMA GestureRead ==
    ASSUME GesturePart, events \in Seq(QueuedEvents), NoCommandQueued,
           NEW r \in Runtimes, NEW q \in Requests, dispatchRead(r, q),
           UNCHANGED <<arrived, commands, plan>>,
           turn' = turn + IF g'.active # g.active THEN 1 ELSE 0
    PROVE  GesturePart'
<1>1. PICK focus \in BOOLEAN, focusAgain \in BOOLEAN, id \in 1 .. q :
         LET ok == issueGrantOk(g, r, id, focus, focusAgain)
         IN  /\ g' = issueGrant(g, r, id, ok)
             /\ reads' = IF ok THEN reads \cup {[q |-> q, r |-> r, id |-> id,
                                       input |-> g.trusted[r], turn |-> turn]}
                         ELSE reads
  BY DEF dispatchRead
<1>2. id \in Nat
  OBVIOUS
<1>3. CASE issueGrantOk(g, r, id, focus, focusAgain)
  <2>1. issueGrant(g, r, id, issueGrantOk(g, r, id, focus, focusAgain))
            = issueGrant(g, r, id, TRUE)
    BY <1>3 DEF issueGrant
  <2>2. g' = issueGrant(g, r, id, TRUE)
    BY <1>1, <2>1
  <2>3. reads' = reads \cup {[q |-> q, r |-> r, id |-> id,
                              input |-> g.trusted[r], turn |-> turn]}
    BY <1>1, <1>3
  <2> QED
    BY <1>2, <1>3, <2>2, <2>3, GestureGranted
<1>4. CASE ~issueGrantOk(g, r, id, focus, focusAgain)
  <2>1. g' = g \/ g' = clearEvidence(g, {r})
    BY <1>1, <1>4 DEF issueGrant
  <2>2. g \in Routers
    BY DEF GesturePart, GestureTypes
  <2>3. Moves(g, g')
    BY <2>1, <2>2, StaysOK, ClearEvidenceOK
  <2>4. reads' = reads
    BY <1>1, <1>4
  <2> QED
    BY <2>3, <2>4, GesturesMove
<1> QED
  BY <1>3, <1>4

\* A command key.
LEMMA GestureCommandKey ==
    ASSUME GesturePart, events \in Seq(QueuedEvents), CommandKey,
           turn' = turn + IF g'.active # g.active THEN 1 ELSE 0
    PROVE  GesturePart'
<1>1. PICK focus \in BOOLEAN, focusAgain \in BOOLEAN :
         /\ g' = routeCommandKey(g, focus, focusAgain)
         /\ IF CommandQueued(g, focus, focusAgain)
            THEN /\ events' = Append(events, [k |-> "command", r |-> g.active,
                                              epoch |-> g.epoch,
                                              i |-> Len(commands) + 1])
                 /\ commands' = Append(commands, [pressed |-> turn,
                                                  ran |-> turn])
            ELSE UNCHANGED <<events, commands>>
  BY DEF CommandKey
<1>2. UNCHANGED <<arrived, reads, plan>>
  BY DEF CommandKey
<1>3. g \in Routers /\ turn \in Nat /\ commands \in Seq(Presses)
  BY DEF GesturePart, GestureTypes
<1>4. Moves(g, g') /\ g'.active = g.active /\ g'.epoch = g.epoch
  BY <1>1, <1>3, CommandKeyOK
<1>5. CASE ~CommandQueued(g, focus, focusAgain)
  <2>1. UNCHANGED <<events, commands>>
    BY <1>1, <1>5
  <2>2. NoCommandQueued
    BY <2>1 DEF NoCommandQueued
  <2> QED
    BY <1>2, <1>4, <2>1, <2>2, GesturesMove
<1>6. CASE CommandQueued(g, focus, focusAgain)
  <2> DEFINE i == Len(commands) + 1
             c == [pressed |-> turn, ran |-> turn]
             e == [k |-> "command", r |-> g.active, epoch |-> g.epoch, i |-> i]
  <2>1. events' = Append(events, e) /\ commands' = Append(commands, c)
    BY <1>1, <1>6
  <2>2. c \in Presses /\ c.pressed = turn /\ c.ran = turn
    BY <1>3 DEF Presses
  <2>3. e.k = "command" /\ e.i = i /\ e.epoch = g.epoch /\ g.epoch \in Nat
    BY <1>3 DEF Routers
  <2>4. Len(commands) \in Nat /\ DOMAIN commands = 1 .. Len(commands)
    BY <1>3, LenProperties
  <2> HIDE DEF c, e
  <2>5. ToSet(events') = ToSet(events) \cup {e}
    BY <2>1, AnyAppended
  <2>6. /\ commands' \in Seq(Presses) /\ DOMAIN commands' = 1 .. i
        /\ \A k \in DOMAIN commands : commands'[k] = commands[k]
        /\ commands'[i] = c /\ DOMAIN commands' = DOMAIN commands \cup {i}
    BY <1>3, <2>1, <2>2, <2>4, AppendProperties
  <2> HIDE DEF i
  <2>7. turn' = turn
    BY <1>3, <1>4
  <2>8. /\ g' \in Routers /\ g'.now = g.now /\ g'.used = g.used
        /\ \A r \in Runtimes : g'.trusted[r] # 0 =>
              g'.trusted[r] = g.trusted[r] /\ g'.granted[r] = g.granted[r]
    BY <1>4 DEF Moves
  <2>9. GestureTypes' /\ g'.now = Len(arrived') /\ Fresh(g')
    BY <1>2, <1>4, <2>6, <2>7, <2>8 DEF GesturePart, GestureTypes, Fresh
  <2>10. EvidenceOK'
    BY <1>2, <2>7, <2>8 DEF GesturePart, EvidenceOK
  <2>11. SpentOK'
    <3>1. ASSUME NEW y \in reads
          PROVE  /\ y.input \in 1 .. g'.now /\ y.id \in g'.used[y.r]
                 /\ \A r \in Runtimes :
                       g'.trusted[r] = y.input => g'.granted[r] = y.input
      <4>1. /\ y.input \in 1 .. g.now /\ y.id \in g.used[y.r]
            /\ \A r \in Runtimes :
                  g.trusted[r] = y.input => g.granted[r] = y.input
        BY DEF GesturePart, SpentOK
      <4>2. y.input # 0
        BY <4>1
      <4> QED
        BY <2>8, <4>1, <4>2
    <3> QED
      BY <1>2, <3>1 DEF SpentOK
  <2>12. QueuedOK'
    <3>1. ASSUME NEW f \in ToSet(events'), f.k = "command"
          PROVE  /\ f.i \in DOMAIN commands' /\ f.epoch <= g.epoch
                 /\ f.epoch = g.epoch => commands'[f.i].pressed = turn
      <4>1. CASE f = e
        <5>1. f.i = i /\ f.epoch = g.epoch /\ g.epoch \in Nat
          BY <2>3, <4>1
        <5>2. i \in DOMAIN commands' /\ commands'[i].pressed = turn
          BY <2>2, <2>6
        <5> QED
          BY <5>1, <5>2
      <4>2. CASE f \in ToSet(events)
        <5>1. /\ f.i \in DOMAIN commands /\ f.epoch <= g.epoch
              /\ f.epoch = g.epoch => commands[f.i].pressed = turn
          BY <3>1, <4>2 DEF GesturePart, QueuedOK
        <5> QED
          BY <2>6, <5>1
      <4> QED
        BY <2>5, <4>1, <4>2
    <3> QED
      BY <1>4, <2>7, <3>1 DEF QueuedOK
  <2>13. GesturesAreSpentOnce'
    <3>1. \A k \in DOMAIN commands' : commands'[k].ran = commands'[k].pressed
      <4>1. \A k \in DOMAIN commands : commands[k].ran = commands[k].pressed
        BY DEF GesturePart, GesturesAreSpentOnce
      <4> QED
        BY <2>2, <2>6, <4>1
    <3> QED
      BY <1>2, <3>1 DEF GesturePart, GesturesAreSpentOnce
  <2> QED
    BY <2>9, <2>10, <2>11, <2>12, <2>13 DEF GesturePart
<1> QED
  BY <1>5, <1>6

\* A command's turn.
LEMMA GestureRunCommand ==
    ASSUME GesturePart, events \in Seq(QueuedEvents), RunCommand,
           turn' = turn + IF g'.active # g.active THEN 1 ELSE 0
    PROVE  GesturePart'
<1> DEFINE e == Head(events)
<1>1. PICK focus \in BOOLEAN :
         IF dispatchAdmitted(g, e, focus)
         THEN commands' = [commands EXCEPT ![e.i].ran = turn] /\ g' = g
         ELSE g' = clearEvidence(g, {e.r}) /\ commands' = commands
  BY DEF RunCommand
<1>2. /\ UNCHANGED <<arrived, reads, plan>> /\ events # <<>>
      /\ events' = Tail(events) /\ e.k = "command"
  BY DEF RunCommand
<1>3. /\ g \in Routers /\ turn \in Nat /\ commands \in Seq(Presses)
      /\ QueuedOK
  BY DEF GesturePart, GestureTypes
<1>4. NoCommandQueued
  BY <1>2, NoCommand
<1>5. e \in ToSet(events) /\ ToSet(events') \subseteq ToSet(events)
  BY <1>2, DequeueOK
<1> HIDE DEF e
<1>6. CASE ~dispatchAdmitted(g, e, focus)
  <2>1. g' = clearEvidence(g, {e.r}) /\ commands' = commands
    BY <1>1, <1>6
  <2>2. Moves(g, g')
    BY <1>3, <2>1, ClearEvidenceOK
  <2> QED
    BY <1>2, <1>4, <2>1, <2>2, GesturesMove
<1>7. CASE dispatchAdmitted(g, e, focus)
  <2>1. g' = g /\ commands' = [commands EXCEPT ![e.i].ran = turn]
    BY <1>1, <1>7
  <2>2. e.epoch = g.epoch
    BY <1>7 DEF dispatchAdmitted
  <2>3. e.i \in DOMAIN commands /\ commands[e.i].pressed = turn
    BY <1>2, <1>3, <1>5, <2>2 DEF QueuedOK
  <2>4. /\ commands' \in Seq(Presses) /\ DOMAIN commands' = DOMAIN commands
        /\ \A k \in DOMAIN commands :
              commands'[k].pressed = commands[k].pressed
        /\ commands'[e.i].ran = turn
        /\ \A k \in DOMAIN commands : k # e.i => commands'[k] = commands[k]
    <3> DEFINE n == Len(commands)
               x == commands[e.i]
               c == [x EXCEPT !.ran = turn]
    <3>1. /\ commands \in [1 .. n -> Presses] /\ n \in Nat
          /\ DOMAIN commands = 1 .. n
      BY <1>3, LenProperties
    <3>2. x \in Presses
      BY <2>3, <3>1
    <3>3. c \in Presses /\ c.ran = turn /\ c.pressed = x.pressed
      BY <1>3, <3>2 DEF Presses
    <3>4. commands' = [commands EXCEPT ![e.i] = c]
      BY <2>1, <2>3, <3>1
    <3> HIDE DEF c
    <3>5. /\ commands' \in [1 .. n -> Presses] /\ commands'[e.i] = c
          /\ \A k \in 1 .. n : k # e.i => commands'[k] = commands[k]
      BY <2>3, <3>1, <3>3, <3>4
    <3>6. commands' \in Seq(Presses) /\ DOMAIN commands' = 1 .. n
      BY <3>1, <3>5, SeqDef
    <3>7. \A k \in 1 .. n : commands'[k].pressed = commands[k].pressed
      BY <3>3, <3>5
    <3> QED
      BY <3>1, <3>3, <3>5, <3>6, <3>7
  <2>5. turn' = turn
    BY <1>3, <2>1
  <2>6. GestureTypes' /\ g'.now = Len(arrived') /\ Fresh(g')
    BY <1>2, <2>1, <2>4, <2>5 DEF GesturePart, GestureTypes
  <2>7. EvidenceOK' /\ SpentOK'
    BY <1>2, <2>1, <2>5 DEF GesturePart, EvidenceOK, SpentOK
  <2>8. QueuedOK'
    BY <1>3, <1>5, <2>1, <2>4, <2>5 DEF QueuedOK
  <2>9. GesturesAreSpentOnce'
    <3>1. \A k \in DOMAIN commands' : commands'[k].ran = commands'[k].pressed
      <4>1. \A k \in DOMAIN commands : commands[k].ran = commands[k].pressed
        BY DEF GesturePart, GesturesAreSpentOnce
      <4> QED
        BY <2>3, <2>4, <4>1
    <3> QED
      BY <1>2, <3>1 DEF GesturePart, GesturesAreSpentOnce
  <2> QED
    BY <2>6, <2>7, <2>8, <2>9 DEF GesturePart
<1> QED
  BY <1>6, <1>7

\* Every step.
LEMMA GestureStep ==
    ASSUME GesturePart, RuntimePart, DialogPart, CapabilityNext
    PROVE  GesturePart'
<1>1. /\ Step /\ turn' = turn + IF g'.active # g.active THEN 1 ELSE 0
      /\ events \in Seq(QueuedEvents) /\ g \in Routers /\ Fresh(g)
      /\ plan \in Plans
  BY DEF CapabilityNext, RuntimePart, GesturePart, GestureTypes
<1>2. CASE \/ PostStart \/ JoinSta \/ JoinCallback \/ StaMessage \/ StaRun
           \/ UserAnswers \/ CallbackQuiesces \/ CallbackExits
  <2>1. g' = g /\ events' = events /\ UNCHANGED gestures
    BY <1>2 DEF PostStart, JoinSta, JoinCallback, StaMessage, StaRun,
                UserAnswers, CallbackQuiesces, CallbackExits
  <2> QED
    BY <1>1, <2>1, NoCommand, GesturesRest DEF gestures
<1>3. CASE CallbackRuns
  <2>1. g' = g /\ UNCHANGED gestures
    BY <1>3 DEF CallbackRuns
  <2>2. \/ events' = events
        \/ \E e : e.k # "command" /\ events' = Append(events, e)
    <3> DEFINE c == Head(d.callbacks)
               alive == {r \in OwnerOf(c.op) : rt[r].phase # "gone"}
               e == [k |-> "file", r |-> CHOOSE r \in alive : TRUE,
                     q |-> c.op, status |-> c.status]
    <3>1. events' = IF alive = {} THEN events ELSE Append(events, e)
      BY <1>3 DEF CallbackRuns
    <3>2. e.k # "command"
      OBVIOUS
    <3> HIDE DEF e, alive
    <3> QED
      BY <3>1, <3>2
  <2> QED
    BY <1>1, <2>1, <2>2, NoCommand, GesturesRest DEF gestures
<1>4. CASE GuiEvent
  <2> DEFINE e == Head(events)
  <2>1. g' = g /\ UNCHANGED gestures /\ events # <<>>
    BY <1>4 DEF GuiEvent
  <2>2. e.k \in {"init", "done", "file", "release", "command"}
    BY <1>1, <2>1, DequeueOK, EventFields
  <2>3. \/ events' = Tail(events)
        \/ \E f : f.k # "command" /\ events' = Append(Tail(events), f)
    <3>1. CASE e.k = "file"
      <4>1. completeFile(e)
        BY <1>4, <3>1 DEF GuiEvent
      <4>2. \/ events' = Tail(events)
            \/ \E result : events' = queueCompletion(Tail(events), e.r, e.q,
                                                     result)
        BY <4>1 DEF completeFile
      <4>3. \A result : [k |-> "done", r |-> e.r, q |-> e.q,
                         result |-> result].k # "command"
        OBVIOUS
      <4> QED
        BY <4>2, <4>3 DEF queueCompletion
    <3>2. CASE e.k # "file"
      <4>1. events' = Tail(events)
        BY <1>4, <2>2, <3>2 DEF GuiEvent
      <4> QED
        BY <4>1
    <3> QED
      BY <3>1, <3>2
  <2> QED
    BY <1>1, <2>1, <2>3, NoCommand, GesturesRest DEF gestures
<1>5. ASSUME NEW r \in Runtimes,
             \/ LaneInitialize(r) \/ LaneFinishes(r) \/ LaneDispatch(r)
             \/ NetworkAnswers(r) \/ RetirementSucceeds(r)
      PROVE  GesturePart'
  <2>1. g' = g /\ UNCHANGED gestures
    BY <1>5 DEF LaneInitialize, LaneFinishes, LaneDispatch, NetworkAnswers,
                RetirementSucceeds
  <2>2. \/ events' = events
        \/ \E e : e.k # "command" /\ events' = Append(events, e)
    <3>1. \/ events' = events
          \/ \E ok : events' = Append(events, [k |-> "init", r |-> r,
                                               ok |-> ok])
          \/ \E result : events' = Append(events,
                [k |-> "done", r |-> r, q |-> rt[r].jobOf, result |-> result])
          \/ events' = Append(events, [k |-> "release", r |-> r])
      BY <1>5 DEF LaneInitialize, LaneFinishes, LaneDispatch, NetworkAnswers,
                  RetirementSucceeds, laneEnds, queueCompletion
    <3>2. /\ \A ok : [k |-> "init", r |-> r, ok |-> ok].k # "command"
          /\ \A result : [k |-> "done", r |-> r, q |-> rt[r].jobOf,
                          result |-> result].k # "command"
          /\ [k |-> "release", r |-> r].k # "command"
      OBVIOUS
    <3> QED
      BY <3>1, <3>2
  <2> QED
    BY <1>1, <2>1, <2>2, NoCommand, GesturesRest DEF gestures
<1>6. ASSUME NEW r \in Runtimes, NEW k \in plan.kinds, Dispatch(r, k)
      PROVE  GesturePart'
  <2>1. /\ UNCHANGED <<arrived, commands, plan>> /\ next \in Requests
        /\ k \in Kinds
    BY <1>1, <1>6, DispatchCases, PlanBounds DEF Dispatch, DialogPart
  <2>2. \/ events' = events
        \/ \E result : events' = queueCompletion(events, r, next, result)
    BY <1>6, <2>1 DEF Dispatch, dispatchFile, dispatchRead, Kinds
  <2>3. \A result : [k |-> "done", r |-> r, q |-> next,
                     result |-> result].k # "command"
    OBVIOUS
  <2>4. NoCommandQueued
    BY <1>1, <2>2, <2>3, NoCommand DEF queueCompletion
  <2>5. CASE MayPublish(r) /\ k = "read"
    <3>1. dispatchRead(r, next)
      BY <1>6, <2>5 DEF Dispatch
    <3> QED
      BY <1>1, <2>1, <2>4, <3>1, GestureRead
  <2>6. CASE ~(MayPublish(r) /\ k = "read")
    <3>1. g' = g /\ reads' = reads
      BY <1>6, <2>1, <2>6 DEF Dispatch, Kinds
    <3> QED
      BY <1>1, <2>1, <2>4, <3>1, GesturesRest
  <2> QED
    BY <2>5, <2>6
<1>7. ASSUME NEW r \in Runtimes, Create(r) \/ Revoke(r)
      PROVE  GesturePart'
  <2>1. events' = events /\ UNCHANGED gestures
    BY <1>7 DEF Create, Revoke
  <2>2. Moves(g, g')
    BY <1>1, <1>7, RegisterOK, RevokeOK DEF Create, Revoke
  <2> QED
    BY <1>1, <2>1, <2>2, NoCommand, GesturesMove DEF gestures
<1>8. ASSUME Shutdown \/ \E r \in Runtimes : Invalidate(r) \/ Retire(r)
      PROVE  GesturePart'
  <2>1. events' = events /\ UNCHANGED gestures
    BY <1>8 DEF Shutdown, Invalidate, Retire
  <2>2. PICK dying : g' = invalidated(dying).g
    BY <1>8 DEF Shutdown, Invalidate, Retire
  <2>3. Moves(g, g')
    BY <1>1, <2>2, InvalidatedRouter
  <2> QED
    BY <1>1, <2>1, <2>3, NoCommand, GesturesMove DEF gestures
<1>9. CASE Synchronize \/ ReleaseKey \/ Age
  <2>1. events' = events /\ UNCHANGED gestures
    BY <1>9 DEF Synchronize, ReleaseKey, Age
  <2>2. Moves(g, g')
    <3>1. CASE Synchronize
      BY <1>1, <3>1, ActivateOK, ClearActiveOK DEF Synchronize
    <3>2. CASE ReleaseKey
      BY <1>1, <3>2, ReleaseKeyOK DEF ReleaseKey
    <3>3. CASE Age
      <4>1. g' = [g EXCEPT !.fresh = g.now + 1] /\ g.now + 1 \in Nat
        BY <1>1, <3>3 DEF Age, Routers
      <4>2. g' \in Routers /\ SameEvidence(g, g')
        BY <1>1, <4>1 DEF Routers, SameEvidence
      <4> QED
        BY <1>1, <4>2, SameEvidenceOK
    <3> QED
      BY <1>9, <3>1, <3>2, <3>3
  <2> QED
    BY <1>1, <2>1, <2>2, NoCommand, GesturesMove DEF gestures
<1>10. CASE Input
  BY <1>1, <1>10, GestureInput
<1>11. CASE CommandKey
  BY <1>1, <1>11, GestureCommandKey
<1>12. CASE RunCommand
  BY <1>1, <1>12, GestureRunCommand
<1> QED
  BY <1>1, <1>2, <1>3, <1>4, <1>5, <1>6, <1>7, <1>8, <1>9, <1>10, <1>11,
     <1>12 DEF Step, Progress

-----------------------------------------------------------------------------
\* The outcomes that the callback thread queues.

\* The outcomes of a runtime's dialogs are in front of its release.
InOrder(es) ==
    \A i, j \in DOMAIN es :
        es[i].k = "file" /\ es[j].k = "release" /\ es[i].r = es[j].r => i < j

\* No outcome of the queue is for a runtime that is gone.
Awaited(es, x) ==
    \A i \in DOMAIN es : es[i].k = "file" => x[es[i].r].phase # "gone"

\* The callback thread has told what it runs and what it is done with, and keeps
\* nothing but while it runs.
CallbackTold ==
    /\ \A q \in cb.quiesced : reported[q] # 0
    /\ cb.op # NoOp => cb.op \notin cb.quiesced /\ reported[cb.op] # 0
    /\ cb.keeps # NoRuntime => cb.op # NoOp

\* The outcomes' part of the invariant.
OutcomePart == InOrder(events) /\ Awaited(events, rt) /\ CallbackTold

\* The callback thread stands still.
CallbackRests ==
    /\ reported' = reported
    /\ cb'.op = cb.op /\ cb'.keeps = cb.keeps /\ cb'.quiesced = cb.quiesced

\* No runtime goes.
NoneGoes ==
    \A r \in Runtimes : rt'[r].phase = "gone" => rt[r].phase = "gone"

\* An element at the end of a queue, whatever it is.
LEMMA LastAppended ==
    ASSUME NEW S, NEW s \in Seq(S), NEW e
    PROVE  /\ Len(s) \in Nat /\ DOMAIN s = 1 .. Len(s)
           /\ DOMAIN Append(s, e) = 1 .. Len(s) + 1
           /\ \A i \in 1 .. Len(s) : Append(s, e)[i] = s[i]
           /\ Append(s, e)[Len(s) + 1] = e
<1>1. /\ s \in [1 .. Len(s) -> S] /\ Len(s) \in Nat
  BY LenProperties
<1>2. s \in Seq(S \cup {e})
  <2>1. s \in [1 .. Len(s) -> S \cup {e}]
    BY <1>1
  <2> QED
    BY <1>1, <2>1, SeqDef
<1> QED
  BY <1>1, <1>2, AppendProperties

\* A new event keeps the order, if it is no outcome or finds no release.
LEMMA OrderAppended ==
    ASSUME NEW es \in Seq(QueuedEvents), NEW e, NEW x,
           InOrder(es), Awaited(es, x),
           e.k = "file" =>
              /\ x[e.r].phase # "gone"
              /\ \A j \in DOMAIN es : es[j].k = "release" => es[j].r # e.r
    PROVE  InOrder(Append(es, e)) /\ Awaited(Append(es, e), x)
<1> DEFINE a == Append(es, e)
           n == Len(es)
<1>1. /\ n \in Nat /\ DOMAIN es = 1 .. n /\ DOMAIN a = 1 .. n + 1
      /\ \A i \in 1 .. n : a[i] = es[i]
      /\ a[n + 1] = e
  BY LastAppended
<1> HIDE DEF a, n
<1>2. ASSUME NEW i \in DOMAIN a, NEW j \in DOMAIN a,
             a[i].k = "file", a[j].k = "release", a[i].r = a[j].r
      PROVE  i < j
  <2>1. CASE i \in 1 .. n /\ j \in 1 .. n
    BY <1>1, <1>2, <2>1 DEF InOrder
  <2>2. CASE i \in 1 .. n /\ j = n + 1
    BY <1>1, <2>2
  <2>3. CASE i = n + 1 /\ j \in 1 .. n
    BY <1>1, <1>2, <2>3
  <2>4. CASE i = n + 1 /\ j = n + 1
    BY <1>2, <2>4
  <2> QED
    BY <1>1, <1>2, <2>1, <2>2, <2>3, <2>4
<1>3. ASSUME NEW i \in DOMAIN a, a[i].k = "file"
      PROVE  x[a[i].r].phase # "gone"
  <2>1. CASE i \in 1 .. n
    BY <1>1, <1>3, <2>1 DEF Awaited
  <2>2. CASE i = n + 1
    BY <1>1, <1>3, <2>2
  <2> QED
    BY <1>1, <1>3, <2>1, <2>2
<1>4. InOrder(a)
  BY <1>2 DEF InOrder
<1>5. Awaited(a, x)
  BY <1>3 DEF Awaited
<1> QED
  BY <1>4, <1>5 DEF a

\* The first event leaves the order, and no outcome behind its own release.
LEMMA OrderTaken ==
    ASSUME events \in Seq(QueuedEvents), events # <<>>, OutcomePart,
           \A r \in Runtimes : rt'[r].phase = "gone" =>
              \/ rt[r].phase = "gone"
              \/ Head(events).k = "release" /\ Head(events).r = r
    PROVE  InOrder(Tail(events)) /\ Awaited(Tail(events), rt')
<1> DEFINE t == Tail(events)
           n == Len(events)
<1>1. /\ n \in Nat \ {0} /\ DOMAIN events = 1 .. n
      /\ DOMAIN t = 1 .. n - 1 /\ Head(events) = events[1]
      /\ \A i \in 1 .. n - 1 : t[i] = events[i + 1]
  BY HeadTailProperties, LenProperties, EmptySeq
<1>2. /\ InOrder(events) /\ Awaited(events, rt)
  BY DEF OutcomePart
<1>3. \A i \in DOMAIN events : events[i].r \in Runtimes
  <2>1. \A i \in DOMAIN events : events[i] \in QueuedEvents
    BY <1>1, ElementOfSeq
  <2> QED
    BY <2>1, EventFields
<1> HIDE DEF t, n
<1>4. ASSUME NEW i \in DOMAIN t, NEW j \in DOMAIN t,
             t[i].k = "file", t[j].k = "release", t[i].r = t[j].r
      PROVE  i < j
  <2>1. /\ i + 1 \in DOMAIN events /\ j + 1 \in DOMAIN events
        /\ t[i] = events[i + 1] /\ t[j] = events[j + 1]
        /\ i \in Int /\ j \in Int
    BY <1>1
  <2>2. i + 1 < j + 1
    BY <1>2, <1>4, <2>1 DEF InOrder
  <2> QED
    BY <2>1, <2>2
<1>5. ASSUME NEW i \in DOMAIN t, t[i].k = "file"
      PROVE  rt'[t[i].r].phase # "gone"
  <2>1. /\ i + 1 \in DOMAIN events /\ 1 \in DOMAIN events
        /\ t[i] = events[i + 1] /\ i >= 1 /\ i \in Int
    BY <1>1
  <2>2. /\ events[i + 1].k = "file" /\ events[i + 1].r \in Runtimes
        /\ rt[events[i + 1].r].phase # "gone"
    BY <1>2, <1>3, <1>5, <2>1 DEF Awaited
  <2>3. ~(Head(events).k = "release" /\ Head(events).r = events[i + 1].r)
    <3>1. SUFFICES ASSUME events[1].k = "release",
                          events[1].r = events[i + 1].r
                   PROVE  FALSE
      BY <1>1
    <3>2. i + 1 < 1
      BY <1>2, <2>1, <2>2, <3>1 DEF InOrder
    <3> QED
      BY <2>1, <3>2
  <2> QED
    BY <2>1, <2>2, <2>3
<1>6. InOrder(t)
  BY <1>4 DEF InOrder
<1>7. Awaited(t, rt')
  BY <1>5 DEF Awaited
<1> QED
  BY <1>6, <1>7 DEF t

\* The callback thread's own part.
LEMMA CallbackRestsOK ==
    ASSUME OutcomePart, CallbackRests PROVE CallbackTold'
BY DEF OutcomePart, CallbackTold, CallbackRests

\* A step that queues no outcome, or nothing.
LEMMA OutcomesQueue ==
    ASSUME RuntimePart, OutcomePart, CallbackRests, NoneGoes,
           \/ events' = events
           \/ \E e : events' = Append(events, e) /\ e.k # "file"
    PROVE  OutcomePart'
<1>1. events \in Seq(QueuedEvents) /\ InOrder(events) /\ CallbackTold'
  BY CallbackRestsOK DEF RuntimePart, OutcomePart
<1>2. Awaited(events, rt')
  <2> SUFFICES ASSUME NEW i \in DOMAIN events, events[i].k = "file"
               PROVE  rt'[events[i].r].phase # "gone"
    BY DEF Awaited
  <2>1. events[i] \in QueuedEvents
    BY <1>1, ElementOfSeq, LenProperties
  <2>2. events[i].r \in Runtimes
    BY <2>1, EventFields
  <2> QED
    BY <2>2 DEF OutcomePart, Awaited, NoneGoes
<1>3. CASE events' = events
  BY <1>1, <1>2, <1>3 DEF OutcomePart
<1>4. CASE \E e : events' = Append(events, e) /\ e.k # "file"
  <2>1. PICK e : events' = Append(events, e) /\ e.k # "file"
    BY <1>4
  <2>2. InOrder(Append(events, e)) /\ Awaited(Append(events, e), rt')
    BY <1>1, <1>2, <2>1, OrderAppended
  <2> QED
    BY <1>1, <2>1, <2>2 DEF OutcomePart
<1> QED
  BY <1>3, <1>4

\* A step that takes the first event, and may queue another that is no outcome.
LEMMA OutcomesTake ==
    ASSUME RuntimePart, OutcomePart, CallbackRests, events # <<>>,
           \A r \in Runtimes : rt'[r].phase = "gone" =>
              \/ rt[r].phase = "gone"
              \/ Head(events).k = "release" /\ Head(events).r = r,
           \/ events' = Tail(events)
           \/ \E e : events' = Append(Tail(events), e) /\ e.k # "file"
    PROVE  OutcomePart'
<1> DEFINE t == Tail(events)
<1>1. /\ events \in Seq(QueuedEvents) /\ CallbackTold'
      /\ t \in Seq(QueuedEvents)
  BY CallbackRestsOK, DequeueOK DEF RuntimePart
<1>2. InOrder(t) /\ Awaited(t, rt')
  BY <1>1, OrderTaken
<1> HIDE DEF t
<1>3. CASE events' = t
  BY <1>1, <1>2, <1>3 DEF OutcomePart
<1>4. CASE \E e : events' = Append(t, e) /\ e.k # "file"
  <2>1. PICK e : events' = Append(t, e) /\ e.k # "file"
    BY <1>4
  <2>2. InOrder(Append(t, e)) /\ Awaited(Append(t, e), rt')
    BY <1>1, <1>2, <2>1, OrderAppended
  <2> QED
    BY <1>1, <2>1, <2>2 DEF OutcomePart
<1> QED
  BY <1>3, <1>4 DEF t

\* An outcome is queued for a runtime whose file request was still pending, and
\* so for none that is released.
LEMMA OutcomesReported ==
    ASSUME RuntimePart, DialogPart, OutcomePart, CallbackRuns
    PROVE  OutcomePart'
<1> DEFINE c == Head(d.callbacks)
           alive == {r \in OwnerOf(c.op) : rt[r].phase # "gone"}
           some == CHOOSE r \in alive : TRUE
           e == [k |-> "file", r |-> some, q |-> c.op, status |-> c.status]
<1>1. /\ d.callbacks # <<>> /\ rt' = rt
      /\ cb' = [cb EXCEPT !.op = c.op,
                          !.keeps = IF alive = {} THEN NoRuntime ELSE some]
      /\ events' = IF alive = {} THEN events ELSE Append(events, e)
      /\ reported' = [reported EXCEPT ![c.op] = reported[c.op] + 1]
  BY DEF CallbackRuns
<1>2. /\ d.callbacks \in Seq(Outcomes) /\ events \in Seq(QueuedEvents)
      /\ cb \in CallbackStates /\ ReportsOK(d, reported)
      /\ reported \in [Requests -> Nat]
  BY DEF DialogPart, DialogOK, DialogStates, RuntimePart
<1>3. c \in Outcomes /\ c \in ToSet(d.callbacks)
  BY <1>1, <1>2, Taken
<1>4. c.op \in Requests /\ c.op # NoOp
  BY <1>3, CapabilityAssumption DEF Outcomes, Requests
<1>5. reported[c.op] = 0
  <2>1. PICK i \in DOMAIN d.callbacks : d.callbacks[i] = c
    BY <1>3 DEF ToSet
  <2> QED
    BY <1>2, <1>4, <2>1 DEF ReportsOK
<1>6. c.op \notin cb.quiesced
  BY <1>5 DEF OutcomePart, CallbackTold
<1>7. alive # {} => /\ some \in Runtimes /\ rt[some].pendingFile = c.op
                    /\ rt[some].phase # "gone"
  <2>1. alive # {} => some \in alive
    OBVIOUS
  <2> QED
    BY <2>1 DEF OwnerOf
<1> HIDE DEF c, alive, some
<1>8. CallbackTold'
  <2>1. /\ cb'.op = c.op /\ cb'.quiesced = cb.quiesced
    BY <1>1, <1>2 DEF CallbackStates
  <2>2. /\ reported'[c.op] = 1
        /\ \A q \in Requests : reported[q] # 0 => reported'[q] # 0
    BY <1>1, <1>2, <1>4, <1>5
  <2>3. cb.quiesced \subseteq Requests
    BY <1>2 DEF CallbackStates
  <2> QED
    BY <1>4, <1>6, <2>1, <2>2, <2>3 DEF OutcomePart, CallbackTold
<1>9. InOrder(events) /\ Awaited(events, rt)
  BY DEF OutcomePart
<1>10. CASE alive = {}
  BY <1>1, <1>8, <1>9, <1>10 DEF OutcomePart
<1>11. CASE alive # {}
  <2>1. e.k = "file" /\ e.r = some /\ events' = Append(events, e)
    BY <1>1, <1>11
  <2>2. ASSUME NEW j \in DOMAIN events, events[j].k = "release"
        PROVE  events[j].r # some
    <3>1. SUFFICES ASSUME events[j].r = some PROVE FALSE
      OBVIOUS
    <3>2. LetGo(rt[some]) /\ RuntimeOK(rt[some], cb.quiesced)
      BY <1>7, <1>11, <2>2, <3>1 DEF RuntimePart, ToSet
    <3> QED
      BY <1>4, <1>6, <1>7, <1>11, <3>2 DEF RuntimeOK, LetGo
  <2> HIDE DEF e
  <2>3. InOrder(Append(events, e)) /\ Awaited(Append(events, e), rt)
    BY <1>2, <1>7, <1>9, <1>11, <2>1, <2>2, OrderAppended
  <2> QED
    BY <1>1, <1>8, <2>1, <2>3 DEF OutcomePart
<1> QED
  BY <1>10, <1>11

\* The callback is over.
LEMMA OutcomesQuiesce ==
    ASSUME RuntimePart, OutcomePart, CallbackQuiesces PROVE OutcomePart'
<1>1. /\ cb \in CallbackStates /\ cb.op # NoOp
      /\ cb' = [cb EXCEPT !.op = NoOp, !.keeps = NoRuntime,
                          !.quiesced = cb.quiesced \cup {cb.op}]
      /\ UNCHANGED <<rt, events, reported>>
  BY DEF CallbackQuiesces, RuntimePart
<1>2. /\ cb'.op = NoOp /\ cb'.keeps = NoRuntime
      /\ cb'.quiesced = cb.quiesced \cup {cb.op}
  BY <1>1 DEF CallbackStates
<1>3. CallbackTold'
  BY <1>1, <1>2 DEF OutcomePart, CallbackTold
<1> QED
  BY <1>1, <1>3 DEF OutcomePart

\* Those that end are retired, not gone.
LEMMA EndsDoNotGo ==
    ASSUME RuntimePart, NEW dying \in SUBSET Runtimes,
           NEW retired \in SUBSET dying,
           rt' = [r \in Runtimes |->
                    IF r \in retired THEN retire(invalidated(dying).rt[r])
                    ELSE invalidated(dying).rt[r]]
    PROVE  NoneGoes
<1> DEFINE y == invalidated(dying).rt
<1>1. /\ y \in [Runtimes -> RuntimeStates]
      /\ \A r \in Runtimes : y[r].phase = rt[r].phase
  BY InvalidatedRuntimes
<1>2. rt' = [r \in Runtimes |-> IF r \in retired THEN retire(y[r]) ELSE y[r]]
  OBVIOUS
<1> HIDE DEF y
<1>3. \A x \in RuntimeStates : retire(x).phase = "retiring"
  BY DEF retire, RuntimeStates
<1> QED
  BY <1>1, <1>2, <1>3 DEF NoneGoes

\* One event of the GUI thread's queue.
LEMMA OutcomesEvent ==
    ASSUME RuntimePart, OutcomePart, GuiEvent PROVE OutcomePart'
<1> DEFINE e == Head(events)
<1>1. /\ events # <<>> /\ CallbackRests
      /\ events \in Seq(QueuedEvents) /\ rt \in [Runtimes -> RuntimeStates]
  BY DEF GuiEvent, CallbackRests, RuntimePart
<1>2. e \in QueuedEvents
  BY <1>1, DequeueOK
<1>3. e.r \in Runtimes /\ e.k \in {"init", "done", "file", "release", "command"}
  BY <1>2, EventFields
<1>4. /\ \/ events' = Tail(events)
         \/ \E f : events' = Append(Tail(events), f) /\ f.k # "file"
      /\ \/ rt' = rt
         \/ \E v : rt' = [rt EXCEPT ![e.r].bound = v]
         \/ rt' = [rt EXCEPT ![e.r].request = NoOp]
         \/ rt' = [rt EXCEPT ![e.r].pendingFile = NoOp]
         \/ /\ e.k = "release"
            /\ rt' = [rt EXCEPT ![e.r].phase = "gone",
                                ![e.r].pendingFile = NoOp]
  <2>1. CASE e.k = "init"
    BY <2>1 DEF GuiEvent, completeWorkerInitialization
  <2>2. CASE e.k = "done"
    BY <2>2 DEF GuiEvent, publishCompletion
  <2>3. CASE e.k = "file"
    <3>1. completeFile(e)
      BY <2>3 DEF GuiEvent
    <3>2. ASSUME NEW result,
                 events' = queueCompletion(Tail(events), e.r, e.q, result)
          PROVE  \E f : events' = Append(Tail(events), f) /\ f.k # "file"
      BY <3>2 DEF queueCompletion
    <3> QED
      BY <3>1, <3>2 DEF completeFile
  <2>4. CASE e.k = "release"
    BY <2>4 DEF GuiEvent
  <2>5. CASE e.k = "command"
    BY <2>5 DEF GuiEvent
  <2> QED
    BY <1>3, <2>1, <2>2, <2>3, <2>4, <2>5
<1> HIDE DEF e
<1>5. \A r \in Runtimes : rt'[r].phase = "gone" =>
         \/ rt[r].phase = "gone"
         \/ e.k = "release" /\ e.r = r
  <2>1. ASSUME NEW f, rt' = [rt EXCEPT ![e.r] = f], f.phase = rt[e.r].phase
        PROVE  \A r \in Runtimes : rt'[r].phase = rt[r].phase
    BY <1>1, <2>1
  <2>2. CASE \E v : rt' = [rt EXCEPT ![e.r].bound = v]
    <3>1. PICK v : rt' = [rt EXCEPT ![e.r] = [@ EXCEPT !.bound = v]]
      BY <2>2
    <3>2. [rt[e.r] EXCEPT !.bound = v].phase = rt[e.r].phase
      BY <1>1, <1>3 DEF RuntimeStates
    <3> QED
      BY <2>1, <3>1, <3>2
  <2>3. CASE rt' = [rt EXCEPT ![e.r].request = NoOp]
    <3>2. [rt[e.r] EXCEPT !.request = NoOp].phase = rt[e.r].phase
      BY <1>1, <1>3 DEF RuntimeStates
    <3> QED
      BY <2>1, <2>3, <3>2
  <2>4. CASE rt' = [rt EXCEPT ![e.r].pendingFile = NoOp]
    <3>2. [rt[e.r] EXCEPT !.pendingFile = NoOp].phase = rt[e.r].phase
      BY <1>1, <1>3 DEF RuntimeStates
    <3> QED
      BY <2>1, <2>4, <3>2
  <2>5. CASE /\ e.k = "release"
             /\ rt' = [rt EXCEPT ![e.r].phase = "gone",
                                 ![e.r].pendingFile = NoOp]
    BY <1>1, <1>3, <2>5
  <2> QED
    BY <1>4, <2>2, <2>3, <2>4, <2>5
<1> QED
  BY <1>1, <1>4, <1>5, OutcomesTake DEF e

\* A request queues an answer at most.
LEMMA OutcomesDispatch ==
    ASSUME RuntimePart, OutcomePart, plan \in Plans, NEW r \in Runtimes,
           NEW k \in plan.kinds, Dispatch(r, k)
    PROVE  OutcomePart'
<1>1. k \in Kinds /\ rt \in [Runtimes -> RuntimeStates]
  BY PlanBounds DEF RuntimePart
<1>2. \A result : \E e : /\ e.k # "file"
                         /\ queueCompletion(events, r, next, result)
                              = Append(events, e)
  BY DEF queueCompletion
<1>3. /\ UNCHANGED <<cb, reported>>
      /\ \/ events' = events
         \/ \E result : events' = queueCompletion(events, r, next, result)
      /\ \/ rt' = [rt EXCEPT ![r].request = next]
         \/ rt' = [rt EXCEPT ![r].request = next, ![r].pendingFile = next]
         \/ rt' = [rt EXCEPT ![r].request = next, ![r].job = "queued",
                             ![r].jobOf = next]
  <2>1. CASE ~MayPublish(r)
    BY <2>1 DEF Dispatch
  <2>2. CASE MayPublish(r) /\ k = "file"
    <3>1. dispatchFile(r, next) /\ reported' = reported
      BY <2>2 DEF Dispatch
    <3> QED
      BY <3>1 DEF dispatchFile
  <2>3. CASE MayPublish(r) /\ k = "read"
    <3>1. dispatchRead(r, next) /\ UNCHANGED <<cb, reported>>
      BY <2>3 DEF Dispatch
    <3> QED
      BY <3>1 DEF dispatchRead
  <2>4. CASE MayPublish(r) /\ k \in {"network", "storage"}
    BY <2>4 DEF Dispatch
  <2>5. CASE MayPublish(r) /\ k \in {"clipboard", "audio"}
    BY <2>5 DEF Dispatch
  <2> QED
    BY <1>1, <2>1, <2>2, <2>3, <2>4, <2>5 DEF Kinds
<1>4. NoneGoes
  BY <1>1, <1>3 DEF NoneGoes, RuntimeStates
<1> QED
  BY <1>2, <1>3, <1>4, OutcomesQueue DEF CallbackRests

\* Every step.
LEMMA OutcomeStep ==
    ASSUME RuntimePart, DialogPart, OutcomePart, plan \in Plans,
           CapabilityNext
    PROVE  OutcomePart'
<1>1. Step /\ cb \in CallbackStates /\ rt \in [Runtimes -> RuntimeStates]
  BY DEF CapabilityNext, RuntimePart
<1>2. CASE PostStart \/ JoinCallback \/ StaMessage \/ StaRun \/ UserAnswers
  <2>1. UNCHANGED <<rt, events, cb, reported>>
    BY <1>2 DEF PostStart, JoinCallback, StaMessage, StaRun, UserAnswers
  <2> QED
    BY <2>1, OutcomesQueue DEF CallbackRests, NoneGoes
<1>3. CASE Synchronize \/ Input \/ Age \/ ReleaseKey
  <2>1. UNCHANGED <<rt, events, cb, reported>>
    BY <1>3 DEF Synchronize, Input, Age, ReleaseKey
  <2> QED
    BY <2>1, OutcomesQueue DEF CallbackRests, NoneGoes
<1>4. CASE JoinSta \/ CallbackExits
  <2>1. CallbackRests /\ UNCHANGED <<rt, events>>
    BY <1>1, <1>4 DEF JoinSta, CallbackExits, CallbackRests, CallbackStates
  <2> QED
    BY <2>1, OutcomesQueue DEF NoneGoes
<1>5. ASSUME NEW r \in Runtimes, Revoke(r) PROVE OutcomePart'
  BY <1>5, OutcomesQueue DEF Revoke, CallbackRests, NoneGoes
<1>6. CASE RunCommand
  <2>1. /\ events # <<>> /\ events' = Tail(events)
        /\ UNCHANGED <<rt, cb, reported>>
    BY <1>6 DEF RunCommand
  <2> QED
    BY <2>1, OutcomesTake DEF CallbackRests
<1>7. CASE CommandKey
  <2>1. \/ events' = events
        \/ \E e : events' = Append(events, e) /\ e.k # "file"
    BY <1>7 DEF CommandKey
  <2>2. UNCHANGED <<rt, cb, reported>>
    BY <1>7 DEF CommandKey
  <2> QED
    BY <2>1, <2>2, OutcomesQueue DEF CallbackRests, NoneGoes
<1>8. CASE CallbackRuns
  BY <1>8, OutcomesReported
<1>9. CASE CallbackQuiesces
  BY <1>9, OutcomesQuiesce
<1>10. CASE GuiEvent
  BY <1>10, OutcomesEvent
<1>11. CASE Shutdown
  <2> DEFINE live == {r \in Runtimes : rt[r].phase = "open"}
  <2>1. /\ rt' = [r \in Runtimes |->
                    IF r \in live THEN retire(invalidated(live).rt[r])
                    ELSE invalidated(live).rt[r]]
        /\ UNCHANGED <<events, cb, reported>>
    BY <1>11 DEF Shutdown
  <2>2. live \in SUBSET Runtimes
    OBVIOUS
  <2> HIDE DEF live
  <2>3. NoneGoes
    BY <2>1, <2>2, EndsDoNotGo
  <2> QED
    BY <2>1, <2>3, OutcomesQueue DEF CallbackRests
<1>12. ASSUME NEW r \in Runtimes, Invalidate(r) \/ Retire(r)
       PROVE  OutcomePart'
  <2> DEFINE dying == {r}
             y == invalidated(dying).rt
  <2>1. /\ y \in [Runtimes -> RuntimeStates]
        /\ \A s \in Runtimes : y[s].phase = rt[s].phase
    <3>1. dying \in SUBSET Runtimes
      OBVIOUS
    <3> HIDE DEF dying
    <3> QED
      BY <3>1, InvalidatedRuntimes
  <2>2. UNCHANGED <<events, cb, reported>>
    BY <1>12 DEF Invalidate, Retire
  <2>3. rt' = y \/ rt' = [y EXCEPT ![r] = retire(y[r])]
    BY <1>12 DEF Invalidate, Retire
  <2> HIDE DEF y
  <2>4. \A x \in RuntimeStates : retire(x).phase = "retiring"
    BY DEF retire, RuntimeStates
  <2>5. NoneGoes
    BY <2>1, <2>3, <2>4 DEF NoneGoes
  <2> QED
    BY <2>2, <2>5, OutcomesQueue DEF CallbackRests
<1>13. ASSUME NEW r \in Runtimes, NEW k \in plan.kinds, Dispatch(r, k)
       PROVE  OutcomePart'
  BY <1>13, OutcomesDispatch
<1>14. ASSUME NEW r \in Runtimes, LaneDispatch(r) \/ NetworkAnswers(r)
       PROVE  OutcomePart'
  <2>1. /\ UNCHANGED <<cb, reported>>
        /\ \/ \E result : laneEnds(r, result)
           \/ rt' = [rt EXCEPT ![r].job = "waiting"] /\ UNCHANGED events
    BY <1>14 DEF LaneDispatch, NetworkAnswers
  <2>2. ASSUME NEW result, laneEnds(r, result)
        PROVE  /\ \E e : events' = Append(events, e) /\ e.k # "file"
               /\ rt' = [rt EXCEPT ![r].job = "none", ![r].jobOf = NoOp]
    BY <2>2 DEF laneEnds, queueCompletion
  <2>3. NoneGoes
    BY <1>1, <2>1, <2>2 DEF NoneGoes, RuntimeStates
  <2> QED
    BY <2>1, <2>2, <2>3, OutcomesQueue DEF CallbackRests
<1>15. ASSUME NEW r \in Runtimes, LaneInitialize(r) PROVE OutcomePart'
  <2>1. PICK ok \in BOOLEAN :
           /\ rt' = [rt EXCEPT ![r].lane = IF @ = "quitStarting" THEN "quit"
                                           ELSE IF ok THEN "up" ELSE "broken"]
           /\ events' = Append(events, [k |-> "init", r |-> r, ok |-> ok])
    BY <1>15 DEF LaneInitialize
  <2>2. UNCHANGED <<cb, reported>>
    BY <1>15 DEF LaneInitialize
  <2>3. NoneGoes
    BY <1>1, <2>1 DEF NoneGoes, RuntimeStates
  <2>4. [k |-> "init", r |-> r, ok |-> ok].k # "file"
    OBVIOUS
  <2> QED
    BY <2>1, <2>2, <2>3, <2>4, OutcomesQueue DEF CallbackRests
<1>16. ASSUME NEW r \in Runtimes, LaneFinishes(r) PROVE OutcomePart'
  <2>1. /\ UNCHANGED <<events, cb, reported>>
        /\ rt' = [rt EXCEPT ![r].lane = "finished", ![r].job = "none",
                            ![r].jobOf = NoOp]
    BY <1>16 DEF LaneFinishes
  <2>2. NoneGoes
    BY <1>1, <2>1 DEF NoneGoes, RuntimeStates
  <2> QED
    BY <2>1, <2>2, OutcomesQueue DEF CallbackRests
<1>17. ASSUME NEW r \in Runtimes, RetirementSucceeds(r) \/ Create(r)
       PROVE  OutcomePart'
  <2>1. /\ UNCHANGED <<cb, reported>>
        /\ \/ events' = events
           \/ \E e : events' = Append(events, e) /\ e.k # "file"
        /\ \/ rt' = [rt EXCEPT ![r].phase = "retired"]
           \/ rt' = [rt EXCEPT ![r].phase = "open", ![r].accepting = TRUE,
                               ![r].lane = "starting"]
    BY <1>17 DEF RetirementSucceeds, Create
  <2>2. NoneGoes
    BY <1>1, <2>1 DEF NoneGoes, RuntimeStates
  <2> QED
    BY <2>1, <2>2, OutcomesQueue DEF CallbackRests
<1> QED
  BY <1>1, <1>2, <1>3, <1>4, <1>5, <1>6, <1>7, <1>8, <1>9, <1>10, <1>11,
     <1>12, <1>13, <1>14, <1>15, <1>16, <1>17 DEF Step, Progress

-----------------------------------------------------------------------------
\* The invariant and what follows from it.

\* The four parts.
CapabilityInvariant ==
    DialogPart /\ RuntimePart /\ GesturePart /\ OutcomePart

\* It holds at the start, ...
LEMMA CapabilityStarts == CapabilityInit => CapabilityInvariant
<1> SUFFICES ASSUME CapabilityInit PROVE CapabilityInvariant
  OBVIOUS
<1>1. DialogPart
  <2>1. PICK available \in BOOLEAN : d = InitialDialog(available)
    BY DEF CapabilityInit
  <2>2. /\ gui = "run" /\ next = 1 /\ reported = [q \in Requests |-> 0]
    BY DEF CapabilityInit
  <2>3. /\ <<>> \in Seq(Requests) /\ <<>> \in Seq(Outcomes)
        /\ <<>> \in Seq(Messages)
    OBVIOUS
  <2>4. /\ d \in DialogStates /\ d.physical = NoOp
        /\ d.sta \in {"idle", "exited"} /\ d.pending = <<>>
        /\ d.active = NoOp /\ d.callbacks = <<>> /\ d.terminal = {}
    BY <2>1, <2>3 DEF InitialDialog, DialogStates, Ops, Statuses
  <2>5. ReservationOK(d) /\ StartOK(d, gui)
    BY <2>4 DEF ReservationOK, StartOK
  <2>6. ReportsOK(d, reported)
    BY <2>2, <2>4 DEF ReportsOK
  <2> QED
    BY <2>2, <2>4, <2>5, <2>6 DEF DialogPart, DialogOK
<1>2. RuntimePart
  <2>1. /\ rt = [r \in Runtimes |-> NewRuntime] /\ events = <<>>
        /\ cb = [op |-> NoOp, keeps |-> NoRuntime, quiesced |-> {},
                 stopping |-> FALSE, exited |-> FALSE]
    BY DEF CapabilityInit
  <2>2. NewRuntime \in RuntimeStates /\ RuntimeOK(NewRuntime, cb.quiesced)
    BY DEF NewRuntime, RuntimeStates, RuntimeOK, LetGo, Ops
  <2>3. cb \in CallbackStates
    BY <2>1 DEF CallbackStates, Ops
  <2>4. events \in Seq(QueuedEvents) /\ ToSet(events) = {}
    BY <2>1 DEF ToSet
  <2> QED
    BY <2>1, <2>2, <2>3, <2>4 DEF RuntimePart
<1>3. GesturePart
  <2>1. /\ g = InitialRouter /\ turn = 0 /\ arrived = <<>> /\ reads = {}
        /\ commands = <<>> /\ plan \in Plans /\ events = <<>>
    BY DEF CapabilityInit
  <2>2. /\ g \in Routers /\ g.now = 0 /\ \A r \in Runtimes : g.trusted[r] = 0
    BY <2>1 DEF InitialRouter, Routers
  <2>3. ToSet(events) = {} /\ Len(arrived) = 0 /\ DOMAIN commands = {}
    BY <2>1 DEF ToSet
  <2>4. GestureTypes
    BY <2>1, <2>2 DEF GestureTypes
  <2> QED
    BY <2>1, <2>2, <2>3, <2>4
       DEF GesturePart, Fresh, EvidenceOK, SpentOK, QueuedOK,
           GesturesAreSpentOnce
<1>4. OutcomePart
  <2>1. /\ events = <<>> /\ cb.op = NoOp /\ cb.keeps = NoRuntime
        /\ cb.quiesced = {}
    BY DEF CapabilityInit
  <2> QED
    BY <2>1 DEF OutcomePart, InOrder, Awaited, CallbackTold
<1> QED
  BY <1>1, <1>2, <1>3, <1>4 DEF CapabilityInvariant

\* ... and every step keeps it.
LEMMA CapabilitySteps ==
    CapabilityInvariant /\ [CapabilityNext]_capabilityVars
        => CapabilityInvariant'
<1> SUFFICES ASSUME CapabilityInvariant, [CapabilityNext]_capabilityVars
             PROVE  CapabilityInvariant'
  OBVIOUS
<1>1. DialogPart /\ RuntimePart /\ GesturePart /\ OutcomePart
  BY DEF CapabilityInvariant
<1>2. g \in Routers /\ plan \in Plans /\ Len(commands) \in Nat
  <2>1. commands \in Seq(Presses)
    BY <1>1 DEF GesturePart, GestureTypes
  <2> QED
    BY <1>1, <2>1, LenProperties DEF GesturePart, GestureTypes
<1>3. CASE CapabilityNext
  BY <1>1, <1>2, <1>3, DialogStep, RuntimeStep, GestureStep, OutcomeStep
     DEF CapabilityInvariant
<1>4. CASE UNCHANGED capabilityVars
  <2>1. /\ d' = d /\ g' = g /\ rt' = rt /\ events' = events /\ gui' = gui
        /\ cb' = cb /\ next' = next /\ reported' = reported /\ turn' = turn
        /\ arrived' = arrived /\ reads' = reads /\ commands' = commands
        /\ plan' = plan
    BY <1>4 DEF capabilityVars, gestures
  <2>2. DialogPart'
    BY <1>1, <2>1, DialogKeptOK DEF DialogKept
  <2>3. RuntimePart'
    BY <1>1, <2>1, RuntimesKeptOK DEF RuntimesKept, RuntimePart
  <2>4. GesturePart'
    BY <1>1, <2>1 DEF GesturePart, GestureTypes, Fresh, EvidenceOK, SpentOK,
                      QueuedOK, GesturesAreSpentOnce
  <2>5. OutcomePart'
    BY <1>1, <2>1 DEF OutcomePart, InOrder, Awaited, CallbackTold
  <2> QED
    BY <2>2, <2>3, <2>4, <2>5 DEF CapabilityInvariant
<1> QED
  BY <1>3, <1>4

\* So it always holds.
LEMMA CapabilityInvariantHolds == CapabilitySpec => []CapabilityInvariant
BY CapabilityStarts, CapabilitySteps, PTL DEF CapabilitySpec

\* What the invariant says of the dialog and the runtimes.
LEMMA AccountedFor == CapabilityInvariant => DialogAndRuntimesAreAccountedFor
<1> SUFFICES ASSUME CapabilityInvariant
             PROVE  DialogAndRuntimesAreAccountedFor
  OBVIOUS
<1>1. DialogPart /\ RuntimePart /\ GesturePart /\ OutcomePart
  BY DEF CapabilityInvariant
<1>2. /\ d \in DialogStates /\ ReservationOK(d) /\ ReportsOK(d, reported)
      /\ StartOK(d, gui) /\ g \in Routers
      /\ rt \in [Runtimes -> RuntimeStates]
  BY <1>1 DEF DialogPart, DialogOK, RuntimePart, GesturePart, GestureTypes
<1>3. TypeOK
  <2>1. /\ d.active \in Requests \cup {NoOp}
        /\ d.physical \in Requests \cup {NoOp} /\ d.terminal \subseteq Requests
    BY <1>2 DEF DialogStates, Ops
  <2>2. g.active \in Runtimes \cup {NoRuntime} /\ g.admitted \subseteq Runtimes
    BY <1>2 DEF Routers
  <2>3. \A r \in Runtimes : rt[r].request \in Requests \cup {NoOp}
    BY <1>2 DEF RuntimeStates, Ops
  <2>4. gui \in {"run", "post", "joinSta", "joinCallback", "down"}
    BY <1>1 DEF DialogPart
  <2> QED
    BY <2>1, <2>2, <2>3, <2>4 DEF TypeOK
<1>4. DialogIsAccountedFor
  <2>1. d.active # NoOp => d.active \in ToSet(d.pending) \cup {d.physical}
    <3>1. CASE d.pending = <<d.active>>
      <4>1. 1 \in DOMAIN d.pending /\ d.pending[1] = d.active
        BY <3>1
      <4> QED
        BY <4>1 DEF ToSet
    <3> QED
      BY <1>2, <3>1 DEF ReservationOK
  <2>2. d.pending # <<>> /\ d.sta = "idle" =>
            \/ gui = "post"
            \/ \E i \in DOMAIN d.msgs : d.msgs[i] = "start"
    BY <1>2 DEF StartOK
  <2>3. ASSUME NEW q \in Requests
        PROVE  Cardinality({i \in DOMAIN d.callbacks : d.callbacks[i].op = q})
                 + reported[q] = IF q \in d.terminal THEN 1 ELSE 0
    <3> DEFINE I == {i \in DOMAIN d.callbacks : d.callbacks[i].op = q}
    <3>1. reported[q] = IF q \in d.terminal /\ I = {} THEN 1 ELSE 0
      BY <1>2 DEF ReportsOK
    <3>2. ASSUME I = {}
          PROVE  Cardinality(I) + reported[q]
                    = IF q \in d.terminal THEN 1 ELSE 0
      <4>1. Cardinality(I) = 0
        BY <3>2, FS_EmptySet
      <4>2. reported[q] = IF q \in d.terminal THEN 1 ELSE 0
        BY <3>1, <3>2
      <4> HIDE DEF I
      <4> QED
        BY <4>1, <4>2
    <3>3. ASSUME I # {}
          PROVE  Cardinality(I) + reported[q]
                    = IF q \in d.terminal THEN 1 ELSE 0
      <4>1. PICK i \in DOMAIN d.callbacks : d.callbacks[i].op = q
        BY <3>3
      <4>2. I = {i} /\ q \in d.terminal
        BY <1>2, <4>1 DEF ReportsOK
      <4>3. Cardinality(I) = 1
        BY <4>2, FS_Singleton
      <4>4. reported[q] = 0
        BY <3>1, <3>3
      <4> HIDE DEF I
      <4> QED
        BY <4>2, <4>3, <4>4
    <3> QED
      BY <3>2, <3>3
  <2> QED
    BY <2>1, <2>2, <2>3 DEF DialogIsAccountedFor
<1>5. RetirementIsInOrder
  <2>1. ASSUME NEW r \in Runtimes, rt[r].phase \in {"retired", "gone"}
        PROVE  /\ rt[r].lane \in {"none", "finished"} /\ rt[r].job = "none"
               /\ rt[r].pendingFile # NoOp => rt[r].pendingFile \in cb.quiesced
               /\ cb.keeps = r => rt[r].pendingFile # cb.op
    <3>1. RuntimeOK(rt[r], cb.quiesced)
      BY <1>1 DEF RuntimePart
    <3>2. rt[r].pendingFile # NoOp => rt[r].pendingFile \in cb.quiesced
      BY <2>1, <3>1 DEF RuntimeOK, LetGo
    <3>3. cb.keeps = r => cb.op # NoOp /\ cb.op \notin cb.quiesced
      BY <1>1, CapabilityAssumption DEF OutcomePart, CallbackTold
    <3> QED
      BY <2>1, <3>1, <3>2, <3>3 DEF RuntimeOK, LetGo
  <2>2. \A i \in DOMAIN events :
           events[i].k = "file" => rt[events[i].r].phase # "gone"
    BY <1>1 DEF OutcomePart, Awaited
  <2> QED
    BY <2>1, <2>2 DEF RetirementIsInOrder
<1> QED
  BY <1>3, <1>4, <1>5 DEF DialogAndRuntimesAreAccountedFor

\* For any tabs, runtimes and requests, the one dialog is accounted for and a
\* runtime is retired in order.  Every operation reports exactly once and the
\* reservation is released with it.  A runtime is gone only when its lane thread
\* has ended and the callback of the file request that was pending at its
\* retirement has run to its end, and no outcome of a dialog is queued for it.
\* (The callback thread may still hold the last reference to a runtime that has
\* taken up its outcome.)
THEOREM DialogsAndRuntimesAreAccountedFor ==
    CapabilitySpec => []DialogAndRuntimesAreAccountedFor
BY CapabilityInvariantHolds, AccountedFor, PTL

\* A gesture is the user's, for one tab and once.
THEOREM GesturesAreUsedOnce == CapabilitySpec => []GesturesAreSpentOnce
<1>1. CapabilityInvariant => GesturesAreSpentOnce
  BY DEF CapabilityInvariant, GesturePart
<1> QED
  BY <1>1, CapabilityInvariantHolds, PTL


=============================================================================
