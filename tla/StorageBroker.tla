---------------------------- MODULE StorageBroker ----------------------------
(***************************************************************************)
(* runtime/broker/StorageBroker.cpp: the brokers of all apps and of all    *)
(* Host processes keep their values in one directory, a file per app.  A   *)
(* broker is created on its runtime's lane thread and then serves that     *)
(* app's get, set and remove.  Two locks serialize them: a mutex of the    *)
(* process (rootTransactionLock_) and one between processes, which a       *)
(* crash releases (an abandoned mutex and a lock file whose process is     *)
(* gone are both taken over).                                              *)
(*                                                                         *)
(* A value has size one and a file the size of its keys.  The access list  *)
(* of the directory and of each file is "found" (what an administrator     *)
(* left), "host" (user and system only) or "frozen" (the directory, while  *)
(* nobody may add or remove a file).                                       *)
(***************************************************************************)
EXTENDS Naturals, Sequences, SequencesExt, FiniteSets

CONSTANTS
    Brokers, Apps, Processes, Keys, Values,
    AppOf, ProcessOf,       \* of each broker
    Root, None, Absent,
    Quota,                  \* policy_.quotaBytes
    MaxOperations, MaxCrashes

ASSUME StorageAssumption ==
    /\ AppOf \in [Brokers -> Apps] /\ ProcessOf \in [Brokers -> Processes]
    /\ Quota \in Nat \ {0} /\ MaxOperations \in Nat /\ MaxCrashes \in Nat
    /\ None \notin Brokers /\ Root \notin Apps /\ Absent \notin Values
    /\ Absent \notin UNION {[ks -> Values] : ks \in SUBSET Keys}

Operations == {"get", "set", "remove"}

VARIABLES
    data,       \* each app's file: its values, or Absent
    temps,      \* apps whose temporary file is in the directory
    acl,        \* of the directory and the files
    b,          \* the brokers
    mutex,      \* who holds each process's mutex
    lock,       \* who holds the lock between processes
    operations, crashes,
    promise     \* what the answers so far say of each key: a value, Absent, or "unknown"

vars == <<data, temps, acl, b, mutex, lock, operations, crashes, promise>>

Closed == [pc |-> "closed", objects |-> <<>>, before |-> <<>>, dirty |-> {}, next |-> 1,
           op |-> "get", key |-> CHOOSE k \in Keys : TRUE,
           value |-> CHOOSE v \in Values : TRUE, loaded |-> <<>>]

Size(values) == Cardinality(DOMAIN values)
Files == {a \in Apps : data[a] # Absent}

Init ==
    /\ data \in [Apps -> {Absent, <<>>}]
    /\ temps = {} /\ acl = [x \in Apps \cup {Root} |-> "found"]
    /\ b = [p \in Brokers |-> Closed]
    /\ mutex = [q \in Processes |-> None] /\ lock = None
    /\ operations = 0 /\ crashes = 0
    /\ promise = [a \in Apps |-> [k \in Keys |-> Absent]]

At(p, pcs) == b[p].pc \in pcs
goto(p, pc) == b' = [b EXCEPT ![p].pc = pc]

\* The guards of create and invoke go out of scope.
ReleaseLocks(p) ==
    /\ mutex' = [mutex EXCEPT ![ProcessOf[p]] = IF @ = p THEN None ELSE @]
    /\ lock' = IF lock = p THEN None ELSE lock

----------------------------------------------------------------------------
\* The two locks.

\* transactionLockForRoot: create and invoke off the GUI thread wait for the
\* process's mutex.
TakeMutex(p) ==
    /\ At(p, {"createMutex", "invokeMutex"}) /\ mutex[ProcessOf[p]] = None
    /\ mutex' = [mutex EXCEPT ![ProcessOf[p]] = p]
    /\ goto(p, IF At(p, {"createMutex"}) THEN "createLock" ELSE "invokeLock")
    /\ UNCHANGED <<data, temps, acl, lock, operations, crashes, promise>>

\* WindowsRootTransactionGuard::tryLock gets the lock when nobody has it ...
mayLock(holder) == holder = None

TakeLock(p) ==
    /\ At(p, {"createLock", "invokeLock"}) /\ mayLock(lock)
    /\ lock' = p
    /\ goto(p, IF At(p, {"createLock"}) THEN "validate" ELSE "load")
    /\ UNCHANGED <<data, temps, acl, mutex, operations, crashes, promise>>

\* ... and gives up after rootTransactionLockTimeoutMilliseconds, or when the
\* lane is told to stop: storage.busy.  The lane tries a busy create again.
LockTimesOut(p) ==
    /\ At(p, {"createLock", "invokeLock"}) /\ lock # None
    /\ ReleaseLocks(p)
    /\ goto(p, IF At(p, {"createLock"}) THEN "closed" ELSE "open")
    /\ UNCHANGED <<data, temps, acl, operations, crashes, promise>>

----------------------------------------------------------------------------
\* StorageBroker::create

BeginCreate(p) ==
    /\ At(p, {"closed"}) /\ goto(p, "createMutex")
    /\ UNCHANGED <<data, temps, acl, mutex, lock, operations, crashes, promise>>

AllBytes == FoldFunctionOnSet(LAMBDA n, sum : n + sum, 0,
                              [a \in Apps |-> IF a \in Files THEN Size(data[a]) ELSE 0], Apps)

\* validateExistingLayout: every object has a known name and is stable, and
\* the data files together are within the quota.
validateExistingLayout == temps = {} /\ AllBytes <= Quota

Refuse(p) == ReleaseLocks(p) /\ b' = [b EXCEPT ![p] = Closed]

\* The layout is checked and the directory's access list read ...
Validate(p) ==
    /\ At(p, {"validate"})
    /\ \/ /\ Refuse(p)
          /\ UNCHANGED acl
       \/ /\ validateExistingLayout
          /\ b' = [b EXCEPT ![p].pc = "freeze", ![p].before = acl,
                            ![p].objects = Append(SetToSeq(Files), Root)]
          /\ UNCHANGED <<acl, mutex, lock>>
    /\ UNCHANGED <<data, temps, operations, crashes, promise>>

\* ... then the directory is frozen, ...
freezeDirectoryMembership(p) ==
    /\ At(p, {"freeze"})
    /\ \/ /\ acl' = [acl EXCEPT ![Root] = "frozen"]
          /\ b' = [b EXCEPT ![p].pc = "match", ![p].dirty = {Root}]
          /\ UNCHANGED <<mutex, lock>>
       \/ /\ acl' = b[p].before /\ Refuse(p)
    /\ UNCHANGED <<data, temps, operations, crashes, promise>>

\* ... and its members compared with what was validated.
frozenMembershipMatches(p) ==
    /\ At(p, {"match"})
    /\ \/ goto(p, "apply") /\ UNCHANGED <<acl, mutex, lock>>
       \/ acl' = b[p].before /\ Refuse(p)
    /\ UNCHANGED <<data, temps, operations, crashes, promise>>

applyHostOnlyAcl(lists, o) == [lists EXCEPT ![o] = "host"]
hasHostOnlyAcl(lists, o) == lists[o] = "host"

BugForgetsTheRoot(x, current) ==
    [o \in DOMAIN current |-> IF o \in x.dirty \ {Root} THEN x.before[o] ELSE current[o]]
\* The access lists that were changed are put back (the code ignores whether
\* that succeeds; here it does).
restoreDirty(x, current) ==
    [o \in DOMAIN current |-> IF o \in x.dirty THEN x.before[o] ELSE current[o]]

\* One round of the loop of applyAclsTransactionally: it is refused, or it is
\* applied, and then the check after it may still fail.
applyAclsTransactionally(p) ==
    /\ At(p, {"apply"})
    /\ LET x == b[p]
           o == x.objects[x.next]
           host == applyHostOnlyAcl(acl, o)
           applied == [x EXCEPT !.dirty = @ \cup {o}]
       IN  \/ acl' = restoreDirty(x, acl) /\ Refuse(p)
           \/ acl' = restoreDirty(applied, host) /\ Refuse(p)
           \/ /\ acl' = host /\ hasHostOnlyAcl(host, o)
              /\ x.next < Len(x.objects)
              /\ b' = [b EXCEPT ![p] = [applied EXCEPT !.next = @ + 1]]
              /\ UNCHANGED <<mutex, lock>>
           \/ /\ acl' = host /\ hasHostOnlyAcl(host, o)
              /\ x.next = Len(x.objects)
              /\ b' = [b EXCEPT ![p] = [Closed EXCEPT !.pc = "open"]]
              /\ ReleaseLocks(p)
    /\ UNCHANGED <<data, temps, operations, crashes, promise>>

----------------------------------------------------------------------------
\* StorageBroker::invoke

\* A valid request begins.
BeginInvoke(p) ==
    /\ At(p, {"open"}) /\ operations < MaxOperations
    /\ operations' = operations + 1
    /\ \E op \in Operations, k \in Keys, v \in Values :
          b' = [b EXCEPT ![p].pc = "invokeMutex", ![p].op = op, ![p].key = k, ![p].value = v]
    /\ UNCHANGED <<data, temps, acl, mutex, lock, crashes, promise>>

\* Every way out of invoke: the answer, success or not, and the locks.
answerAndRelease(p) == goto(p, "open") /\ ReleaseLocks(p)

BugWritesOneKey(values, op, k, v) == [x \in IF op = "set" THEN {k} ELSE {} |-> v]
changed(values, op, k, v) ==
    [x \in (DOMAIN values \ {k}) \cup (IF op = "set" THEN {k} ELSE {}) |->
        IF x = k THEN v ELSE values[x]]

\* loadValues and, for a get, the answer; a change beyond the quota is refused
\* before anything is written.
LoadValues(p) ==
    /\ At(p, {"load"})
    /\ LET values == IF data[AppOf[p]] = Absent THEN <<>> ELSE data[AppOf[p]]
           new == changed(values, b[p].op, b[p].key, b[p].value)
       IN  \/ answerAndRelease(p)
           \/ /\ b[p].op # "get" /\ Size(new) <= Quota
              /\ b' = [b EXCEPT ![p].pc = "write", ![p].loaded = new]
              /\ UNCHANGED <<mutex, lock>>
    /\ UNCHANGED <<data, temps, acl, operations, crashes, promise>>

\* QSaveFile::open and write: a temporary file next to the old one, which a
\* frozen directory refuses; a failed write removes it.
WriteTemporary(p) ==
    /\ At(p, {"write"})
    /\ \/ /\ answerAndRelease(p) /\ UNCHANGED temps
       \/ /\ acl[Root] # "frozen"
          /\ temps' = temps \cup {AppOf[p]} /\ goto(p, "commit")
          /\ UNCHANGED <<mutex, lock>>
    /\ UNCHANGED <<data, acl, operations, crashes, promise>>

\* QSaveFile::commit renames it over the old file, or removes it.
CommitFile(p) ==
    /\ At(p, {"commit"})
    /\ temps' = temps \ {AppOf[p]}
    /\ \/ /\ data' = [data EXCEPT ![AppOf[p]] = b[p].loaded]
          /\ promise' = [promise EXCEPT ![AppOf[p]][b[p].key] = "unknown"]
          /\ acl' = [acl EXCEPT ![AppOf[p]] = IF acl[Root] = "host" THEN "host" ELSE "found"]
          /\ goto(p, "verify")
          /\ UNCHANGED <<mutex, lock>>
       \/ answerAndRelease(p) /\ UNCHANGED <<data, promise, acl>>
    /\ UNCHANGED <<operations, crashes>>

\* The published file is given its access list and read back; then invoke
\* answers, and only success promises anything.
VerifyPublished(p) ==
    /\ At(p, {"verify"})
    /\ \/ answerAndRelease(p) /\ UNCHANGED <<acl, promise>>
       \/ /\ data[AppOf[p]] = b[p].loaded
          /\ acl' = applyHostOnlyAcl(acl, AppOf[p])
          /\ promise' = [promise EXCEPT ![AppOf[p]][b[p].key] =
                            IF b[p].op = "set" THEN b[p].value ELSE Absent]
          /\ answerAndRelease(p)
    /\ UNCHANGED <<data, temps, operations, crashes>>

\* The runtime that owns the broker is destroyed, its lane at rest.
Destroy(p) ==
    /\ At(p, {"open"}) /\ b' = [b EXCEPT ![p] = Closed]
    /\ UNCHANGED <<data, temps, acl, mutex, lock, operations, crashes, promise>>

----------------------------------------------------------------------------
\* A Host process dies; what it wrote stays, its locks do not.
Crash(q) ==
    /\ crashes < MaxCrashes /\ crashes' = crashes + 1
    /\ b' = [p \in Brokers |-> IF ProcessOf[p] = q THEN Closed ELSE b[p]]
    /\ mutex' = [mutex EXCEPT ![q] = None]
    /\ lock' = IF lock # None /\ ProcessOf[lock] = q THEN None ELSE lock
    /\ UNCHANGED <<data, temps, acl, operations, promise>>

Next ==
    \/ \E p \in Brokers :
          \/ BeginCreate(p) \/ BeginInvoke(p) \/ TakeMutex(p) \/ TakeLock(p) \/ LockTimesOut(p)
          \/ Validate(p) \/ freezeDirectoryMembership(p) \/ frozenMembershipMatches(p)
          \/ applyAclsTransactionally(p)
          \/ LoadValues(p) \/ WriteTemporary(p) \/ CommitFile(p) \/ VerifyPublished(p)
          \/ Destroy(p)
    \/ \E q \in Processes : Crash(q)

Spec == Init /\ [][Next]_vars

----------------------------------------------------------------------------
\* An answer is kept: what the last answered set or remove of a key said is
\* what the file holds, however the brokers of the same app in two tabs or two
\* processes interleave, and whichever process dies.
AnswersAreKept ==
    \A a \in Apps, k \in Keys :
        LET values == IF data[a] = Absent THEN <<>> ELSE data[a]
        IN  promise[a][k] # "unknown" =>
               IF promise[a][k] = Absent THEN k \notin DOMAIN values
               ELSE k \in DOMAIN values /\ values[k] = promise[a][k]

CreateSteps == {"freeze", "match", "apply"}

\* A create that is refused half-way leaves every access list as it found it.
RefusedCreateRestores ==
    [][\A p \in Brokers :
          At(p, CreateSteps) /\ b'[p].pc = "closed" /\ crashes' = crashes
              => acl' = b[p].before]_vars

=============================================================================
