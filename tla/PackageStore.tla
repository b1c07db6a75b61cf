---------------------------- MODULE PackageStore ----------------------------
(***************************************************************************)
(* runtime/package/PackageStore: the activation record of one application, *)
(* shared by several Host processes.  A transaction takes the lock file,   *)
(* loads activation.json, replaces it atomically (QSaveFile) and drops the *)
(* lock; a process may die between any two of these steps, and the lock of *)
(* a dead process is broken by the next one.  Version directories are      *)
(* published once and may be lost.                                         *)
(***************************************************************************)
EXTENDS ActivationStateOps

CONSTANTS Hosts, NoHost

ASSUME NoHostAssumption == NoHost \notin Hosts

VARIABLES
    state,     \* activation.json
    present,   \* version directories on disk
    lock,      \* the process that holds activation.lock
    txn,       \* the transaction of each process
    held,      \* the binding each process holds, possibly stale
    past,      \* every binding the record has had
    activated, \* versions activateVerified has selected
    proven     \* versions that were marked last known good

vars == <<state, present, lock, txn, held, past, activated, proven>>

Ops == {"activate", "mark", "recover", "rollback", "confirm", "compare",
        "read", "readRecorded"}
Conditional == {"mark", "recover", "rollback", "confirm"}

\* step "loaded": lock held, file read; "written": file replaced, lock held.
Idle == [step |-> "idle", op |-> "read", version |-> NoVersion,
         loaded |-> EmptyState, result |-> Refused(EmptyState)]

Txns == [step : {"idle", "loaded", "written"}, op : Ops,
         version : Versions \cup {NoVersion}, loaded : ActivationStates,
         result : [ok : BOOLEAN, next : ActivationStates]]

TypeOK ==
    /\ state \in ActivationStates
    /\ present \subseteq Versions
    /\ lock \in Hosts \cup {NoHost}
    /\ txn \in [Hosts -> Txns]
    /\ held \in [Hosts -> Bindings \cup {NoBinding}]
    /\ past \subseteq Bindings
    /\ activated \subseteq Versions
    /\ proven \subseteq Versions

Init ==
    /\ state = EmptyState
    /\ present = {}
    /\ lock = NoHost
    /\ txn = [h \in Hosts |-> Idle]
    /\ held = [h \in Hosts |-> NoBinding]
    /\ past = {}
    /\ activated = {}
    /\ proven = {}

-----------------------------------------------------------------------------
\* Version directories.

\* commitCandidateImpl publishes a directory that does not exist yet.
commitVerifiedCandidate(v) ==
    /\ v \notin present
    /\ present' = present \cup {v}
    /\ UNCHANGED <<state, lock, txn, held, past, activated, proven>>

\* The directory is deleted or replaced by something that is not plain.
LoseDirectory(v) ==
    /\ v \in present
    /\ present' = present \ {v}
    /\ UNCHANGED <<state, lock, txn, held, past, activated, proven>>

-----------------------------------------------------------------------------
\* Transactions.

BugLocksWithoutWaiting(h) == TRUE
canLock(h) == lock = NoHost

\* acquireActivationTransactionLock succeeds and the record is loaded.
Load(h, op, v) ==
    /\ txn[h].step = "idle"
    /\ canLock(h)
    /\ lock' = h
    /\ txn' = [txn EXCEPT ![h] =
                 [step |-> "loaded", op |-> op, version |-> v,
                  loaded |-> state, result |-> Refused(state)]]
    /\ UNCHANGED <<state, present, held, past, activated, proven>>

BeginActivate(h, v) == Load(h, "activate", v)

BeginOther(h, op) == Load(h, op, NoVersion)

Outcome(h) ==
    LET s == txn[h].loaded
        op == txn[h].op
    IN  CASE op = "activate" -> activateVerified(s, present, txn[h].version)
          [] op = "mark"     -> markCurrentLastKnownGood(s, present, held[h])
          [] op = "recover"  -> recoverLastKnownGood(s, present, held[h])
          [] op = "rollback" -> rollback(s, present, held[h])
          [] op = "confirm"  -> confirmCurrent(s, present, held[h])
          [] op = "compare"  -> compareCurrent(s, held[h])
          [] op = "read"     -> activationState(s, present)
          [] op = "readRecorded" -> Unchanged(s)

\* The transaction decides and replaces the file, or fails: the commit of the
\* save file can fail as well, which leaves the old file.
Write(h, commitSucceeds) ==
    LET result == Outcome(h)
        writes == result.next # txn[h].loaded
    IN  /\ txn[h].step = "loaded"
        /\ commitSucceeds \/ writes
        /\ IF writes /\ commitSucceeds
             THEN /\ state' = result.next
                  /\ past' = past \cup {bindingForState(result.next)}
                  /\ activated' = IF txn[h].op = "activate"
                                    THEN activated \cup {txn[h].version}
                                    ELSE activated
                  /\ proven' = IF txn[h].op = "mark"
                                 THEN proven \cup {result.next.lastKnownGood}
                                 ELSE proven
             ELSE UNCHANGED <<state, past, activated, proven>>
        /\ txn' = [txn EXCEPT ![h].step = "written",
                              ![h].result = IF commitSucceeds THEN result
                                            ELSE Refused(txn[h].loaded)]
        /\ UNCHANGED <<present, lock, held>>

\* The lock file is removed and the caller gets the binding.
Finish(h) ==
    /\ txn[h].step = "written"
    /\ lock' = IF lock = h THEN NoHost ELSE lock
    /\ txn' = [txn EXCEPT ![h] = Idle]
    /\ held' = [held EXCEPT ![h] = IF txn[h].result.ok
                                     THEN bindingForState(txn[h].result.next)
                                     ELSE @]
    /\ UNCHANGED <<state, present, past, activated, proven>>

\* The process dies; its lock is stale and the next tryLock breaks it.
Crash(h) ==
    /\ txn[h].step # "idle" \/ held[h] # NoBinding
    /\ lock' = IF lock = h THEN NoHost ELSE lock
    /\ txn' = [txn EXCEPT ![h] = Idle]
    /\ held' = [held EXCEPT ![h] = NoBinding]
    /\ UNCHANGED <<state, present, past, activated, proven>>

Next ==
    \/ \E v \in Versions : commitVerifiedCandidate(v) \/ LoseDirectory(v)
    \/ \E h \in Hosts, v \in Versions : BeginActivate(h, v)
    \/ \E h \in Hosts, op \in Ops \ {"activate"} : BeginOther(h, op)
    \/ \E h \in Hosts, commitSucceeds \in BOOLEAN : Write(h, commitSucceeds)
    \/ \E h \in Hosts : Finish(h) \/ Crash(h)

Spec == Init /\ [][Next]_vars

-----------------------------------------------------------------------------
\* Properties.

\* The lock keeps a transaction's snapshot current until it has written: no
\* update is lost.
SnapshotIsCurrent ==
    \A h \in Hosts : txn[h].step = "loaded" =>
        lock = h /\ txn[h].loaded = state

\* "A stale concurrent operation cannot ... roll back a newer binding": a
\* conditional transaction replaces the record only while the binding its
\* caller holds is the record's own.
StaleCannotOverwrite ==
    [][\A h \in Hosts :
         /\ txn[h].step = "loaded" /\ txn'[h].step = "written"
         /\ txn[h].op \in Conditional
         /\ state' # state
         => held[h] = bindingForState(state)]_vars

\* A binding names one selection for ever: one that carries the record's
\* generation is the record's binding.
BindingIdentifiesSelection ==
    /\ \A b \in past : b.generation <= state.generation
    /\ \A b \in past : b.generation = state.generation
                         => b = bindingForState(state)
    /\ \A h \in Hosts : held[h] \in past \cup {NoBinding}

\* No pointer ever names a version that was not activated, and rollback and
\* recovery never promote: the last known good was marked by a Host that
\* found it healthy.
PointersAreEarned ==
    /\ {state.current, state.previous} \ {NoVersion} \subseteq activated
    /\ {state.lastKnownGood} \ {NoVersion} \subseteq proven
    /\ proven \subseteq activated

\* Once a version is known good, every rollback and recovery leads back to the
\* last known good one.
RollbackReachesLastKnownGood ==
    [][\A h \in Hosts :
         /\ txn[h].step = "loaded" /\ txn'[h].step = "written"
         /\ txn[h].op \in {"rollback", "recover"}
         /\ state' # state /\ state.lastKnownGood # NoVersion
         => state'.current = state.lastKnownGood]_vars

\* The activation record is sound while two Hosts run transactions on it, crash
\* and lose directories: no update is lost, a binding is never reused, and no
\* pointer was set that was not earned.
RecordIsSound ==
    TypeOK /\ SnapshotIsCurrent /\ BindingIdentifiesSelection /\ PointersAreEarned

\* A transaction selects what its caller saw, and a rollback what is known to
\* be good.
SelectionIsDeliberate == StaleCannotOverwrite /\ RollbackReachesLastKnownGood
=============================================================================
