----------------------- MODULE PackageInstallerProofs -----------------------
(***************************************************************************)
(* Proofs about the package store and the installer above it, for any      *)
(* number of Hosts, versions and packages, any bound on the generation and *)
(* any number of faults.  First PackageStore: its transactions keep a      *)
(* sound record and select deliberately.  Then PackageInstaller: it uses   *)
(* the store as the store is meant to be used, so what is proved of the    *)
(* store holds here as well, and what runs behind a guard is what was      *)
(* authenticated.                                                          *)
(***************************************************************************)
EXTENDS PackageInstaller, TLAPS

-----------------------------------------------------------------------------
\* The store.

\* Whoever runs a transaction holds the lock, so at most one Host does.
LockIsExclusive ==
    \A h \in Hosts : txn[h].step # "idle" <=> lock = h

\* A transaction that has succeeded and not let go of the lock knows what is
\* in the file.
ResultIsCurrent ==
    \A h \in Hosts :
        txn[h].step = "written" /\ txn[h].result.ok
            => txn[h].result.next = state

\* A Host that runs no transaction remembers nothing of the last one.
IdleForgets ==
    \A h \in Hosts : txn[h].step = "idle" => txn[h] = Idle

\* A comparison that has succeeded found the binding of its caller.
CompareConfirms ==
    \A h \in Hosts :
        txn[h].step = "written" /\ txn[h].op = "compare" /\ txn[h].result.ok
            => bindingForState(txn[h].result.next) = held[h]

\* Only a version is activated.
ActivationHasTarget ==
    \A h \in Hosts : txn[h].op = "activate" => txn[h].version \in Versions

\* Every record but the first has a binding, and it was noted.
SelectionIsNoted ==
    bindingForState(state) \in past \cup {NoBinding}

\* The inductive invariant.
IInv ==
    /\ RecordIsSound
    /\ LockIsExclusive /\ ResultIsCurrent /\ ActivationHasTarget
    /\ IdleForgets /\ CompareConfirms /\ SelectionIsNoted

\* What a transaction may make of the record s it was started with: nothing,
\* or a record of the next generation that selects a version.
Successors(s) ==
    {n \in ActivationStates :
        n.generation = s.generation + 1 /\ n.current # NoVersion}

\* The pointers of the next record n come from the record s, save the version
\* an activation selects; what becomes last known good was selected.
Pointers(s, n, op, v) ==
    CASE op = "activate" ->
           n.current = v /\ n.previous = s.current
           /\ n.lastKnownGood = s.lastKnownGood
      [] op = "mark" ->
           n.current = s.current /\ n.previous = s.previous
           /\ n.lastKnownGood = s.current
      [] op = "recover" ->
           n.current = s.lastKnownGood /\ n.previous = NoVersion
           /\ n.lastKnownGood = s.lastKnownGood
      [] op = "rollback" ->
           n.current = rollbackTarget(s) /\ n.previous = s.current
           /\ n.lastKnownGood = s.lastKnownGood
      [] op = "confirm" ->
           n.current = s.current /\ n.previous = s.previous
           /\ n.lastKnownGood = s.lastKnownGood
      [] OTHER -> FALSE

\* What a transaction op on the record s may decide, v being the version to
\* activate and e the binding its caller expects.
Decides(s, op, v, e, result) ==
    /\ result \in [ok : BOOLEAN, next : ActivationStates]
    /\ \/ result.next = s
       \/ /\ result.ok
          /\ result.next \in Successors(s)
          /\ Pointers(s, result.next, op, v)
          /\ op \in Conditional => e = bindingForState(s)

\* writeState leaves the record alone or writes the one it is given.
LEMMA WrittenDecides ==
    ASSUME NEW s \in ActivationStates, NEW n \in Successors(s), NEW p,
           NEW op \in Ops, NEW v, NEW e, Pointers(s, n, op, v),
           op \in Conditional => e = bindingForState(s)
    PROVE  Decides(s, op, v, e, Written(s, n, p))
<1>1. n \in ActivationStates
  BY DEF Successors
<1>2. CASE Written(s, n, p) = Refused(s)
  BY <1>2 DEF Decides, Refused
<1>3. CASE Written(s, n, p) = [ok |-> TRUE, next |-> n]
  BY <1>1, <1>3 DEF Decides
<1> QED
  BY <1>2, <1>3 DEF Written

\* So does every transaction that decides before writeState.
LEMMA NothingDecides ==
    ASSUME NEW s \in ActivationStates, NEW op, NEW v, NEW e
    PROVE  /\ Decides(s, op, v, e, Refused(s))
           /\ Decides(s, op, v, e, Unchanged(s))
BY DEF Decides, Refused, Unchanged

\* A record without a binding matches nothing.
LEMMA MatchesSelects ==
    ASSUME NEW s \in ActivationStates, NEW e, matches(s, e)
    PROVE  e = bindingForState(s) /\ s.current \in Versions
BY DEF matches, bindingForState, ActivationStates

\* The transactions, one by one.
LEMMA OperationsDecide ==
    ASSUME NEW s \in ActivationStates, NEW p \in SUBSET Versions,
           NEW e, NEW v \in Versions \cup {NoVersion}
    PROVE  /\ Decides(s, "activate", v, e, activateVerified(s, p, v))
           /\ Decides(s, "mark", v, e, markCurrentLastKnownGood(s, p, e))
           /\ Decides(s, "recover", v, e, recoverLastKnownGood(s, p, e))
           /\ Decides(s, "rollback", v, e, rollback(s, p, e))
           /\ Decides(s, "confirm", v, e, confirmCurrent(s, p, e))
<1>0. /\ s.generation + 1 \in Nat /\ NoVersion \notin Versions
      /\ {"activate", "mark", "recover", "rollback", "confirm"} \subseteq Ops
  BY NoVersionAssumption DEF ActivationStates, Ops
<1>1. Decides(s, "activate", v, e, activateVerified(s, p, v))
  <2> DEFINE n == [s EXCEPT !.previous = s.current, !.current = v,
                            !.generation = @ + 1]
  <2>1. CASE activateVerified(s, p, v) = Written(s, n, p) /\ v \in p
    <3>1. n \in Successors(s) /\ Pointers(s, n, "activate", v)
      BY <1>0, <2>1 DEF ActivationStates, Successors, Pointers
    <3> QED
      BY <1>0, <2>1, <3>1, WrittenDecides DEF Conditional
  <2>2. CASE activateVerified(s, p, v) \in {Refused(s), Unchanged(s)}
    BY <2>2, NothingDecides
  <2> QED
    BY <2>1, <2>2 DEF activateVerified, stateTargetIsValid
<1>2. Decides(s, "mark", v, e, markCurrentLastKnownGood(s, p, e))
  <2> DEFINE n == [s EXCEPT !.lastKnownGood = s.current, !.generation = @ + 1]
  <2>1. CASE markCurrentLastKnownGood(s, p, e) = Written(s, n, p)
             /\ matches(s, e)
    <3>1. e = bindingForState(s) /\ s.current \in Versions
      BY <2>1, MatchesSelects
    <3>2. n \in Successors(s) /\ Pointers(s, n, "mark", v)
      BY <1>0, <3>1 DEF ActivationStates, Successors, Pointers
    <3> QED
      BY <1>0, <2>1, <3>1, <3>2, WrittenDecides
  <2>2. CASE markCurrentLastKnownGood(s, p, e) \in {Refused(s), Unchanged(s)}
    BY <2>2, NothingDecides
  <2> QED
    BY <2>1, <2>2 DEF markCurrentLastKnownGood
<1>3. Decides(s, "recover", v, e, recoverLastKnownGood(s, p, e))
  <2> DEFINE n == [current |-> s.lastKnownGood, previous |-> NoVersion,
                   lastKnownGood |-> s.lastKnownGood,
                   generation |-> s.generation + 1]
  <2>1. CASE recoverLastKnownGood(s, p, e) = Written(s, n, p)
             /\ matches(s, e) /\ s.lastKnownGood \in p
    <3>1. e = bindingForState(s)
      BY <2>1, MatchesSelects
    <3>2. n \in Successors(s) /\ Pointers(s, n, "recover", v)
      BY <1>0, <2>1 DEF ActivationStates, Successors, Pointers
    <3> QED
      BY <1>0, <2>1, <3>1, <3>2, WrittenDecides
  <2>2. CASE recoverLastKnownGood(s, p, e) \in {Refused(s), Unchanged(s)}
    BY <2>2, NothingDecides
  <2> QED
    BY <2>1, <2>2 DEF recoverLastKnownGood, stateTargetIsValid
<1>4. Decides(s, "rollback", v, e, rollback(s, p, e))
  <2> DEFINE t == rollbackTarget(s)
             n == [s EXCEPT !.previous = s.current, !.current = t,
                            !.generation = @ + 1]
  <2>1. CASE rollback(s, p, e) = Written(s, n, p)
             /\ matches(s, e) /\ t \in p
    <3>1. e = bindingForState(s)
      BY <2>1, MatchesSelects
    <3>2. t \in Versions /\ t # NoVersion
      BY <1>0, <2>1
    <3> HIDE DEF t
    <3>3. n \in Successors(s)
      BY <1>0, <3>2 DEF ActivationStates, Successors
    <3>4. Pointers(s, n, "rollback", v)
      BY DEF Pointers, ActivationStates, t
    <3> QED
      BY <1>0, <2>1, <3>1, <3>3, <3>4, WrittenDecides
  <2>2. CASE rollback(s, p, e) = Refused(s)
    BY <2>2, NothingDecides
  <2> QED
    BY <2>1, <2>2 DEF rollback, stateTargetIsValid
<1>5. Decides(s, "confirm", v, e, confirmCurrent(s, p, e))
  <2> DEFINE n == [s EXCEPT !.generation = @ + 1]
  <2>1. CASE confirmCurrent(s, p, e) = Written(s, n, p) /\ matches(s, e)
    <3>1. e = bindingForState(s) /\ s.current \in Versions
      BY <2>1, MatchesSelects
    <3>2. n \in Successors(s) /\ Pointers(s, n, "confirm", v)
      BY <1>0, <3>1 DEF ActivationStates, Successors, Pointers
    <3> QED
      BY <1>0, <2>1, <3>1, <3>2, WrittenDecides
  <2>2. CASE confirmCurrent(s, p, e) = Refused(s)
    BY <2>2, NothingDecides
  <2> QED
    BY <2>1, <2>2 DEF confirmCurrent
<1> QED
  BY <1>1, <1>2, <1>3, <1>4, <1>5

\* What the transaction of h may have decided.
DecidesOn(h, result) ==
    Decides(txn[h].loaded, txn[h].op, txn[h].version, held[h], result)

\* A transaction decides to leave the record alone, or to write the record of
\* the next generation with pointers it took from this one; and a conditional
\* one only when its caller's binding is the record's.
LEMMA OutcomeDecides ==
    ASSUME TypeOK, NEW h \in Hosts
    PROVE  DecidesOn(h, Outcome(h))
<1>1. /\ txn[h].loaded \in ActivationStates /\ txn[h].op \in Ops
      /\ txn[h].version \in Versions \cup {NoVersion}
      /\ present \in SUBSET Versions
  BY DEF TypeOK, Txns
<1>2. CASE txn[h].op \in {"activate", "mark", "recover", "rollback", "confirm"}
  BY <1>1, <1>2, OperationsDecide DEF Outcome, DecidesOn
<1>3. CASE txn[h].op \in {"compare", "read", "readRecorded"}
  BY <1>1, <1>3, NothingDecides
     DEF Outcome, DecidesOn, compareCurrent, activationState
<1> QED
  BY <1>1, <1>2, <1>3 DEF Ops

\* There is no record yet, and nobody has seen one.
LEMMA InitInv == Init => IInv
<1> SUFFICES ASSUME Init PROVE IInv
  OBVIOUS
<1>1. TypeOK
  BY NoVersionAssumption
     DEF Init, TypeOK, Idle, Txns, Ops, EmptyState, ActivationStates, Refused
<1> QED
  BY <1>1, NoHostAssumption
     DEF Init, IInv, RecordIsSound, SnapshotIsCurrent, EmptyState, Idle,
         BindingIdentifiesSelection, PointersAreEarned, LockIsExclusive,
         ResultIsCurrent, ActivationHasTarget, IdleForgets,
         CompareConfirms, SelectionIsNoted,
         bindingForState

\* Directories come and go, the record and the transactions do not notice.
LEMMA DirectoryStep ==
    ASSUME IInv, NEW v \in Versions,
           commitVerifiedCandidate(v) \/ LoseDirectory(v)
    PROVE  IInv'
BY DEF IInv, RecordIsSound, TypeOK, SnapshotIsCurrent,
       BindingIdentifiesSelection, PointersAreEarned, LockIsExclusive,
       ResultIsCurrent, ActivationHasTarget, IdleForgets,
         CompareConfirms, SelectionIsNoted,
       commitVerifiedCandidate, LoseDirectory

\* A transaction starts when no other runs, with the record as it is.
LEMMA LoadStep ==
    ASSUME IInv, NEW h \in Hosts, NEW op \in Ops,
           NEW v \in Versions \cup {NoVersion},
           op = "activate" => v \in Versions, Load(h, op, v)
    PROVE  IInv'
<1> USE DEF IInv, RecordIsSound, Load
<1> DEFINE t == [step |-> "loaded", op |-> op, version |-> v,
                 loaded |-> state, result |-> Refused(state)]
<1>1. t \in Txns
  BY DEF TypeOK, Txns, Refused
<1>2. txn' = [txn EXCEPT ![h] = t] /\ txn \in [Hosts -> Txns]
  BY DEF TypeOK
<1>3. TypeOK'
  BY <1>1, <1>2 DEF TypeOK
<1>4. LockIsExclusive'
  BY <1>2, NoHostAssumption DEF LockIsExclusive, canLock
<1>5. SnapshotIsCurrent'
  BY <1>2, NoHostAssumption DEF SnapshotIsCurrent, LockIsExclusive, canLock
<1>6. ResultIsCurrent' /\ ActivationHasTarget' /\ IdleForgets'
      /\ CompareConfirms'
  BY <1>2 DEF ResultIsCurrent, ActivationHasTarget, IdleForgets,
              CompareConfirms
<1>7. BindingIdentifiesSelection' /\ PointersAreEarned' /\ SelectionIsNoted'
  BY DEF BindingIdentifiesSelection, PointersAreEarned, SelectionIsNoted
<1> QED
  BY <1>3, <1>4, <1>5, <1>6, <1>7

\* What Write does to its own transaction, and that nobody else runs one.
LEMMA WriteFrame ==
    ASSUME IInv, NEW h \in Hosts, NEW ok \in BOOLEAN, Write(h, ok)
    PROVE  /\ lock = h /\ lock' = lock /\ txn[h].loaded = state
           /\ DecidesOn(h, Outcome(h))
           /\ \A k \in Hosts : k # h => txn[k].step = "idle" /\ txn'[k] = txn[k]
           /\ txn[h].step = "loaded"
           /\ txn'[h].step = "written" /\ txn'[h].op = txn[h].op
           /\ txn'[h].version = txn[h].version
           /\ txn'[h].result = IF ok THEN Outcome(h) ELSE Refused(state)
           /\ txn' = [txn EXCEPT ![h].step = "written",
                                 ![h].result = IF ok THEN Outcome(h)
                                               ELSE Refused(txn[h].loaded)]
<1> USE DEF IInv, RecordIsSound, Write
<1>1. lock = h /\ txn[h].loaded = state
  BY DEF SnapshotIsCurrent
<1>2. DecidesOn(h, Outcome(h))
  BY OutcomeDecides
<1>3. txn \in [Hosts -> Txns] /\ txn[h] \in Txns
  BY DEF TypeOK
<1>4. \A k \in Hosts : k # h => txn[k].step = "idle"
  BY <1>1 DEF LockIsExclusive
<1> QED
  BY <1>1, <1>2, <1>3, <1>4 DEF Txns

\* The transaction that writes is the only one that runs, and what it writes
\* follows the record that is there.
LEMMA WriteStep ==
    ASSUME IInv, NEW h \in Hosts, NEW ok \in BOOLEAN, Write(h, ok)
    PROVE  IInv'
<1> DEFINE result == Outcome(h)
           writes == result.next # state /\ ok
<1>1. /\ lock = h /\ lock' = lock /\ txn[h].loaded = state
      /\ DecidesOn(h, result)
      /\ \A k \in Hosts : k # h => txn[k].step = "idle" /\ txn'[k] = txn[k]
      /\ txn[h].step = "loaded"
      /\ txn'[h].step = "written" /\ txn'[h].op = txn[h].op
      /\ txn'[h].version = txn[h].version
      /\ txn'[h].result = IF ok THEN result ELSE Refused(state)
  BY WriteFrame, Zenon
<1>2. /\ writes => /\ state' = result.next
                   /\ past' = past \cup {bindingForState(state')}
                   /\ activated' = IF txn[h].op = "activate"
                                     THEN activated \cup {txn[h].version}
                                     ELSE activated
                   /\ proven' = IF txn[h].op = "mark"
                                  THEN proven \cup {state'.lastKnownGood}
                                  ELSE proven
      /\ ~writes => UNCHANGED <<state, past, activated, proven>>
      /\ UNCHANGED <<present, held>>
  BY <1>1 DEF Write
<1>3. writes => /\ state' \in Successors(state)
                /\ Pointers(state, state', txn[h].op, txn[h].version)
  BY <1>1, <1>2 DEF DecidesOn, Decides
<1> HIDE DEF result, writes
<1>4. /\ TypeOK /\ state \in ActivationStates /\ txn \in [Hosts -> Txns]
      /\ NoVersion \notin Versions
      /\ txn[h].op \in Ops
      /\ txn[h].op = "activate" => txn[h].version \in Versions
  BY NoVersionAssumption
     DEF IInv, RecordIsSound, TypeOK, Txns, ActivationHasTarget
<1>5. writes => /\ bindingForState(state') = [directory |-> state'.current,
                                              generation |-> state'.generation]
                /\ bindingForState(state') \in Bindings
                /\ state' \in ActivationStates
                /\ state'.generation = state.generation + 1
  BY <1>3, <1>4 DEF Successors, bindingForState, Bindings, ActivationStates
<1>6. txn' \in [Hosts -> Txns]
  <2>1. result \in [ok : BOOLEAN, next : ActivationStates]
    BY <1>1, <1>4 DEF DecidesOn, Decides
  <2>2. Refused(state) \in [ok : BOOLEAN, next : ActivationStates]
    BY <1>4 DEF Refused
  <2> DEFINE r == IF ok THEN result ELSE Refused(state)
             u == [txn[h] EXCEPT !.step = "written", !.result = r]
  <2>3. r \in [ok : BOOLEAN, next : ActivationStates]
    BY <2>1, <2>2
  <2>4. txn' = [txn EXCEPT ![h] = u]
    BY WriteFrame, <1>1, <1>4 DEF result
  <2> HIDE DEF r
  <2>5. u \in Txns
    BY <1>4, <2>3 DEF Txns
  <2> HIDE DEF u
  <2> QED
    BY <1>4, <2>4, <2>5
<1>7. writes /\ txn[h].op = "mark" => state'.lastKnownGood \in Versions
  BY <1>3, <1>4, <1>5 DEF Successors, Pointers, ActivationStates
<1>8. TypeOK'
  <2>1. CASE ~writes
    BY <1>1, <1>2, <1>4, <1>6, <2>1 DEF TypeOK
  <2>2. CASE writes
    <3>1. past' \subseteq Bindings
      BY <1>2, <1>4, <1>5, <2>2 DEF TypeOK
    <3>2. activated' \subseteq Versions /\ proven' \subseteq Versions
      BY <1>2, <1>4, <1>7, <2>2 DEF TypeOK
    <3> QED
      BY <1>1, <1>2, <1>4, <1>5, <1>6, <2>2, <3>1, <3>2 DEF TypeOK
  <2> QED
    BY <2>1, <2>2
<1>9. LockIsExclusive' /\ SnapshotIsCurrent' /\ ActivationHasTarget'
  BY <1>1 DEF IInv, RecordIsSound, LockIsExclusive, SnapshotIsCurrent,
              ActivationHasTarget
<1>10. ResultIsCurrent' /\ IdleForgets'
  <2>1. ok /\ result.ok => result.next = state'
    BY <1>2 DEF writes
  <2> QED
    BY <1>1, <2>1 DEF IInv, ResultIsCurrent, IdleForgets, Refused
<1>11. BindingIdentifiesSelection' /\ SelectionIsNoted'
  <2>1. CASE ~writes
    BY <1>2, <2>1 DEF IInv, RecordIsSound, BindingIdentifiesSelection,
                      SelectionIsNoted
  <2>2. CASE writes
    <3>1. \A b \in past : b.generation \in Nat
                          /\ b.generation <= state.generation
      BY <1>4 DEF IInv, RecordIsSound, BindingIdentifiesSelection, TypeOK,
                  Bindings
    <3>2. state.generation \in Nat /\ state'.generation = state.generation + 1
      BY <1>4, <1>5, <2>2 DEF ActivationStates
    <3>3. past' = past \cup {bindingForState(state')}
          /\ bindingForState(state').generation = state'.generation
      BY <1>2, <1>5, <2>2
    <3>4. \A k \in Hosts : held'[k] \in past' \cup {NoBinding}
      BY <1>2, <3>3 DEF IInv, RecordIsSound, BindingIdentifiesSelection
    <3> QED
      BY <3>1, <3>2, <3>3, <3>4 DEF BindingIdentifiesSelection,
                                    SelectionIsNoted
  <2> QED
    BY <2>1, <2>2
<1>12. PointersAreEarned'
  <2>1. CASE ~writes
    BY <1>2, <2>1 DEF IInv, RecordIsSound, PointersAreEarned
  <2>2. CASE writes
    <3> PointersAreEarned
      BY DEF IInv, RecordIsSound
    <3> state'.current # NoVersion
      BY <1>3, <2>2 DEF Successors
    <3> QED
      BY <1>2, <1>3, <2>2, <1>4
         DEF Pointers, PointersAreEarned, rollbackTarget
  <2> QED
    BY <2>1, <2>2
<1>13. CompareConfirms'
  <2>1. ok /\ txn[h].op = "compare" /\ result.ok
          => bindingForState(result.next) = held[h]
    BY <1>1 DEF result, Outcome, compareCurrent, matches, Refused, Unchanged
  <2> QED
    BY <1>1, <1>2, <2>1 DEF IInv, CompareConfirms, Refused
<1> QED
  BY <1>8, <1>9, <1>10, <1>11, <1>12, <1>13 DEF IInv, RecordIsSound

\* The caller gets the binding of the record that is still there.
LEMMA FinishStep ==
    ASSUME IInv, NEW h \in Hosts, Finish(h)
    PROVE  IInv'
<1> USE DEF IInv, RecordIsSound, Finish
<1>1. txn \in [Hosts -> Txns] /\ held \in [Hosts -> Bindings \cup {NoBinding}]
      /\ Idle \in Txns /\ lock = h /\ lock' = NoHost
  BY NoVersionAssumption
     DEF TypeOK, LockIsExclusive, Idle, Txns, Ops, EmptyState, ActivationStates,
         Refused
<1>2. txn' = [txn EXCEPT ![h] = Idle] /\ txn' \in [Hosts -> Txns]
  BY <1>1
<1>3. held'[h] \in past \cup {NoBinding}
      /\ \A k \in Hosts \ {h} : held'[k] = held[k]
  BY <1>1 DEF ResultIsCurrent, SelectionIsNoted, BindingIdentifiesSelection
<1>4. TypeOK'
  BY <1>1, <1>2, <1>3 DEF TypeOK
<1>5. LockIsExclusive' /\ SnapshotIsCurrent' /\ ResultIsCurrent'
      /\ ActivationHasTarget' /\ IdleForgets' /\ CompareConfirms'
  BY <1>1, <1>2, <1>3, NoHostAssumption
     DEF LockIsExclusive, SnapshotIsCurrent, ResultIsCurrent,
         ActivationHasTarget, IdleForgets, CompareConfirms, Idle
<1>6. BindingIdentifiesSelection'
  BY <1>3 DEF BindingIdentifiesSelection
<1>7. PointersAreEarned' /\ SelectionIsNoted'
  BY DEF PointersAreEarned, SelectionIsNoted
<1> QED
  BY <1>4, <1>5, <1>6, <1>7

\* A Host dies: its lock and what it knew go, the record stays.
Dies(h) ==
    /\ lock' = IF lock = h THEN NoHost ELSE lock
    /\ txn' = [txn EXCEPT ![h] = Idle]
    /\ held' = [held EXCEPT ![h] = NoBinding]
    /\ UNCHANGED <<state, present, past, activated, proven>>

\* A death leaves the others with the record they know, and the lock free.
LEMMA DiesStep ==
    ASSUME IInv, NEW h \in Hosts, Dies(h)
    PROVE  IInv'
<1> USE DEF IInv, RecordIsSound, Dies
<1>1. txn \in [Hosts -> Txns] /\ held \in [Hosts -> Bindings \cup {NoBinding}]
      /\ Idle \in Txns
  BY NoVersionAssumption
     DEF TypeOK, Idle, Txns, Ops, EmptyState, ActivationStates, Refused
<1>2. txn' = [txn EXCEPT ![h] = Idle] /\ txn' \in [Hosts -> Txns]
  BY <1>1
<1>3. TypeOK'
  BY <1>1, <1>2 DEF TypeOK
<1>4. LockIsExclusive'
  BY <1>1, <1>2, NoHostAssumption DEF LockIsExclusive, Idle
<1>5. SnapshotIsCurrent' /\ ResultIsCurrent' /\ ActivationHasTarget'
      /\ IdleForgets' /\ CompareConfirms'
  BY <1>1, <1>2
     DEF SnapshotIsCurrent, ResultIsCurrent, ActivationHasTarget, IdleForgets,
         CompareConfirms, Idle
<1>6. BindingIdentifiesSelection'
  BY <1>1 DEF BindingIdentifiesSelection
<1>7. PointersAreEarned' /\ SelectionIsNoted'
  BY DEF PointersAreEarned, SelectionIsNoted
<1> QED
  BY <1>3, <1>4, <1>5, <1>6, <1>7

\* Every step, or none, keeps the invariant.
LEMMA NextInv == IInv /\ [Next]_vars => IInv'
<1> SUFFICES ASSUME IInv, [Next]_vars PROVE IInv'
  OBVIOUS
<1>1. CASE \E v \in Versions : commitVerifiedCandidate(v) \/ LoseDirectory(v)
  BY <1>1, DirectoryStep
<1>2. CASE \E h \in Hosts, v \in Versions : BeginActivate(h, v)
  BY <1>2, LoadStep DEF BeginActivate, Ops
<1>3. CASE \E h \in Hosts, op \in Ops \ {"activate"} : BeginOther(h, op)
  BY <1>3, LoadStep DEF BeginOther
<1>4. CASE \E h \in Hosts, ok \in BOOLEAN : Write(h, ok)
  BY <1>4, WriteStep
<1>5. CASE \E h \in Hosts : Finish(h) \/ Crash(h)
  BY <1>5, FinishStep, DiesStep DEF Crash, Dies
<1>6. CASE UNCHANGED vars
  BY <1>6 DEF vars, IInv, RecordIsSound, TypeOK, SnapshotIsCurrent,
              BindingIdentifiesSelection, PointersAreEarned, LockIsExclusive,
              ResultIsCurrent, ActivationHasTarget, IdleForgets,
         CompareConfirms, SelectionIsNoted
<1> QED
  BY <1>1, <1>2, <1>3, <1>4, <1>5, <1>6 DEF Next

\* The invariant holds as long as the store runs.
LEMMA StoreInv == Spec => []IInv
BY InitInv, NextInv, PTL DEF Spec

\* The record stays sound, however the transactions of the Hosts interleave,
\* fail or are cut off: no update is lost, a binding names one selection, and
\* every pointer was earned.
THEOREM RecordStaysSound == Spec => []RecordIsSound
<1>1. IInv => RecordIsSound
  BY DEF IInv
<1> QED
  BY <1>1, StoreInv, PTL

\* What one step selects.
Deliberate ==
    /\ \A h \in Hosts :
         /\ txn[h].step = "loaded" /\ txn'[h].step = "written"
         /\ txn[h].op \in Conditional
         /\ state' # state
         => held[h] = bindingForState(state)
    /\ \A h \in Hosts :
         /\ txn[h].step = "loaded" /\ txn'[h].step = "written"
         /\ txn[h].op \in {"rollback", "recover"}
         /\ state' # state /\ state.lastKnownGood # NoVersion
         => state'.current = state.lastKnownGood

\* Only Write takes a transaction from loaded to written, and it writes what
\* was decided about the record that is there.
LEMMA NextIsDeliberate == IInv /\ [Next]_vars => Deliberate
<1> SUFFICES ASSUME IInv, [Next]_vars, NEW h \in Hosts,
                    txn[h].step = "loaded", txn'[h].step = "written",
                    state' # state
             PROVE  /\ txn[h].op \in Conditional
                         => held[h] = bindingForState(state)
                    /\ txn[h].op \in {"rollback", "recover"}
                       /\ state.lastKnownGood # NoVersion
                         => state'.current = state.lastKnownGood
  BY DEF Deliberate
<1>1. PICK k \in Hosts, ok \in BOOLEAN : Write(k, ok)
  BY DEF Next, vars, commitVerifiedCandidate, LoseDirectory, BeginActivate,
         BeginOther, Load, Finish, Crash
<1>2. k = h
  BY <1>1, WriteFrame
<1>3. txn[h].loaded = state /\ DecidesOn(h, Outcome(h))
  BY <1>1, <1>2, WriteFrame
<1>4. state' = Outcome(h).next
  BY <1>1, <1>2 DEF Write
<1>5. /\ Pointers(state, state', txn[h].op, txn[h].version)
      /\ txn[h].op \in Conditional => held[h] = bindingForState(state)
  BY <1>3, <1>4 DEF DecidesOn, Decides
<1> QED
  BY <1>5 DEF Pointers, rollbackTarget

\* A conditional transaction replaces the record only while its caller's
\* binding is the record's, and a rollback or a recovery leads to the last known
\* good version.
THEOREM StoreIsDeliberate == Spec => SelectionIsDeliberate
<1>1. IInv /\ [Next]_vars
        => [\A h \in Hosts :
              /\ txn[h].step = "loaded" /\ txn'[h].step = "written"
              /\ txn[h].op \in Conditional
              /\ state' # state
              => held[h] = bindingForState(state)]_vars
  BY NextIsDeliberate DEF Deliberate
<1>2. IInv /\ [Next]_vars
        => [\A h \in Hosts :
              /\ txn[h].step = "loaded" /\ txn'[h].step = "written"
              /\ txn[h].op \in {"rollback", "recover"}
              /\ state' # state /\ state.lastKnownGood # NoVersion
              => state'.current = state.lastKnownGood]_vars
  BY NextIsDeliberate DEF Deliberate
<1> QED
  BY <1>1, <1>2, StoreInv, PTL
     DEF Spec, SelectionIsDeliberate, StaleCannotOverwrite,
         RollbackReachesLastKnownGood

-----------------------------------------------------------------------------
\* The installer.

AllPackages == UNION {Packages[p.packages] : p \in Plans}

Preparing == {"checked", "staged", "verified", "preflighted", "extracted",
              "compared", "sealed", "published", "committed", "activating"}
Verifying == {"activated", "comparing", "bound", "locked"}
Guarding == {"guarded", "authenticated", "recomparing", "rebound", "running",
             "unreleased"}
InTransaction == {"activating", "comparing", "recomparing"}
Rechecking == {"activated", "comparing", "guarded", "authenticated",
               "recomparing", "rebound"}

Activities ==
    [step : {"idle"} \cup Preparing \cup Verifying \cup Guarding,
     kind : {"install", "launch", "recheck"},
     package : AllPackages \cup {NoPackage},
     members : SUBSET {"altered", "member"}]

Stagings ==
    [exists : BOOLEAN, expects : {"package", "all"},
     candidate : {"none", "plain", "sealed"},
     damage : SUBSET {"altered", "member"},
     foreign : BOOLEAN, crashed : BOOLEAN]

Contents == [package : AllPackages \cup {NoPackage},
             damage : SUBSET {"altered", "member"}]

InstallTypeOK ==
    /\ plan \in Plans
    /\ source \in Packages[plan.packages]
    /\ inst \in [Hosts -> Activities]
    /\ staging \in [Hosts -> Stagings]
    /\ content \in [Versions -> Contents]
    /\ seal \in [Versions -> Hosts \cup {NoHost, Orphan}]
    /\ present \subseteq Versions

\* A Host runs a transaction exactly where its installation or launch says so,
\* a running version was launched, and a plan that exercises the record alone
\* installs nothing.
StepsMatch(h) ==
    /\ inst[h].step = "idle" => inst[h] = Quiet
    /\ inst[h].step # "idle" =>
          (inst[h].step \in InTransaction <=> txn[h].step # "idle")
    /\ inst[h].step \in {"comparing", "recomparing"} => txn[h].op = "compare"
    /\ inst[h].step \in Preparing => inst[h].kind = "install"
    /\ inst[h].step = "running" => inst[h].kind = "launch"
    /\ inst[h].kind = "recheck" => inst[h].step \in Rechecking
    /\ plan.kind = "record" => inst[h] = Quiet

\* What is installed is a package that passed every check made so far.
PackageIsChecked(h) ==
    /\ inst[h].step \in Preparing \ {"checked"} => inst[h].package \in AllPackages
    /\ inst[h].step \in {"verified", "preflighted", "extracted", "compared",
                         "sealed"}
         => policyAccepts(inst[h].package)
    /\ inst[h].step \in {"preflighted", "extracted", "compared", "sealed"}
         => inst[h].package.flaws \cap {"entry point", "preflight"} = {}

\* Nobody alters a compared candidate, only a sealed one has seals, and only
\* a candidate whose members are known lies in a staging directory.
StagingIsKnown(h) ==
    /\ inst[h].step \in {"compared", "sealed"} => "altered" \notin staging[h].damage
    /\ staging[h].candidate = "sealed" => inst[h].step = "sealed"
    /\ staging[h].candidate # "none" => staging[h].expects = "all"
    /\ inst[h].step \in Preparing \ {"checked", "staged"}
         => staging[h].expects = "all"

\* From locking the files on the version stays, from sealing the directories
\* on it belongs to its Host, from authenticating it on it is authentic; and a
\* version that is verified again has all of this already.
HasLocked(h) == inst[h].step \in {"locked"} \cup Guarding \/ inst[h].kind = "recheck"
HasSealed(h) == inst[h].step \in Guarding \/ inst[h].kind = "recheck"
HasAuthenticated(h) ==
    inst[h].step \in Guarding \ {"guarded"} \/ inst[h].kind = "recheck"

GuardHolds(h) ==
    /\ HasLocked(h) => Target(h) \in present
    /\ HasSealed(h) => seal[Target(h)] = h
    /\ HasAuthenticated(h) => /\ content[Target(h)].damage = {}
                              /\ content[Target(h)].package.version = Target(h)

\* The inductive invariant, apart from the store's.
InstallInv ==
    /\ InstallTypeOK
    /\ \A h \in Hosts : /\ StepsMatch(h) /\ PackageIsChecked(h)
                        /\ StagingIsKnown(h) /\ GuardHolds(h)
    /\ StagingIsReclaimed

-----------------------------------------------------------------------------
\* The installer uses the store as a Host may.

\* A Host that dies takes the store's step, unless it had nothing there.
LEMMA CrashIsStoreStep ==
    ASSUME IInv, NEW h \in Hosts, Dies(h)
    PROVE  [Next]_vars
<1>1. CASE txn[h].step # "idle" \/ held[h] # NoBinding
  BY <1>1 DEF Dies, Crash, Next
<1>2. CASE txn[h].step = "idle" /\ held[h] = NoBinding
  <2>1. lock # h /\ txn[h] = Idle
    BY <1>2 DEF IInv, LockIsExclusive, IdleForgets
  <2>2. txn \in [Hosts -> Txns] /\ held \in [Hosts -> Bindings \cup {NoBinding}]
    BY DEF IInv, RecordIsSound, TypeOK
  <2>3. txn' = txn /\ held' = held /\ lock' = lock
    BY <1>2, <2>1, <2>2 DEF Dies
  <2> QED
    BY <2>3 DEF Dies, vars
<1> QED
  BY <1>1, <1>2

\* Every step of an installation, of a launch and of the others is a step of
\* the store or leaves the store alone.
LEMMA InstallStepIsStoreStep ==
    ASSUME IInv, InstallInv, [InstallNext]_allVars
    PROVE  [Next]_vars
<1>1. CASE plan.kind = "record" /\ Next /\ UNCHANGED installVars
  BY <1>1
<1>2. ASSUME NEW h \in Hosts, Installation(h) PROVE [Next]_vars
  <2>1. CASE BeginTransaction(h)
    <3>1. inst[h].step = "committed" => inst[h].package.version \in Versions
      BY PackagesAssumption
         DEF InstallInv, PackageIsChecked, Preparing, AllPackages
    <3> QED
      BY <2>1, <3>1 DEF BeginTransaction, Next, Ops
  <2>2. CASE \E ok \in BOOLEAN : PublishCandidate(h, ok)
    <3> DEFINE v == inst[h].package.version
    <3>1. inst[h].step = "sealed" => v \in Versions
      BY PackagesAssumption
         DEF InstallInv, PackageIsChecked, Preparing, AllPackages
    <3>2. CASE present' = present \cup {v} /\ publishRootNoReplace(v)
               /\ inst[h].step = "sealed"
      <4>1. commitVerifiedCandidate(v)
        BY <2>2, <3>2 DEF PublishCandidate, commitVerifiedCandidate,
                          publishRootNoReplace
      <4> QED
        BY <3>1, <3>2, <4>1 DEF Next
    <3>3. CASE UNCHANGED present
      BY <2>2, <3>3 DEF PublishCandidate, vars
    <3> QED
      BY <2>2, <3>2, <3>3 DEF PublishCandidate
  <2>3. CASE \E ok \in BOOLEAN : WriteTransaction(h, ok)
    BY <2>3 DEF WriteTransaction, Next
  <2>4. CASE FinishTransaction(h)
    BY <2>4 DEF FinishTransaction, Next
  <2>5. CASE \/ Precheck(h) \/ VerifyPackage(h) \/ CompareCandidate(h)
             \/ VerifyPublished(h) \/ LockTimesOut(h) \/ BeginLaunch(h)
             \/ BeginRecheck(h) \/ sealImmutableDirectoryMembership(h)
             \/ verifyInstalledImmutable(h) \/ KeepGuard(h) \/ DropGuard(h)
    BY <2>5 DEF Precheck, VerifyPackage, CompareCandidate, VerifyPublished,
                LockTimesOut, BeginLaunch, BeginRecheck,
                sealImmutableDirectoryMembership, verifyInstalledImmutable,
                KeepGuard, DropGuard
  <2>6. CASE \E ok \in BOOLEAN :
               \/ StagePackage(h, ok) \/ RunPreflight(h, ok)
               \/ ExtractCandidate(h, ok) \/ SealCandidate(h, ok)
               \/ LockInstalled(h, ok) \/ CloseGuard(h, ok)
    BY <2>6 DEF StagePackage, RunPreflight, ExtractCandidate, SealCandidate,
                LockInstalled, CloseGuard
  <2> QED
    BY <1>2, <2>1, <2>2, <2>3, <2>4, <2>5, <2>6 DEF Installation
<1>3. CASE Environment
  <2>1. CASE \E v \in Versions : LoseVersion(v)
    BY <2>1 DEF LoseVersion, Next
  <2>2. CASE \E h \in Hosts : CrashHost(h)
    BY <2>2, CrashIsStoreStep DEF CrashHost, Dies
  <2> QED
    BY <1>3, <2>1, <2>2
       DEF Environment, ReplaceSource, TouchStaging, DamageVersion
<1>4. ASSUME NEW h \in Hosts, NEW op \in Ops \ {"activate"}, UseRecord(h, op)
      PROVE  [Next]_vars
  BY <1>4 DEF UseRecord, Next
<1>5. CASE UNCHANGED allVars
  BY <1>5 DEF allVars, vars
<1> QED
  BY <1>1, <1>2, <1>3, <1>4, <1>5 DEF InstallNext

-----------------------------------------------------------------------------
\* The invariant, step by step.

\* Nothing is installed yet.
LEMMA InstallInitInv == InstallInit => InstallInv
<1> SUFFICES ASSUME InstallInit PROVE InstallInv
  OBVIOUS
<1>1. InstallTypeOK
  BY DEF InstallInit, InstallTypeOK, Quiet, NoStaging, Empty, Activities,
         Stagings, Contents, Init
<1>2. ASSUME NEW h \in Hosts
      PROVE  /\ StepsMatch(h) /\ PackageIsChecked(h)
             /\ StagingIsKnown(h) /\ GuardHolds(h)
  <2>1. inst[h] = Quiet /\ staging[h] = NoStaging
    BY DEF InstallInit
  <2> QED
    BY <2>1 DEF StepsMatch, PackageIsChecked, StagingIsKnown, GuardHolds,
                HasLocked, HasSealed, HasAuthenticated, Quiet, NoStaging,
                InTransaction, Preparing, Guarding
<1> QED
  BY <1>1, <1>2 DEF InstallInit, InstallInv, StagingIsReclaimed

\* A step of h that leaves the version directories of the others alone leaves
\* their part of the invariant alone.
LEMMA OthersKeep ==
    ASSUME InstallInv, NEW h, UNCHANGED plan, present \subseteq present',
           \A k \in Hosts : k # h =>
              /\ inst'[k] = inst[k] /\ staging'[k] = staging[k]
              /\ txn'[k] = txn[k] /\ held'[k] = held[k],
           \A v \in present : content'[v] = content[v],
           \A v \in Versions : seal[v] \in Hosts \ {h} => seal'[v] = seal[v]
    PROVE  \A k \in Hosts : k # h =>
              /\ StepsMatch(k)' /\ PackageIsChecked(k)'
              /\ StagingIsKnown(k)' /\ GuardHolds(k)'
<1> SUFFICES ASSUME NEW k \in Hosts, k # h
             PROVE  /\ StepsMatch(k)' /\ PackageIsChecked(k)'
                    /\ StagingIsKnown(k)' /\ GuardHolds(k)'
  OBVIOUS
<1>1. StepsMatch(k)' /\ PackageIsChecked(k)' /\ StagingIsKnown(k)'
  <2>1. StepsMatch(k)'
    BY DEF InstallInv, StepsMatch
  <2>2. PackageIsChecked(k)'
    BY DEF InstallInv, PackageIsChecked
  <2>3. StagingIsKnown(k)'
    BY DEF InstallInv, StagingIsKnown
  <2> QED
    BY <2>1, <2>2, <2>3
<1>2. Target(k)' = Target(k)
  BY DEF Target
<1>3. GuardHolds(k) /\ (HasSealed(k) => HasLocked(k))
      /\ (HasAuthenticated(k) => HasLocked(k))
  BY DEF InstallInv, HasSealed, HasLocked, HasAuthenticated
<1>4. HasLocked(k)' = HasLocked(k) /\ HasSealed(k)' = HasSealed(k)
      /\ HasAuthenticated(k)' = HasAuthenticated(k)
  BY DEF HasSealed, HasLocked, HasAuthenticated
<1>5. GuardHolds(k)'
  BY <1>2, <1>3, <1>4 DEF GuardHolds, InstallInv, InstallTypeOK
<1> QED
  BY <1>1, <1>5

\* An installation that is not sealing gives its staging directory back.
LEMMA ReturnReclaims ==
    ASSUME InstallTypeOK, StagingIsReclaimed, NEW h \in Hosts,
           NEW s \in Stagings, s.candidate # "sealed",
           s.candidate # "none" => s.expects = "all", Return(h, s)
    PROVE  /\ staging' \in [Hosts -> Stagings] /\ staging'[h] = NoStaging
           /\ \A k \in Hosts : k # h => staging'[k] = staging[k]
           /\ StagingIsReclaimed'
<1>1. NoStaging \in Stagings
  BY DEF NoStaging, Stagings
<1>2. s.exists /\ ~deleteOwnedStagingTree(s) => s.foreign \/ "member" \in s.damage
  BY DEF deleteOwnedStagingTree, Stagings
<1> QED
  BY <1>1, <1>2 DEF Return, InstallTypeOK, StagingIsReclaimed

\* The staging of a Host that is not sealing is fit to be given back.
LEMMA StagingIsFit ==
    ASSUME InstallInv, NEW h \in Hosts, inst[h].step # "sealed"
    PROVE  /\ staging[h] \in Stagings /\ staging[h].candidate # "sealed"
           /\ staging[h].candidate # "none" => staging[h].expects = "all"
BY DEF InstallInv, InstallTypeOK, StagingIsKnown

\* An installation that fails before it has a guard.
LEMMA FailStep ==
    ASSUME InstallInv, NEW h \in Hosts, NEW s \in Stagings,
           s.candidate # "sealed", s.candidate # "none" => s.expects = "all",
           inst' = [inst EXCEPT ![h] = Quiet], Return(h, s),
           \A k \in Hosts : k # h => txn'[k] = txn[k],
           UNCHANGED <<held, present, plan, source, content>>,
           seal' \in [Versions -> Hosts \cup {NoHost, Orphan}],
           \A v \in Versions : seal[v] \in Hosts \ {h} => seal'[v] = seal[v]
    PROVE  InstallInv'
<1>1. /\ staging' \in [Hosts -> Stagings] /\ staging'[h] = NoStaging
      /\ \A k \in Hosts : k # h => staging'[k] = staging[k]
      /\ StagingIsReclaimed'
  BY ReturnReclaims DEF InstallInv
<1>2. Quiet \in Activities
  BY DEF Quiet, Activities
<1>3. inst' \in [Hosts -> Activities] /\ inst'[h] = Quiet
      /\ \A k \in Hosts : k # h => inst'[k] = inst[k]
  BY <1>2 DEF InstallInv, InstallTypeOK
<1>5. InstallTypeOK'
  BY <1>1, <1>3 DEF InstallInv, InstallTypeOK
<1>6. StepsMatch(h)' /\ PackageIsChecked(h)' /\ StagingIsKnown(h)'
      /\ GuardHolds(h)'
  BY <1>1, <1>3 DEF Quiet, NoStaging, StepsMatch, PackageIsChecked,
       StagingIsKnown, GuardHolds, HasLocked, HasSealed, HasAuthenticated,
       InTransaction, Preparing, Guarding
<1>7. \A k \in Hosts : k # h =>
         /\ StepsMatch(k)' /\ PackageIsChecked(k)'
         /\ StagingIsKnown(k)' /\ GuardHolds(k)'
  BY <1>1, <1>3, OthersKeep
<1> QED
  BY <1>1, <1>5, <1>6, <1>7 DEF InstallInv

\* What is left to show of a step of h that goes on.
LEMMA AdvanceStep ==
    ASSUME InstallInv, NEW h \in Hosts, NEW i \in Activities, NEW s \in Stagings,
           inst' = [inst EXCEPT ![h] = i], staging' = [staging EXCEPT ![h] = s],
           UNCHANGED <<litter, plan, source>>,
           \A k \in Hosts : k # h => txn'[k] = txn[k] /\ held'[k] = held[k],
           present \subseteq present', present' \subseteq Versions,
           content' \in [Versions -> Contents],
           \A v \in present : content'[v] = content[v],
           seal' \in [Versions -> Hosts \cup {NoHost, Orphan}],
           \A v \in Versions : seal[v] \in Hosts \ {h} => seal'[v] = seal[v],
           StepsMatch(h)', PackageIsChecked(h)', StagingIsKnown(h)',
           GuardHolds(h)'
    PROVE  InstallInv'
<1>1. inst' \in [Hosts -> Activities] /\ staging' \in [Hosts -> Stagings]
      /\ \A k \in Hosts : k # h =>
            inst'[k] = inst[k] /\ staging'[k] = staging[k]
  BY DEF InstallInv, InstallTypeOK
<1>2. InstallTypeOK'
  BY <1>1 DEF InstallInv, InstallTypeOK
<1>3. \A k \in Hosts : k # h =>
         /\ StepsMatch(k)' /\ PackageIsChecked(k)'
         /\ StagingIsKnown(k)' /\ GuardHolds(k)'
  BY <1>1, OthersKeep
<1>4. StagingIsReclaimed'
  BY DEF InstallInv, StagingIsReclaimed
<1> QED
  BY <1>2, <1>3, <1>4 DEF InstallInv

\* A preparation that fails or goes on with the staging directory it has.
LEMMA PreparationStep ==
    ASSUME InstallInv, NEW h \in Hosts, NEW i \in Activities, NEW s \in Stagings,
           inst[h].kind = "install", i.kind = "install",
           inst[h].step \notin InTransaction,
           i.step \in Preparing \ {"activating"},
           inst' = [inst EXCEPT ![h] = i], staging' = [staging EXCEPT ![h] = s],
           UNCHANGED <<vars, plan, source, litter, content, seal>>,
           PackageIsChecked(h)', StagingIsKnown(h)',
           inst[h].step = "idle" => txn[h].step = "idle",
           plan.kind = "install"
    PROVE  InstallInv'
<1>1. inst'[h] = i
  BY DEF InstallInv, InstallTypeOK
<1>2. StepsMatch(h)
  BY DEF InstallInv
<1>3. i.step \notin Guarding /\ i.step # "locked" /\ i.step # "idle"
      /\ i.step \notin InTransaction /\ i.step # "running"
  BY DEF Preparing, Guarding, InTransaction
<1>4. txn[h].step = "idle" /\ UNCHANGED <<txn, held, present>>
  BY <1>2 DEF StepsMatch, vars
<1>5. StepsMatch(h)'
  BY <1>1, <1>3, <1>4 DEF StepsMatch, InTransaction
<1>6. GuardHolds(h)'
  BY <1>1, <1>3 DEF GuardHolds, HasLocked, HasSealed, HasAuthenticated
<1> QED
  BY <1>4, <1>5, <1>6, AdvanceStep DEF InstallInv, InstallTypeOK

\* A step that nothing here notices.
LEMMA StutterStep ==
    ASSUME InstallInv,
           UNCHANGED <<plan, inst, staging, litter, content, seal, present>>,
           source' \in Packages[plan.packages],
           \A k \in Hosts : txn'[k] = txn[k] /\ held'[k] = held[k]
    PROVE  InstallInv'
<1>1. \A k \in Hosts : k # NoHost =>
         /\ StepsMatch(k)' /\ PackageIsChecked(k)'
         /\ StagingIsKnown(k)' /\ GuardHolds(k)'
  BY OthersKeep
<1>2. InstallTypeOK' /\ StagingIsReclaimed'
  BY DEF InstallInv, InstallTypeOK, StagingIsReclaimed
<1> QED
  BY <1>1, <1>2, NoHostAssumption DEF InstallInv

\* The package is refused at once, or its installation starts.
LEMMA PrecheckStep ==
    ASSUME InstallInv, NEW h \in Hosts, Precheck(h), plan.kind = "install"
    PROVE  InstallInv'
<1> DEFINE i == [Quiet EXCEPT !.step = "checked"]
<1>1. CASE inst' = inst
  BY <1>1, StutterStep DEF Precheck, vars, InstallInv, InstallTypeOK
<1>2. CASE inst' = [inst EXCEPT ![h] = i]
  <2>1. i \in Activities /\ i.step = "checked" /\ i.kind = "install"
    BY DEF Quiet, Activities, Preparing
  <2>2. inst[h].step = "idle" /\ inst[h] = Quiet /\ staging[h] \in Stagings
        /\ staging' = [staging EXCEPT ![h] = staging[h]] /\ inst'[h] = i
    BY <1>2 DEF Precheck, InstallInv, InstallTypeOK, StepsMatch
  <2>3. PackageIsChecked(h)' /\ StagingIsKnown(h)'
    BY <2>1, <2>2 DEF PackageIsChecked, StagingIsKnown, InstallInv,
                      InstallTypeOK, Preparing
  <2> HIDE DEF i
  <2>4. i.step \in Preparing \ {"activating"} /\ inst[h].kind = "install"
        /\ inst[h].step \notin InTransaction
    BY <2>1, <2>2 DEF Quiet, InTransaction, Preparing
  <2> QED
    BY <1>2, <2>1, <2>2, <2>3, <2>4, PreparationStep DEF Precheck
<1> QED
  BY <1>1, <1>2 DEF Precheck

\* The package file is copied.
LEMMA StagePackageStep ==
    ASSUME InstallInv, NEW h \in Hosts, NEW made, StagePackage(h, made),
           plan.kind = "install"
    PROVE  InstallInv'
<1> DEFINE i == [inst[h] EXCEPT !.step = "staged", !.package = source]
           s == [staging[h] EXCEPT !.exists = TRUE]
<1>1. inst[h].step = "checked" /\ inst[h].kind = "install"
  BY DEF StagePackage, InstallInv, StepsMatch, Preparing
<1>2. CASE Fail(h)
  BY <1>1, <1>2, StagingIsFit, FailStep
     DEF Fail, StagePackage, vars, InstallInv, InstallTypeOK
<1>3. CASE /\ inst' = [inst EXCEPT ![h] = i] /\ staging' = [staging EXCEPT ![h] = s]
           /\ UNCHANGED litter
  <2>1. source \in AllPackages
    BY DEF InstallInv, InstallTypeOK, AllPackages
  <2>2. i \in Activities /\ i.step = "staged" /\ i.package = source
        /\ i.kind = "install"
    BY <1>1, <2>1 DEF InstallInv, InstallTypeOK, Activities, Preparing
  <2>3. s \in Stagings /\ s.candidate = staging[h].candidate
        /\ s.expects = staging[h].expects
    BY DEF InstallInv, InstallTypeOK, Stagings
  <2> HIDE DEF i, s
  <2>4. inst'[h] = i /\ staging'[h] = s
    BY <1>3 DEF InstallInv, InstallTypeOK
  <2>5. PackageIsChecked(h)' /\ StagingIsKnown(h)'
    BY <1>1, <2>1, <2>2, <2>3, <2>4
       DEF PackageIsChecked, StagingIsKnown, InstallInv, Preparing
  <2> QED
    BY <1>1, <1>3, <2>2, <2>3, <2>5, PreparationStep
       DEF StagePackage, InTransaction, Preparing
<1> QED
  BY <1>2, <1>3 DEF StagePackage, InstallInv, InstallTypeOK

\* The copy is verified.
LEMMA VerifyPackageStep ==
    ASSUME InstallInv, NEW h \in Hosts, VerifyPackage(h), plan.kind = "install"
    PROVE  InstallInv'
<1> DEFINE i == [inst[h] EXCEPT !.step = "verified"]
           s == setAuthenticatedSnapshot(staging[h])
<1>1. inst[h].step = "staged" /\ inst[h].kind = "install"
      /\ inst[h].package \in AllPackages
  BY DEF VerifyPackage, InstallInv, StepsMatch, PackageIsChecked, Preparing
<1>2. s \in Stagings /\ s.candidate = staging[h].candidate /\ s.expects = "all"
      /\ s.damage = staging[h].damage
  BY DEF InstallInv, InstallTypeOK, Stagings, setAuthenticatedSnapshot
<1>3. staging[h] \in Stagings /\ staging[h].candidate # "sealed"
      /\ (staging[h].candidate # "none" => staging[h].expects = "all")
  BY <1>1, StagingIsFit
<1> HIDE DEF s
<1>4. CASE Fail(h)
  BY <1>3, <1>4, FailStep
     DEF Fail, VerifyPackage, vars, InstallInv, InstallTypeOK
<1>5. CASE inst' = [inst EXCEPT ![h] = Quiet] /\ Return(h, s)
  BY <1>2, <1>3, <1>5, FailStep
     DEF VerifyPackage, vars, InstallInv, InstallTypeOK
<1>6. CASE /\ policyAccepts(inst[h].package)
           /\ inst' = [inst EXCEPT ![h] = i] /\ staging' = [staging EXCEPT ![h] = s]
           /\ UNCHANGED litter
  <2>1. i \in Activities /\ i.step = "verified" /\ i.package = inst[h].package
        /\ i.kind = "install"
    BY <1>1 DEF InstallInv, InstallTypeOK, Activities, Preparing
  <2> HIDE DEF i
  <2>2. inst'[h] = i /\ staging'[h] = s
    BY <1>6 DEF InstallInv, InstallTypeOK
  <2>3. PackageIsChecked(h)' /\ StagingIsKnown(h)'
    BY <1>1, <1>2, <1>3, <1>6, <2>1, <2>2
       DEF PackageIsChecked, StagingIsKnown, Preparing
  <2> QED
    BY <1>1, <1>2, <1>6, <2>1, <2>3, PreparationStep
       DEF VerifyPackage, InTransaction, Preparing
<1> QED
  BY <1>4, <1>5, <1>6 DEF VerifyPackage, InstallInv, InstallTypeOK, s

\* A step of the preparation that changes at most the state of the candidate.
LEMMA CandidateStep ==
    ASSUME InstallInv, NEW h \in Hosts, plan.kind = "install",
           inst[h].step \in Preparing \ {"checked", "staged", "sealed",
                                         "activating"},
           NEW step \in Preparing \ {"checked", "staged", "activating"},
           NEW s \in Stagings, s.expects = "all",
           s.damage = staging[h].damage,
           s.candidate = "sealed" => step = "sealed",
           inst' = [inst EXCEPT ![h].step = step],
           staging' = [staging EXCEPT ![h] = s],
           step \in {"verified", "preflighted", "extracted", "compared", "sealed"}
             => policyAccepts(inst[h].package),
           step \in {"preflighted", "extracted", "compared", "sealed"}
             => inst[h].package.flaws \cap {"entry point", "preflight"} = {},
           step \in {"compared", "sealed"} => "altered" \notin staging[h].damage,
           UNCHANGED <<vars, plan, source, litter, content, seal>>
    PROVE  InstallInv'
<1> DEFINE i == [inst[h] EXCEPT !.step = step]
<1>1. inst[h].kind = "install" /\ inst[h].package \in AllPackages
      /\ inst[h].step # "idle"
      /\ inst[h].step \notin InTransaction
  BY DEF InstallInv, StepsMatch, PackageIsChecked, StagingIsKnown, Preparing,
         InTransaction
<1>2. i \in Activities /\ i.step = step /\ i.package = inst[h].package
      /\ i.kind = "install"
  BY <1>1 DEF InstallInv, InstallTypeOK, Activities
<1>3. inst' = [inst EXCEPT ![h] = i]
  BY DEF InstallInv, InstallTypeOK
<1> HIDE DEF i
<1>4. inst'[h] = i /\ staging'[h] = s
  BY <1>3 DEF InstallInv, InstallTypeOK
<1>5. PackageIsChecked(h)' /\ StagingIsKnown(h)'
  BY <1>1, <1>2, <1>4 DEF PackageIsChecked, StagingIsKnown
<1> QED
  BY <1>1, <1>2, <1>3, <1>5, PreparationStep

\* The preflight passes only what it finds no flaw in.
LEMMA RunPreflightStep ==
    ASSUME InstallInv, NEW h \in Hosts, NEW written, RunPreflight(h, written),
           plan.kind = "install"
    PROVE  InstallInv'
<1>1. inst[h].step = "verified" /\ staging[h] \in Stagings
      /\ staging[h].candidate # "sealed" /\ policyAccepts(inst[h].package)
      /\ (staging[h].candidate # "none" => staging[h].expects = "all")
  BY StagingIsFit DEF RunPreflight, InstallInv, PackageIsChecked
<1>2. CASE Fail(h)
  BY <1>1, <1>2, FailStep
     DEF Fail, RunPreflight, vars, InstallInv, InstallTypeOK
<1>3. CASE ~Fail(h)
  <2>1. staging' = [staging EXCEPT ![h] = staging[h]]
        /\ staging[h].expects = "all"
    BY <1>1, <1>3 DEF RunPreflight, InstallInv, InstallTypeOK, StagingIsKnown,
                      Preparing
  <2> QED
    BY <1>1, <1>3, <2>1, CandidateStep DEF RunPreflight, Preparing
<1> QED
  BY <1>2, <1>3

\* The candidate is written.
LEMMA ExtractCandidateStep ==
    ASSUME InstallInv, NEW h \in Hosts, NEW written,
           ExtractCandidate(h, written), plan.kind = "install"
    PROVE  InstallInv'
<1>1. inst[h].step = "preflighted" /\ staging[h] \in Stagings
      /\ staging[h].candidate # "sealed" /\ policyAccepts(inst[h].package)
      /\ inst[h].package.flaws \cap {"entry point", "preflight"} = {}
      /\ (staging[h].candidate # "none" => staging[h].expects = "all")
  BY StagingIsFit DEF ExtractCandidate, InstallInv, PackageIsChecked
<1>2. CASE Fail(h)
  BY <1>1, <1>2, FailStep
     DEF Fail, ExtractCandidate, vars, InstallInv, InstallTypeOK
<1>3. CASE ~Fail(h)
  <2> DEFINE s == [staging[h] EXCEPT !.candidate = "plain"]
  <2>1. s \in Stagings /\ s.expects = "all" /\ s.damage = staging[h].damage
        /\ s.candidate = "plain"
    BY <1>1 DEF InstallInv, StagingIsKnown, Stagings, Preparing
  <2>2. staging' = [staging EXCEPT ![h] = s]
    BY <1>3 DEF ExtractCandidate, InstallInv, InstallTypeOK
  <2> HIDE DEF s
  <2> QED
    BY <1>1, <1>3, <2>1, <2>2, CandidateStep DEF ExtractCandidate, Preparing
<1> QED
  BY <1>2, <1>3

\* A candidate that was altered is not compared successfully.
LEMMA CompareCandidateStep ==
    ASSUME InstallInv, NEW h \in Hosts, CompareCandidate(h),
           plan.kind = "install"
    PROVE  InstallInv'
<1>1. inst[h].step = "extracted" /\ staging[h] \in Stagings
      /\ staging[h].candidate # "sealed" /\ policyAccepts(inst[h].package)
      /\ inst[h].package.flaws \cap {"entry point", "preflight"} = {}
      /\ (staging[h].candidate # "none" => staging[h].expects = "all")
  BY StagingIsFit DEF CompareCandidate, InstallInv, PackageIsChecked
<1>2. CASE Fail(h)
  BY <1>1, <1>2, FailStep
     DEF Fail, CompareCandidate, vars, InstallInv, InstallTypeOK
<1>3. CASE ~Fail(h)
  <2>1. staging' = [staging EXCEPT ![h] = staging[h]]
        /\ staging[h].expects = "all"
    BY <1>1, <1>3 DEF CompareCandidate, InstallInv, InstallTypeOK, StagingIsKnown,
                      Preparing
  <2> QED
    BY <1>1, <1>3, <2>1, CandidateStep
       DEF CompareCandidate, Preparing, candidateMatches
<1> QED
  BY <1>2, <1>3

\* Nobody can alter the candidate while it is sealed.
LEMMA SealCandidateStep ==
    ASSUME InstallInv, NEW h \in Hosts, NEW denied, SealCandidate(h, denied),
           plan.kind = "install"
    PROVE  InstallInv'
<1>1. inst[h].step = "compared" /\ staging[h] \in Stagings
      /\ staging[h].candidate # "sealed" /\ policyAccepts(inst[h].package)
      /\ inst[h].package.flaws \cap {"entry point", "preflight"} = {}
      /\ (staging[h].candidate # "none" => staging[h].expects = "all")
      /\ "altered" \notin staging[h].damage
  BY StagingIsFit DEF SealCandidate, InstallInv, PackageIsChecked, StagingIsKnown
<1>2. CASE Fail(h)
  BY <1>1, <1>2, FailStep
     DEF Fail, SealCandidate, vars, InstallInv, InstallTypeOK
<1>3. CASE ~Fail(h)
  <2> DEFINE s == sealHandleMutations(staging[h])
  <2>1. s \in Stagings /\ s.expects = "all" /\ s.damage = staging[h].damage
        /\ s.candidate = "sealed"
    BY <1>1 DEF InstallInv, StagingIsKnown, Stagings, Preparing,
                sealHandleMutations
  <2>2. staging' = [staging EXCEPT ![h] = s]
    BY <1>3 DEF SealCandidate, InstallInv, InstallTypeOK
  <2> HIDE DEF s
  <2> QED
    BY <1>1, <1>3, <2>1, <2>2, CandidateStep DEF SealCandidate, Preparing
<1> QED
  BY <1>2, <1>3

\* The published version is looked at once more.
LEMMA VerifyPublishedStep ==
    ASSUME InstallInv, NEW h \in Hosts, VerifyPublished(h),
           plan.kind = "install"
    PROVE  InstallInv'
<1>1. inst[h].step = "published" /\ staging[h] \in Stagings
      /\ staging[h].candidate # "sealed"
      /\ (staging[h].candidate # "none" => staging[h].expects = "all")
  BY StagingIsFit DEF VerifyPublished
<1>2. CASE Fail(h)
  BY <1>1, <1>2, FailStep
     DEF Fail, VerifyPublished, vars, InstallInv, InstallTypeOK
<1>3. CASE ~Fail(h)
  <2>1. staging' = [staging EXCEPT ![h] = staging[h]]
        /\ staging[h].expects = "all"
    BY <1>1, <1>3 DEF VerifyPublished, InstallInv, InstallTypeOK, StagingIsKnown,
                      Preparing
  <2> QED
    BY <1>1, <1>3, <2>1, CandidateStep DEF VerifyPublished, Preparing
<1> QED
  BY <1>2, <1>3

\* An error that may find a guard: a guard that was handed in is kept.
LEMMA InvalidStep ==
    ASSUME InstallInv, NEW h \in Hosts, Invalid(h),
           inst[h].step \notin {"idle", "sealed"}, txn'[h].step = "idle",
           \A k \in Hosts : k # h => txn'[k] = txn[k],
           UNCHANGED <<held, plan, source, content, present>>
    PROVE  InstallInv'
<1>1. CASE inst[h].kind = "recheck"
  <2> DEFINE i == [inst[h] EXCEPT !.step = "running", !.kind = "launch"]
  <2>1. i \in Activities /\ i.step = "running" /\ i.kind = "launch"
    BY DEF InstallInv, InstallTypeOK, Activities, Guarding
  <2>2. inst' = [inst EXCEPT ![h] = i] /\ UNCHANGED <<staging, litter, seal>>
    BY <1>1 DEF Invalid, InstallInv, InstallTypeOK
  <2> HIDE DEF i
  <2>3. inst'[h] = i /\ staging' = [staging EXCEPT ![h] = staging[h]]
    BY <2>2 DEF InstallInv, InstallTypeOK
  <2>4. StepsMatch(h)'
    BY <1>1, <2>1, <2>3
       DEF StepsMatch, InstallInv, InTransaction, Preparing, Quiet
  <2>5. PackageIsChecked(h)' /\ StagingIsKnown(h)'
    BY <2>1, <2>2, <2>3
       DEF PackageIsChecked, StagingIsKnown, InstallInv, Preparing
  <2>6. Target(h)' = Target(h) /\ GuardHolds(h)
        /\ HasLocked(h) /\ HasSealed(h) /\ HasAuthenticated(h)
    BY <1>1, <2>1, <2>3
       DEF Target, HasLocked, HasSealed, HasAuthenticated, InstallInv
  <2>7. GuardHolds(h)'
    BY <2>2, <2>6 DEF GuardHolds
  <2> QED
    BY <2>1, <2>2, <2>3, <2>4, <2>5, <2>7, AdvanceStep
       DEF InstallInv, InstallTypeOK
<1>2. CASE inst[h].kind # "recheck"
  <2>1. Fail(h)
        /\ seal' = [v \in Versions |-> IF seal[v] = h THEN NoHost ELSE seal[v]]
    BY <1>2 DEF Invalid
  <2>2. seal' \in [Versions -> Hosts \cup {NoHost, Orphan}]
        /\ \A v \in Versions : seal[v] \in Hosts \ {h} => seal'[v] = seal[v]
    BY <2>1 DEF InstallInv, InstallTypeOK
  <2> QED
    BY <2>1, <2>2, StagingIsFit, FailStep DEF Fail
<1> QED
  BY <1>1, <1>2

\* What is left to show of a verification that goes on.
LEMMA VerificationStep ==
    ASSUME InstallInv, NEW h \in Hosts, NEW i \in Activities,
           inst[h].step # "sealed",
           \/ i.step \in Verifying \cup Guarding \cup {"idle"}
           \/ i.step = "activating" /\ i.package = inst[h].package
              /\ inst[h].step = "committed",
           inst' = [inst EXCEPT ![h] = i],
           UNCHANGED <<plan, source, staging, litter, content, present>>,
           \A k \in Hosts : k # h => txn'[k] = txn[k] /\ held'[k] = held[k],
           seal' \in [Versions -> Hosts \cup {NoHost, Orphan}],
           \A v \in Versions : seal[v] \in Hosts \ {h} => seal'[v] = seal[v],
           StepsMatch(h)', GuardHolds(h)'
    PROVE  InstallInv'
<1>1. inst'[h] = i /\ staging' = [staging EXCEPT ![h] = staging[h]]
      /\ staging[h] \in Stagings
  BY DEF InstallInv, InstallTypeOK
<1>2. PackageIsChecked(h)' /\ StagingIsKnown(h)'
  BY <1>1 DEF PackageIsChecked, StagingIsKnown, InstallInv, Preparing,
              Verifying, Guarding
<1> QED
  BY <1>1, <1>2, AdvanceStep DEF InstallInv, InstallTypeOK

\* A transaction of the store begins where an installation needs it.
LEMMA BeginTransactionStep ==
    ASSUME InstallInv, NEW h \in Hosts, BeginTransaction(h), IInv
    PROVE  InstallInv'
<1>1. PICK step \in InTransaction :
         /\ inst' = [inst EXCEPT ![h].step = step]
         /\ \/ inst[h].step = "committed" /\ step = "activating"
            \/ inst[h].step = "activated" /\ step = "comparing"
               /\ txn'[h].op = "compare"
            \/ inst[h].step = "authenticated" /\ step = "recomparing"
               /\ txn'[h].op = "compare"
         /\ \A k \in Hosts : k # h => txn'[k] = txn[k]
         /\ txn'[h].step = "loaded"
         /\ UNCHANGED <<held, present>>
  BY DEF BeginTransaction, BeginActivate, BeginOther, Load, InTransaction,
         IInv, RecordIsSound, TypeOK
<1> DEFINE i == [inst[h] EXCEPT !.step = step]
<1>2. i \in Activities /\ i.step = step /\ i.kind = inst[h].kind
      /\ i.package = inst[h].package
  BY <1>1 DEF InstallInv, InstallTypeOK, Activities, InTransaction, Preparing,
              Verifying, Guarding
<1>3. inst' = [inst EXCEPT ![h] = i]
  BY <1>1 DEF InstallInv, InstallTypeOK
<1> HIDE DEF i
<1>4. inst'[h] = i
  BY <1>3 DEF InstallInv, InstallTypeOK
<1>5. UNCHANGED <<plan, source, staging, litter, content, seal>>
  BY DEF BeginTransaction
<1>6. StepsMatch(h)'
  BY <1>1, <1>2, <1>4, <1>5 DEF StepsMatch, InstallInv, InTransaction, Preparing,
                                Rechecking, Quiet
<1>7. Target(h)' = Target(h)
  BY <1>1, <1>2, <1>4 DEF Target
<1>8. GuardHolds(h)'
  BY <1>1, <1>2, <1>4, <1>5, <1>7
     DEF GuardHolds, HasLocked, HasSealed, HasAuthenticated, InstallInv, Guarding
<1> QED
  BY <1>1, <1>2, <1>3, <1>5, <1>6, <1>8, VerificationStep
     DEF InstallInv, InstallTypeOK, Verifying, Guarding, InTransaction

\* The lock could not be had.
LEMMA LockTimesOutStep ==
    ASSUME InstallInv, NEW h \in Hosts, LockTimesOut(h)
    PROVE  InstallInv'
<1>1. txn[h].step = "idle"
  BY DEF LockTimesOut, InstallInv, StepsMatch, InTransaction
<1> QED
  BY <1>1, InvalidStep DEF LockTimesOut, vars

\* The transaction of h goes on, or starts while h does nothing else.
LEMMA OwnTransactionStep ==
    ASSUME InstallInv, NEW h \in Hosts, UNCHANGED installVars,
           \A k \in Hosts : k # h => txn'[k] = txn[k],
           UNCHANGED <<held, present>>,
           \/ inst[h].step = "idle"
           \/ txn[h].step # "idle" /\ txn'[h].step # "idle"
              /\ txn'[h].op = txn[h].op
    PROVE  InstallInv'
<1>1. UNCHANGED <<plan, source, inst, staging, litter, content, seal>>
  BY DEF installVars
<1>2. StepsMatch(h)'
  BY <1>1 DEF StepsMatch, InstallInv
<1>3. GuardHolds(h)' /\ PackageIsChecked(h)' /\ StagingIsKnown(h)'
  BY <1>1 DEF GuardHolds, HasLocked, HasSealed, HasAuthenticated, InstallInv,
              Target, PackageIsChecked, StagingIsKnown
<1>4. inst[h] \in Activities /\ inst' = [inst EXCEPT ![h] = inst[h]]
      /\ staging[h] \in Stagings /\ staging' = [staging EXCEPT ![h] = staging[h]]
  BY <1>1 DEF InstallInv, InstallTypeOK
<1> QED
  BY <1>1, <1>2, <1>3, <1>4, AdvanceStep DEF InstallInv, InstallTypeOK

\* The transaction of h decides.
LEMMA WriteTransactionStep ==
    ASSUME InstallInv, IInv, NEW h \in Hosts, NEW ok \in BOOLEAN,
           WriteTransaction(h, ok)
    PROVE  InstallInv'
<1>1. Write(h, ok) /\ UNCHANGED installVars
  BY DEF WriteTransaction
<1>2. /\ \A k \in Hosts \ {h} : txn'[k] = txn[k]
      /\ txn[h].step = "loaded" /\ txn'[h].step = "written"
      /\ txn'[h].op = txn[h].op
  BY <1>1, WriteFrame
<1>3. UNCHANGED <<held, present>>
  BY <1>1 DEF Write
<1> QED
  BY <1>1, <1>2, <1>3, OwnTransactionStep

\* A Host that does nothing else uses the record.
LEMMA UseRecordStep ==
    ASSUME InstallInv, IInv, NEW h \in Hosts, NEW op, UseRecord(h, op)
    PROVE  InstallInv'
<1>1. /\ \A k \in Hosts : k # h => txn'[k] = txn[k]
      /\ inst[h].step = "idle" /\ UNCHANGED <<held, present>>
      /\ UNCHANGED installVars
  BY DEF UseRecord, BeginOther, Load, IInv, RecordIsSound, TypeOK
<1> QED
  BY <1>1, OwnTransactionStep

\* A comparison that succeeds leaves the Host with the binding it had, so the
\* version it verifies stays the same.
LEMMA FinishTransactionStep ==
    ASSUME InstallInv, IInv, NEW h \in Hosts, FinishTransaction(h)
    PROVE  InstallInv'
<1>1. /\ txn[h].step = "written" /\ txn'[h].step = "idle"
      /\ \A k \in Hosts : k # h => txn'[k] = txn[k] /\ held'[k] = held[k]
      /\ UNCHANGED <<plan, source, content, present>>
  BY DEF FinishTransaction, Finish, Idle, IInv, RecordIsSound, TypeOK
<1>2. /\ ~txn[h].result.ok => held' = held
      /\ txn[h].op = "compare" /\ txn[h].result.ok => held'[h] = held[h]
  <2>1. held \in [Hosts -> Bindings \cup {NoBinding}] /\ CompareConfirms
    BY DEF IInv, RecordIsSound, TypeOK
  <2> QED
    BY <1>1, <2>1 DEF FinishTransaction, Finish, CompareConfirms
<1>3. CASE inst[h].step # "idle" /\ ~txn[h].result.ok
  <2>1. Invalid(h)
    BY <1>3 DEF FinishTransaction
  <2>2. inst[h].step # "sealed"
    BY <1>1, <1>3 DEF InstallInv, StepsMatch, InTransaction
  <2> QED
    BY <1>1, <1>2, <1>3, <2>1, <2>2, InvalidStep
<1>4. CASE inst[h].step = "idle"
  <2>1. inst[h] = Quiet /\ afterTransaction(h) = "idle"
    BY <1>4 DEF InstallInv, StepsMatch, afterTransaction
  <2>2. inst' = [inst EXCEPT ![h].step = "idle"] /\ UNCHANGED <<staging, litter, seal>>
    BY <1>4, <2>1 DEF FinishTransaction
  <2>3. inst' = [inst EXCEPT ![h] = Quiet] /\ inst'[h] = Quiet
        /\ Quiet \in Activities
    <3>1. [Quiet EXCEPT !.step = "idle"] = Quiet /\ Quiet \in Activities
      BY DEF Quiet, Activities
    <3> QED
      BY <2>1, <2>2, <3>1 DEF InstallInv, InstallTypeOK
  <2>4. StepsMatch(h)' /\ GuardHolds(h)'
    BY <2>3 DEF StepsMatch, GuardHolds, HasLocked, HasSealed, HasAuthenticated,
                Quiet, InTransaction, Preparing, Guarding
  <2> QED
    BY <1>1, <1>4, <2>2, <2>3, <2>4, VerificationStep
       DEF Quiet, InstallInv, InstallTypeOK
<1>5. CASE inst[h].step # "idle" /\ txn[h].result.ok
  <2> DEFINE step == afterTransaction(h)
             i == [inst[h] EXCEPT !.step = step]
  <2>1. inst[h].step \in InTransaction /\ StepsMatch(h) /\ PackageIsChecked(h)
        /\ GuardHolds(h)
    BY <1>1, <1>5 DEF InstallInv, StepsMatch
  <2>2. \/ inst[h].step = "activating" /\ step = "activated"
           /\ inst[h].kind = "install"
        \/ inst[h].step = "comparing" /\ step = "guarded"
           /\ inst[h].kind = "recheck"
        \/ inst[h].step = "comparing" /\ step = "bound"
           /\ inst[h].kind # "recheck"
        \/ inst[h].step = "recomparing" /\ step = "rebound"
    BY <2>1 DEF afterTransaction, InTransaction, StepsMatch, Preparing
  <2>3. inst' = [inst EXCEPT ![h] = i] /\ UNCHANGED <<staging, litter, seal>>
    BY <1>5 DEF FinishTransaction, InstallInv, InstallTypeOK
  <2> HIDE DEF step
  <2>4. i \in Activities /\ i.step = step /\ i.kind = inst[h].kind
        /\ i.package = inst[h].package
    BY <2>2 DEF InstallInv, InstallTypeOK, Activities, Verifying, Guarding
  <2> HIDE DEF i
  <2>5. inst'[h] = i
    BY <2>3 DEF InstallInv, InstallTypeOK
  <2>6. StepsMatch(h)'
    BY <1>1, <2>1, <2>2, <2>4, <2>5
       DEF StepsMatch, InTransaction, Preparing, Rechecking, Quiet
  <2>7. i.kind = "install" \/ held'[h] = held[h]
    BY <1>2, <1>5, <2>1, <2>2, <2>4 DEF StepsMatch
  <2>8. Target(h)' = Target(h)
    BY <2>4, <2>5, <2>7 DEF Target
  <2>9. GuardHolds(h)'
    BY <1>1, <2>1, <2>2, <2>3, <2>4, <2>5, <2>8
       DEF GuardHolds, HasLocked, HasSealed, HasAuthenticated, Guarding
  <2> QED
    BY <1>1, <2>2, <2>3, <2>4, <2>6, <2>9, VerificationStep
       DEF InstallInv, InstallTypeOK, Verifying, Guarding
<1> QED
  BY <1>3, <1>4, <1>5

\* A launch starts from the version its Host selected.
LEMMA BeginLaunchStep ==
    ASSUME InstallInv, NEW h \in Hosts, BeginLaunch(h), plan.kind = "install"
    PROVE  InstallInv'
<1> DEFINE i == [Quiet EXCEPT !.step = "activated", !.kind = "launch"]
<1>1. i \in Activities /\ i.step = "activated" /\ i.kind = "launch"
  BY DEF Quiet, Activities, Verifying
<1>2. inst' = [inst EXCEPT ![h] = i] /\ inst'[h] = i
  BY DEF BeginLaunch, InstallInv, InstallTypeOK
<1> HIDE DEF i
<1>3. /\ UNCHANGED <<txn, held, present, plan, source, staging, litter, content, seal>>
      /\ inst[h].step = "idle" /\ txn[h].step = "idle"
  BY DEF BeginLaunch, vars
<1>4. StepsMatch(h)' /\ GuardHolds(h)'
  BY <1>1, <1>2, <1>3
     DEF StepsMatch, GuardHolds, HasLocked, HasSealed, HasAuthenticated,
         InTransaction, Preparing, Guarding
<1> QED
  BY <1>1, <1>2, <1>3, <1>4, VerificationStep
     DEF InstallInv, InstallTypeOK, Verifying

\* The files are opened, and the version cannot go any more.
LEMMA LockInstalledStep ==
    ASSUME InstallInv, NEW h \in Hosts, NEW opened, LockInstalled(h, opened)
    PROVE  InstallInv'
<1> DEFINE i == [inst[h] EXCEPT !.step = "locked",
                                !.members = content[Target(h)].damage \ {"altered"}]
<1>0. /\ UNCHANGED <<txn, held, present, plan, source, content>>
      /\ inst[h].step = "bound" /\ StepsMatch(h) /\ GuardHolds(h)
      /\ inst[h].kind # "recheck"
  BY DEF LockInstalled, vars, InstallInv, StepsMatch, Rechecking
<1>1. CASE Invalid(h)
  <2>1. txn[h].step = "idle"
    BY <1>0 DEF StepsMatch, InTransaction
  <2> QED
    BY <1>0, <1>1, <2>1, InvalidStep
<1>2. CASE /\ Target(h) \in present
           /\ inst' = [inst EXCEPT ![h].step = "locked",
                         ![h].members = content[Target(h)].damage \ {"altered"}]
           /\ UNCHANGED <<staging, litter, seal>>
  <2>1. content[Target(h)].damage \in SUBSET {"altered", "member"}
    BY <1>2 DEF InstallInv, InstallTypeOK, Contents
  <2>2. i \in Activities /\ i.step = "locked" /\ i.kind = inst[h].kind
        /\ i.package = inst[h].package
    BY <2>1 DEF InstallInv, InstallTypeOK, Activities, Verifying
  <2>3. inst' = [inst EXCEPT ![h] = i]
    BY <1>2 DEF InstallInv, InstallTypeOK
  <2> HIDE DEF i
  <2>4. inst'[h] = i
    BY <2>3 DEF InstallInv, InstallTypeOK
  <2>5. StepsMatch(h)'
    BY <1>0, <2>2, <2>4 DEF StepsMatch, InTransaction, Preparing, Quiet
  <2>6. Target(h)' = Target(h)
    BY <1>0, <2>2, <2>4 DEF Target
  <2>7. GuardHolds(h)'
    BY <1>0, <1>2, <2>2, <2>4, <2>6
       DEF GuardHolds, HasLocked, HasSealed, HasAuthenticated, Guarding
  <2> QED
    BY <1>0, <1>2, <2>2, <2>3, <2>5, <2>7, VerificationStep
       DEF InstallInv, InstallTypeOK, Verifying
<1> QED
  BY <1>1, <1>2 DEF LockInstalled

\* A directory is sealed only when no other guard has sealed it.
LEMMA SealStep ==
    ASSUME InstallInv, NEW h \in Hosts, sealImmutableDirectoryMembership(h)
    PROVE  InstallInv'
<1> DEFINE i == [inst[h] EXCEPT !.step = "guarded"]
<1>0. /\ UNCHANGED <<txn, held, present, plan, source, content>>
      /\ inst[h].step = "locked" /\ StepsMatch(h) /\ GuardHolds(h)
      /\ inst[h].kind # "recheck" /\ Target(h) \in present
  BY DEF sealImmutableDirectoryMembership, vars, InstallInv, StepsMatch,
         Rechecking, GuardHolds, HasLocked
<1>1. CASE Invalid(h)
  <2>1. txn[h].step = "idle"
    BY <1>0 DEF StepsMatch, InTransaction
  <2> QED
    BY <1>0, <1>1, <2>1, InvalidStep
<1>2. CASE /\ seal[Target(h)] = NoHost
           /\ seal' = [seal EXCEPT ![Target(h)] = h]
           /\ inst' = [inst EXCEPT ![h].step = "guarded"]
           /\ UNCHANGED <<staging, litter>>
  <2>1. i \in Activities /\ i.step = "guarded" /\ i.kind = inst[h].kind
        /\ i.package = inst[h].package
    BY DEF InstallInv, InstallTypeOK, Activities, Guarding
  <2>2. inst' = [inst EXCEPT ![h] = i]
    BY <1>2 DEF InstallInv, InstallTypeOK
  <2> HIDE DEF i
  <2>3. inst'[h] = i
    BY <2>2 DEF InstallInv, InstallTypeOK
  <2>4. /\ seal' \in [Versions -> Hosts \cup {NoHost, Orphan}]
        /\ \A v \in Versions : seal[v] \in Hosts \ {h} => seal'[v] = seal[v]
        /\ seal'[Target(h)] = h
    BY <1>0, <1>2, NoHostAssumption DEF InstallInv, InstallTypeOK
  <2>5. StepsMatch(h)'
    BY <1>0, <2>1, <2>3 DEF StepsMatch, InTransaction, Preparing, Quiet
  <2>6. Target(h)' = Target(h)
    BY <1>0, <2>1, <2>3 DEF Target
  <2>7. GuardHolds(h)'
    BY <1>0, <2>1, <2>3, <2>4, <2>6
       DEF GuardHolds, HasLocked, HasSealed, HasAuthenticated, Guarding
  <2> QED
    BY <1>0, <1>2, <2>1, <2>2, <2>4, <2>5, <2>7, VerificationStep
       DEF InstallInv, InstallTypeOK, Guarding
<1> QED
  BY <1>1, <1>2 DEF sealImmutableDirectoryMembership

\* The members that were listed before the directory was sealed are the ones
\* in it, and none of them is a stranger: the version is authentic.
LEMMA VerifyStep ==
    ASSUME InstallInv, NEW h \in Hosts, verifyInstalledImmutable(h)
    PROVE  InstallInv'
<1> DEFINE i == [inst[h] EXCEPT !.step = "authenticated"]
           c == content[Target(h)]
<1>0. /\ UNCHANGED <<txn, held, present, plan, source, content>>
      /\ inst[h].step = "guarded" /\ StepsMatch(h) /\ GuardHolds(h)
      /\ HasLocked(h) /\ HasSealed(h)
  BY DEF verifyInstalledImmutable, vars, InstallInv, HasLocked, HasSealed,
         Guarding
<1>1. CASE Invalid(h)
  <2>1. txn[h].step = "idle"
    BY <1>0 DEF StepsMatch, InTransaction
  <2> QED
    BY <1>0, <1>1, <2>1, InvalidStep
<1>2. CASE /\ currentMembersMatch(h)
           /\ validateInstalledFiles(
                [c EXCEPT !.damage = (@ \cap {"altered"}) \cup inst[h].members],
                Target(h))
           /\ inst' = [inst EXCEPT ![h].step = "authenticated"]
           /\ UNCHANGED <<staging, litter, seal>>
  <2>1. i \in Activities /\ i.step = "authenticated" /\ i.kind = inst[h].kind
        /\ i.package = inst[h].package
    BY DEF InstallInv, InstallTypeOK, Activities, Guarding
  <2>2. inst' = [inst EXCEPT ![h] = i]
    BY <1>2 DEF InstallInv, InstallTypeOK
  <2> HIDE DEF i
  <2>3. inst'[h] = i
    BY <2>2 DEF InstallInv, InstallTypeOK
  <2>4. StepsMatch(h)'
    BY <1>0, <2>1, <2>3
       DEF StepsMatch, InTransaction, Preparing, Rechecking, Quiet
  <2>5. Target(h)' = Target(h)
    BY <1>0, <2>1, <2>3 DEF Target
  <2>6. c \in Contents
    BY <1>0 DEF GuardHolds, InstallInv, InstallTypeOK
  <2>7. (c.damage \cap {"altered"}) \cup inst[h].members = {}
        /\ c.package.version = Target(h)
    BY <1>2, <2>6 DEF validateInstalledFiles, Contents
  <2>8. c.damage \ {"altered"} = inst[h].members
    BY <1>2 DEF currentMembersMatch
  <2>9. c.damage = {}
    BY <2>7, <2>8
  <2>10. GuardHolds(h)'
    BY <1>0, <1>2, <2>5, <2>7, <2>9 DEF GuardHolds
  <2> QED
    BY <1>0, <1>2, <2>1, <2>2, <2>4, <2>10, VerificationStep
       DEF InstallInv, InstallTypeOK, Guarding
<1> QED
  BY <1>1, <1>2 DEF verifyInstalledImmutable

\* A guard is kept for the Worker, and handed in again.
LEMMA KeepGuardStep ==
    ASSUME InstallInv, NEW h \in Hosts, KeepGuard(h) \/ BeginRecheck(h)
    PROVE  InstallInv'
<1>1. PICK step \in {"running", "activated"}, kind \in {"launch", "recheck"} :
         /\ inst' = [inst EXCEPT ![h].step = step, ![h].kind = kind]
         /\ \/ inst[h].step = "rebound" /\ inst[h].kind # "install"
               /\ step = "running" /\ kind = "launch"
            \/ inst[h].step = "running" /\ step = "activated" /\ kind = "recheck"
  BY DEF KeepGuard, BeginRecheck
<1>2. UNCHANGED <<txn, held, present, plan, source, staging, litter, content, seal>>
  BY DEF KeepGuard, BeginRecheck, vars
<1> DEFINE i == [inst[h] EXCEPT !.step = step, !.kind = kind]
<1>3. i \in Activities /\ i.step = step /\ i.kind = kind
  BY DEF InstallInv, InstallTypeOK, Activities, Guarding, Verifying
<1>4. inst' = [inst EXCEPT ![h] = i]
  BY <1>1 DEF InstallInv, InstallTypeOK
<1> HIDE DEF i
<1>5. inst'[h] = i
  BY <1>4 DEF InstallInv, InstallTypeOK
<1>6. StepsMatch(h) /\ GuardHolds(h) /\ inst[h].kind # "install"
  BY <1>1 DEF InstallInv, StepsMatch
<1>7. StepsMatch(h)'
  BY <1>1, <1>2, <1>3, <1>5, <1>6
     DEF StepsMatch, InTransaction, Preparing, Rechecking, Quiet
<1>8. Target(h)' = Target(h)
  BY <1>2, <1>3, <1>5, <1>6 DEF Target
<1>9. GuardHolds(h)'
  BY <1>1, <1>2, <1>6, <1>8
     DEF GuardHolds, HasLocked, HasSealed, HasAuthenticated, Guarding
<1> QED
  BY <1>1, <1>2, <1>3, <1>4, <1>7, <1>9, VerificationStep
     DEF InstallInv, InstallTypeOK, Guarding, Verifying

\* The version a Host has sealed is one that is there.
LEMMA OwnSeal ==
    ASSUME InstallInv, NEW h \in Hosts, HasSealed(h),
           seal' = [seal EXCEPT ![Target(h)] = NoHost]
    PROVE  /\ seal' \in [Versions -> Hosts \cup {NoHost, Orphan}]
           /\ \A v \in Versions : seal[v] \in Hosts \ {h} => seal'[v] = seal[v]
<1>1. seal[Target(h)] = h /\ Target(h) \in Versions
  BY DEF InstallInv, InstallTypeOK, GuardHolds, HasLocked, HasSealed
<1> QED
  BY <1>1 DEF InstallInv, InstallTypeOK

\* The guard is closed, or stays with the result.
LEMMA CloseGuardStep ==
    ASSUME InstallInv, NEW h \in Hosts, NEW restored, CloseGuard(h, restored)
    PROVE  InstallInv'
<1>1. /\ UNCHANGED <<txn, held, present, plan, source, content>>
      /\ inst[h].step \in {"rebound", "running"} /\ Return(h, staging[h])
      /\ HasSealed(h)
      /\ staging[h] \in Stagings /\ staging[h].candidate # "sealed"
      /\ (staging[h].candidate # "none" => staging[h].expects = "all")
  BY StagingIsFit DEF CloseGuard, vars, HasSealed, Guarding
<1>2. CASE /\ inst' = [inst EXCEPT ![h] = Quiet]
           /\ seal' = [seal EXCEPT ![Target(h)] = NoHost]
  BY <1>1, <1>2, OwnSeal, FailStep
<1>3. CASE inst' = [inst EXCEPT ![h].step = "unreleased"] /\ UNCHANGED seal
  <2> DEFINE i == [inst[h] EXCEPT !.step = "unreleased"]
  <2>1. i \in Activities /\ i.step = "unreleased" /\ i.kind = inst[h].kind
        /\ i.package = inst[h].package
    BY DEF InstallInv, InstallTypeOK, Activities, Guarding
  <2>2. inst' = [inst EXCEPT ![h] = i]
    BY <1>3 DEF InstallInv, InstallTypeOK
  <2> HIDE DEF i
  <2>3. inst' \in [Hosts -> Activities] /\ inst'[h] = i
        /\ \A k \in Hosts : k # h => inst'[k] = inst[k]
    BY <2>1, <2>2 DEF InstallInv, InstallTypeOK
  <2>4. /\ staging' \in [Hosts -> Stagings] /\ staging'[h] = NoStaging
        /\ \A k \in Hosts : k # h => staging'[k] = staging[k]
        /\ StagingIsReclaimed'
    BY <1>1, ReturnReclaims DEF InstallInv
  <2>5. InstallTypeOK'
    BY <1>1, <1>3, <2>3, <2>4 DEF InstallInv, InstallTypeOK
  <2>6. StepsMatch(h) /\ GuardHolds(h) /\ inst[h].kind # "recheck"
    BY DEF CloseGuard, InstallInv, StepsMatch, Rechecking
  <2>7. StepsMatch(h)'
    <3>1. txn[h].step = "idle" /\ plan.kind # "record"
      BY <1>1, <2>6 DEF StepsMatch, InTransaction, Quiet
    <3> QED
      BY <1>1, <2>1, <2>3, <2>6, <3>1
         DEF StepsMatch, InTransaction, Preparing
  <2>8. PackageIsChecked(h)' /\ StagingIsKnown(h)'
    <3>1. inst'[h].step = "unreleased" /\ "unreleased" \notin Preparing
      BY <2>1, <2>3 DEF Preparing
    <3>2. staging'[h].candidate = "none"
      BY <2>4 DEF NoStaging
    <3>3. PackageIsChecked(h)'
      BY <3>1 DEF PackageIsChecked
    <3>4. StagingIsKnown(h)'
      BY <3>1, <3>2 DEF StagingIsKnown
    <3> QED
      BY <3>3, <3>4
  <2>9. Target(h)' = Target(h)
    BY <1>1, <2>1, <2>3 DEF Target
  <2>10. GuardHolds(h)'
    BY <1>1, <1>3, <2>6, <2>9
       DEF GuardHolds, HasLocked, HasSealed, HasAuthenticated, Guarding
  <2>11. \A k \in Hosts : k # h =>
            /\ StepsMatch(k)' /\ PackageIsChecked(k)'
            /\ StagingIsKnown(k)' /\ GuardHolds(k)'
    BY <1>1, <1>3, <2>3, <2>4, OthersKeep
  <2> QED
    BY <2>4, <2>5, <2>7, <2>8, <2>10, <2>11 DEF InstallInv
<1> QED
  BY <1>2, <1>3 DEF CloseGuard

\* The last reference goes.
LEMMA DropGuardStep ==
    ASSUME InstallInv, NEW h \in Hosts, DropGuard(h)
    PROVE  InstallInv'
<1>1. /\ UNCHANGED <<txn, held, present, plan, source, staging, litter, content>>
      /\ inst[h].step = "unreleased" /\ HasSealed(h)
      /\ inst' = [inst EXCEPT ![h] = Quiet]
      /\ seal' = [seal EXCEPT ![Target(h)] = NoHost]
  BY DEF DropGuard, vars, HasSealed, Guarding
<1>2. Quiet \in Activities /\ inst'[h] = Quiet
  BY <1>1 DEF Quiet, Activities, InstallInv, InstallTypeOK
<1>3. StepsMatch(h)' /\ GuardHolds(h)'
  BY <1>2 DEF Quiet, StepsMatch, GuardHolds, HasLocked, HasSealed,
              HasAuthenticated, InTransaction, Preparing, Guarding
<1> QED
  BY <1>1, <1>2, <1>3, OwnSeal, VerificationStep DEF Quiet

\* What is published was compared and sealed; it gets a directory of its own.
LEMMA PublishCandidateStep ==
    ASSUME InstallInv, NEW h \in Hosts, NEW renamed,
           PublishCandidate(h, renamed), plan.kind = "install"
    PROVE  InstallInv'
<1> DEFINE v == inst[h].package.version
           i == [inst[h] EXCEPT !.step = "published"]
           s == [staging[h] EXCEPT !.candidate = "none"]
           t == restoreMutationSeals(staging[h])
           c == [package |-> inst[h].package, damage |-> staging[h].damage]
<1>1. /\ inst[h].step = "sealed" /\ inst[h].package \in AllPackages
      /\ inst[h].kind = "install" /\ staging[h].expects = "all"
      /\ StepsMatch(h)
      /\ UNCHANGED <<txn, held, plan, source, seal>>
  BY DEF PublishCandidate, InstallInv, PackageIsChecked, StagingIsKnown,
         StepsMatch, Preparing
<1>2. v \in Versions
  BY <1>1, PackagesAssumption DEF AllPackages
<1>3. CASE /\ UNCHANGED <<present, content>>
           /\ inst' = [inst EXCEPT ![h] = Quiet] /\ Return(h, t)
  <2>1. t \in Stagings /\ t.candidate = "plain" /\ t.expects = "all"
    BY <1>1 DEF InstallInv, InstallTypeOK, Stagings, restoreMutationSeals
  <2> HIDE DEF t
  <2> QED
    BY <1>1, <1>3, <2>1, FailStep DEF InstallInv, InstallTypeOK
<1>4. CASE /\ v \notin present /\ present' = present \cup {v}
           /\ content' = [content EXCEPT ![v] = c]
           /\ inst' = [inst EXCEPT ![h].step = "published"]
           /\ staging' = [staging EXCEPT ![h].candidate = "none"]
           /\ UNCHANGED litter
  <2>1. i \in Activities /\ i.step = "published" /\ i.kind = "install"
        /\ i.package = inst[h].package
    BY <1>1 DEF InstallInv, InstallTypeOK, Activities, Preparing
  <2>2. s \in Stagings /\ s.candidate = "none" /\ s.expects = "all"
    BY <1>1 DEF InstallInv, InstallTypeOK, Stagings
  <2>3. c \in Contents
    BY <1>1 DEF InstallInv, InstallTypeOK, Stagings, Contents
  <2>4. inst' = [inst EXCEPT ![h] = i] /\ staging' = [staging EXCEPT ![h] = s]
    BY <1>4 DEF InstallInv, InstallTypeOK
  <2> HIDE DEF i, s, c, v
  <2>5. inst'[h] = i /\ staging'[h] = s
    BY <2>4 DEF InstallInv, InstallTypeOK
  <2>6. /\ content' \in [Versions -> Contents]
        /\ \A u \in present : content'[u] = content[u]
        /\ present' \subseteq Versions
    BY <1>2, <1>4, <2>3 DEF InstallInv, InstallTypeOK
  <2>7. StepsMatch(h)'
    BY <1>1, <2>1, <2>5 DEF StepsMatch, InTransaction, Preparing
  <2>8. PackageIsChecked(h)' /\ StagingIsKnown(h)'
    BY <1>1, <2>1, <2>2, <2>5 DEF PackageIsChecked, StagingIsKnown
  <2>9. GuardHolds(h)'
    BY <2>1, <2>5
       DEF GuardHolds, HasLocked, HasSealed, HasAuthenticated, Guarding
  <2> QED
    BY <1>1, <1>4, <2>1, <2>2, <2>4, <2>6, <2>7, <2>8, <2>9, AdvanceStep
       DEF InstallInv, InstallTypeOK
<1> QED
  BY <1>3, <1>4 DEF PublishCandidate, publishRootNoReplace

\* Nobody can alter a candidate that was compared.
LEMMA TouchStagingStep ==
    ASSUME InstallInv, NEW h \in Hosts,
           NEW what \in {"altered", "member", "foreign"}, TouchStaging(h, what)
    PROVE  InstallInv'
<1> DEFINE s == [staging[h] EXCEPT
                   !.foreign = @ \/ what = "foreign",
                   !.damage = IF what = "foreign" THEN @ ELSE @ \cup {what}]
<1>1. UNCHANGED <<txn, held, present, plan, source, inst, litter, content, seal>>
  BY DEF TouchStaging, vars
<1>2. s \in Stagings /\ s.candidate = staging[h].candidate
      /\ s.expects = staging[h].expects
      /\ s.damage \subseteq staging[h].damage \cup {what}
  BY DEF InstallInv, InstallTypeOK, Stagings
<1>3. staging' = [staging EXCEPT ![h] = s]
  BY DEF TouchStaging, InstallInv, InstallTypeOK
<1>4. what = "altered" => inst[h].step = "extracted"
  BY DEF TouchStaging
<1> HIDE DEF s
<1>5. staging'[h] = s /\ inst[h] \in Activities
      /\ inst' = [inst EXCEPT ![h] = inst[h]]
  BY <1>1, <1>3 DEF InstallInv, InstallTypeOK
<1>6. StepsMatch(h)' /\ PackageIsChecked(h)' /\ GuardHolds(h)'
  BY <1>1 DEF StepsMatch, PackageIsChecked, GuardHolds, HasLocked, HasSealed,
              HasAuthenticated, Target, InstallInv
<1>7. StagingIsKnown(h)'
  BY <1>1, <1>2, <1>4, <1>5 DEF StagingIsKnown, InstallInv
<1> QED
  BY <1>1, <1>2, <1>3, <1>5, <1>6, <1>7, AdvanceStep
     DEF InstallInv, InstallTypeOK

\* A change of the package file or of a version nobody guards.
LEMMA VersionStep ==
    ASSUME InstallInv, present' \subseteq present,
           content' \in [Versions -> Contents],
           \A k \in Hosts : HasLocked(k) => Target(k) \in present',
           \A k \in Hosts : HasAuthenticated(k) =>
                               content'[Target(k)] = content[Target(k)],
           UNCHANGED <<txn, held, plan, source, inst, staging, litter, seal>>
    PROVE  InstallInv'
<1>1. ASSUME NEW k \in Hosts
      PROVE  /\ StepsMatch(k)' /\ PackageIsChecked(k)' /\ StagingIsKnown(k)'
             /\ GuardHolds(k)'
  <2>1. StepsMatch(k)' /\ PackageIsChecked(k)' /\ StagingIsKnown(k)'
    BY DEF InstallInv, StepsMatch, PackageIsChecked, StagingIsKnown
  <2>2. Target(k)' = Target(k) /\ HasLocked(k)' = HasLocked(k)
        /\ HasSealed(k)' = HasSealed(k)
        /\ HasAuthenticated(k)' = HasAuthenticated(k)
    BY DEF Target, HasLocked, HasSealed, HasAuthenticated
  <2>3. GuardHolds(k)'
    BY <2>2 DEF GuardHolds, InstallInv
  <2> QED
    BY <2>1, <2>3
<1>2. InstallTypeOK' /\ StagingIsReclaimed'
  BY DEF InstallInv, InstallTypeOK, StagingIsReclaimed
<1> QED
  BY <1>1, <1>2 DEF InstallInv

\* What is authenticated is sealed, and what is locked is there.
LEMMA LocksNest ==
    ASSUME InstallInv, NEW h \in Hosts
    PROVE  /\ HasAuthenticated(h) => HasSealed(h)
           /\ HasSealed(h) => HasLocked(h) /\ seal[Target(h)] = h
           /\ HasLocked(h) => Target(h) \in present
           /\ HasLocked(h) => h \in LockedBy(Target(h))
BY DEF InstallInv, GuardHolds, HasAuthenticated, HasSealed, HasLocked,
       Guarding, LockedBy

\* The members and files of a version can be changed only where no guard is.
LEMMA DamageVersionStep ==
    ASSUME InstallInv, NEW v \in Versions, NEW what \in {"altered", "member"},
           DamageVersion(v, what)
    PROVE  InstallInv'
<1>1. /\ UNCHANGED <<txn, held, present, plan, source, inst, staging, litter, seal>>
      /\ seal[v] = NoHost
      /\ content' = [content EXCEPT ![v].damage = @ \cup {what}]
  BY DEF DamageVersion, vars
<1>2. content' \in [Versions -> Contents]
      /\ \A u \in Versions : u # v => content'[u] = content[u]
  BY <1>1 DEF InstallInv, InstallTypeOK, Contents
<1>3. \A k \in Hosts : HasAuthenticated(k) =>
         Target(k) # v /\ Target(k) \in Versions
  BY <1>1, LocksNest, NoHostAssumption DEF InstallInv, InstallTypeOK
<1>4. \A k \in Hosts : HasLocked(k) => Target(k) \in present'
  BY <1>1, LocksNest
<1> QED
  BY <1>1, <1>2, <1>3, <1>4, VersionStep

\* A version is lost only where no file of it is open.
LEMMA LoseVersionStep ==
    ASSUME InstallInv, NEW v \in Versions, LoseVersion(v)
    PROVE  InstallInv'
<1>1. /\ UNCHANGED <<txn, held, plan, source, inst, staging, litter, seal>>
      /\ LockedBy(v) = {} /\ present' = present \ {v}
      /\ content' = [content EXCEPT ![v] = Empty]
  BY DEF LoseVersion, LoseDirectory
<1>2. content' \in [Versions -> Contents]
      /\ \A u \in Versions : u # v => content'[u] = content[u]
  BY <1>1 DEF InstallInv, InstallTypeOK, Contents, Empty
<1>3. \A k \in Hosts : HasLocked(k) =>
         Target(k) # v /\ Target(k) \in Versions /\ Target(k) \in present
  BY <1>1, LocksNest DEF InstallInv, InstallTypeOK
<1> QED
  BY <1>1, <1>2, <1>3, LocksNest, VersionStep

\* A Host dies: its staging directory stays and its seals belong to nobody.
LEMMA CrashHostStep ==
    ASSUME InstallInv, IInv, NEW h \in Hosts, CrashHost(h)
    PROVE  InstallInv'
<1>1. /\ inst' \in [Hosts -> Activities] /\ inst'[h] = Quiet
      /\ staging' \in [Hosts -> Stagings] /\ staging'[h] = NoStaging
      /\ \A k \in Hosts : k # h =>
            inst'[k] = inst[k] /\ staging'[k] = staging[k]
  <2>1. Quiet \in Activities /\ NoStaging \in Stagings
    BY DEF Quiet, Activities, NoStaging, Stagings
  <2> QED
    BY <2>1 DEF CrashHost, InstallInv, InstallTypeOK
<1>2. /\ UNCHANGED <<plan, source, content, present>>
      /\ \A k \in Hosts : k # h => txn'[k] = txn[k] /\ held'[k] = held[k]
  BY DEF CrashHost, IInv, RecordIsSound, TypeOK
<1>3. seal' \in [Versions -> Hosts \cup {NoHost, Orphan}]
      /\ \A v \in Versions : seal[v] \in Hosts \ {h} => seal'[v] = seal[v]
  BY DEF CrashHost, InstallInv, InstallTypeOK
<1>4. InstallTypeOK'
  BY <1>1, <1>2, <1>3 DEF InstallInv, InstallTypeOK
<1>5. StepsMatch(h)' /\ PackageIsChecked(h)' /\ StagingIsKnown(h)'
      /\ GuardHolds(h)'
  BY <1>1 DEF Quiet, NoStaging, StepsMatch, PackageIsChecked,
       StagingIsKnown, GuardHolds, HasLocked, HasSealed, HasAuthenticated,
       InTransaction, Preparing, Guarding
<1>6. \A k \in Hosts : k # h =>
         /\ StepsMatch(k)' /\ PackageIsChecked(k)'
         /\ StagingIsKnown(k)' /\ GuardHolds(k)'
  BY <1>1, <1>2, <1>3, OthersKeep
<1>7. StagingIsReclaimed'
  <2>1. [staging[h] EXCEPT !.crashed = TRUE].crashed
    BY DEF InstallInv, InstallTypeOK, Stagings
  <2> QED
    BY <2>1 DEF CrashHost, StagingIsReclaimed, InstallInv
<1> QED
  BY <1>4, <1>5, <1>6, <1>7 DEF InstallInv

\* The record alone is used by Hosts that install nothing.
LEMMA RecordStep ==
    ASSUME InstallInv, IInv', plan.kind = "record", UNCHANGED installVars
    PROVE  InstallInv'
<1>1. UNCHANGED <<plan, source, inst, staging, litter, content, seal>>
  BY DEF installVars
<1>2. ASSUME NEW h \in Hosts
      PROVE  /\ StepsMatch(h)' /\ PackageIsChecked(h)'
             /\ StagingIsKnown(h)' /\ GuardHolds(h)'
  <2>1. inst'[h] = Quiet
    BY <1>1 DEF InstallInv, StepsMatch
  <2>2. StepsMatch(h)' /\ PackageIsChecked(h)' /\ GuardHolds(h)'
    BY <2>1 DEF Quiet, StepsMatch, PackageIsChecked, GuardHolds, HasLocked,
                HasSealed, HasAuthenticated, InTransaction, Preparing, Guarding
  <2>3. StagingIsKnown(h)'
    BY <1>1 DEF StagingIsKnown, InstallInv
  <2> QED
    BY <2>2, <2>3
<1>3. InstallTypeOK' /\ StagingIsReclaimed'
  BY <1>1 DEF InstallInv, InstallTypeOK, StagingIsReclaimed, IInv,
              RecordIsSound, TypeOK
<1> QED
  BY <1>2, <1>3 DEF InstallInv

\* Every step keeps the invariant.
LEMMA InstallNextInv ==
    ASSUME IInv, InstallInv, [InstallNext]_allVars
    PROVE  IInv' /\ InstallInv'
<1>1. IInv'
  BY InstallStepIsStoreStep, NextInv
<1>2. ASSUME plan.kind = "record", Next, UNCHANGED installVars
      PROVE  InstallInv'
  BY <1>1, <1>2, RecordStep
<1>3. ASSUME plan.kind = "install", NEW h \in Hosts, Installation(h)
      PROVE  InstallInv'
  <2>1. CASE \/ Precheck(h) \/ VerifyPackage(h) \/ CompareCandidate(h)
             \/ VerifyPublished(h)
    BY <1>3, <2>1, PrecheckStep, VerifyPackageStep, CompareCandidateStep,
       VerifyPublishedStep
  <2>2. CASE \/ BeginTransaction(h) \/ LockTimesOut(h)
             \/ FinishTransaction(h) \/ BeginLaunch(h) \/ BeginRecheck(h)
    BY <1>3, <2>2, BeginTransactionStep, LockTimesOutStep,
       FinishTransactionStep, BeginLaunchStep, KeepGuardStep
  <2>3. CASE \/ sealImmutableDirectoryMembership(h)
             \/ verifyInstalledImmutable(h) \/ KeepGuard(h) \/ DropGuard(h)
    BY <2>3, SealStep, VerifyStep, KeepGuardStep, DropGuardStep
  <2>4. ASSUME NEW ok \in BOOLEAN,
               \/ StagePackage(h, ok) \/ RunPreflight(h, ok)
               \/ ExtractCandidate(h, ok) \/ SealCandidate(h, ok)
               \/ PublishCandidate(h, ok) \/ WriteTransaction(h, ok)
               \/ LockInstalled(h, ok) \/ CloseGuard(h, ok)
        PROVE  InstallInv'
    BY <1>3, <2>4, StagePackageStep, RunPreflightStep, ExtractCandidateStep,
       SealCandidateStep, PublishCandidateStep, WriteTransactionStep,
       LockInstalledStep, CloseGuardStep
  <2> QED
    BY <1>3, <2>1, <2>2, <2>3, <2>4 DEF Installation
<1>4. ASSUME Environment PROVE InstallInv'
  <2>1. CASE \E p \in Packages[plan.packages] : ReplaceSource(p)
    BY <2>1, StutterStep DEF ReplaceSource, vars
  <2>2. CASE \E h \in Hosts, what \in {"altered", "member", "foreign"} :
               TouchStaging(h, what)
    BY <2>2, TouchStagingStep
  <2>3. CASE \E v \in Versions, what \in {"altered", "member"} :
               DamageVersion(v, what)
    BY <2>3, DamageVersionStep
  <2>4. CASE \E v \in Versions : LoseVersion(v)
    BY <2>4, LoseVersionStep
  <2>5. CASE \E h \in Hosts : CrashHost(h)
    BY <2>5, CrashHostStep
  <2> QED
    BY <1>4, <2>1, <2>2, <2>3, <2>4, <2>5 DEF Environment
<1>5. ASSUME NEW h \in Hosts, NEW op \in Ops \ {"activate"}, UseRecord(h, op)
      PROVE  InstallInv'
  BY <1>5, UseRecordStep
<1>6. ASSUME UNCHANGED allVars PROVE InstallInv'
  BY <1>6, StutterStep
     DEF allVars, vars, installVars, InstallInv, InstallTypeOK
<1> QED
  BY <1>1, <1>2, <1>3, <1>4, <1>5, <1>6 DEF InstallNext

\* The invariants hold as long as Hosts install and launch.
LEMMA InstallerInv == InstallSpec => [](IInv /\ InstallInv)
<1>1. InstallInit => IInv /\ InstallInv
  BY InitInv, InstallInitInv DEF InstallInit
<1>2. IInv /\ InstallInv /\ [InstallNext]_allVars => (IInv /\ InstallInv)'
  BY InstallNextInv
<1> QED
  BY <1>1, <1>2, PTL DEF InstallSpec

-----------------------------------------------------------------------------
\* The results.

\* Installing, launching, crashing and everything others do to the files is,
\* for the activation record, a run of the store: the installer implements it.
THEOREM InstallerUsesTheStore == InstallSpec => Spec
<1>1. InstallInit => Init
  BY DEF InstallInit
<1>2. IInv /\ InstallInv /\ [InstallNext]_allVars => [Next]_vars
  BY InstallStepIsStoreStep
<1> QED
  BY <1>1, <1>2, InstallerInv, PTL DEF InstallSpec, Spec

\* So the record stays sound while Hosts install and launch.
THEOREM InstallerKeepsRecord == InstallSpec => []RecordIsSound
BY InstallerUsesTheStore, RecordStaysSound, PTL

\* And what is selected is what was meant.
THEOREM InstallerIsDeliberate == InstallSpec => SelectionIsDeliberate
BY InstallerUsesTheStore, StoreIsDeliberate, PTL

\* What runs behind a guard is what was authenticated, whoever else installs,
\* crashes or writes into the store, and every installation takes its staging
\* directory back.
THEOREM InstallationsAreSound == InstallSpec => []InstallationIsSound
<1>1. InstallInv => InstallationIsSound
  BY DEF InstallInv, InstallationIsSound, GuardedIsAuthentic, GuardHolds,
         HasLocked, HasSealed, HasAuthenticated, Guarding
<1> QED
  BY <1>1, InstallerInv, PTL

\* Only publishing a candidate adds a version.
LEMMA PresentGrows ==
    ASSUME [InstallNext]_allVars, plan.kind = "install",
           ~ (present' \subseteq present)
    PROVE  \E h \in Hosts, ok \in BOOLEAN : PublishCandidate(h, ok)
<1>1. ~ UNCHANGED allVars
  BY DEF allVars, vars
<1>2. ~ Environment
  BY DEF Environment, ReplaceSource, TouchStaging, DamageVersion, LoseVersion,
         LoseDirectory, CrashHost, vars
<1>3. ~ \E h \in Hosts, op \in Ops \ {"activate"} : UseRecord(h, op)
  BY DEF UseRecord, BeginOther, Load
<1>4. PICK h \in Hosts : Installation(h)
  BY <1>1, <1>2, <1>3 DEF InstallNext
<1>5. ~ (Precheck(h) \/ VerifyPackage(h) \/ CompareCandidate(h)
         \/ VerifyPublished(h) \/ BeginLaunch(h) \/ BeginRecheck(h)
         \/ LockTimesOut(h) \/ KeepGuard(h) \/ DropGuard(h)
         \/ sealImmutableDirectoryMembership(h)
         \/ verifyInstalledImmutable(h))
  BY DEF Precheck, VerifyPackage, CompareCandidate, VerifyPublished,
         LockTimesOut, BeginLaunch, BeginRecheck, KeepGuard, DropGuard,
         sealImmutableDirectoryMembership, verifyInstalledImmutable, vars
<1>6. ~ BeginTransaction(h)
  BY DEF BeginTransaction, BeginActivate, BeginOther, Load
<1>7. ~ FinishTransaction(h)
  BY DEF FinishTransaction, Finish
<1>8. ASSUME NEW ok \in BOOLEAN
      PROVE  ~ (StagePackage(h, ok) \/ RunPreflight(h, ok)
                \/ ExtractCandidate(h, ok) \/ SealCandidate(h, ok)
                \/ LockInstalled(h, ok) \/ CloseGuard(h, ok))
  BY DEF StagePackage, RunPreflight, ExtractCandidate, SealCandidate,
         LockInstalled, CloseGuard, vars
<1>9. ASSUME NEW ok \in BOOLEAN PROVE ~ WriteTransaction(h, ok)
  BY DEF WriteTransaction, Write
<1> QED
  BY <1>4, <1>5, <1>6, <1>7, <1>8, <1>9 DEF Installation

\* A version appears whole and authentic, under its own name.
THEOREM PublishedVersionsAreAuthentic == InstallSpec => PublishedIsAuthentic
<1>1. ASSUME InstallInv, [InstallNext]_allVars, plan.kind = "install",
             NEW v \in present' \ present
      PROVE  /\ content'[v].damage = {}
             /\ content'[v].package.flaws = {}
             /\ content'[v].package.version = v
  <2>1. PICK h \in Hosts, ok \in BOOLEAN : PublishCandidate(h, ok)
    BY <1>1, PresentGrows
  <2> DEFINE p == inst[h].package
  <2>2. /\ v = p.version /\ inst[h].step = "sealed"
        /\ sealedMembersMatch(staging[h].damage)
        /\ content' = [content EXCEPT
                         ![v] = [package |-> p, damage |-> staging[h].damage]]
    BY <1>1, <2>1 DEF PublishCandidate
  <2>3. p \in AllPackages /\ policyAccepts(p)
        /\ p.flaws \cap {"entry point", "preflight"} = {}
        /\ "altered" \notin staging[h].damage
    BY <1>1, <2>2 DEF InstallInv, PackageIsChecked, StagingIsKnown, Preparing
  <2>4. staging[h].damage = {}
    BY <1>1, <2>2, <2>3
       DEF sealedMembersMatch, InstallInv, InstallTypeOK, Stagings
  <2>5. p.flaws \subseteq Flaws /\ v \in Versions
    BY <2>2, <2>3, PackagesAssumption DEF AllPackages
  <2>6. p.flaws = {}
    BY <2>3, <2>5 DEF policyAccepts, signatureIsGood, validatePayload, Flaws
  <2>7. content'[v] = [package |-> p, damage |-> staging[h].damage]
    BY <1>1, <2>2, <2>5 DEF InstallInv, InstallTypeOK
  <2> QED
    BY <2>2, <2>4, <2>6, <2>7
<1>2. InstallInv /\ [InstallNext]_allVars
        => [\A v \in present' \ present :
              plan.kind = "install" => /\ content'[v].damage = {}
                                       /\ content'[v].package.flaws = {}
                                       /\ content'[v].package.version = v]_allVars
  BY <1>1
<1> QED
  BY <1>2, InstallerInv, PTL DEF InstallSpec, PublishedIsAuthentic
=============================================================================
