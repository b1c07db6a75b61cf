------------------------- MODULE ActivationStateOps -------------------------
(***************************************************************************)
(* The transactions of runtime/package/PackageStore on activation.json as  *)
(* functions: each takes the state that was loaded under the lock, the     *)
(* version directories that are on disk and, where the code compares, the  *)
(* binding the caller expects, and returns whether it succeeds and the     *)
(* state to write (the loaded state when nothing is written).              *)
(***************************************************************************)
EXTENDS Integers

CONSTANTS Versions,        \* version directories, "<version>-<digest>"
          NoVersion,       \* the empty directory name
          MaxGeneration    \* 2^53 - 1, the largest generation JSON can carry

ASSUME NoVersionAssumption == NoVersion \notin Versions
ASSUME MaxGenerationAssumption == MaxGeneration \in Nat

ActivationStates ==
    [current : Versions \cup {NoVersion}, previous : Versions \cup {NoVersion},
     lastKnownGood : Versions \cup {NoVersion}, generation : Nat]

\* What is loaded when there is no activation.json.
EmptyState ==
    [current |-> NoVersion, previous |-> NoVersion,
     lastKnownGood |-> NoVersion, generation |-> 0]

Bindings == [directory : Versions, generation : Nat]
NoBinding == [directory |-> NoVersion, generation |-> 0]

\* The digest of an ActivationBinding is the suffix of its directory.
bindingForState(s) ==
    IF s.current = NoVersion
      THEN NoBinding
      ELSE [directory |-> s.current, generation |-> s.generation]

stateTargetIsValid(v, present) == v \in present

\* activationStateUnlocked and writeState insist on all three directories.
targetsValid(s, present) ==
    {s.current, s.previous, s.lastKnownGood} \ {NoVersion} \subseteq present

BugIgnoresExpected(s, expected) == bindingForState(s) # NoBinding
matches(s, expected) ==
    bindingForState(s) # NoBinding /\ bindingForState(s) = expected

exhausted(s) == s.generation >= MaxGeneration

Refused(s) == [ok |-> FALSE, next |-> s]
Unchanged(s) == [ok |-> TRUE, next |-> s]

\* writeState: the targets of the new state are checked again before the
\* file is replaced.
Written(s, next, present) ==
    IF ~exhausted(s) /\ targetsValid(next, present)
      THEN [ok |-> TRUE, next |-> next]
      ELSE Refused(s)

-----------------------------------------------------------------------------

activateVerified(s, present, v) ==
    IF ~stateTargetIsValid(v, present) \/ ~targetsValid(s, present)
      THEN Refused(s)
      ELSE IF s.current = v
        THEN Unchanged(s)
        ELSE Written(s, [s EXCEPT !.previous = s.current, !.current = v,
                                  !.generation = @ + 1], present)

markCurrentLastKnownGood(s, present, expected) ==
    IF ~targetsValid(s, present) \/ ~matches(s, expected)
      THEN Refused(s)
      ELSE IF s.lastKnownGood = s.current
        THEN Unchanged(s)
        ELSE Written(s, [s EXCEPT !.lastKnownGood = s.current,
                                  !.generation = @ + 1], present)

\* Works on the recorded state: only the last known good must be on disk.
recoverLastKnownGood(s, present, expected) ==
    IF ~matches(s, expected) \/ ~stateTargetIsValid(s.lastKnownGood, present)
      THEN Refused(s)
      ELSE IF s.current = s.lastKnownGood
        THEN Unchanged(s)
        ELSE Written(s, [current |-> s.lastKnownGood, previous |-> NoVersion,
                         lastKnownGood |-> s.lastKnownGood,
                         generation |-> s.generation + 1], present)

rollbackTarget(s) ==
    IF s.lastKnownGood # NoVersion THEN s.lastKnownGood ELSE s.previous

rollback(s, present, expected) ==
    IF \/ ~targetsValid(s, present)
       \/ ~matches(s, expected)
       \/ rollbackTarget(s) = s.current
       \/ ~stateTargetIsValid(rollbackTarget(s), present)
      THEN Refused(s)
      ELSE Written(s, [s EXCEPT !.previous = s.current,
                                !.current = rollbackTarget(s),
                                !.generation = @ + 1], present)

confirmCurrent(s, present, expected) ==
    IF ~matches(s, expected)
      THEN Refused(s)
      ELSE Written(s, [s EXCEPT !.generation = @ + 1], present)

compareCurrent(s, expected) ==
    IF matches(s, expected) THEN Unchanged(s) ELSE Refused(s)

\* activationState validates the targets, recordedActivationState does not.
activationState(s, present) ==
    IF targetsValid(s, present) THEN Unchanged(s) ELSE Refused(s)
=============================================================================
