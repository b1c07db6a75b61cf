---------------------------- MODULE SessionStoreOps ----------------------------
(***************************************************************************)
(* apps/host/BrowserSessionStore on a disk with four leaves: the session,  *)
(* its temporary file, the preserved copy of a session that could not be   *)
(* read, and that copy's temporary file.  A call is the set of the         *)
(* outcomes it can have; in one with `dies' the process is killed before   *)
(* the call returns.                                                       *)
(*                                                                         *)
(* What a file holds: a snapshot, Garbage (bytes that parseSnapshot        *)
(* rejects) or Huge (more than MaximumSessionBytes).  A rename replaces    *)
(* the target at once.                                                     *)
(***************************************************************************)
EXTENDS Naturals

NoFile == [is |-> "none"]
Garbage == [is |-> "garbage"]
Huge == [is |-> "huge"]
Torn == [is |-> "torn"]
File(snapshot) == [is |-> "session", snapshot |-> snapshot]
EmptyDisk == [session |-> NoFile, temp |-> NoFile,
              corrupt |-> NoFile, corruptTemp |-> NoFile]

Outcome(d, status, dies) == [disk |-> d, status |-> status, dies |-> dies]

\* A call that fails, or in which the process dies, with the disk as d.
Fails(d) == Outcome(d, "Failed", FALSE)
DiesAt(d) == Outcome(d, "Failed", TRUE)

removeSafeTemporary(d, leaf) == [d EXCEPT ![leaf] = NoFile]

\* What is published is read back.
verifyPublishedBytes(d) == {Outcome(d, "Saved", FALSE), Fails(d), DiesAt(d)}

\* The bytes are written to a temporary leaf and renamed over the target.
publish(d, leaf, temporary, bytes) ==
    LET cleared == removeSafeTemporary(d, temporary)
    IN  {Fails(d), Fails(cleared), DiesAt([d EXCEPT ![temporary] = Torn]),
         DiesAt([d EXCEPT ![temporary] = bytes])}
        \cup verifyPublishedBytes([cleared EXCEPT ![leaf] = bytes])

BugWritesInPlace(d, bytes) ==
    {Outcome([d EXCEPT !.session = bytes], "Saved", FALSE),
     DiesAt([d EXCEPT !.session = Garbage])}
saveAtomically(d, bytes) == publish(d, "session", "temp", bytes)

\* A snapshot that is not valid is not written.
save(d, snapshot) ==
    IF snapshot.tabs = << >> THEN {Fails(d)}
      ELSE saveAtomically(d, File(snapshot))

\* The first copy is the one that is kept.
writeNewCorruptCopy(d) == publish(d, "corrupt", "corruptTemp", d.session)

\* bytes is FALSE for a session too large to read.
preserveAndRemoveCorrupt(d, bytes) ==
    LET kept == IF bytes /\ d.corrupt = NoFile THEN writeNewCorruptCopy(d)
                  ELSE {Outcome(d, "Saved", FALSE)}
        removed(o) == [o.disk EXCEPT !.session = NoFile]
    IN  UNION {IF o.status # "Saved"
                 THEN {[o EXCEPT !.status = "IoFailure"]}
                 ELSE {Outcome(removed(o), "Corrupt", FALSE),
                       Outcome(o.disk, "IoFailure", FALSE),
                       Outcome(removed(o), "IoFailure", FALSE),
                       Outcome(o.disk, "IoFailure", TRUE),
                       Outcome(removed(o), "IoFailure", TRUE)} : o \in kept}

load(d) ==
    {Outcome(d, "IoFailure", FALSE)} \cup
    CASE d.session = NoFile -> {Outcome(d, "Missing", FALSE)}
      [] d.session = Huge -> preserveAndRemoveCorrupt(d, FALSE)
      [] d.session = Garbage -> preserveAndRemoveCorrupt(d, TRUE)
      [] OTHER -> {Outcome(d, "Loaded", FALSE)}
================================================================================
