-------------------------- MODULE PackageInstaller --------------------------
(***************************************************************************)
(* runtime/package/PackageInstaller on top of the package store.  A Host   *)
(* installs a package: it checks the application of the package file,      *)
(* copies the file to a staging directory, verifies the copy, extracts it  *)
(* twice, and the store compares, seals and publishes the candidate; the   *)
(* version is then activated and verified again in place, behind a guard   *)
(* that locks its files and denies everybody to change its directories.    *)
(* A launch verifies the selected version the same way and keeps the guard *)
(* while its Worker runs.  Other programs may change the package file, the *)
(* staging directory and an unguarded version; a Host may die at any step. *)
(***************************************************************************)
EXTENDS PackageStore, ArchiveOps, FiniteSets

CONSTANTS Plans,      \* the instances: see the module that is checked
          Packages,   \* the package files of each kind of instance
          NoPackage,
          Orphan      \* the owner of the seals of a Host that died

ASSUME NoPackageAssumption ==
    /\ Orphan \notin Hosts \cup {NoHost}
    /\ \A p \in Plans : NoPackage \notin Packages[p.packages]

VARIABLES
    plan,      \* the instance
    source,    \* the package file
    inst,      \* what each Host is doing
    staging,   \* the staging directory of each Host's installation
    litter,    \* staging directories that were left behind
    content,   \* what is in each version directory
    seal,      \* whose guard denies changes to a version directory
    left       \* how many installations, launches and faults may follow

installVars == <<plan, source, inst, staging, litter, content, seal, left>>
allVars == <<vars, installVars>>

\* A package is an archive image with the flaws a check may find in it.
Flaws == {"unsigned", "forged", "payload", "manifest", "app", "runtime",
          "imports", "source imports", "source policy", "entry point",
          "preflight"}

ASSUME PackagesAssumption ==
    \A p \in Plans : \A q \in Packages[p.packages] :
        q.flaws \subseteq Flaws /\ q.version \in Versions

Quiet == [step |-> "idle", kind |-> "install", package |-> NoPackage,
          members |-> {}]

NoStaging == [exists |-> FALSE, expects |-> "package", candidate |-> "none",
              damage |-> {}, foreign |-> FALSE, crashed |-> FALSE]

\* The version directory a Host works on: an installation's own, later the
\* one its binding names.
Target(h) ==
    IF inst[h].kind = "install" THEN inst[h].package.version
    ELSE held[h].directory

Empty == [package |-> NoPackage, damage |-> {}]

InstallInit ==
    /\ Init
    /\ plan \in Plans
    /\ source \in Packages[plan.packages]
    /\ inst = [h \in Hosts |-> Quiet]
    /\ staging = [h \in Hosts |-> NoStaging]
    /\ litter = {}
    /\ content = [v \in Versions |-> Empty]
    /\ seal = [v \in Versions |-> NoHost]
    /\ left = [installs |-> plan.installs, launches |-> plan.launches,
               faults |-> plan.faults]

-----------------------------------------------------------------------------
\* What a package must be.

signatureIsGood(p) == p.flaws \cap {"unsigned", "forged"} = {}

\* The application the precheck can prove, if any, is refused at once.
authenticatedManifestAppId(p) ==
    snapshot(p.image) = "None" /\ signatureIsGood(p) /\ "manifest" \notin p.flaws

precheckRejects(p) == authenticatedManifestAppId(p) /\ "app" \in p.flaws

copyBounded(p) == p.image.size <= MaximumArchiveBytes

validatePayload(p) == "payload" \notin p.flaws

\* Signature, payload digest, manifest, application, runtime version, declared
\* imports, imports of the sources and source policy, in this order.
policyAccepts(p) ==
    /\ signatureIsGood(p) /\ validatePayload(p)
    /\ p.flaws \cap {"manifest", "app", "runtime", "imports",
                     "source imports", "source policy"} = {}

\* The files in a version directory are those of one package that verifies,
\* and the directory is named after its version and digest.
validateInstalledFiles(c, v) ==
    /\ c.damage = {}
    /\ c.package # NoPackage
    /\ policyAccepts(c.package) /\ "entry point" \notin c.package.flaws
    /\ c.package.version = v

-----------------------------------------------------------------------------
\* How an installation ends.

\* Once the snapshot is known, so are the members extraction may create.
setAuthenticatedSnapshot(s) == [s EXCEPT !.expects = "all"]

\* deleteOwnedStagingTree gives up on a member it does not expect, and the
\* members of a sealed candidate cannot be deleted.
deleteOwnedStagingTree(s) ==
    /\ ~s.foreign /\ "member" \notin s.damage
    /\ s.candidate # "sealed"
    /\ s.expects = "all" \/ s.candidate = "none"

\* The staging directory goes when install returns, whatever it returns.
Return(h, s) ==
    /\ staging' = [staging EXCEPT ![h] = NoStaging]
    /\ litter' = IF s.exists /\ ~deleteOwnedStagingTree(s)
                   THEN litter \cup {s} ELSE litter

Fail(h) ==
    /\ inst' = [inst EXCEPT ![h] = Quiet]
    /\ Return(h, staging[h])

\* An error while a guard may be held.  A guard that was acquired here is
\* closed, one the caller handed in stays with the caller.
Invalid(h) ==
    IF inst[h].kind = "recheck"
      THEN /\ inst' = [inst EXCEPT ![h].step = "running", ![h].kind = "launch"]
           /\ UNCHANGED <<staging, litter, seal>>
      ELSE /\ Fail(h)
           /\ seal' = [v \in Versions |-> IF seal[v] = h THEN NoHost
                                          ELSE seal[v]]

-----------------------------------------------------------------------------
\* Installation up to the candidate.

\* install starts: the package file is read for its application.
Precheck(h) ==
    /\ inst[h].step = "idle" /\ txn[h].step = "idle"
    /\ left.installs > 0
    /\ left' = [left EXCEPT !.installs = @ - 1]
    /\ inst' = IF precheckRejects(source) THEN inst
               ELSE [inst EXCEPT ![h] = [Quiet EXCEPT !.step = "checked"]]
    /\ UNCHANGED <<vars, plan, source, staging, litter, content, seal>>

\* The staging directory is made and the file, read again, copied into it.
StagePackage(h, made) ==
    /\ inst[h].step = "checked"
    /\ IF made /\ copyBounded(source)
         THEN /\ inst' = [inst EXCEPT ![h].step = "staged",
                                      ![h].package = source]
              /\ staging' = [staging EXCEPT ![h].exists = TRUE]
              /\ UNCHANGED litter
         ELSE Fail(h)
    /\ UNCHANGED <<vars, plan, source, content, seal, left>>

VerifyPackage(h) ==
    /\ inst[h].step = "staged"
    /\ IF snapshot(inst[h].package.image) # "None"
         THEN Fail(h)
         ELSE LET s == setAuthenticatedSnapshot(staging[h])
              IN  IF policyAccepts(inst[h].package)
                    THEN /\ inst' = [inst EXCEPT ![h].step = "verified"]
                         /\ staging' = [staging EXCEPT ![h] = s]
                         /\ UNCHANGED litter
                    ELSE /\ inst' = [inst EXCEPT ![h] = Quiet]
                         /\ Return(h, s)
    /\ UNCHANGED <<vars, plan, source, content, seal, left>>

\* The files are written out and the preflight runs on them.
RunPreflight(h, written) ==
    /\ inst[h].step = "verified"
    /\ IF /\ written /\ extractFiles(inst[h].package.image)
          /\ inst[h].package.flaws \cap {"entry point", "preflight"} = {}
         THEN /\ inst' = [inst EXCEPT ![h].step = "preflighted"]
              /\ UNCHANGED <<staging, litter>>
         ELSE Fail(h)
    /\ UNCHANGED <<vars, plan, source, content, seal, left>>

\* They are written a second time; a failed extraction removes its output.
ExtractCandidate(h, written) ==
    /\ inst[h].step = "preflighted"
    /\ IF written /\ extractFiles(inst[h].package.image)
         THEN /\ inst' = [inst EXCEPT ![h].step = "extracted"]
              /\ staging' = [staging EXCEPT ![h].candidate = "plain"]
              /\ UNCHANGED litter
         ELSE Fail(h)
    /\ UNCHANGED <<vars, plan, source, content, seal, left>>

-----------------------------------------------------------------------------
\* commitCandidateImpl.

candidateMatches(damage) == damage = {}

BugSkipsTheLastScan(damage) == TRUE
sealedMembersMatch(damage) == "member" \notin damage

\* The candidate is read again, with its files locked, and compared with the
\* files of the snapshot.
CompareCandidate(h) ==
    /\ inst[h].step = "extracted"
    /\ IF inst[h].package.version \notin present
          /\ candidateMatches(staging[h].damage)
         THEN /\ inst' = [inst EXCEPT ![h].step = "compared"]
              /\ UNCHANGED <<staging, litter>>
         ELSE Fail(h)
    /\ UNCHANGED <<vars, plan, source, content, seal, left>>

\* An entry that denies everybody is put in front of the access list; only
\* the owner can still change the list.
sealHandleMutations(s) == [s EXCEPT !.candidate = "sealed"]

\* Files and directories are denied to everybody and made read only; when one
\* cannot be, all are given back.
SealCandidate(h, denied) ==
    /\ inst[h].step = "compared"
    /\ IF denied
         THEN /\ inst' = [inst EXCEPT ![h].step = "sealed"]
              /\ staging' = [staging EXCEPT ![h] = sealHandleMutations(@)]
              /\ UNCHANGED litter
         ELSE Fail(h)
    /\ UNCHANGED <<vars, plan, source, content, seal, left>>

restoreMutationSeals(s) == [s EXCEPT !.candidate = "plain"]

publishRootNoReplace(v) == v \notin present

\* A last look at the members, then the directory is renamed into the store,
\* which fails when another Host was there first.
PublishCandidate(h, renamed) ==
    LET v == inst[h].package.version
    IN  /\ inst[h].step = "sealed"
        /\ IF /\ sealedMembersMatch(staging[h].damage)
              /\ publishRootNoReplace(v) /\ renamed
             THEN /\ present' = present \cup {v}
                  /\ content' = [content EXCEPT
                                   ![v] = [package |-> inst[h].package,
                                           damage |-> staging[h].damage]]
                  /\ inst' = [inst EXCEPT ![h].step = "published"]
                  /\ staging' = [staging EXCEPT ![h].candidate = "none"]
                  /\ UNCHANGED litter
             ELSE /\ inst' = [inst EXCEPT ![h] = Quiet]
                  /\ Return(h, restoreMutationSeals(staging[h]))
                  /\ UNCHANGED <<present, content>>
        /\ UNCHANGED <<state, lock, txn, held, past, activated, proven,
                       plan, source, seal, left>>

verifyMovedTree(v) == v \in present /\ "member" \notin content[v].damage

\* The published members must be the ones that were sealed.
VerifyPublished(h) ==
    LET v == inst[h].package.version
    IN  /\ inst[h].step = "published"
        /\ IF verifyMovedTree(v)
             THEN /\ inst' = [inst EXCEPT ![h].step = "committed"]
                  /\ UNCHANGED <<staging, litter>>
             ELSE Fail(h)
        /\ UNCHANGED <<vars, plan, source, content, seal, left>>

-----------------------------------------------------------------------------
\* Activation and verification in place.

\* activateVerified and compareCurrent are transactions of the store.
BeginTransaction(h) ==
    /\ \/ /\ inst[h].step = "committed"
          /\ BeginActivate(h, inst[h].package.version)
          /\ inst' = [inst EXCEPT ![h].step = "activating"]
       \/ /\ inst[h].step = "activated"
          /\ BeginOther(h, "compare")
          /\ inst' = [inst EXCEPT ![h].step = "comparing"]
       \/ /\ inst[h].step = "authenticated"
          /\ BeginOther(h, "compare")
          /\ inst' = [inst EXCEPT ![h].step = "recomparing"]
    /\ UNCHANGED <<plan, source, staging, litter, content, seal, left>>

\* The lock is not to be had in time.
LockTimesOut(h) ==
    /\ inst[h].step \in {"committed", "activated", "authenticated"}
    /\ lock # NoHost
    /\ Invalid(h)
    /\ UNCHANGED <<vars, plan, source, content, left>>

WriteTransaction(h, commitSucceeds) ==
    /\ Write(h, commitSucceeds)
    /\ UNCHANGED installVars

\* A retained guard is not acquired again.
afterTransaction(h) ==
    CASE inst[h].step = "activating"  -> "activated"
      [] inst[h].step = "comparing"   -> IF inst[h].kind = "recheck"
                                           THEN "guarded" ELSE "bound"
      [] inst[h].step = "recomparing" -> "rebound"
      [] OTHER                        -> inst[h].step

FinishTransaction(h) ==
    /\ Finish(h)
    /\ IF inst[h].step = "idle" \/ txn[h].result.ok
         THEN /\ inst' = [inst EXCEPT ![h].step = afterTransaction(h)]
              /\ UNCHANGED <<staging, litter, seal>>
         ELSE Invalid(h)
    /\ UNCHANGED <<plan, source, content, left>>

\* A launch verifies the version its Host selected.
BeginLaunch(h) ==
    /\ inst[h].step = "idle" /\ txn[h].step = "idle"
    /\ held[h] # NoBinding
    /\ left.launches > 0
    /\ left' = [left EXCEPT !.launches = @ - 1]
    /\ inst' = [inst EXCEPT ![h] = [Quiet EXCEPT !.step = "activated",
                                                 !.kind = "launch"]]
    /\ UNCHANGED <<vars, plan, source, staging, litter, content, seal>>

\* The members are listed and the files opened so that nobody can write them.
LockInstalled(h, opened) ==
    /\ inst[h].step = "bound"
    /\ IF Target(h) \in present /\ opened
         THEN /\ inst' = [inst EXCEPT ![h].step = "locked",
                           ![h].members = content[Target(h)].damage \ {"altered"}]
              /\ UNCHANGED <<staging, litter, seal>>
         ELSE Invalid(h)
    /\ UNCHANGED <<vars, plan, source, content, left>>

\* Every directory is opened to change its access list, which the seal of
\* another guard denies.
sealImmutableDirectoryMembership(h) ==
    /\ inst[h].step = "locked"
    /\ IF seal[Target(h)] = NoHost
         THEN /\ seal' = [seal EXCEPT ![Target(h)] = h]
              /\ inst' = [inst EXCEPT ![h].step = "guarded"]
              /\ UNCHANGED <<staging, litter>>
         ELSE Invalid(h)
    /\ UNCHANGED <<vars, plan, source, content, left>>

BugListsMembersOnce(h) == TRUE
currentMembersMatch(h) ==
    content[Target(h)].damage \ {"altered"} = inst[h].members

\* The directory is listed again, the files are read again and validated.
\* An unlisted member is in none of the files that are validated.
verifyInstalledImmutable(h) ==
    LET c == content[Target(h)]
        listed == [c EXCEPT !.damage = (@ \cap {"altered"}) \cup inst[h].members]
    IN  /\ inst[h].step = "guarded"
        /\ IF currentMembersMatch(h) /\ validateInstalledFiles(listed, Target(h))
             THEN /\ inst' = [inst EXCEPT ![h].step = "authenticated"]
                  /\ UNCHANGED <<staging, litter, seal>>
             ELSE Invalid(h)
        /\ UNCHANGED <<vars, plan, source, content, left>>

\* A verified launch keeps its guard.
KeepGuard(h) ==
    /\ inst[h].step = "rebound" /\ inst[h].kind # "install"
    /\ inst' = [inst EXCEPT ![h].step = "running", ![h].kind = "launch"]
    /\ UNCHANGED <<vars, plan, source, staging, litter, content, seal, left>>

\* The running version is verified again behind the guard it has.
BeginRecheck(h) ==
    /\ inst[h].step = "running"
    /\ left.launches > 0
    /\ left' = [left EXCEPT !.launches = @ - 1]
    /\ inst' = [inst EXCEPT ![h].step = "activated", ![h].kind = "recheck"]
    /\ UNCHANGED <<vars, plan, source, staging, litter, content, seal>>

\* closeImmutablePackageGuard: an installation that has verified its version,
\* or a Worker that is gone.  When an access list cannot be restored the guard
\* stays with the result.
CloseGuard(h, restored) ==
    /\ \/ inst[h].step = "rebound" /\ inst[h].kind = "install"
       \/ inst[h].step = "running"
    /\ restored \/ left.faults > 0
    /\ IF restored
         THEN /\ inst' = [inst EXCEPT ![h] = Quiet]
              /\ seal' = [seal EXCEPT ![Target(h)] = NoHost]
              /\ UNCHANGED left
         ELSE /\ inst' = [inst EXCEPT ![h].step = "unreleased"]
              /\ left' = [left EXCEPT !.faults = @ - 1]
              /\ UNCHANGED seal
    /\ Return(h, staging[h])
    /\ UNCHANGED <<vars, plan, source, content>>

\* The last reference to the guard goes, and its destructor tries again.
DropGuard(h) ==
    /\ inst[h].step = "unreleased"
    /\ inst' = [inst EXCEPT ![h] = Quiet]
    /\ seal' = [seal EXCEPT ![Target(h)] = NoHost]
    /\ UNCHANGED <<vars, plan, source, staging, litter, content, left>>

-----------------------------------------------------------------------------
\* Everybody else.

Fault == left.faults > 0 /\ left' = [left EXCEPT !.faults = @ - 1]

\* The package file is replaced.
ReplaceSource(p) ==
    /\ Fault
    /\ p # source
    /\ source' = p
    /\ UNCHANGED <<vars, plan, inst, staging, litter, content, seal>>

\* A candidate that is not locked yet can be altered, one that is not sealed
\* can be given a member, and anybody can put a file beside it.
TouchStaging(h, what) ==
    /\ Fault
    /\ CASE what = "altered" -> inst[h].step = "extracted"
         [] what = "member"  -> inst[h].step \in {"extracted", "compared"}
         [] what = "foreign" -> staging[h].exists
    /\ staging' = [staging EXCEPT
                     ![h].foreign = @ \/ what = "foreign",
                     ![h].damage = IF what = "foreign" THEN @
                                   ELSE @ \cup {what}]
    /\ UNCHANGED <<vars, plan, source, inst, litter, content, seal>>

\* A guard locks the files before it seals the directories.
LockedBy(v) ==
    {h \in Hosts : /\ inst[h].step \in {"locked", "guarded", "authenticated",
                                        "recomparing", "rebound", "running",
                                        "unreleased"}
                       \/ inst[h].kind = "recheck"
                   /\ Target(h) = v}

DamageVersion(v, what) ==
    /\ Fault
    /\ v \in present /\ seal[v] = NoHost
    /\ what = "member" \/ LockedBy(v) = {}
    /\ content' = [content EXCEPT ![v].damage = @ \cup {what}]
    /\ UNCHANGED <<vars, plan, source, inst, staging, litter, seal>>

LoseVersion(v) ==
    /\ Fault
    /\ LoseDirectory(v)
    /\ seal[v] = NoHost /\ LockedBy(v) = {}
    /\ content' = [content EXCEPT ![v] = Empty]
    /\ UNCHANGED <<plan, source, inst, staging, litter, seal>>

\* The process dies: its locks go, what it wrote and sealed stays.
CrashHost(h) ==
    /\ Fault
    /\ inst[h].step # "idle"
    /\ lock' = IF lock = h THEN NoHost ELSE lock
    /\ txn' = [txn EXCEPT ![h] = Idle]
    /\ held' = [held EXCEPT ![h] = NoBinding]
    /\ inst' = [inst EXCEPT ![h] = Quiet]
    /\ staging' = [staging EXCEPT ![h] = NoStaging]
    /\ litter' = IF staging[h].exists
                   THEN litter \cup {[staging[h] EXCEPT !.crashed = TRUE]}
                   ELSE litter
    /\ seal' = [v \in Versions |-> IF seal[v] = h THEN Orphan ELSE seal[v]]
    /\ UNCHANGED <<state, present, past, activated, proven, plan, source,
                   content>>

\* A Host that is neither installing nor launching uses the record.
UseRecord(h, op) ==
    /\ inst[h].step = "idle"
    /\ op \in plan.ops
    /\ BeginOther(h, op)
    /\ UNCHANGED installVars

Installation(h) ==
    \/ Precheck(h) \/ VerifyPackage(h) \/ CompareCandidate(h)
    \/ VerifyPublished(h) \/ BeginTransaction(h) \/ LockTimesOut(h)
    \/ FinishTransaction(h) \/ BeginLaunch(h) \/ BeginRecheck(h)
    \/ sealImmutableDirectoryMembership(h) \/ verifyInstalledImmutable(h)
    \/ KeepGuard(h) \/ DropGuard(h)
    \/ \E ok \in BOOLEAN :
         \/ StagePackage(h, ok) \/ RunPreflight(h, ok)
         \/ ExtractCandidate(h, ok) \/ SealCandidate(h, ok)
         \/ PublishCandidate(h, ok) \/ WriteTransaction(h, ok)
         \/ LockInstalled(h, ok) \/ CloseGuard(h, ok)

Environment ==
    \/ \E p \in Packages[plan.packages] : ReplaceSource(p)
    \/ \E h \in Hosts, what \in {"altered", "member", "foreign"} :
         TouchStaging(h, what)
    \/ \E v \in Versions, what \in {"altered", "member"} :
         DamageVersion(v, what)
    \/ \E v \in Versions : LoseVersion(v)
    \/ \E h \in Hosts : CrashHost(h)

InstallNext ==
    \/ plan.kind = "record" /\ Next /\ UNCHANGED installVars
    \/ plan.kind = "install" /\ \E h \in Hosts : Installation(h)
    \/ plan.kind = "install" /\ Environment
    \/ plan.kind = "install" /\ \E h \in Hosts, op \in Ops \ {"activate"} :
                                UseRecord(h, op)

InstallSpec == InstallInit /\ [][InstallNext]_allVars

-----------------------------------------------------------------------------
\* Properties.

\* Whatever happens to the package file between its two reads and to the
\* staging directory while the candidate is prepared, a version directory
\* appears whole, holds exactly the members of one package that passed every
\* check, and carries that package's name.
PublishedIsAuthentic ==
    [][\A v \in present' \ present :
         plan.kind = "install" => /\ content'[v].damage = {}
                                  /\ content'[v].package.flaws = {}
                                  /\ content'[v].package.version = v]_allVars

\* From the moment the guard has authenticated a version until it is closed
\* the version is what was authenticated: no member slips in between listing
\* the directory and sealing it.
GuardedIsAuthentic ==
    \A h \in Hosts :
        inst[h].step \in {"authenticated", "recomparing", "rebound", "running",
                         "unreleased"}
        => /\ seal[Target(h)] = h
           /\ Target(h) \in present
           /\ content[Target(h)].damage = {}
           /\ content[Target(h)].package.version = Target(h)

\* An installation that ends, however it ends, leaves no staging directory
\* behind, unless somebody else put a file into it or the process died.
StagingIsReclaimed ==
    \A s \in litter : s.foreign \/ s.crashed \/ "member" \in s.damage

\* What is extracted from an accepted archive is bounded, and no two of its
\* members fall on the same file or on a file and its directory.
ArchiveIsBounded ==
    \A h \in Hosts :
        inst[h].step \in {"verified", "preflighted", "extracted"} =>
            LET entries == inst[h].package.image.entries
                size[i \in 0..Len(entries)] ==
                    IF i = 0 THEN 0 ELSE size[i - 1] + entries[i].size
                keys == [i \in DOMAIN entries |-> collisionKey(entries[i].path)]
            IN  /\ size[Len(entries)] <= MaximumTotalBytes
                /\ \A i \in DOMAIN keys, j \in DOMAIN keys :
                     i # j => ~IsPrefix(keys[i], keys[j])

\* What a Host runs is what it authenticated, and it gives back the disk that
\* an installation took.
InstallationIsSound == GuardedIsAuthentic /\ StagingIsReclaimed
=============================================================================
