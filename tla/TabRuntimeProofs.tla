--------------------------- MODULE TabRuntimeProofs ---------------------------
(***************************************************************************)
(* Proofs about the runtime of an app tab: one Worker at most, confined as *)
(* long as it lives, nothing left of a launch that was cleaned up and      *)
(* nothing at all behind a retirement, for any number of launch requests,  *)
(* of incidents and of attempts.                                           *)
(*                                                                         *)
(* The calls of the controller and the launcher are functions of a state   *)
(* record, so the invariant is a predicate of such a record: CtxPart is    *)
(* about the launches and who still owns them, CtlPart about the Worker    *)
(* the controller serves.                                                  *)
(***************************************************************************)
EXTENDS TabRuntime, FiniteSetTheorems, SequenceTheorems, TLAPS

-----------------------------------------------------------------------------
\* The shapes of the state record.

Ids == {0} \cup Requests
Steps == {"none", "prepare", "validate", "launch", "handshake", "revalidate",
          "finished"}
Words == {"fail", "admit", "cancel", "failClosed", "retired", "lost",
          "accepted", "rejected", "stale"}

Sandboxes ==
    [acl : SUBSET Grants, prepared : SUBSET Grants, process : SUBSET Grants,
     cleanup : SUBSET Grants,
     exec : {"none", "running", "dying", "dead", "closed"}]
Contexts ==
    [serial : Nat, thread : Steps, submitted : BOOLEAN, attached : BOOLEAN,
     canceled : BOOLEAN, fatalCleanupObserved : BOOLEAN,
     observationFailed : BOOLEAN, terminationRequested : BOOLEAN,
     observer : {"none", "held", "watching", "done"}, session : BOOLEAN,
     adm : {"none", "waiting", "answered", "resolved"}, guard : BOOLEAN,
     temp : BOOLEAN, sb : Sandboxes, mgr : {"none", "active", "fatal", "done"},
     attempts : Nat]
Targets == [req : Ids, nav : Nat, gen : Nat,
            cap : {"none", "init", "ready", "failed"}]
Controllers ==
    [accepting : BOOLEAN, closing : BOOLEAN, retired : BOOLEAN, gate : BOOLEAN,
     current : Ids, target : Targets, pending : Targets, runtime : Ids,
     generation : Nat]
Launchers ==
    [accepting : BOOLEAN, serial : Nat, inflight : SUBSET Requests,
     current : Ids, pending : Ids, expectedStop : Ids, fatal : SUBSET Requests]
Sessions == [state : {"Detached", "Running", "ShuttingDown", "Failed"},
             generation : Nat, io : BOOLEAN]
Events == [t : Words, r : Ids]

States == [ctl : Controllers, lch : Launchers, ctx : [Requests -> Contexts],
           sess : Sessions, queue : Seq(Events), nav : Nat \ {0}]

-----------------------------------------------------------------------------
\* The inductive invariant.

\* Each change on disk is owed by one object, and a Worker executes with all.
SandboxOK(sb) ==
    /\ sb.prepared \subseteq {"package"} /\ sb.cleanup \subseteq LaunchGrants
    /\ sb.process # {} => sb.prepared = {} /\ sb.cleanup = {}
    /\ sb.acl = Owned(sb)
    /\ Executing(sb) => sb.process = Grants
    /\ sb.exec = "none" => sb.process = {}

\* A launch, from its first step to the end of its retirement.
ContextOK(c) ==
    /\ SandboxOK(c.sb)
    /\ c.thread = "none" => /\ c.sb = NoSandbox /\ ~c.temp /\ ~c.guard
                            /\ ~c.session /\ c.adm = "none" /\ c.mgr = "none"
                            /\ ~c.fatalCleanupObserved /\ ~c.canceled
                            /\ ~c.attached
    /\ c.thread = "prepare" => c.sb = NoSandbox
    /\ c.thread \in {"validate", "launch"} => c.sb = prepare(NoSandbox)
    /\ c.thread = "launch" => c.guard
    /\ Launching(c) => c.temp /\ c.adm = "none"
    /\ c.observer = "watching" => c.adm = "resolved" /\ c.thread = "finished"
    /\ Executing(c.sb) => c.guard /\ c.temp
    /\ c.submitted <=> c.mgr # "none"
    /\ c.mgr = "done" => /\ c.thread = "finished" /\ Clean(c)
                         /\ ~c.temp /\ ~c.session

\* The launcher still has to do with the launch r.
Cared(l, r) == r \in l.inflight \/ (r # 0 /\ r = l.current) \/ r \in l.fatal

Occupied(c) == c.thread # "none" /\ c.mgr # "done"

\* Whoever is launched is cared for until it is cleaned up, and alone.
LaunchesOK(s) ==
    /\ s.lch.current # 0 => s.lch.inflight = {} /\ s.ctx[s.lch.current].attached
    /\ \A q, r \in s.lch.inflight : q = r
    /\ \A r \in Requests : Cared(s.lch, r) => s.ctx[r].thread # "none"
    /\ \A r \in s.lch.fatal : s.ctx[r].mgr # "none"
    /\ \A r \in Requests : Occupied(s.ctx[r]) => Cared(s.lch, r)
    /\ \A q, r \in Requests : Occupied(s.ctx[q]) /\ Occupied(s.ctx[r]) => q = r
    /\ s.lch.pending # 0 => s.ctx[s.lch.pending].thread = "none"
    /\ s.lch.accepting => /\ s.lch.fatal = {}
                          /\ \A r \in Requests : ~s.ctx[r].fatalCleanupObserved

\* Unless it was given up, a launch that may still be admitted is in flight
\* and nobody retires it.
MayAttach(s, r) ==
    ~s.ctx[r].canceled /\ s.lch.accepting
        => r \in s.lch.inflight /\ s.ctx[r].mgr = "none"
AdmissionsOK(s) ==
    \A r \in Requests :
        Launching(s.ctx[r]) \/ s.ctx[r].adm \in {"waiting", "answered"}
            => MayAttach(s, r)

\* What the queued events rely on.
EventOK(s, e) ==
    /\ e.t \in {"retired", "lost", "admit", "accepted", "rejected", "stale"}
         => e.r \in Requests
    /\ e.t = "retired" => Cared(s.lch, e.r) /\ s.ctx[e.r].mgr = "done"
    /\ e.t = "lost" => Cared(s.lch, e.r) /\ s.ctx[e.r].mgr # "none"
    /\ e.t = "admit" => /\ MayAttach(s, e.r) /\ s.ctx[e.r].thread = "finished"
                        /\ s.ctx[e.r].adm = "none"
    /\ e.t \in {"accepted", "rejected", "stale"} => s.ctx[e.r].adm # "none"
QueueOK(s) ==
    /\ \A i \in 1 .. Len(s.queue) : EventOK(s, s.queue[i])
    /\ \A i, j \in 1 .. Len(s.queue) :
         /\ i < j /\ s.queue[i].t = "retired"
         /\ s.queue[j].t \in {"retired", "lost"}
         => s.queue[i].r # s.queue[j].r
    /\ \A i, j \in 1 .. Len(s.queue) :
         i < j /\ s.queue[i].t = "admit" /\ s.queue[j].t = "admit"
         => s.queue[i].r # s.queue[j].r

CtxPart(s) ==
    /\ \A r \in Requests : ContextOK(s.ctx[r])
    /\ LaunchesOK(s) /\ AdmissionsOK(s) /\ QueueOK(s)

\* The Worker that is served, or about to be, is the launcher's.
CtlPart(s) ==
    /\ s.ctl.runtime # 0 => /\ s.ctl.runtime = s.lch.current
                            /\ s.ctl.current = s.ctl.runtime
                            /\ s.ctl.generation = s.sess.generation
    /\ s.ctl.pending # None => /\ s.ctl.runtime = 0
                               /\ s.ctl.pending.req # 0
                               /\ s.ctl.pending.req = s.lch.current
    /\ ~s.lch.accepting => s.ctl.runtime = 0 /\ s.ctl.pending = None
    /\ s.ctl.closing => ~s.lch.accepting
    /\ s.ctl.retired => s.ctl.closing /\ ~hasPendingActivity(s)

RequestsOK ==
    /\ requested \in {0} \cup Requests
    /\ \A r \in Requests : r > requested => ctx[r].thread = "none"
    /\ lch.pending <= requested

IInv == Here \in States /\ CtxPart(Here) /\ CtlPart(Here) /\ RequestsOK

-----------------------------------------------------------------------------
\* Access rights: what the calls of the sandbox leave.

\* Closing the grants of one owner, as far as it succeeds.
LEMMA ClosedGrants ==
    ASSUME NEW sb \in Sandboxes, SandboxOK(sb),
           NEW owner \in {"prepared", "process", "cleanup"},
           owner = "process" => ~Executing(sb),
           NEW x \in closeGrants(sb, owner)
    PROVE  x \in Sandboxes /\ SandboxOK(x) /\ x.exec = sb.exec
<1>1. PICK kept \in SUBSET sb[owner] :
        x = [sb EXCEPT !.acl = @ \ (sb[owner] \ kept), ![owner] = kept]
    BY DEF closeGrants
<1>2. CASE owner = "prepared"
    BY <1>1, <1>2 DEF Sandboxes, SandboxOK, Owned, Executing, Grants, LaunchGrants
<1>3. CASE owner = "process"
    BY <1>1, <1>3 DEF Sandboxes, SandboxOK, Owned, Executing, Grants, LaunchGrants
<1>4. CASE owner = "cleanup"
    BY <1>1, <1>4 DEF Sandboxes, SandboxOK, Owned, Executing, Grants, LaunchGrants
<1> QED
    BY <1>2, <1>3, <1>4

\* A launch that has prepared nothing.
LEMMA EmptySandbox ==
    NoSandbox \in Sandboxes /\ SandboxOK(NoSandbox)
BY DEF NoSandbox, Sandboxes, SandboxOK, Owned, Executing

\* A launch that holds the package grant.
LEMMA PreparedSandbox ==
    /\ prepare(NoSandbox) \in Sandboxes /\ SandboxOK(prepare(NoSandbox))
    /\ prepare(NoSandbox).exec = "none"
BY DEF prepare, NoSandbox, Sandboxes, SandboxOK, Owned, Executing, Grants

\* A launch whose process runs with every grant.
LEMMA LaunchedSandbox ==
    /\ launched(prepare(NoSandbox)) \in Sandboxes
    /\ SandboxOK(launched(prepare(NoSandbox)))
BY DEF launched, prepare, NoSandbox, Sandboxes, SandboxOK, Owned, Executing,
       Grants, LaunchGrants

\* What a launch that failed half way can leave.
LEMMA FailedSandbox ==
    ASSUME NEW x \in launchFailures(prepare(NoSandbox))
    PROVE  x \in Sandboxes /\ SandboxOK(x) /\ x.exec = "none"
<1> DEFINE sb == prepare(NoSandbox)
           Applied(a) == [sb EXCEPT !.acl = @ \cup a, !.cleanup = a]
<1>1. CASE x = sb
    BY <1>1, PreparedSandbox
<1>2. ASSUME NEW a \in {{"temp"}, LaunchGrants}, x \in closeGrants(Applied(a), "cleanup")
      PROVE  x \in Sandboxes /\ SandboxOK(x) /\ x.exec = "none"
  <2>1. Applied(a) \in Sandboxes /\ SandboxOK(Applied(a)) /\ Applied(a).exec = "none"
      BY DEF prepare, NoSandbox, Sandboxes, SandboxOK, Owned, Executing, Grants,
             LaunchGrants
  <2> HIDE DEF Applied, sb
  <2> QED
      BY <1>2, <2>1, ClosedGrants
<1> QED
    BY <1>1, <1>2 DEF launchFailures, failureAfterCheckedRollback

\* Asking a process to end changes no access right.
LEMMA TerminatedSandbox ==
    ASSUME NEW sb \in Sandboxes
    PROVE  /\ terminate(sb) \in Sandboxes
           /\ SandboxOK(sb) => SandboxOK(terminate(sb))
           /\ Executing(terminate(sb)) <=> Executing(sb)
           /\ terminate(sb).exec = "dead" <=> sb.exec = "dead"
           /\ terminate(sb).exec = "none" <=> sb.exec = "none"
           /\ Owned(terminate(sb)) = Owned(sb)
           /\ sb.exec = "none" => terminate(sb) = sb
BY DEF terminate, Sandboxes, SandboxOK, Owned, Executing

\* Waiting for the process changes no access right.
LEMMA EndedSandbox ==
    ASSUME NEW sb \in Sandboxes, SandboxOK(sb), NEW x \in closeExecution(sb)
    PROVE  /\ x \in Sandboxes /\ SandboxOK(x)
           /\ Executing(x) => Executing(sb)
BY DEF closeExecution, Sandboxes, SandboxOK, Owned, Executing

\* The process has ended, and is seen to have.
LEMMA DeadSandbox ==
    ASSUME NEW sb \in Sandboxes, SandboxOK(sb), Executing(sb)
    PROVE  /\ [sb EXCEPT !.exec = "dead"] \in Sandboxes
           /\ SandboxOK([sb EXCEPT !.exec = "dead"])
           /\ ~Executing([sb EXCEPT !.exec = "dead"])
BY DEF Sandboxes, SandboxOK, Owned, Executing

-----------------------------------------------------------------------------
\* One attempt of the retirement thread.

\* An attempt closes what it can, and never what an executing Worker needs.
LEMMA AttemptedRetirement ==
    ASSUME NEW c \in Contexts, ContextOK(c), ~Launching(c), c.thread # "none",
           NEW d \in attemptRetirement(c)
    PROVE  /\ d \in Contexts /\ SandboxOK(d.sb) /\ ~d.session
           /\ Executing(d.sb) => d.guard /\ d.temp
           /\ d.thread = "finished"
           /\ d.submitted = c.submitted /\ d.attached = c.attached
           /\ d.canceled = c.canceled /\ d.mgr = c.mgr
           /\ d.fatalCleanupObserved = c.fatalCleanupObserved
           /\ d.adm = c.adm /\ (d.observer = "watching" => c.observer = "watching")
<1> DEFINE Same(x) ==
             /\ x \in Contexts /\ SandboxOK(x.sb) /\ ~x.session
             /\ Executing(x.sb) => x.guard /\ x.temp
             /\ x.thread = "finished"
             /\ x.submitted = c.submitted /\ x.attached = c.attached
             /\ x.canceled = c.canceled /\ x.mgr = c.mgr
             /\ x.fatalCleanupObserved = c.fatalCleanupObserved
             /\ x.adm = c.adm /\ (x.observer = "watching" => c.observer = "watching")
           c0 == [c EXCEPT !.session = FALSE,
                           !.observer = IF @ = "held" THEN "none" ELSE @]
<1>1. Same(c0)
    BY DEF Contexts, ContextOK, Launching, Steps
<1>2. ASSUME NEW x, Same(x), NEW k \in Sandboxes, SandboxOK(k),
             Executing(k) => Executing(x.sb)
      PROVE  Same([x EXCEPT !.sb = k])
    BY <1>2 DEF Contexts
<1>3. ASSUME NEW x, Same(x), ~Executing(x.sb), NEW g \in {FALSE} \cup {x.guard}
      PROVE  Same([x EXCEPT !.guard = g]) /\ ~Executing([x EXCEPT !.guard = g].sb)
    BY <1>3 DEF Contexts
<1> HIDE DEF Same, c0
<1>4. ASSUME NEW x, Same(x), ~Executing(x.sb), NEW y \in closePackage(x)
      PROVE  Same(y)
  <2>1. x.sb \in Sandboxes /\ SandboxOK(x.sb) /\ x \in Contexts
      BY <1>4 DEF Same, Contexts
  <2>2. PICK sb1 \in closeGrants(x.sb, "prepared") :
          \E sb2 \in closeGrants(sb1, "process") : \E g \in {FALSE} \cup {x.guard} :
            y = [x EXCEPT !.sb = sb2, !.guard = g]
    <3>1. PICK sb1 \in closeGrants(x.sb, "prepared") :
            y \in UNION {{[x EXCEPT !.sb = sb2, !.guard = g] :
                             g \in {FALSE} \cup {x.guard}}
                         : sb2 \in closeGrants(sb1, "process")}
        BY <1>4 DEF closePackage
    <3> QED
        BY <3>1
  <2>3. PICK sb2 \in closeGrants(sb1, "process"), g \in {FALSE} \cup {x.guard} :
          y = [x EXCEPT !.sb = sb2, !.guard = g]
      BY <2>2
  <2>4. sb1 \in Sandboxes /\ SandboxOK(sb1) /\ sb1.exec = x.sb.exec
      BY <2>1, <2>2, ClosedGrants
  <2>5. ~Executing(sb1)
      BY <1>4, <2>4 DEF Executing
  <2>6. sb2 \in Sandboxes /\ SandboxOK(sb2) /\ sb2.exec = sb1.exec
      BY <2>3, <2>4, <2>5, ClosedGrants
  <2>7. ~Executing(sb2)
      BY <2>5, <2>6 DEF Executing
  <2> DEFINE z == [x EXCEPT !.sb = sb2]
  <2>8. Same(z) /\ ~Executing(z.sb) /\ z.guard = x.guard
      BY <1>2, <1>4, <2>1, <2>6, <2>7 DEF Contexts
  <2>9. y = [z EXCEPT !.guard = g]
      BY <2>1, <2>3 DEF Contexts
  <2> HIDE DEF z
  <2>10. g \in {FALSE} \cup {z.guard}
      BY <2>3, <2>8
  <2> QED
      BY <1>3, <2>8, <2>9, <2>10
<1>5. ASSUME NEW y \in closeSandbox(c0)
      PROVE  Same(y)
  <2>1. c0.sb \in Sandboxes /\ SandboxOK(c0.sb) /\ c0 \in Contexts
      BY <1>1 DEF Same, Contexts
  <2>2. PICK e \in closeExecution(terminate(c0.sb)) :
          \E k \in closeGrants(e, "cleanup") :
            y \in IF Executing(k) \/ k.exec = "dead"
                    THEN {[c0 EXCEPT !.sb = k]}
                    ELSE closePackage([c0 EXCEPT !.sb = k])
      BY <1>5 DEF closeSandbox
  <2>3. PICK k \in closeGrants(e, "cleanup") :
          y \in IF Executing(k) \/ k.exec = "dead"
                  THEN {[c0 EXCEPT !.sb = k]}
                  ELSE closePackage([c0 EXCEPT !.sb = k])
      BY <2>2
  <2>4. /\ terminate(c0.sb) \in Sandboxes /\ SandboxOK(terminate(c0.sb))
        /\ Executing(terminate(c0.sb)) <=> Executing(c0.sb)
      BY <2>1, TerminatedSandbox
  <2>5. e \in Sandboxes /\ SandboxOK(e) /\ (Executing(e) => Executing(c0.sb))
      BY <2>2, <2>4, EndedSandbox
  <2>6. k \in Sandboxes /\ SandboxOK(k) /\ k.exec = e.exec
      BY <2>3, <2>5, ClosedGrants
  <2>7. Executing(k) => Executing(c0.sb)
      BY <2>5, <2>6 DEF Executing
  <2>8. Same([c0 EXCEPT !.sb = k]) /\ [c0 EXCEPT !.sb = k].sb = k
      BY <1>1, <1>2, <2>1, <2>6, <2>7 DEF Contexts
  <2> QED
      BY <1>4, <2>3, <2>8
<1>6. PICK c1 \in closeSandbox(c0) :
        d \in IF Clean(c1) THEN {c1, [c1 EXCEPT !.temp = FALSE]} ELSE {c1}
    BY DEF attemptRetirement, c0
<1>7. Same(c1)
    BY <1>5, <1>6
<1>8. CASE d = c1
    BY <1>7, <1>8 DEF Same
<1>9. CASE Clean(c1) /\ d = [c1 EXCEPT !.temp = FALSE]
    BY <1>7, <1>9 DEF Same, Clean, Contexts
<1> QED
    BY <1>6, <1>8, <1>9

-----------------------------------------------------------------------------
\* What a call that only stops something may change: contexts, by asking
\* their process to end; the session, which is shut down; the Worker that is
\* served and the attach that waits, which are given up.

SameLaunch(c, d) ==
    /\ d.sb \in {c.sb, terminate(c.sb)}
    /\ d.serial = c.serial /\ d.thread = c.thread /\ d.submitted = c.submitted
    /\ d.attached = c.attached /\ d.canceled = c.canceled
    /\ d.fatalCleanupObserved = c.fatalCleanupObserved
    /\ d.observer = c.observer /\ d.session = c.session /\ d.adm = c.adm
    /\ d.guard = c.guard /\ d.temp = c.temp /\ d.mgr = c.mgr

SameLauncher(l, m) ==
    /\ m.accepting = l.accepting /\ m.serial = l.serial
    /\ m.inflight = l.inflight /\ m.current = l.current
    /\ m.pending = l.pending /\ m.fatal = l.fatal

Calmer(c, d) ==
    /\ d.accepting = c.accepting /\ d.closing = c.closing
    /\ d.retired = c.retired /\ d.gate = c.gate
    /\ d.current = c.current /\ d.target = c.target
    /\ d.runtime \in {0, c.runtime}
    /\ d.runtime # 0 => d.generation = c.generation
    /\ d.pending \in {None, c.pending}

\* The launches are as they were, as far as they matter.
Undisturbed(s, t) ==
    /\ t \in States
    /\ \A r \in Requests : SameLaunch(s.ctx[r], t.ctx[r])
    /\ SameLauncher(s.lch, t.lch) /\ t.queue = s.queue

Stopped(s, t) ==
    /\ Undisturbed(s, t) /\ Calmer(s.ctl, t.ctl)
    /\ t.sess.generation = s.sess.generation /\ t.sess.io = s.sess.io
    /\ t.nav = s.nav

\* Nothing happened.
LEMMA UndisturbedSame ==
    ASSUME NEW s \in States
    PROVE  Undisturbed(s, s)
BY DEF Undisturbed, SameLaunch, SameLauncher

\* Two calls that disturb no launch disturb none together.
LEMMA UndisturbedTwice ==
    ASSUME NEW s \in States, NEW t, NEW u, Undisturbed(s, t), Undisturbed(t, u)
    PROVE  Undisturbed(s, u)
<1>1. ASSUME NEW r \in Requests
      PROVE  SameLaunch(s.ctx[r], u.ctx[r])
  <2>1. SameLaunch(s.ctx[r], t.ctx[r]) /\ SameLaunch(t.ctx[r], u.ctx[r])
      BY DEF Undisturbed
  <2>2. s.ctx[r].sb \in Sandboxes
      BY DEF States, Contexts
  <2>3. terminate(terminate(s.ctx[r].sb)) = terminate(s.ctx[r].sb)
      BY <2>2 DEF terminate, Sandboxes
  <2> QED
      BY <2>1, <2>3 DEF SameLaunch
<1>2. SameLauncher(s.lch, u.lch)
    BY DEF Undisturbed, SameLauncher
<1> QED
    BY <1>1, <1>2 DEF Undisturbed

\* Nothing happened.
LEMMA StoppedSame ==
    ASSUME NEW s \in States
    PROVE  Stopped(s, s)
BY UndisturbedSame DEF Stopped, Calmer

\* Two calls that only stop something only stop something together.
LEMMA StoppedTwice ==
    ASSUME NEW s \in States, NEW t, NEW u, Stopped(s, t), Stopped(t, u)
    PROVE  Stopped(s, u)
<1>1. Calmer(s.ctl, u.ctl)
    BY DEF Stopped, Calmer
<1> QED
    BY <1>1, UndisturbedTwice DEF Stopped

\* A launch whose process was asked to end is as it was in all that matters.
LEMMA SameLaunchOK ==
    ASSUME NEW c \in Contexts, NEW d \in Contexts, SameLaunch(c, d)
    PROVE  /\ ContextOK(c) => ContextOK(d)
           /\ Launching(c) <=> Launching(d)
           /\ Occupied(c) <=> Occupied(d)
<1>1. c.sb \in Sandboxes
    BY DEF Contexts
<1>2. /\ SandboxOK(c.sb) => SandboxOK(d.sb)
      /\ Executing(d.sb) <=> Executing(c.sb)
      /\ d.sb.exec = "dead" <=> c.sb.exec = "dead"
      /\ Owned(d.sb) = Owned(c.sb)
      /\ c.sb.exec = "none" => d.sb = c.sb
    BY <1>1, TerminatedSandbox DEF SameLaunch
<1>3. NoSandbox.exec = "none" /\ prepare(NoSandbox).exec = "none"
    BY DEF NoSandbox, prepare
<1>4. (Launching(c) <=> Launching(d)) /\ (Occupied(c) <=> Occupied(d))
    BY DEF SameLaunch, Launching, Occupied
<1> QED
    BY <1>2, <1>3, <1>4 DEF ContextOK, SameLaunch, Clean

\* Calls that disturb no launch keep what is said of the launches.
LEMMA UndisturbedLaunches ==
    ASSUME NEW s \in States, CtxPart(s), NEW t, Undisturbed(s, t)
    PROVE  CtxPart(t)
<1>1. \A r \in Requests : /\ s.ctx[r] \in Contexts /\ t.ctx[r] \in Contexts
                          /\ SameLaunch(s.ctx[r], t.ctx[r])
    BY DEF Undisturbed, States
<1>2. \A r \in Requests : /\ ContextOK(t.ctx[r])
                          /\ Launching(s.ctx[r]) <=> Launching(t.ctx[r])
                          /\ Occupied(s.ctx[r]) <=> Occupied(t.ctx[r])
    BY <1>1, SameLaunchOK DEF CtxPart
<1>3. SameLauncher(s.lch, t.lch) /\ t.queue = s.queue
    BY DEF Undisturbed
<1>4. s.lch \in Launchers /\ s.queue \in Seq(Events)
    BY DEF States
<1>5. \A r \in Requests : Cared(t.lch, r) <=> Cared(s.lch, r)
    BY <1>3 DEF SameLauncher, Cared
<1>6. LaunchesOK(t)
    BY <1>1, <1>2, <1>3, <1>4, <1>5
       DEF LaunchesOK, CtxPart, SameLaunch, SameLauncher, Launchers, Ids
<1>7. \A r \in Requests : MayAttach(s, r) => MayAttach(t, r)
    BY <1>1, <1>3 DEF MayAttach, SameLaunch, SameLauncher
<1>8. AdmissionsOK(t)
    BY <1>1, <1>2, <1>7 DEF AdmissionsOK, CtxPart, SameLaunch
<1>9. \A e \in Events : EventOK(s, e) => EventOK(t, e)
    BY <1>1, <1>3, <1>5, <1>7 DEF EventOK, SameLaunch
<1>10. QueueOK(t)
    BY <1>3, <1>4, <1>9 DEF QueueOK, CtxPart
<1> QED
    BY <1>2, <1>6, <1>8, <1>10 DEF CtxPart

\* So do the calls that only stop something.
LEMMA StoppedLaunches ==
    ASSUME NEW s \in States, CtxPart(s), NEW t, Stopped(s, t)
    PROVE  CtxPart(t)
BY UndisturbedLaunches DEF Stopped

\* They keep what is said of the Worker that is served.
LEMMA StoppedControl ==
    ASSUME NEW s \in States, CtlPart(s), NEW t, Stopped(s, t)
    PROVE  CtlPart(t)
<1>1. Calmer(s.ctl, t.ctl) /\ SameLauncher(s.lch, t.lch)
      /\ t.sess.generation = s.sess.generation
    BY DEF Stopped, Undisturbed
<1>2. hasPendingActivity(t) <=> hasPendingActivity(s)
    BY <1>1 DEF hasPendingActivity, SameLauncher
<1> QED
    BY <1>1, <1>2 DEF CtlPart, Calmer, SameLauncher

-----------------------------------------------------------------------------
\* The calls that only stop something.

\* One context of a state is replaced.
LEMMA SetContext ==
    ASSUME NEW s \in States, NEW r \in Requests, NEW d \in Contexts,
           NEW t, t = [s EXCEPT !.ctx[r] = d]
    PROVE  /\ t \in States
           /\ t.ctl = s.ctl /\ t.lch = s.lch /\ t.sess = s.sess
           /\ t.queue = s.queue /\ t.nav = s.nav
           /\ t.ctx[r] = d /\ \A q \in Requests : q # r => t.ctx[q] = s.ctx[q]
BY DEF States

\* The controller's part of a state is replaced.
LEMMA SetControl ==
    ASSUME NEW s \in States, NEW c \in Controllers,
           NEW t, t = [s EXCEPT !.ctl = c]
    PROVE  /\ t \in States /\ t.ctl = c
           /\ t.ctx = s.ctx /\ t.lch = s.lch /\ t.sess = s.sess
           /\ t.queue = s.queue /\ t.nav = s.nav
BY DEF States

\* SandboxProcess::requestTerminateNoWait, as the controller calls it.
LEMMA Killed ==
    ASSUME NEW s \in States, NEW r \in Ids
    PROVE  /\ Stopped(s, kill(s, r)) /\ kill(s, r).ctl = s.ctl
           /\ kill(s, r).sess = s.sess /\ kill(s, r).lch = s.lch
<1>1. CASE r \notin Requests
  <2>1. kill(s, r) = s
      BY <1>1 DEF kill, States
  <2> QED
      BY <2>1, StoppedSame
<1>2. CASE r \in Requests
  <2> DEFINE d == [s.ctx[r] EXCEPT !.sb = terminate(@)]
  <2>1. kill(s, r) = [s EXCEPT !.ctx[r] = d]
      BY DEF kill
  <2>2. s.ctx[r] \in Contexts /\ s.ctx[r].sb \in Sandboxes
      BY <1>2 DEF States, Contexts
  <2>3. d \in Contexts /\ SameLaunch(s.ctx[r], d)
      BY <2>2, TerminatedSandbox DEF Contexts, SameLaunch
  <2> HIDE DEF d
  <2>4. \A q \in Requests : SameLaunch(s.ctx[q], s.ctx[q])
      BY DEF SameLaunch
  <2> QED
      BY <1>2, <2>1, <2>3, <2>4, SetContext
         DEF Stopped, Undisturbed, SameLauncher, Calmer
<1> QED
    BY <1>1, <1>2

\* LaunchRetirementContext::requestTerminateNoWait.
LEMMA TerminationRequested ==
    ASSUME NEW s \in States, NEW r \in Requests
    PROVE  /\ Stopped(s, requestTerminateNoWait(s, r))
           /\ requestTerminateNoWait(s, r).ctl = s.ctl
           /\ requestTerminateNoWait(s, r).sess = s.sess
           /\ requestTerminateNoWait(s, r).lch = s.lch
           /\ \A q \in Requests :
                q # r => requestTerminateNoWait(s, r).ctx[q] = s.ctx[q]
<1> DEFINE d == [s.ctx[r] EXCEPT !.terminationRequested = TRUE]
           t == [s EXCEPT !.ctx[r] = d]
           e == [d EXCEPT !.sb = terminate(@)]
           u == [t EXCEPT !.ctx[r] = e]
<1>1. s.ctx[r] \in Contexts /\ s.ctx[r].sb \in Sandboxes
    BY DEF States, Contexts
<1>2. d \in Contexts /\ d.sb = s.ctx[r].sb /\ SameLaunch(s.ctx[r], d)
    BY <1>1 DEF Contexts, SameLaunch
<1>3. e \in Contexts /\ SameLaunch(s.ctx[r], e)
    BY <1>1, <1>2, TerminatedSandbox DEF Contexts, SameLaunch
<1>4. t.ctx[r] = d
    BY DEF States
<1>5. requestTerminateNoWait(s, r) = u
    BY <1>4 DEF requestTerminateNoWait, kill
<1> HIDE DEF d, e
<1>6. /\ t \in States /\ t.ctl = s.ctl /\ t.lch = s.lch /\ t.sess = s.sess
      /\ t.queue = s.queue /\ t.nav = s.nav
      /\ \A q \in Requests : q # r => t.ctx[q] = s.ctx[q]
    BY <1>2, SetContext
<1> HIDE DEF t
<1>7. u = [t EXCEPT !.ctx[r] = e]
    OBVIOUS
<1> HIDE DEF u
<1>8. /\ u \in States /\ u.ctl = s.ctl /\ u.lch = s.lch /\ u.sess = s.sess
      /\ u.queue = s.queue /\ u.nav = s.nav /\ u.ctx[r] = e
      /\ \A q \in Requests : q # r => u.ctx[q] = s.ctx[q]
  <2>1. /\ u \in States /\ u.ctl = t.ctl /\ u.lch = t.lch /\ u.sess = t.sess
        /\ u.queue = t.queue /\ u.nav = t.nav /\ u.ctx[r] = e
        /\ \A q \in Requests : q # r => u.ctx[q] = t.ctx[q]
      BY <1>3, <1>6, <1>7 DEF States
  <2> QED
      BY <1>6, <2>1
<1>9. \A q \in Requests : SameLaunch(s.ctx[q], s.ctx[q])
    BY DEF SameLaunch
<1> QED
    BY <1>3, <1>5, <1>8, <1>9 DEF Stopped, Undisturbed, SameLauncher, Calmer

\* Every launch in flight is asked to end.
LEMMA AllTerminated ==
    ASSUME NEW s \in States, NEW rs \in SUBSET Requests
    PROVE  /\ Stopped(s, TerminateAll(s, rs)) /\ TerminateAll(s, rs).ctl = s.ctl
           /\ TerminateAll(s, rs).sess = s.sess
           /\ TerminateAll(s, rs).lch = s.lch
           /\ \A q \in Requests : q \notin rs => TerminateAll(s, rs).ctx[q] = s.ctx[q]
<1> DEFINE f == [r \in Requests |->
                   IF r \in rs THEN requestTerminateNoWait(s, r).ctx[r]
                               ELSE s.ctx[r]]
<1>1. TerminateAll(s, rs) = [s EXCEPT !.ctx = f]
    BY DEF TerminateAll
<1>2. ASSUME NEW r \in Requests
      PROVE  /\ requestTerminateNoWait(s, r).ctx[r] \in Contexts
             /\ SameLaunch(s.ctx[r], requestTerminateNoWait(s, r).ctx[r])
    BY TerminationRequested DEF Stopped, Undisturbed, States
<1>3. \A r \in Requests : s.ctx[r] \in Contexts /\ SameLaunch(s.ctx[r], s.ctx[r])
    BY DEF States, SameLaunch
<1>4. f \in [Requests -> Contexts] /\ \A r \in Requests : SameLaunch(s.ctx[r], f[r])
    BY <1>2, <1>3
<1>5. \A r \in Requests : r \notin rs => f[r] = s.ctx[r]
    OBVIOUS
<1> HIDE DEF f
<1>6. /\ [s EXCEPT !.ctx = f] \in States /\ [s EXCEPT !.ctx = f].ctx = f
      /\ [s EXCEPT !.ctx = f].ctl = s.ctl /\ [s EXCEPT !.ctx = f].lch = s.lch
      /\ [s EXCEPT !.ctx = f].sess = s.sess /\ [s EXCEPT !.ctx = f].nav = s.nav
      /\ [s EXCEPT !.ctx = f].queue = s.queue
    BY <1>4 DEF States
<1> QED
    BY <1>1, <1>4, <1>5, <1>6 DEF Stopped, Undisturbed, SameLauncher, Calmer

\* HostWorkerSessionController::shutdown.
LEMMA Shut ==
    ASSUME NEW s \in States
    PROVE  /\ Stopped(s, shutdown(s)) /\ shutdown(s).ctl = s.ctl
           /\ shutdown(s).ctx = s.ctx /\ shutdown(s).lch = s.lch
BY DEF Stopped, Undisturbed, shutdown, States, Sessions, SameLaunch, SameLauncher, Calmer

\* What the controller holds of a Worker, once it holds none.
Idle(c) == [c EXCEPT !.runtime = 0, !.generation = 0, !.pending = None]

\* The target that there is none of.
LEMMA NoTarget ==
    None \in Targets /\ None.req = 0
BY DEF None, Targets, Ids

\* A controller that gave something up.
LEMMA ControlChanged ==
    ASSUME NEW s \in States, NEW c \in Controllers, Calmer(s.ctl, c),
           NEW t, t = [s EXCEPT !.ctl = c]
    PROVE  Stopped(s, t) /\ t.ctl = c
BY SetControl DEF Stopped, Undisturbed, SameLaunch, SameLauncher, States

\* clearPendingAttach.
LEMMA PendingCleared ==
    ASSUME NEW s \in States
    PROVE  /\ Stopped(s, clearPendingAttach(s))
           /\ clearPendingAttach(s).ctl = [s.ctl EXCEPT !.pending = None]
           /\ clearPendingAttach(s).sess = s.sess
           /\ clearPendingAttach(s).lch = s.lch
<1>1. s.ctl \in Controllers /\ s.ctl.pending \in Targets /\ s.ctl.pending.req \in Ids
    BY DEF States, Controllers, Targets
<1>2. CASE s.ctl.pending = None
  <2>1. clearPendingAttach(s) = s /\ [s.ctl EXCEPT !.pending = None] = s.ctl
      BY <1>1, <1>2 DEF clearPendingAttach, Controllers
  <2> QED
      BY <2>1, StoppedSame
<1>3. CASE s.ctl.pending # None
  <2> DEFINE k == kill(s, s.ctl.pending.req)
             c == [k.ctl EXCEPT !.pending = None]
  <2>1. clearPendingAttach(s) = [k EXCEPT !.ctl = c]
      BY <1>3 DEF clearPendingAttach
  <2>2. Stopped(s, k) /\ k.ctl = s.ctl /\ k.sess = s.sess /\ k.lch = s.lch /\ k \in States
      BY <1>1, Killed DEF Stopped, Undisturbed
  <2> HIDE DEF k
  <2>3. c \in Controllers /\ Calmer(k.ctl, c)
      BY <1>1, <2>2, NoTarget DEF Controllers, Calmer
  <2>4. c = [s.ctl EXCEPT !.pending = None]
      BY <2>2
  <2> HIDE DEF c
  <2>5. Stopped(k, clearPendingAttach(s)) /\ clearPendingAttach(s).ctl = c
        /\ clearPendingAttach(s).sess = k.sess /\ clearPendingAttach(s).lch = k.lch
      BY <2>1, <2>2, <2>3, ControlChanged, SetControl
  <2> QED
      BY <2>2, <2>4, <2>5, StoppedTwice
<1> QED
    BY <1>2, <1>3

\* The controller's stopCurrent.
LEMMA CurrentStopped ==
    ASSUME NEW s \in States
    PROVE  /\ Stopped(s, ctlStopCurrent(s)) /\ ctlStopCurrent(s).ctl = Idle(s.ctl)
           /\ ctlStopCurrent(s).lch = s.lch
<1>1. s.ctl \in Controllers /\ s.ctl.runtime \in Ids
    BY DEF States, Controllers
<1> DEFINE c == [s.ctl EXCEPT !.runtime = 0, !.generation = 0]
           t == [s EXCEPT !.ctl = c]
           u == shutdown(t)
           v == clearPendingAttach(u)
<1>2. c \in Controllers /\ Calmer(s.ctl, c)
      /\ [c EXCEPT !.pending = None] = Idle(s.ctl)
    BY <1>1 DEF Controllers, Calmer, Idle, Ids
<1>3. ctlStopCurrent(s) =
        IF s.ctl.runtime # 0 /\ ~s.ctl.closing THEN kill(v, s.ctl.runtime) ELSE v
  <2>1. [s EXCEPT !.ctl.runtime = 0, !.ctl.generation = 0] = t
      BY DEF States
  <2> QED
      BY <2>1 DEF ctlStopCurrent
<1> HIDE DEF c
<1>4. t \in States /\ Stopped(s, t) /\ t.ctl = c /\ t.lch = s.lch
    BY <1>2, ControlChanged, SetControl
<1> HIDE DEF t
<1>5. u \in States /\ Stopped(t, u) /\ u.ctl = c /\ u.lch = s.lch
    BY <1>4, Shut DEF Stopped, Undisturbed
<1> HIDE DEF u
<1>6. v \in States /\ Stopped(u, v) /\ v.ctl = Idle(s.ctl) /\ v.lch = s.lch
    BY <1>2, <1>5, PendingCleared DEF Stopped, Undisturbed
<1> HIDE DEF v
<1>7. Stopped(s, v)
    BY <1>4, <1>5, <1>6, StoppedTwice
<1>8. Stopped(v, kill(v, s.ctl.runtime)) /\ kill(v, s.ctl.runtime).ctl = v.ctl
      /\ kill(v, s.ctl.runtime).lch = v.lch
    BY <1>1, <1>6, Killed
<1> QED
    BY <1>3, <1>6, <1>7, <1>8, StoppedTwice

\* launchFailedForRequest stops the Worker of that request only.
LEMMA FailStops ==
    ASSUME NEW s \in States, NEW r
    PROVE  /\ Stopped(s, fail(s, r)) /\ fail(s, r).lch = s.lch
           /\ fail(s, r).ctl = IF s.ctl.current = r THEN Idle(s.ctl) ELSE s.ctl
BY StoppedSame, CurrentStopped DEF fail

\* The launcher notes that it expects the end of its Worker.
LEMMA StopExpected ==
    ASSUME NEW s \in States
    PROVE  /\ Stopped(s, expectStop(s)) /\ expectStop(s).ctl = s.ctl
           /\ expectStop(s).ctx = s.ctx
           /\ SameLauncher(s.lch, expectStop(s).lch)
<1>1. CASE ~running(s, s.lch.current)
    BY <1>1, StoppedSame DEF expectStop, SameLauncher
<1>2. CASE running(s, s.lch.current)
  <2> DEFINE m == [s.lch EXCEPT !.expectedStop = s.lch.current]
  <2>1. expectStop(s) = [s EXCEPT !.lch = m]
      BY <1>2 DEF expectStop
  <2>2. m \in Launchers /\ SameLauncher(s.lch, m)
      BY DEF States, Launchers, SameLauncher
  <2> HIDE DEF m
  <2> QED
      BY <2>1, <2>2 DEF States, Stopped, Undisturbed, SameLaunch, Calmer
<1> QED
    BY <1>1, <1>2

\* The launcher's stopCurrent.
LEMMA LauncherStopped ==
    ASSUME NEW s \in States
    PROVE  /\ Stopped(s, lchStopCurrent(s))
           /\ lchStopCurrent(s).ctl = Idle(s.ctl)
<1>1. s.lch.inflight \in SUBSET Requests /\ s.lch.current \in Ids
    BY DEF States, Launchers
<1> DEFINE a == expectStop(s)
           b == ctlStopCurrent(a)
           c == IF s.lch.current # 0 THEN kill(b, s.lch.current) ELSE b
<1>2. lchStopCurrent(s) = TerminateAll(c, s.lch.inflight)
    BY DEF lchStopCurrent
<1>3. a \in States /\ Stopped(s, a) /\ a.ctl = s.ctl
    BY StopExpected DEF Stopped, Undisturbed
<1> HIDE DEF a
<1>4. b \in States /\ Stopped(a, b) /\ b.ctl = Idle(s.ctl)
    BY <1>3, CurrentStopped DEF Stopped, Undisturbed
<1> HIDE DEF b
<1>5. Stopped(b, kill(b, s.lch.current)) /\ kill(b, s.lch.current).ctl = b.ctl
    BY <1>1, <1>4, Killed
<1>6. c \in States /\ Stopped(b, c) /\ c.ctl = Idle(s.ctl)
    BY <1>4, <1>5, StoppedSame DEF Stopped, Undisturbed
<1> HIDE DEF c
<1>7. Stopped(c, lchStopCurrent(s)) /\ lchStopCurrent(s).ctl = c.ctl
    BY <1>1, <1>2, <1>6, AllTerminated
<1> QED
    BY <1>3, <1>4, <1>6, <1>7, StoppedTwice

-----------------------------------------------------------------------------
\* Launches that move on.

Queued(s, word, r) ==
    \E i \in 1 .. Len(s.queue) : s.queue[i].t = word /\ s.queue[i].r = r

\* What of a launch never goes back.
Carried(c, d) ==
    /\ c.thread # "none" /\ d.thread # "none"
    /\ d.attached = c.attached
    /\ d.fatalCleanupObserved = c.fatalCleanupObserved
    /\ c.mgr # "none" => d.mgr # "none"
    /\ c.mgr = "done" => d.mgr = "done"
    /\ c.adm # "none" => d.adm # "none"

\* The launch r goes on, and may still be admitted where that is possible.
Moved(s, t, r) ==
    /\ ContextOK(t.ctx[r]) /\ Carried(s.ctx[r], t.ctx[r])
    /\ Launching(t.ctx[r]) \/ t.ctx[r].adm \in {"waiting", "answered"}
         => MayAttach(t, r)
    /\ Queued(s, "admit", r) => /\ MayAttach(t, r)
                                /\ t.ctx[r].thread = "finished"
                                /\ t.ctx[r].adm = "none"

\* Launches that move on keep what is said of all of them.
LEMMA MovedLaunches ==
    ASSUME NEW s \in States, CtxPart(s), NEW t \in States,
           SameLauncher(s.lch, t.lch), t.queue = s.queue,
           \A r \in Requests : t.ctx[r] = s.ctx[r] \/ Moved(s, t, r)
    PROVE  CtxPart(t)
<1>1. s.lch \in Launchers /\ s.queue \in Seq(Events)
    BY DEF States
<1>2. \A r \in Requests : s.ctx[r] \in Contexts /\ t.ctx[r] \in Contexts
    BY DEF States
<1>3. \A r \in Requests : Cared(t.lch, r) <=> Cared(s.lch, r)
    BY DEF SameLauncher, Cared
<1>4. \A r \in Requests : ContextOK(t.ctx[r])
    BY DEF CtxPart, Moved
<1>5. \A r \in Requests : t.ctx[r] = s.ctx[r] \/ Carried(s.ctx[r], t.ctx[r])
    BY DEF Moved
<1>6. \A r \in Requests : Occupied(t.ctx[r]) => Occupied(s.ctx[r])
    BY <1>5 DEF Carried, Occupied
<1>7. LaunchesOK(t)
    BY <1>1, <1>3, <1>5, <1>6
       DEF LaunchesOK, CtxPart, Carried, SameLauncher, Launchers, Ids
<1>8. \A r \in Requests : t.ctx[r] = s.ctx[r] /\ MayAttach(s, r) => MayAttach(t, r)
    BY DEF MayAttach, SameLauncher
<1>9. AdmissionsOK(t)
    BY <1>8 DEF AdmissionsOK, CtxPart, Moved
<1>10. ASSUME NEW i \in 1 .. Len(s.queue), EventOK(s, s.queue[i])
       PROVE  EventOK(t, s.queue[i])
  <2> DEFINE e == s.queue[i]
  <2>1. e \in Events
      BY <1>1
  <2>2. CASE e.r \notin Requests
      BY <1>10, <2>2 DEF EventOK
  <2>3. CASE e.r \in Requests
    <3>1. CASE e.t = "admit"
      <4>1. Queued(s, "admit", e.r)
          BY <3>1 DEF Queued
      <4> QED
          BY <1>8, <1>10, <2>3, <3>1, <4>1 DEF EventOK, Moved
    <3>2. CASE e.t # "admit"
        BY <1>3, <1>5, <1>10, <2>3, <3>2 DEF EventOK, Carried
    <3> QED
        BY <3>1, <3>2
  <2> QED
      BY <2>2, <2>3
<1>11. QueueOK(t)
    BY <1>10 DEF QueueOK, CtxPart
<1> QED
    BY <1>4, <1>7, <1>9, <1>11 DEF CtxPart

\* A launcher that stops accepting, or drops the request that waits.
LEMMA ClosedLauncher ==
    ASSUME NEW s \in States, CtxPart(s), NEW t \in States,
           t.ctx = s.ctx, t.queue = s.queue,
           t.lch.inflight = s.lch.inflight, t.lch.current = s.lch.current,
           t.lch.fatal = s.lch.fatal,
           t.lch.pending \in {0, s.lch.pending},
           t.lch.accepting => s.lch.accepting
    PROVE  CtxPart(t)
<1>1. s.lch \in Launchers /\ s.queue \in Seq(Events)
    BY DEF States
<1>2. \A r : Cared(t.lch, r) <=> Cared(s.lch, r)
    BY DEF Cared
<1>3. LaunchesOK(t)
    BY <1>2 DEF LaunchesOK, CtxPart
<1>4. \A r \in Requests : MayAttach(s, r) => MayAttach(t, r)
    BY DEF MayAttach
<1>5. AdmissionsOK(t)
    BY <1>4 DEF AdmissionsOK, CtxPart
<1>6. \A e \in Events : EventOK(s, e) => EventOK(t, e)
    BY <1>2, <1>4 DEF EventOK
<1>7. QueueOK(t)
    BY <1>1, <1>6 DEF QueueOK, CtxPart
<1> QED
    BY <1>3, <1>5, <1>7 DEF CtxPart

\* What is posted must be true when it is posted.
LEMMA Posted ==
    ASSUME NEW s \in States, NEW e \in Events
    PROVE  /\ Post(s, e) \in States
           /\ Post(s, e).ctl = s.ctl /\ Post(s, e).ctx = s.ctx
           /\ Post(s, e).lch = s.lch /\ Post(s, e).sess = s.sess
           /\ Post(s, e).nav = s.nav
           /\ Post(s, e).queue = Append(s.queue, e)
BY DEF Post, States

\* Posting what is true keeps what is said of the launches.
LEMMA PostedLaunches ==
    ASSUME NEW s \in States, CtxPart(s), NEW e \in Events, EventOK(s, e),
           e.t \in {"retired", "lost"} => ~Queued(s, "retired", e.r),
           e.t = "admit" => ~Queued(s, "admit", e.r)
    PROVE  CtxPart(Post(s, e))
<1> DEFINE t == Post(s, e)
<1>1. /\ t \in States /\ t.ctx = s.ctx /\ t.lch = s.lch
      /\ t.queue = Append(s.queue, e)
    BY Posted
<1> HIDE DEF t
<1>2. s.queue \in Seq(Events)
    BY DEF States
<1>3. /\ Len(t.queue) = Len(s.queue) + 1 /\ Len(s.queue) \in Nat
      /\ t.queue[Len(s.queue) + 1] = e
      /\ \A i \in 1 .. Len(s.queue) : t.queue[i] = s.queue[i]
    BY <1>1, <1>2
<1>4. LaunchesOK(t) /\ AdmissionsOK(t)
    BY <1>1 DEF CtxPart, LaunchesOK, AdmissionsOK, MayAttach
<1>5. \A d \in Events : EventOK(s, d) => EventOK(t, d)
    BY <1>1 DEF EventOK, MayAttach
<1>6. \A i \in 1 .. Len(t.queue) :
        i \in 1 .. Len(s.queue) \/ (i = Len(s.queue) + 1 /\ t.queue[i] = e)
    BY <1>3
<1>7. \A i \in 1 .. Len(t.queue) : EventOK(t, t.queue[i])
    BY <1>2, <1>3, <1>5, <1>6 DEF CtxPart, QueueOK
<1>8. ASSUME NEW i \in 1 .. Len(t.queue), NEW j \in 1 .. Len(t.queue), i < j,
             t.queue[i].t = "retired", t.queue[j].t \in {"retired", "lost"}
      PROVE  t.queue[i].r # t.queue[j].r
  <2>1. i \in 1 .. Len(s.queue) /\ t.queue[i] = s.queue[i]
      BY <1>3, <1>8
  <2>2. CASE j \in 1 .. Len(s.queue)
      BY <1>3, <1>8, <2>1, <2>2 DEF CtxPart, QueueOK
  <2>3. CASE t.queue[j] = e
      BY <1>8, <2>1, <2>3 DEF Queued
  <2> QED
      BY <1>6, <2>2, <2>3
<1>9. ASSUME NEW i \in 1 .. Len(t.queue), NEW j \in 1 .. Len(t.queue), i < j,
             t.queue[i].t = "admit", t.queue[j].t = "admit"
      PROVE  t.queue[i].r # t.queue[j].r
  <2>1. i \in 1 .. Len(s.queue) /\ t.queue[i] = s.queue[i]
      BY <1>3, <1>9
  <2>2. CASE j \in 1 .. Len(s.queue)
      BY <1>3, <1>9, <2>1, <2>2 DEF CtxPart, QueueOK
  <2>3. CASE t.queue[j] = e
      BY <1>9, <2>1, <2>3 DEF Queued
  <2> QED
      BY <1>6, <2>2, <2>3
<1>10. QueueOK(t)
    BY <1>7, <1>8, <1>9 DEF QueueOK
<1> QED
    BY <1>1, <1>4, <1>10 DEF CtxPart, t

\* An event that is taken from the queue.
LEMMA Taken ==
    ASSUME NEW s \in States, CtxPart(s), s.queue # <<>>,
           NEW t, t = [s EXCEPT !.queue = Tail(@)],
           NEW e, e = Head(s.queue)
    PROVE  /\ t \in States /\ CtxPart(t) /\ (CtlPart(s) => CtlPart(t))
           /\ t.ctl = s.ctl /\ t.ctx = s.ctx /\ t.lch = s.lch
           /\ t.sess = s.sess /\ t.nav = s.nav
           /\ e \in Events /\ EventOK(t, e)
           /\ e.t = "retired" => /\ ~Queued(t, "retired", e.r)
                                 /\ ~Queued(t, "lost", e.r)
           /\ e.t = "admit" => ~Queued(t, "admit", e.r)
<1>1. s.queue \in Seq(Events)
    BY DEF States
<1>2. /\ Tail(s.queue) \in Seq(Events) /\ e \in Events /\ e = s.queue[1]
      /\ Len(s.queue) \in Nat \ {0} /\ Len(Tail(s.queue)) = Len(s.queue) - 1
      /\ \A i \in 1 .. Len(s.queue) - 1 : Tail(s.queue)[i] = s.queue[i + 1]
    BY <1>1, EmptySeq, HeadTailProperties
<1>3. /\ t \in States /\ t.ctl = s.ctl /\ t.ctx = s.ctx /\ t.lch = s.lch
      /\ t.sess = s.sess /\ t.nav = s.nav /\ t.queue = Tail(s.queue)
    BY <1>2 DEF States
<1>4. LaunchesOK(t) /\ AdmissionsOK(t)
    BY <1>3 DEF CtxPart, LaunchesOK, AdmissionsOK, MayAttach
<1>5. \A d \in Events : EventOK(s, d) => EventOK(t, d)
    BY <1>3 DEF EventOK, MayAttach
<1>6. /\ \A i \in 1 .. Len(t.queue) :
            i + 1 \in 1 .. Len(s.queue) /\ t.queue[i] = s.queue[i + 1]
      /\ 1 \in 1 .. Len(s.queue)
    BY <1>2, <1>3
<1>7. ASSUME NEW i \in 1 .. Len(t.queue)
      PROVE  EventOK(t, t.queue[i])
  <2>1. s.queue[i + 1] \in Events /\ EventOK(s, s.queue[i + 1])
      BY <1>1, <1>6 DEF CtxPart, QueueOK
  <2> QED
      BY <1>5, <1>6, <2>1
<1>8. ASSUME NEW i \in 1 .. Len(t.queue), NEW j \in 1 .. Len(t.queue), i < j
      PROVE  /\ t.queue[i].t = "retired" /\ t.queue[j].t \in {"retired", "lost"}
                => t.queue[i].r # t.queue[j].r
             /\ t.queue[i].t = "admit" /\ t.queue[j].t = "admit"
                => t.queue[i].r # t.queue[j].r
  <2>1. /\ i + 1 \in 1 .. Len(s.queue) /\ j + 1 \in 1 .. Len(s.queue)
        /\ i + 1 < j + 1
        /\ t.queue[i] = s.queue[i + 1] /\ t.queue[j] = s.queue[j + 1]
      BY <1>2, <1>3, <1>6, <1>8
  <2> QED
      BY <2>1 DEF CtxPart, QueueOK
<1>9. QueueOK(t)
    BY <1>7, <1>8 DEF QueueOK
<1>10. ASSUME NEW j \in 1 .. Len(t.queue)
       PROVE  /\ e.t = "retired" /\ t.queue[j].t \in {"retired", "lost"}
                 => e.r # t.queue[j].r
              /\ e.t = "admit" /\ t.queue[j].t = "admit" => e.r # t.queue[j].r
  <2>1. /\ 1 \in 1 .. Len(s.queue) /\ j + 1 \in 1 .. Len(s.queue) /\ 1 < j + 1
        /\ e = s.queue[1] /\ t.queue[j] = s.queue[j + 1]
      BY <1>2, <1>3, <1>6
  <2> QED
      BY <2>1 DEF CtxPart, QueueOK
<1>11. EventOK(t, e)
    BY <1>2, <1>5, <1>6 DEF CtxPart, QueueOK
<1>12. e.t = "retired" => /\ ~Queued(t, "retired", e.r)
                          /\ ~Queued(t, "lost", e.r)
    BY <1>10 DEF Queued
<1>13. e.t = "admit" => ~Queued(t, "admit", e.r)
    BY <1>10 DEF Queued
<1>14. CtlPart(s) => CtlPart(t)
    BY <1>3 DEF CtlPart, hasPendingActivity
<1> QED
    BY <1>2, <1>3, <1>4, <1>9, <1>11, <1>12, <1>13, <1>14 DEF CtxPart

-----------------------------------------------------------------------------
\* Launches that are given up.

\* Nobody can admit the launch r any more.
Abandoned(s, r) ==
    \/ s.ctx[r].canceled \/ ~s.lch.accepting
    \/ /\ ~Launching(s.ctx[r]) /\ s.ctx[r].adm \notin {"waiting", "answered"}
       /\ ~Queued(s, "admit", r)

\* retireAsync, on the context.
LEMMA ContextRetired ==
    ASSUME NEW s \in States, NEW r \in Requests, ContextOK(s.ctx[r]),
           s.ctx[r].thread # "none",
           NEW d, d = retireAsync(s, r).ctx[r]
    PROVE  /\ d \in Contexts /\ ContextOK(d) /\ Carried(s.ctx[r], d)
           /\ d.mgr # "none" /\ d.submitted
           /\ d.thread = s.ctx[r].thread /\ d.adm = s.ctx[r].adm
           /\ d.canceled = s.ctx[r].canceled /\ d.sb = s.ctx[r].sb
           /\ d.guard = s.ctx[r].guard /\ d.temp = s.ctx[r].temp
<1> DEFINE c == s.ctx[r]
<1>1. c \in Contexts
    BY DEF States
<1>2. d = IF c.submitted THEN c ELSE [c EXCEPT !.submitted = TRUE, !.mgr = "active"]
    BY DEF retireAsync, States
<1>3. ContextOK(c) /\ c.thread # "none"
    OBVIOUS
<1> HIDE DEF c
<1>4. /\ d \in Contexts /\ ContextOK(d) /\ Carried(c, d)
      /\ d.mgr # "none" /\ d.submitted
      /\ d.thread = c.thread /\ d.adm = c.adm
      /\ d.canceled = c.canceled /\ d.sb = c.sb
      /\ d.guard = c.guard /\ d.temp = c.temp
  <2>1. CASE c.submitted
      BY <1>1, <1>2, <1>3, <2>1 DEF ContextOK, Carried
  <2>2. CASE ~c.submitted
    <3>1. d \in Contexts /\ d = [c EXCEPT !.submitted = TRUE, !.mgr = "active"]
        BY <1>1, <1>2, <2>2 DEF Contexts
    <3>2. c.mgr = "none"
        BY <1>3, <2>2 DEF ContextOK
    <3>3. /\ d.mgr = "active" /\ d.submitted /\ d.thread = c.thread
          /\ d.adm = c.adm /\ d.canceled = c.canceled /\ d.sb = c.sb
          /\ d.guard = c.guard /\ d.temp = c.temp /\ d.session = c.session
          /\ d.attached = c.attached /\ d.observer = c.observer
          /\ d.fatalCleanupObserved = c.fatalCleanupObserved
        BY <1>1, <3>1 DEF Contexts
    <3>4. Launching(d) <=> Launching(c)
        BY <3>3 DEF Launching
    <3> QED
        BY <1>3, <3>1, <3>2, <3>3, <3>4 DEF ContextOK, Carried
  <2> QED
      BY <2>1, <2>2
<1> QED
    BY <1>4 DEF c

\* Retiring launches that nobody can admit any more.
LEMMA AllRetired ==
    ASSUME NEW s \in States, CtxPart(s), NEW rs \in SUBSET Requests,
           \A r \in rs : s.ctx[r].thread # "none" /\ Abandoned(s, r)
    PROVE  /\ RetireAll(s, rs) \in States /\ CtxPart(RetireAll(s, rs))
           /\ RetireAll(s, rs).ctl = s.ctl /\ RetireAll(s, rs).lch = s.lch
           /\ RetireAll(s, rs).sess = s.sess /\ RetireAll(s, rs).queue = s.queue
           /\ RetireAll(s, rs).nav = s.nav
           /\ \A r \in rs : /\ RetireAll(s, rs).ctx[r].mgr # "none"
                            /\ RetireAll(s, rs).ctx[r].thread = s.ctx[r].thread
           /\ \A r \in Requests \ rs : RetireAll(s, rs).ctx[r] = s.ctx[r]
<1> DEFINE f == [r \in Requests |-> IF r \in rs THEN retireAsync(s, r).ctx[r]
                                               ELSE s.ctx[r]]
           t == [s EXCEPT !.ctx = f]
<1>1. RetireAll(s, rs) = t
    BY DEF RetireAll
<1>2. \A r \in Requests : ContextOK(s.ctx[r]) /\ s.ctx[r] \in Contexts
    BY DEF CtxPart, States
<1>3. ASSUME NEW r \in rs
      PROVE  /\ f[r] \in Contexts /\ ContextOK(f[r]) /\ Carried(s.ctx[r], f[r])
             /\ f[r].mgr # "none" /\ f[r].thread = s.ctx[r].thread
             /\ f[r].adm = s.ctx[r].adm /\ f[r].canceled = s.ctx[r].canceled
  <2>1. f[r] = retireAsync(s, r).ctx[r] /\ r \in Requests
      OBVIOUS
  <2> HIDE DEF f
  <2> QED
      BY <1>2, <2>1, ContextRetired
<1>4. \A r \in Requests \ rs : f[r] = s.ctx[r]
    OBVIOUS
<1>5. f \in [Requests -> Contexts]
    BY <1>2, <1>3
<1> HIDE DEF f
<1>6. /\ t \in States /\ t.ctx = f /\ t.ctl = s.ctl /\ t.lch = s.lch
      /\ t.sess = s.sess /\ t.queue = s.queue /\ t.nav = s.nav
    BY <1>5 DEF States
<1> HIDE DEF t
<1>7. ASSUME NEW r \in rs
      PROVE  Moved(s, t, r)
  <2>1. r \in Requests /\ Abandoned(s, r) /\ s.lch \in Launchers
      BY DEF States
  <2>2. MayAttach(s, r) \/ /\ ~Launching(s.ctx[r]) /\ ~Queued(s, "admit", r)
                           /\ s.ctx[r].adm \notin {"waiting", "answered"}
      BY <2>1 DEF Abandoned, MayAttach
  <2>3. s.ctx[r].canceled \/ ~s.lch.accepting => MayAttach(t, r)
      BY <1>3, <1>6 DEF MayAttach
  <2>4. Launching(t.ctx[r]) <=> Launching(s.ctx[r])
      BY <1>3, <1>6 DEF Launching
  <2>5. Queued(s, "admit", r) => s.ctx[r].thread = "finished" /\ s.ctx[r].adm = "none"
      BY DEF Queued, CtxPart, QueueOK, EventOK
  <2> QED
      BY <1>3, <1>6, <2>1, <2>3, <2>4, <2>5 DEF Moved, Abandoned
<1>8. CtxPart(t)
  <2>1. \A r \in Requests : t.ctx[r] = s.ctx[r] \/ Moved(s, t, r)
      BY <1>4, <1>6, <1>7
  <2>2. SameLauncher(s.lch, t.lch)
      BY <1>6 DEF SameLauncher
  <2> QED
      BY <1>6, <2>1, <2>2, MovedLaunches
<1> QED
    BY <1>1, <1>3, <1>4, <1>6, <1>8

\* Retiring one of them.
LEMMA OneRetired ==
    ASSUME NEW s \in States, CtxPart(s), NEW r \in Requests,
           s.ctx[r].thread # "none", Abandoned(s, r)
    PROVE  /\ retireAsync(s, r) \in States /\ CtxPart(retireAsync(s, r))
           /\ retireAsync(s, r).ctl = s.ctl /\ retireAsync(s, r).lch = s.lch
           /\ retireAsync(s, r).sess = s.sess
           /\ retireAsync(s, r).queue = s.queue
           /\ retireAsync(s, r).nav = s.nav
           /\ retireAsync(s, r).ctx[r].mgr # "none"
           /\ retireAsync(s, r).ctx[r].thread = s.ctx[r].thread
           /\ \A q \in Requests : q # r => retireAsync(s, r).ctx[q] = s.ctx[q]
<1> DEFINE f == [q \in Requests |-> IF q \in {r} THEN retireAsync(s, q).ctx[q]
                                               ELSE s.ctx[q]]
<1>1. /\ RetireAll(s, {r}) = [s EXCEPT !.ctx = f]
    BY DEF RetireAll
<1>2. retireAsync(s, r).ctx = f
    BY DEF retireAsync, States
<1>3. retireAsync(s, r) = [s EXCEPT !.ctx = retireAsync(s, r).ctx]
    BY DEF retireAsync, States
<1>4. retireAsync(s, r) = RetireAll(s, {r})
    BY <1>1, <1>2, <1>3
<1> HIDE DEF f
<1> QED
    BY <1>4, AllRetired

\* A controller that serves nothing.
LEMMA ControllerHalted ==
    ASSUME NEW s \in States, s.ctl.runtime = 0, s.ctl.pending = None,
           s.ctl.closing => ~s.lch.accepting,
           s.ctl.retired => s.ctl.closing /\ ~hasPendingActivity(s)
    PROVE  CtlPart(s)
BY DEF CtlPart

\* It keeps its gates.
LEMMA IdleController ==
    ASSUME NEW c \in Controllers
    PROVE  /\ Idle(c) \in Controllers
           /\ Idle(c).runtime = 0 /\ Idle(c).pending = None
           /\ Idle(c).accepting = c.accepting /\ Idle(c).closing = c.closing
           /\ Idle(c).retired = c.retired /\ Idle(c).gate = c.gate
           /\ Idle(c).current = c.current /\ Idle(c).target = c.target
BY NoTarget DEF Idle, Controllers, Ids

\* The launcher's cancel.
LEMMA Canceled ==
    ASSUME NEW s \in States, CtxPart(s),
           s.ctl.retired => s.ctl.closing /\ ~hasPendingActivity(s)
    PROVE  /\ cancel(s) \in States /\ CtxPart(cancel(s)) /\ CtlPart(cancel(s))
           /\ cancel(s).ctl = Idle(s.ctl)
           /\ cancel(s).lch.pending = 0 /\ ~cancel(s).lch.accepting
           /\ cancel(s).ctx \in [Requests -> Contexts]
           /\ \A r \in Requests : cancel(s).ctx[r].thread = s.ctx[r].thread
<1> DEFINE l == [s.lch EXCEPT !.accepting = FALSE, !.serial = @ + 1, !.pending = 0]
           a == [s EXCEPT !.lch = l]
           b == expectStop(a)
           c == ctlStopCurrent(b)
           rs == s.lch.inflight \cup ({s.lch.current} \ {0})
<1>1. s.lch \in Launchers /\ rs \in SUBSET Requests
    BY DEF States, Launchers, Ids
<1>2. cancel(s) = RetireAll(c, rs)
  <2>1. a = [s EXCEPT !.lch.accepting = FALSE, !.lch.serial = @ + 1, !.lch.pending = 0]
      BY DEF States
  <2> QED
      BY <2>1 DEF cancel
<1>3. /\ l \in Launchers /\ ~l.accepting /\ l.pending = 0
      /\ l.inflight = s.lch.inflight /\ l.current = s.lch.current
      /\ l.fatal = s.lch.fatal
  <2>1. s.lch.serial + 1 \in Nat
      BY <1>1 DEF Launchers
  <2> QED
      BY <1>1, <2>1 DEF Launchers, Ids
<1> HIDE DEF l
<1>4. /\ a \in States /\ a.lch = l /\ a.ctx = s.ctx /\ a.ctl = s.ctl
      /\ a.queue = s.queue
    BY <1>3 DEF States
<1> HIDE DEF a
<1>5. CtxPart(a)
    BY <1>3, <1>4, ClosedLauncher
<1>6. /\ b \in States /\ Stopped(a, b) /\ b.ctl = s.ctl
    BY <1>4, StopExpected DEF Stopped, Undisturbed
<1> HIDE DEF b
<1>7. /\ c \in States /\ Stopped(b, c) /\ c.ctl = Idle(s.ctl)
    BY <1>6, CurrentStopped DEF Stopped, Undisturbed
<1> HIDE DEF c
<1>8. Stopped(a, c)
    BY <1>4, <1>6, <1>7, StoppedTwice
<1>9. CtxPart(c)
    BY <1>4, <1>5, <1>8, StoppedLaunches
<1>10. /\ \A r \in Requests : c.ctx[r].thread = s.ctx[r].thread
       /\ SameLauncher(l, c.lch)
    BY <1>4, <1>8 DEF Stopped, Undisturbed, SameLaunch
<1>11. ~c.lch.accepting
    BY <1>3, <1>10 DEF SameLauncher
<1>12. \A r \in rs : s.ctx[r].thread # "none"
    BY <1>1 DEF CtxPart, LaunchesOK, Cared
<1>13. \A r \in rs : c.ctx[r].thread # "none" /\ Abandoned(c, r)
    BY <1>1, <1>10, <1>11, <1>12 DEF Abandoned
<1> HIDE DEF rs
<1> DEFINE t == RetireAll(c, rs)
<1>14. /\ t \in States /\ CtxPart(t) /\ t.ctl = c.ctl /\ t.lch = c.lch
       /\ \A r \in rs : t.ctx[r].thread = c.ctx[r].thread
       /\ \A r \in Requests \ rs : t.ctx[r] = c.ctx[r]
    BY <1>1, <1>7, <1>9, <1>13, AllRetired
<1> HIDE DEF t
<1>15. hasPendingActivity(t) => hasPendingActivity(s)
    BY <1>3, <1>10, <1>14 DEF hasPendingActivity, SameLauncher
<1>16. s.ctl \in Controllers
    BY DEF States
<1>17. CtlPart(t)
    BY <1>7, <1>11, <1>14, <1>15, <1>16, IdleController, ControllerHalted
<1>18. t.lch.pending = 0
    BY <1>3, <1>10, <1>14 DEF SameLauncher
<1>19. \A r \in Requests : t.ctx[r].thread = s.ctx[r].thread
    BY <1>10, <1>14
<1> QED
    BY <1>2, <1>7, <1>11, <1>14, <1>17, <1>18, <1>19 DEF t, States

\* Cancelling one launch: what waits is dropped, what runs is asked to end and
\* what has not been admitted is retired.
LEMMA LaunchCanceled ==
    ASSUME NEW s \in States, CtxPart(s), CtlPart(s), NEW r \in Requests
    PROVE  /\ cancelLaunch(s, r) \in States
           /\ CtxPart(cancelLaunch(s, r)) /\ CtlPart(cancelLaunch(s, r))
           /\ cancelLaunch(s, r).ctl = s.ctl
           /\ cancelLaunch(s, r).lch.pending \in {0, s.lch.pending}
           /\ \A q \in Requests :
                cancelLaunch(s, r).ctx[q].thread = s.ctx[q].thread
<1> DEFINE mine == {q \in s.lch.inflight : q = r}
           l == [s.lch EXCEPT !.pending = 0]
           s1 == IF s.lch.pending = r THEN [s EXCEPT !.lch = l] ELSE s
           m == [s1.lch EXCEPT !.expectedStop = r]
           c == [s1.ctx[r] EXCEPT !.canceled = TRUE]
           s2a == [s1 EXCEPT !.lch = m, !.ctx[r] = c]
           s2 == IF s.lch.current = r THEN requestTerminateNoWait(s2a, r) ELSE s1
           d == [s2.ctx[r] EXCEPT !.canceled = TRUE]
           s3 == IF r \in mine THEN [s2 EXCEPT !.ctx[r] = d] ELSE s2
           s4 == TerminateAll(s3, mine)
           Fine(x) == /\ x \in States /\ CtxPart(x) /\ x.ctl = s.ctl
                      /\ x.sess = s.sess
                      /\ x.lch.accepting = s.lch.accepting
                      /\ x.lch.inflight = s.lch.inflight
                      /\ x.lch.current = s.lch.current
                      /\ x.lch.fatal = s.lch.fatal
                      /\ x.lch.pending \in {0, s.lch.pending}
                      /\ \A q \in Requests : x.ctx[q].thread = s.ctx[q].thread
<1>1. mine \in SUBSET Requests /\ s.lch \in Launchers
    BY DEF States, Launchers
<1>2. ASSUME NEW x, Fine(x), NEW k, k = [x.ctx[r] EXCEPT !.canceled = TRUE],
             NEW n \in Launchers, SameLauncher(x.lch, n), Cared(s.lch, r),
             NEW y, y = [x EXCEPT !.lch = n, !.ctx[r] = k]
      PROVE  Fine(y) /\ y.ctx[r].canceled
  <2>1. x.ctx[r] \in Contexts /\ ContextOK(x.ctx[r])
      BY <1>2 DEF States, CtxPart
  <2>2. /\ k \in Contexts /\ k.thread = x.ctx[r].thread /\ k.canceled
        /\ k.sb = x.ctx[r].sb /\ k.temp = x.ctx[r].temp /\ k.guard = x.ctx[r].guard
        /\ k.session = x.ctx[r].session /\ k.adm = x.ctx[r].adm
        /\ k.mgr = x.ctx[r].mgr /\ k.attached = x.ctx[r].attached
        /\ k.observer = x.ctx[r].observer /\ k.submitted = x.ctx[r].submitted
        /\ k.fatalCleanupObserved = x.ctx[r].fatalCleanupObserved
      BY <1>2, <2>1 DEF Contexts
  <2>3. x.ctx[r].thread # "none"
      BY <1>2 DEF CtxPart, LaunchesOK, Cared
  <2>4. ContextOK(k) /\ Carried(x.ctx[r], k)
      BY <2>1, <2>2, <2>3 DEF ContextOK, Carried, Launching, Clean
  <2>5. /\ y \in States /\ y.ctl = x.ctl /\ y.sess = x.sess /\ y.lch = n
        /\ y.queue = x.queue /\ y.ctx[r] = k
        /\ \A q \in Requests : q # r => y.ctx[q] = x.ctx[q]
      BY <1>2, <2>2 DEF States
  <2>6. MayAttach(y, r)
      BY <2>2, <2>5 DEF MayAttach
  <2>7. Queued(x, "admit", r) => k.thread = "finished" /\ k.adm = "none"
      BY <1>2, <2>2 DEF Queued, CtxPart, QueueOK, EventOK
  <2>8. Moved(x, y, r)
      BY <2>4, <2>5, <2>6, <2>7 DEF Moved
  <2>9. CtxPart(y)
      BY <1>2, <2>5, <2>8, MovedLaunches
  <2>10. \A q \in Requests : y.ctx[q].thread = s.ctx[q].thread
      BY <1>2, <2>2, <2>5
  <2> QED
      BY <1>2, <2>2, <2>5, <2>9, <2>10 DEF SameLauncher
<1>3. Fine(s1)
  <2>1. CASE s.lch.pending = r
    <3>1. /\ l \in Launchers /\ l.pending = 0 /\ l.accepting = s.lch.accepting
          /\ l.inflight = s.lch.inflight /\ l.current = s.lch.current
          /\ l.fatal = s.lch.fatal
        BY <1>1 DEF Launchers, Ids
    <3> HIDE DEF l
    <3>2. /\ s1 \in States /\ s1.lch = l /\ s1.ctx = s.ctx /\ s1.ctl = s.ctl
          /\ s1.sess = s.sess /\ s1.queue = s.queue
        BY <2>1, <3>1 DEF States
    <3> HIDE DEF s1
    <3> QED
        BY <3>1, <3>2, ClosedLauncher
  <2>2. CASE s.lch.pending # r
      BY <2>2
  <2> QED
      BY <2>1, <2>2
<1>4. s4 = TerminateAll(s3, mine) /\ cancelLaunch(s, r) = RetireAll(s4, mine)
  <2>1. [s EXCEPT !.lch.pending = 0] = [s EXCEPT !.lch = l]
      BY DEF States
  <2>2. [s1 EXCEPT !.lch.expectedStop = r, !.ctx[r].canceled = TRUE] = s2a
      BY <1>3 DEF States
  <2>3. [s2 EXCEPT !.ctx[r].canceled = TRUE] = [s2 EXCEPT !.ctx[r] = d]
      OBVIOUS
  <2> QED
      BY <2>1, <2>2, <2>3 DEF cancelLaunch
<1> HIDE DEF l, s1
<1>5. s.lch.current = r => Fine(s2a) /\ s2a.ctx[r].canceled
  <2>1. m \in Launchers /\ SameLauncher(s1.lch, m)
      BY <1>3 DEF States, Launchers, SameLauncher, Ids
  <2> HIDE DEF m
  <2>2. s.lch.current = r => Cared(s.lch, r)
      BY RequestsAssumption DEF Cared
  <2> QED
      BY <1>2, <1>3, <2>1, <2>2
<1> HIDE DEF s2a
<1>6. ASSUME NEW x, Fine(x), NEW y, Stopped(x, y), y.ctl = x.ctl, y.sess = x.sess
      PROVE  Fine(y)
    BY <1>6, StoppedLaunches DEF Stopped, Undisturbed, SameLauncher, SameLaunch
<1>7. Fine(s2)
    BY <1>3, <1>5, <1>6, TerminationRequested
<1> HIDE DEF s2
<1>8. /\ Fine(s3) /\ \A q \in mine : s3.ctx[q].canceled
  <2>1. CASE r \in mine
    <3>1. Cared(s.lch, r) /\ s2.lch \in Launchers /\ SameLauncher(s2.lch, s2.lch)
        BY <1>7, <2>1 DEF Cared, States, SameLauncher
    <3>2. s3 = [s2 EXCEPT !.lch = s2.lch, !.ctx[r] = d]
        BY <1>7, <2>1 DEF States
    <3>3. d = [s2.ctx[r] EXCEPT !.canceled = TRUE]
        OBVIOUS
    <3> HIDE DEF Fine, s3, d
    <3>4. Fine(s3) /\ s3.ctx[r].canceled
        BY <1>2, <1>7, <3>1, <3>2, <3>3
    <3> QED
        BY <3>4
  <2>2. CASE r \notin mine
      BY <1>7, <2>2
  <2> QED
      BY <2>1, <2>2
<1> HIDE DEF s3
<1>9. Fine(s4) /\ \A q \in mine : s4.ctx[q].canceled
  <2>1. Stopped(s3, s4) /\ s4.ctl = s3.ctl /\ s4.sess = s3.sess
      BY <1>1, <1>8, AllTerminated
  <2> QED
      BY <1>1, <1>6, <1>8, <2>1 DEF Stopped, Undisturbed, SameLaunch
<1> HIDE DEF s4
<1>10. \A q \in mine : s4.ctx[q].thread # "none" /\ Abandoned(s4, q)
  <2>1. \A q \in mine : s.ctx[q].thread # "none"
      BY <1>1 DEF CtxPart, LaunchesOK, Cared
  <2> QED
      BY <1>1, <1>9, <2>1 DEF Abandoned
<1> HIDE DEF mine
<1>11. Fine(RetireAll(s4, mine))
  <2> DEFINE t == RetireAll(s4, mine)
  <2>1. /\ t \in States /\ CtxPart(t) /\ t.ctl = s4.ctl /\ t.lch = s4.lch
        /\ t.sess = s4.sess
        /\ \A q \in mine : t.ctx[q].thread = s4.ctx[q].thread
        /\ \A q \in Requests \ mine : t.ctx[q] = s4.ctx[q]
      BY <1>1, <1>9, <1>10, AllRetired
  <2> HIDE DEF t
  <2>2. Fine(t)
      BY <1>9, <2>1
  <2> QED
      BY <2>2 DEF t
<1>12. CtlPart(cancelLaunch(s, r))
    BY <1>4, <1>11 DEF CtlPart, hasPendingActivity
<1> QED
    BY <1>4, <1>11, <1>12

-----------------------------------------------------------------------------
\* The controller lets go of a launch.

\* clearIfCurrent.
LEMMA CurrentCleared ==
    ASSUME NEW s \in States, NEW r \in Requests,
           NEW t, t = clearIfCurrent(s, r)
    PROVE  /\ t \in States
           /\ t.ctx = s.ctx /\ t.lch = s.lch /\ t.sess = s.sess
           /\ t.queue = s.queue /\ t.nav = s.nav
           /\ t.ctl.runtime = s.ctl.runtime /\ t.ctl.pending = s.ctl.pending
           /\ t.ctl.closing = s.ctl.closing /\ t.ctl.retired = s.ctl.retired
           /\ s.ctl.current # r => /\ t.ctl.current = s.ctl.current
                                   /\ t.ctl.generation = s.ctl.generation
<1> DEFINE a == IF s.ctl.current = r
                  THEN [s EXCEPT !.ctl.current = 0, !.ctl.generation = 0] ELSE s
<1>1. t = IF s.ctl.target.req = r THEN [a EXCEPT !.ctl.target = None] ELSE a
    BY DEF clearIfCurrent
<1>2. s.ctl \in Controllers
    BY DEF States
<1>3. /\ a \in States
      /\ a.ctx = s.ctx /\ a.lch = s.lch /\ a.sess = s.sess
      /\ a.queue = s.queue /\ a.nav = s.nav /\ a.ctl \in Controllers
      /\ a.ctl.runtime = s.ctl.runtime /\ a.ctl.pending = s.ctl.pending
      /\ a.ctl.closing = s.ctl.closing /\ a.ctl.retired = s.ctl.retired
      /\ s.ctl.current # r => /\ a.ctl.current = s.ctl.current
                              /\ a.ctl.generation = s.ctl.generation
    BY <1>2 DEF States, Controllers, Ids
<1> HIDE DEF a
<1>4. CASE s.ctl.target.req # r
    BY <1>1, <1>3, <1>4
<1>5. CASE s.ctl.target.req = r
    BY <1>1, <1>3, <1>5, NoTarget DEF States, Controllers
<1> QED
    BY <1>4, <1>5

\* What is said of the launches does not depend on the controller.
LEMMA SameContexts ==
    ASSUME NEW s \in States, CtxPart(s), NEW t \in States,
           t.ctx = s.ctx, t.lch = s.lch, t.queue = s.queue
    PROVE  CtxPart(t)
BY DEF CtxPart, LaunchesOK, AdmissionsOK, MayAttach, QueueOK, EventOK

\* The controller's cancelLaunch.
LEMMA ControllerCanceled ==
    ASSUME NEW s \in States, CtxPart(s), CtlPart(s), NEW r \in Requests
    PROVE  /\ ctlCancelLaunch(s, r) \in States
           /\ CtxPart(ctlCancelLaunch(s, r)) /\ CtlPart(ctlCancelLaunch(s, r))
           /\ ctlCancelLaunch(s, r).lch.pending \in {0, s.lch.pending}
           /\ \A q \in Requests :
                ctlCancelLaunch(s, r).ctx[q].thread = s.ctx[q].thread
<1>1. CASE s.ctl.current # r
    BY <1>1 DEF ctlCancelLaunch
<1>2. CASE s.ctl.current = r
  <2> DEFINE a == cancelLaunch(s, r)
             b == ctlStopCurrent(a)
             c == clearIfCurrent(b, r)
  <2>1. ctlCancelLaunch(s, r) = c
      BY <1>2 DEF ctlCancelLaunch
  <2>2. /\ a \in States /\ CtxPart(a) /\ CtlPart(a) /\ a.ctl = s.ctl
        /\ a.lch.pending \in {0, s.lch.pending}
        /\ \A q \in Requests : a.ctx[q].thread = s.ctx[q].thread
      BY LaunchCanceled
  <2> HIDE DEF a
  <2>3. b \in States /\ Stopped(a, b) /\ b.ctl = Idle(s.ctl) /\ b.lch = a.lch
      BY <2>2, CurrentStopped DEF Stopped, Undisturbed
  <2> HIDE DEF b
  <2>4. CtxPart(b) /\ CtlPart(b)
      BY <2>2, <2>3, StoppedLaunches, StoppedControl
  <2>5. b.ctl.runtime = 0 /\ b.ctl.pending = None
      BY <2>3, IdleController DEF States
  <2>6. /\ c \in States /\ c.ctx = b.ctx /\ c.lch = b.lch /\ c.queue = b.queue
        /\ c.ctl.runtime = 0 /\ c.ctl.pending = None
        /\ c.ctl.closing = b.ctl.closing /\ c.ctl.retired = b.ctl.retired
      BY <2>3, <2>5, CurrentCleared
  <2> HIDE DEF c
  <2>7. CtxPart(c)
      BY <2>3, <2>4, <2>6, SameContexts
  <2>8. CtlPart(c)
      BY <2>4, <2>6 DEF CtlPart, hasPendingActivity
  <2>9. \A q \in Requests : c.ctx[q].thread = s.ctx[q].thread
      BY <2>2, <2>3, <2>6 DEF Stopped, Undisturbed, SameLaunch
  <2> QED
      BY <2>1, <2>2, <2>3, <2>6, <2>7, <2>8, <2>9
<1> QED
    BY <1>1, <1>2

\* `retired' is emitted by a closing controller with nothing left.
LEMMA RetiredEmitted ==
    ASSUME NEW s \in States, NEW t, t = emitRetired(s)
    PROVE  /\ t \in States
           /\ t.ctx = s.ctx /\ t.lch = s.lch /\ t.sess = s.sess
           /\ t.queue = s.queue /\ t.nav = s.nav
           /\ t.ctl.runtime = s.ctl.runtime /\ t.ctl.pending = s.ctl.pending
           /\ t.ctl.current = s.ctl.current
           /\ t.ctl.generation = s.ctl.generation
           /\ t.ctl.closing = s.ctl.closing
           /\ t.ctl.retired =>
                s.ctl.retired \/ (s.ctl.closing /\ ~hasPendingActivity(s))
<1>1. CASE t = s
    BY <1>1
<1>2. CASE /\ s.ctl.closing /\ ~hasPendingActivity(s)
           /\ t = [s EXCEPT !.ctl.retired = TRUE]
  <2> DEFINE k == [s.ctl EXCEPT !.retired = TRUE]
  <2>1. /\ k \in Controllers /\ k.runtime = s.ctl.runtime
        /\ k.pending = s.ctl.pending /\ k.current = s.ctl.current
        /\ k.generation = s.ctl.generation /\ k.closing = s.ctl.closing
      BY DEF States, Controllers
  <2>2. t = [s EXCEPT !.ctl = k]
      BY <1>2
  <2> HIDE DEF k
  <2>3. /\ t \in States /\ t.ctl = k
        /\ t.ctx = s.ctx /\ t.lch = s.lch /\ t.sess = s.sess
        /\ t.queue = s.queue /\ t.nav = s.nav
      BY <2>1, <2>2 DEF States
  <2> QED
      BY <1>2, <2>1, <2>3
<1> QED
    BY <1>1, <1>2 DEF emitRetired

\* The controller hears that a launch is gone: it forgets it, and the attach
\* that waited for it.
LEMMA CompletionHeard ==
    ASSUME NEW s \in States, CtxPart(s), NEW r \in Requests,
           NEW t, t = retirementCompleted(s, r)
    PROVE  /\ t \in States /\ CtxPart(t)
           /\ \A q \in Requests : t.ctx[q].thread = s.ctx[q].thread
           /\ t.lch = s.lch /\ t.sess = s.sess
           /\ t.ctl.runtime = s.ctl.runtime
           /\ t.ctl.pending \in {None, s.ctl.pending}
           /\ s.ctl.pending.req = r => t.ctl.pending = None
           /\ t.ctl.closing = s.ctl.closing
           /\ t.ctl.retired =>
                s.ctl.retired \/ (s.ctl.closing /\ ~hasPendingActivity(s))
           /\ s.ctl.current # r => /\ t.ctl.current = s.ctl.current
                                   /\ t.ctl.generation = s.ctl.generation
<1> DEFINE a == clearIfCurrent(s, r)
           b == IF a.ctl.pending.req = r THEN clearPendingAttach(a) ELSE a
<1>1. t = emitRetired(b)
    BY DEF retirementCompleted
<1>2. /\ a \in States
      /\ a.ctx = s.ctx /\ a.lch = s.lch /\ a.sess = s.sess
      /\ a.queue = s.queue /\ a.nav = s.nav
      /\ a.ctl.runtime = s.ctl.runtime /\ a.ctl.pending = s.ctl.pending
      /\ a.ctl.closing = s.ctl.closing /\ a.ctl.retired = s.ctl.retired
      /\ s.ctl.current # r => /\ a.ctl.current = s.ctl.current
                              /\ a.ctl.generation = s.ctl.generation
    BY CurrentCleared
<1> HIDE DEF a
<1>3. CtxPart(a)
    BY <1>2, SameContexts
<1>4. /\ Stopped(a, clearPendingAttach(a)) /\ Stopped(a, a)
      /\ clearPendingAttach(a).ctl = [a.ctl EXCEPT !.pending = None]
      /\ clearPendingAttach(a).sess = a.sess /\ clearPendingAttach(a).lch = a.lch
    BY <1>2, PendingCleared, StoppedSame
<1>5. /\ Stopped(a, b) /\ b \in States /\ b.sess = a.sess /\ b.lch = a.lch
      /\ b.ctl.pending \in {None, a.ctl.pending}
      /\ a.ctl.pending.req = r => b.ctl.pending = None
      /\ b.ctl.runtime = a.ctl.runtime /\ b.ctl.current = a.ctl.current
      /\ b.ctl.generation = a.ctl.generation
      /\ b.ctl.closing = a.ctl.closing /\ b.ctl.retired = a.ctl.retired
    BY <1>2, <1>4 DEF Stopped, Undisturbed, States, Controllers
<1> HIDE DEF b
<1>6. CtxPart(b)
    BY <1>2, <1>3, <1>5, StoppedLaunches
<1>7. /\ t \in States
      /\ t.ctx = b.ctx /\ t.lch = b.lch /\ t.sess = b.sess
      /\ t.queue = b.queue
      /\ t.ctl.runtime = b.ctl.runtime /\ t.ctl.pending = b.ctl.pending
      /\ t.ctl.current = b.ctl.current
      /\ t.ctl.generation = b.ctl.generation
      /\ t.ctl.closing = b.ctl.closing
      /\ t.ctl.retired => b.ctl.retired \/ (b.ctl.closing /\ ~hasPendingActivity(b))
    BY <1>1, <1>5, RetiredEmitted
<1>8. CtxPart(t)
    BY <1>5, <1>6, <1>7, SameContexts
<1>9. \A q \in Requests : t.ctx[q].thread = s.ctx[q].thread
    BY <1>2, <1>5, <1>7 DEF Stopped, Undisturbed, SameLaunch
<1>10. hasPendingActivity(b) <=> hasPendingActivity(s)
    BY <1>2, <1>5 DEF hasPendingActivity
<1> QED
    BY <1>2, <1>5, <1>7, <1>8, <1>9, <1>10

\* A launch of which only the attach that waits for it may be left.
Forgotten(s, r) ==
    /\ s.ctl.runtime # 0 => /\ s.ctl.runtime = s.lch.current /\ s.ctl.runtime # r
                            /\ s.ctl.current = s.ctl.runtime
                            /\ s.ctl.generation = s.sess.generation
    /\ s.ctl.pending # None => /\ s.ctl.runtime = 0 /\ s.ctl.pending.req # 0
                               /\ s.ctl.pending.req \in {r, s.lch.current}
    /\ ~s.lch.accepting => s.ctl.runtime = 0 /\ s.ctl.pending = None
    /\ s.ctl.closing => ~s.lch.accepting
    /\ s.ctl.retired => s.ctl.closing /\ ~hasPendingActivity(s)

\* After that, the controller is right about the Worker it serves.
LEMMA CompletionControl ==
    ASSUME NEW s \in States, CtxPart(s), NEW r \in Requests, Forgotten(s, r)
    PROVE  CtlPart(retirementCompleted(s, r))
<1> DEFINE t == retirementCompleted(s, r)
<1>1. /\ t \in States /\ t.lch = s.lch /\ t.sess = s.sess
      /\ t.ctl.runtime = s.ctl.runtime
      /\ t.ctl.pending \in {None, s.ctl.pending}
      /\ s.ctl.pending.req = r => t.ctl.pending = None
      /\ t.ctl.closing = s.ctl.closing
      /\ t.ctl.retired => s.ctl.retired \/ (s.ctl.closing /\ ~hasPendingActivity(s))
      /\ s.ctl.current # r => /\ t.ctl.current = s.ctl.current
                              /\ t.ctl.generation = s.ctl.generation
    BY CompletionHeard
<1> HIDE DEF t
<1>2. hasPendingActivity(t) <=> hasPendingActivity(s)
    BY <1>1 DEF hasPendingActivity
<1>3. CtlPart(t)
    BY <1>1, <1>2 DEF CtlPart, Forgotten
<1> QED
    BY <1>3 DEF t

\* The Host is told that the runtime cannot go on.
LEMMA TerminalFailed ==
    ASSUME NEW s \in States, CtxPart(s), ~s.lch.accepting,
           s.ctl.retired => s.ctl.closing /\ ~hasPendingActivity(s)
    PROVE  /\ terminalFailure(s) \in States
           /\ CtxPart(terminalFailure(s)) /\ CtlPart(terminalFailure(s))
           /\ terminalFailure(s).lch = s.lch
           /\ \A q \in Requests :
                terminalFailure(s).ctx[q].thread = s.ctx[q].thread
<1> DEFINE c == [s.ctl EXCEPT !.accepting = FALSE, !.target = None, !.current = 0]
           a == [s EXCEPT !.ctl.accepting = FALSE, !.ctl.target = None,
                          !.ctl.current = 0]
           b == ctlStopCurrent(a)
           d == [b.ctl EXCEPT !.gate = FALSE]
           e == [b EXCEPT !.ctl.gate = FALSE]
           f == [t |-> "failClosed", r |-> 0]
<1>1. /\ c \in Controllers /\ c.closing = s.ctl.closing /\ c.retired = s.ctl.retired
    BY NoTarget DEF States, Controllers, Ids
<1>2. a = [s EXCEPT !.ctl = c]
    BY DEF States
<1>3. terminalFailure(s) = IF b.ctl.gate THEN Post(e, f) ELSE b
    BY DEF terminalFailure
<1> HIDE DEF c, a
<1>4. /\ a \in States /\ a.ctl = c /\ a.ctx = s.ctx /\ a.lch = s.lch /\ a.queue = s.queue
    BY <1>1, <1>2 DEF States
<1>5. b \in States /\ Stopped(a, b) /\ b.ctl = Idle(c) /\ b.lch = s.lch
    BY <1>4, CurrentStopped DEF Stopped, Undisturbed
<1> HIDE DEF b
<1>6. CtxPart(a) /\ CtxPart(b)
    BY <1>4, <1>5, SameContexts, StoppedLaunches
<1>7. /\ b.ctl.runtime = 0 /\ b.ctl.pending = None
      /\ b.ctl.closing = s.ctl.closing /\ b.ctl.retired = s.ctl.retired
    BY <1>1, <1>5, IdleController
<1>8. \A q \in Requests : b.ctx[q].thread = s.ctx[q].thread
    BY <1>4, <1>5 DEF Stopped, Undisturbed, SameLaunch
<1>9. CtlPart(b)
    BY <1>5, <1>7, ControllerHalted DEF hasPendingActivity
<1>10. /\ d \in Controllers /\ d.runtime = 0 /\ d.pending = None
       /\ d.closing = s.ctl.closing /\ d.retired = s.ctl.retired
    BY <1>5, <1>7 DEF States, Controllers
<1>11. e = [b EXCEPT !.ctl = d]
    OBVIOUS
<1> HIDE DEF d, e
<1>12. /\ e \in States /\ e.ctl = d /\ e.ctx = b.ctx /\ e.lch = s.lch /\ e.queue = b.queue
    BY <1>5, <1>10, <1>11 DEF States
<1>13. CtxPart(e)
    BY <1>5, <1>6, <1>12, SameContexts
<1>14. f \in Events /\ f.t = "failClosed" /\ EventOK(e, f)
    BY DEF Events, Words, Ids, EventOK
<1> HIDE DEF f
<1>15. /\ Post(e, f) \in States /\ CtxPart(Post(e, f)) /\ Post(e, f).ctl = d
       /\ Post(e, f).lch = s.lch /\ Post(e, f).ctx = b.ctx
    BY <1>12, <1>13, <1>14, Posted, PostedLaunches
<1>16. CtlPart(Post(e, f))
    BY <1>10, <1>15, ControllerHalted DEF hasPendingActivity
<1> QED
    BY <1>3, <1>5, <1>6, <1>8, <1>9, <1>15, <1>16

-----------------------------------------------------------------------------
\* A launch begins.

\* Nobody else is launched when a launch begins.
LEMMA NobodyElse ==
    ASSUME NEW s \in States, CtxPart(s), s.lch.accepting, ~busy(s)
    PROVE  /\ s.lch.inflight = {} /\ s.lch.current = 0 /\ s.lch.fatal = {}
           /\ \A r \in Requests : ~Cared(s.lch, r) /\ ~Occupied(s.ctx[r])
BY DEF CtxPart, LaunchesOK, Cared, busy

\* A launch that begins, when nobody else is launched.
LEMMA LaunchBegun ==
    ASSUME NEW s \in States, CtxPart(s), NEW r \in Requests,
           s.lch.accepting, ~busy(s), s.ctx[r].thread = "none",
           s.lch.pending # r,
           NEW t \in States, t.queue = s.queue,
           t.lch.inflight = s.lch.inflight \cup {r},
           t.lch.current = s.lch.current, t.lch.pending = s.lch.pending,
           t.lch.accepting = s.lch.accepting, t.lch.fatal = s.lch.fatal,
           \A q \in Requests : q # r => t.ctx[q] = s.ctx[q],
           ContextOK(t.ctx[r]), t.ctx[r].thread # "none",
           t.ctx[r].mgr = "none", ~t.ctx[r].fatalCleanupObserved,
           t.ctx[r].adm = "none"
    PROVE  CtxPart(t)
<1>1. /\ s.lch.inflight = {} /\ s.lch.current = 0 /\ s.lch.fatal = {}
      /\ \A q \in Requests : ~Cared(s.lch, q) /\ ~Occupied(s.ctx[q])
    BY NobodyElse
<1>2. \A q \in Requests : Cared(t.lch, q) <=> q = r
    BY <1>1, RequestsAssumption DEF Cared
<1>3. \A q \in Requests : Occupied(t.ctx[q]) => q = r
    BY <1>1
<1>4. s.lch \in Launchers /\ s.queue \in Seq(Events)
    BY DEF States
<1>5. LaunchesOK(t)
    BY <1>1, <1>2, <1>3, <1>4 DEF LaunchesOK, CtxPart, Launchers, Ids
<1>6. MayAttach(t, r) /\ \A q \in Requests : MayAttach(s, q) => MayAttach(t, q)
    BY <1>1 DEF MayAttach
<1>7. AdmissionsOK(t)
    BY <1>6 DEF AdmissionsOK, CtxPart
<1>8. s.ctx[r].adm = "none"
    BY DEF CtxPart, ContextOK
<1>9. ASSUME NEW e \in Events, EventOK(s, e)
      PROVE  EventOK(t, e)
  <2>1. CASE e.r \notin Requests
      BY <1>9, <2>1 DEF EventOK
  <2>2. CASE e.r = r
      BY <1>1, <1>8, <1>9, <2>2 DEF EventOK
  <2>3. CASE e.r \in Requests /\ e.r # r
      BY <1>1, <1>6, <1>9, <2>3 DEF EventOK
  <2> QED
      BY <2>1, <2>2, <2>3
<1>10. QueueOK(t)
    BY <1>4, <1>9 DEF QueueOK, CtxPart
<1>11. \A q \in Requests : ContextOK(t.ctx[q])
    BY DEF CtxPart
<1> QED
    BY <1>5, <1>7, <1>10, <1>11 DEF CtxPart

\* The context of a new launch.
LEMMA FreshContext ==
    ASSUME NEW n \in Nat, NEW x \in {"prepare", "finished"},
           NEW k, k = [NoContext EXCEPT !.serial = n, !.temp = TRUE, !.thread = x]
    PROVE  /\ k \in Contexts /\ ContextOK(k) /\ k.thread = x /\ k.mgr = "none"
           /\ ~k.fatalCleanupObserved /\ k.adm = "none"
<1>1. /\ NoSandbox \in Sandboxes /\ SandboxOK(NoSandbox) /\ ~Executing(NoSandbox)
    BY EmptySandbox DEF Executing, NoSandbox
<1> QED
    BY <1>1 DEF NoContext, Contexts, ContextOK, Steps, Launching, Clean

\* startLaunch, with its thread, without it, or without a context.
LEMMA LaunchStarted ==
    ASSUME NEW s \in States, CtxPart(s), CtlPart(s), NEW r \in Requests,
           s.lch.accepting, ~busy(s), s.ctx[r].thread = "none",
           s.lch.pending # r, NEW o \in startLaunch(s, r)
    PROVE  /\ o.s \in States /\ CtxPart(o.s) /\ CtlPart(o.s)
           /\ o.s.lch.pending = s.lch.pending /\ o.s.lch.current = 0
           /\ \A q \in Requests : q # r => o.s.ctx[q].thread = s.ctx[q].thread
<1> DEFINE n == s.lch.serial + 1
           s1 == [s EXCEPT !.lch.serial = @ + 1]
           begun == [NoContext EXCEPT !.serial = n, !.temp = TRUE,
                                      !.thread = "prepare"]
           ended == [NoContext EXCEPT !.serial = n, !.temp = TRUE,
                                      !.thread = "finished"]
           s2 == [s1 EXCEPT !.lch.inflight = @ \cup {r},
                            !.ctx[r] = [NoContext EXCEPT
                                          !.serial = s1.lch.serial,
                                          !.temp = TRUE, !.thread = "prepare"]]
           s3 == [s2 EXCEPT !.ctx[r].thread = "finished"]
           l == [s.lch EXCEPT !.serial = n]
           m == [l EXCEPT !.inflight = @ \cup {r}]
<1>1. s.lch \in Launchers /\ n \in Nat /\ s.lch.current = 0 /\ s.lch.fatal = {}
      /\ s.lch.inflight = {} /\ ~s.ctl.closing /\ ~s.ctl.retired
    BY NobodyElse DEF States, Launchers, CtlPart
<1>2. /\ o = [s |-> s2, ok |-> TRUE] \/ o.s = fail(retireAsync(s3, r), r)
         \/ o.s = fail(s1, r)
    BY DEF startLaunch
<1>3. /\ l \in Launchers /\ m \in Launchers
      /\ SameLauncher([s.lch EXCEPT !.serial = n], l)
      /\ l.accepting = s.lch.accepting /\ l.inflight = s.lch.inflight
      /\ l.current = s.lch.current /\ l.pending = s.lch.pending
      /\ l.fatal = s.lch.fatal /\ l.serial = n
      /\ m.accepting = s.lch.accepting /\ m.inflight = s.lch.inflight \cup {r}
      /\ m.current = s.lch.current /\ m.pending = s.lch.pending
      /\ m.fatal = s.lch.fatal /\ m.serial = n
    BY <1>1 DEF Launchers, SameLauncher
<1>4. s1 = [s EXCEPT !.lch = l]
    BY DEF States
<1>5. s1.lch = l /\ s1 \in States /\ s1.ctx = s.ctx /\ s1.ctl = s.ctl
      /\ s1.queue = s.queue /\ s1.sess = s.sess /\ s1.nav = s.nav
    BY <1>3, <1>4 DEF States
<1>6. s2 = [s1 EXCEPT !.lch = m, !.ctx[r] = begun]
    BY <1>3, <1>5 DEF States
<1>7. /\ begun \in Contexts /\ ContextOK(begun) /\ begun.thread # "none"
      /\ begun.mgr = "none" /\ ~begun.fatalCleanupObserved /\ begun.adm = "none"
    BY <1>1, FreshContext
<1>8. /\ ended \in Contexts /\ ContextOK(ended) /\ ended.thread = "finished"
      /\ ended.mgr = "none" /\ ~ended.fatalCleanupObserved /\ ended.adm = "none"
    BY <1>1, FreshContext
<1>9. ended = [begun EXCEPT !.thread = "finished"]
    BY DEF NoContext
<1> HIDE DEF s1, s2, l, m, begun, ended, n
<1>10. /\ s2 \in States /\ s2.lch = m /\ s2.ctx[r] = begun
       /\ s2.ctl = s.ctl /\ s2.queue = s.queue /\ s2.sess = s.sess
       /\ \A q \in Requests : q # r => s2.ctx[q] = s.ctx[q]
    BY <1>3, <1>5, <1>6, <1>7 DEF States
<1>11. s3 = [s2 EXCEPT !.ctx[r] = ended]
    BY <1>9, <1>10
<1> HIDE DEF s3
<1>12. /\ s3 \in States /\ s3.lch = m /\ s3.ctx[r] = ended
       /\ s3.ctl = s.ctl /\ s3.queue = s.queue /\ s3.sess = s.sess
       /\ \A q \in Requests : q # r => s3.ctx[q] = s.ctx[q]
    BY <1>8, <1>10, <1>11 DEF States
<1>13. CtxPart(s1)
    BY <1>3, <1>5, ClosedLauncher
<1>14. CtxPart(s2)
    BY <1>3, <1>7, <1>10, LaunchBegun
<1>15. CtxPart(s3)
    BY <1>3, <1>8, <1>12, LaunchBegun
<1>16. CtlPart(s1) /\ CtlPart(s2) /\ CtlPart(s3)
    BY <1>1, <1>3, <1>5, <1>10, <1>12 DEF CtlPart
<1>17. CASE o = [s |-> s2, ok |-> TRUE]
    BY <1>1, <1>3, <1>10, <1>14, <1>16, <1>17
<1>18. CASE o.s = fail(s1, r)
  <2>1. Stopped(s1, o.s)
      BY <1>5, <1>18, FailStops
  <2>2. o.s \in States /\ SameLauncher(l, o.s.lch)
        /\ \A q \in Requests : SameLaunch(s.ctx[q], o.s.ctx[q])
      BY <1>5, <2>1 DEF Stopped, Undisturbed
  <2>3. CtxPart(o.s) /\ CtlPart(o.s)
      BY <1>5, <1>13, <1>16, <2>1, StoppedLaunches, StoppedControl
  <2> QED
      BY <1>1, <1>3, <2>2, <2>3 DEF SameLauncher, SameLaunch
<1>19. CASE o.s = fail(retireAsync(s3, r), r)
  <2> DEFINE t == retireAsync(s3, r)
  <2>1. ~Queued(s3, "admit", r)
  <3>1. \A i \in 1 .. Len(s.queue) :
          s.queue[i].t = "admit" /\ s.queue[i].r = r => FALSE
      BY DEF CtxPart, QueueOK, EventOK
  <3> QED
      BY <1>12, <3>1 DEF Queued
  <2>2. Abandoned(s3, r) /\ s3.ctx[r].thread # "none"
      BY <1>8, <1>12, <2>1 DEF Abandoned, Launching
  <2>3. /\ t \in States /\ CtxPart(t) /\ t.ctl = s3.ctl /\ t.lch = s3.lch
        /\ t.sess = s3.sess
        /\ \A q \in Requests : q # r => t.ctx[q] = s3.ctx[q]
      BY <1>12, <1>15, <2>2, OneRetired
  <2> HIDE DEF t
  <2>4. CtlPart(t)
      BY <1>16, <2>3 DEF CtlPart, hasPendingActivity
  <2>5. Stopped(t, o.s)
      BY <1>19, <2>3, FailStops DEF t
  <2>6. o.s \in States /\ SameLauncher(m, o.s.lch)
        /\ \A q \in Requests : q # r => SameLaunch(s.ctx[q], o.s.ctx[q])
      BY <1>12, <2>3, <2>5 DEF Stopped, Undisturbed
  <2>7. CtxPart(o.s) /\ CtlPart(o.s)
      BY <2>3, <2>4, <2>5, StoppedLaunches, StoppedControl
  <2> QED
      BY <1>1, <1>3, <2>6, <2>7 DEF SameLauncher, SameLaunch
<1> QED
    BY <1>2, <1>17, <1>18, <1>19

\* The request that waited is launched, if there is one.
LEMMA PendingLaunched ==
    ASSUME NEW s \in States, CtxPart(s), CtlPart(s), NEW t \in launchPending(s)
    PROVE  /\ t \in States /\ CtxPart(t) /\ CtlPart(t)
           /\ t.lch.pending \in {0, s.lch.pending}
           /\ \A q \in Requests :
                q # s.lch.pending => t.ctx[q].thread = s.ctx[q].thread
<1>1. CASE ~(s.lch.accepting /\ ~busy(s) /\ s.lch.pending # 0)
    BY <1>1 DEF launchPending
<1>2. CASE s.lch.accepting /\ ~busy(s) /\ s.lch.pending # 0
  <2> DEFINE a == [s EXCEPT !.lch.pending = 0]
             r == s.lch.pending
             l == [s.lch EXCEPT !.pending = 0]
  <2>1. r \in Requests /\ s.ctx[r].thread = "none"
      BY <1>2 DEF States, Launchers, Ids, CtxPart, LaunchesOK
  <2>2. l \in Launchers /\ l.pending = 0 /\ l.accepting = s.lch.accepting
        /\ l.inflight = s.lch.inflight /\ l.current = s.lch.current
        /\ l.fatal = s.lch.fatal
      BY DEF States, Launchers, Ids
  <2>3. a = [s EXCEPT !.lch = l]
      OBVIOUS
  <2> HIDE DEF l
  <2>4. /\ a \in States /\ a.lch = l /\ a.ctl = s.ctl /\ a.ctx = s.ctx
        /\ a.sess = s.sess /\ a.queue = s.queue
      BY <2>2, <2>3 DEF States
  <2> HIDE DEF a
  <2>5. CtxPart(a)
      BY <2>2, <2>4, ClosedLauncher
  <2>6. CtlPart(a)
      BY <1>2, <2>2, <2>4 DEF CtlPart
  <2>7. a.lch.accepting /\ ~busy(a) /\ a.ctx[r].thread = "none" /\ a.lch.pending # r
      BY <1>2, <2>1, <2>2, <2>4 DEF busy
  <2>8. PICK o \in lchRequestLaunch(a, r) : t = o.s
      BY <1>2 DEF launchPending, a
  <2>9. o \in startLaunch(a, r)
      BY <2>7, <2>8 DEF lchRequestLaunch
  <2>10. /\ o.s \in States /\ CtxPart(o.s) /\ CtlPart(o.s)
         /\ o.s.lch.pending = a.lch.pending
         /\ \A q \in Requests : q # r => o.s.ctx[q].thread = a.ctx[q].thread
      BY <2>1, <2>4, <2>5, <2>6, <2>7, <2>9, LaunchStarted
  <2> QED
      BY <2>2, <2>4, <2>8, <2>10
<1> QED
    BY <1>1, <1>2

\* A request of the Host, at the launcher.
LEMMA LaunchRequested ==
    ASSUME NEW s \in States, CtxPart(s), NEW r \in Requests,
           s.lch.accepting, s.ctx[r].thread = "none", s.lch.pending # r,
           ~s.ctl.closing, ~s.ctl.retired,
           ~busy(s) => CtlPart(s), NEW o \in lchRequestLaunch(s, r)
    PROVE  /\ o.s \in States /\ CtxPart(o.s) /\ CtlPart(o.s)
           /\ o.s.lch.pending \in {r, s.lch.pending}
           /\ ~o.ok => o.s.lch.current = 0
           /\ \A q \in Requests : q # r => o.s.ctx[q].thread = s.ctx[q].thread
<1>1. CASE ~busy(s)
  <2>1. o \in startLaunch(s, r)
      BY <1>1 DEF lchRequestLaunch
  <2> QED
      BY <1>1, <2>1, LaunchStarted
<1>2. CASE busy(s)
  <2> DEFINE a == [s EXCEPT !.lch.pending = r]
             l == [s.lch EXCEPT !.pending = r]
             t == lchStopCurrent(a)
  <2>1. o = [s |-> t, ok |-> TRUE]
      BY <1>2 DEF lchRequestLaunch
  <2>2. l \in Launchers /\ l.pending = r /\ l.accepting = s.lch.accepting
        /\ l.inflight = s.lch.inflight /\ l.current = s.lch.current
        /\ l.fatal = s.lch.fatal
      BY DEF States, Launchers, Ids
  <2>3. a = [s EXCEPT !.lch = l]
      OBVIOUS
  <2> HIDE DEF l
  <2>4. /\ a \in States /\ a.lch = l /\ a.ctl = s.ctl /\ a.ctx = s.ctx
        /\ a.queue = s.queue
      BY <2>2, <2>3 DEF States
  <2> HIDE DEF a
  <2>5. CtxPart(a)
      BY <2>2, <2>4
         DEF CtxPart, LaunchesOK, Cared, AdmissionsOK, MayAttach, QueueOK, EventOK
  <2>6. t \in States /\ Stopped(a, t) /\ t.ctl = Idle(s.ctl)
      BY <2>4, LauncherStopped DEF Stopped, Undisturbed
  <2> HIDE DEF t
  <2>7. CtxPart(t)
      BY <2>4, <2>5, <2>6, StoppedLaunches
  <2>8. CtlPart(t)
    <3>1. s.ctl \in Controllers
        BY DEF States
    <3>2. /\ t.ctl.runtime = 0 /\ t.ctl.pending = None /\ ~t.ctl.closing
          /\ ~t.ctl.retired
        BY <2>6, <3>1, IdleController
    <3> QED
        BY <2>6, <3>2, ControllerHalted
  <2> QED
      BY <2>1, <2>2, <2>4, <2>6, <2>7, <2>8 DEF Stopped, Undisturbed, SameLauncher, SameLaunch
<1> QED
    BY <1>1, <1>2

-----------------------------------------------------------------------------
\* A launch that was cleaned up, or could not be.

\* A launch that was cleaned up is forgotten.
LEMMA LaunchForgotten ==
    ASSUME NEW s \in States, CtxPart(s), NEW r \in Requests,
           s.ctx[r].mgr = "done",
           ~Queued(s, "retired", r), ~Queued(s, "lost", r),
           NEW t \in States, t.ctx = s.ctx, t.queue = s.queue,
           t.lch.inflight = s.lch.inflight \ {r},
           t.lch.current = IF s.lch.current = r THEN 0 ELSE s.lch.current,
           t.lch.fatal = s.lch.fatal \ {r},
           t.lch.pending \in {0, s.lch.pending},
           t.lch.accepting => s.lch.accepting
    PROVE  CtxPart(t)
<1>1. s.lch \in Launchers /\ s.queue \in Seq(Events)
    BY DEF States
<1>2. /\ \A q \in Requests : Cared(t.lch, q) => Cared(s.lch, q)
      /\ \A q \in Requests : q # r /\ Cared(s.lch, q) => Cared(t.lch, q)
    BY DEF Cared
<1>3. ~Occupied(s.ctx[r])
    BY DEF Occupied
<1>4. LaunchesOK(t)
    BY <1>2, <1>3 DEF LaunchesOK, CtxPart
<1>5. \A q \in Requests : MayAttach(s, q) => MayAttach(t, q)
    BY DEF MayAttach
<1>6. AdmissionsOK(t)
    BY <1>5 DEF AdmissionsOK, CtxPart
<1>7. ASSUME NEW i \in 1 .. Len(s.queue)
      PROVE  EventOK(t, s.queue[i])
  <2>1. EventOK(s, s.queue[i]) /\ s.queue[i] \in Events
      BY <1>1 DEF CtxPart, QueueOK
  <2>2. s.queue[i].t \in {"retired", "lost"} => s.queue[i].r # r
      BY DEF Queued
  <2> QED
      BY <1>2, <1>5, <2>1, <2>2 DEF EventOK
<1>8. QueueOK(t)
    BY <1>7 DEF QueueOK, CtxPart
<1> QED
    BY <1>4, <1>6, <1>8 DEF CtxPart

\* A launch that could not be cleaned up is remembered, and closes the launcher.
LEMMA LaunchLost ==
    ASSUME NEW s \in States, CtxPart(s), NEW r \in Requests,
           s.ctx[r].mgr # "none", Cared(s.lch, r),
           NEW t \in States, t.queue = s.queue,
           t.ctx[r] = [s.ctx[r] EXCEPT !.fatalCleanupObserved = TRUE],
           \A q \in Requests : q # r => t.ctx[q] = s.ctx[q],
           t.lch.inflight = s.lch.inflight \ {r},
           t.lch.current = IF s.lch.current = r THEN 0 ELSE s.lch.current,
           t.lch.fatal = s.lch.fatal \cup {r},
           t.lch.pending = 0, ~t.lch.accepting
    PROVE  CtxPart(t)
<1>1. s.lch \in Launchers /\ s.queue \in Seq(Events) /\ s.ctx[r] \in Contexts
    BY DEF States
<1>2. \A q \in Requests : Cared(t.lch, q) <=> Cared(s.lch, q)
    BY DEF Cared
<1>3. /\ t.ctx[r].sb = s.ctx[r].sb /\ t.ctx[r].thread = s.ctx[r].thread
      /\ t.ctx[r].submitted = s.ctx[r].submitted
      /\ t.ctx[r].attached = s.ctx[r].attached
      /\ t.ctx[r].canceled = s.ctx[r].canceled
      /\ t.ctx[r].observer = s.ctx[r].observer
      /\ t.ctx[r].session = s.ctx[r].session /\ t.ctx[r].adm = s.ctx[r].adm
      /\ t.ctx[r].guard = s.ctx[r].guard /\ t.ctx[r].temp = s.ctx[r].temp
      /\ t.ctx[r].mgr = s.ctx[r].mgr
    BY <1>1 DEF Contexts
<1>4. ContextOK(s.ctx[r]) /\ s.ctx[r].thread # "none"
    BY DEF CtxPart, LaunchesOK
<1>5. ContextOK(t.ctx[r])
    BY <1>3, <1>4 DEF ContextOK, Launching, Clean
<1>6. \A q \in Requests : ContextOK(t.ctx[q])
    BY <1>5 DEF CtxPart
<1>7. \A q \in Requests : /\ t.ctx[q].thread = s.ctx[q].thread
                          /\ t.ctx[q].attached = s.ctx[q].attached
                          /\ t.ctx[q].mgr = s.ctx[q].mgr
                          /\ t.ctx[q].adm = s.ctx[q].adm
    BY <1>3
<1>8. \A q \in Requests : Occupied(t.ctx[q]) <=> Occupied(s.ctx[q])
    BY <1>7 DEF Occupied
<1>9. LaunchesOK(t)
  <2>1. LaunchesOK(s)
      BY DEF CtxPart
  <2>2. t.lch.current # 0 =>
          t.lch.inflight = {} /\ t.ctx[t.lch.current].attached
    <3>1. SUFFICES ASSUME t.lch.current # 0
                   PROVE  t.lch.inflight = {} /\ t.ctx[t.lch.current].attached
        OBVIOUS
    <3>2. t.lch.current = s.lch.current /\ s.lch.current \in Requests
        BY <1>1, <3>1 DEF Launchers, Ids
    <3> QED
        BY <1>7, <2>1, <3>1, <3>2 DEF LaunchesOK
  <2>3. \A q \in t.lch.fatal : t.ctx[q].mgr # "none"
      BY <1>1, <1>7, <2>1 DEF LaunchesOK, Launchers
  <2>4. \A q \in Requests : Cared(t.lch, q) => t.ctx[q].thread # "none"
      BY <1>2, <1>7, <2>1 DEF LaunchesOK
  <2> QED
      BY <1>2, <1>8, <2>1, <2>2, <2>3, <2>4 DEF LaunchesOK
<1>10. \A q \in Requests : MayAttach(t, q)
    BY DEF MayAttach
<1>11. AdmissionsOK(t)
    BY <1>10 DEF AdmissionsOK
<1>12. \A e \in Events : EventOK(s, e) => EventOK(t, e)
    BY <1>2, <1>7, <1>10 DEF EventOK
<1>13. QueueOK(t)
    BY <1>1, <1>12 DEF QueueOK, CtxPart
<1> QED
    BY <1>6, <1>9, <1>11, <1>13 DEF CtxPart

\* publishFatalRetirement.
LEMMA FatalPublished ==
    ASSUME NEW s \in States, CtxPart(s), NEW r \in Requests, ~s.lch.accepting,
           NEW terminal \in BOOLEAN, ~terminal => Forgotten(s, r),
           s.ctl.retired => s.ctl.closing /\ ~hasPendingActivity(s),
           NEW t, t = publishFatalRetirement(s, r, terminal)
    PROVE  /\ t \in States /\ CtxPart(t) /\ CtlPart(t)
           /\ t.lch.pending = s.lch.pending
           /\ \A q \in Requests : t.ctx[q].thread = s.ctx[q].thread
<1> DEFINE a == retirementCompleted(s, r)
           b == fail(a, r)
<1>1. t = IF terminal THEN terminalFailure(b) ELSE b
    BY DEF publishFatalRetirement
<1>2. /\ a \in States /\ CtxPart(a) /\ a.lch = s.lch
      /\ a.ctl.closing = s.ctl.closing
      /\ a.ctl.retired => s.ctl.retired \/ (s.ctl.closing /\ ~hasPendingActivity(s))
      /\ \A q \in Requests : a.ctx[q].thread = s.ctx[q].thread
    BY CompletionHeard
<1>3. ~terminal => CtlPart(a)
    BY CompletionControl
<1> HIDE DEF a
<1>4. Stopped(a, b) /\ b.lch = a.lch /\ b \in States
      /\ b.ctl.closing = a.ctl.closing /\ b.ctl.retired = a.ctl.retired
    BY <1>2, FailStops DEF Stopped, Undisturbed, Calmer
<1> HIDE DEF b
<1>5. CtxPart(b) /\ (~terminal => CtlPart(b))
    BY <1>2, <1>3, <1>4, StoppedLaunches, StoppedControl
<1>6. \A q \in Requests : b.ctx[q].thread = s.ctx[q].thread
    BY <1>2, <1>4 DEF Stopped, Undisturbed, SameLaunch
<1>7. CASE ~terminal
    BY <1>1, <1>2, <1>4, <1>5, <1>6, <1>7
<1>8. CASE terminal
  <2>1. b.ctl.retired => b.ctl.closing /\ ~hasPendingActivity(b)
      BY <1>2, <1>4 DEF hasPendingActivity
  <2> QED
      BY <1>1, <1>2, <1>4, <1>5, <1>6, <1>8, <2>1, TerminalFailed
<1> QED
    BY <1>7, <1>8

\* handleRetirement, whatever the outcome.
LEMMA RetirementHandled ==
    ASSUME NEW s \in States, CtxPart(s), CtlPart(s), NEW r \in Requests,
           Cared(s.lch, r), NEW succeeded \in BOOLEAN,
           s.ctx[r].mgr # "none",
           succeeded => /\ s.ctx[r].mgr = "done"
                        /\ ~Queued(s, "retired", r) /\ ~Queued(s, "lost", r),
           NEW t \in handleRetirement(s, r, succeeded)
    PROVE  /\ t \in States /\ CtxPart(t) /\ CtlPart(t)
           /\ t.lch.pending \in {0, s.lch.pending}
           /\ \A q \in Requests :
                q # s.lch.pending => t.ctx[q].thread = s.ctx[q].thread
<1> DEFINE c == s.ctx[r]
           s1 == forget([s EXCEPT !.lch.inflight = @ \ {r}], r)
           quiet == c.fatalCleanupObserved \/ ~c.attached
           s2 == [s1 EXCEPT !.lch.fatal = @ \ {r}, !.lch.expectedStop = 0]
           lost == [s1 EXCEPT !.ctx[r].fatalCleanupObserved = TRUE,
                              !.lch.accepting = FALSE, !.lch.pending = 0,
                              !.lch.fatal = @ \cup {r}]
           unseen == [s2 EXCEPT !.lch.accepting = FALSE, !.lch.pending = 0]
           w == IF quiet THEN s2 ELSE workerExited(s2, r)
           l1 == [s.lch EXCEPT !.inflight = @ \ {r},
                               !.current = IF @ = r THEN 0 ELSE @]
           l2 == [l1 EXCEPT !.fatal = @ \ {r}, !.expectedStop = 0]
           d == [c EXCEPT !.fatalCleanupObserved = TRUE]
           l3 == [l1 EXCEPT !.accepting = FALSE, !.pending = 0, !.fatal = @ \cup {r}]
           l4 == [l2 EXCEPT !.accepting = FALSE, !.pending = 0]
<1>1. \/ /\ ~succeeded
         /\ t = publishFatalRetirement(lost, r, s.lch.accepting)
      \/ /\ succeeded /\ ~quiet
         /\ t = publishFatalRetirement(unseen, r, s.lch.accepting)
      \/ /\ succeeded
         /\ t \in launchPending(retirementCompleted(w, r))
    BY DEF handleRetirement
<1>2. /\ s.lch \in Launchers /\ s.lch.accepting \in BOOLEAN /\ c \in Contexts
      /\ s.ctl \in Controllers
    BY DEF States, Launchers
<1>3. /\ l1 \in Launchers /\ l1.inflight = s.lch.inflight \ {r}
      /\ l1.current = (IF s.lch.current = r THEN 0 ELSE s.lch.current)
      /\ l1.fatal = s.lch.fatal /\ l1.pending = s.lch.pending
      /\ l1.accepting = s.lch.accepting
    BY <1>2 DEF Launchers, Ids
<1>4. s1 = [s EXCEPT !.lch = l1]
    BY <1>2 DEF forget, States, Launchers
<1> HIDE DEF s1, l1
<1>5. /\ l2 \in Launchers /\ l2.inflight = l1.inflight /\ l2.current = l1.current
      /\ l2.fatal = s.lch.fatal \ {r} /\ l2.pending = s.lch.pending
      /\ l2.accepting = s.lch.accepting
    BY <1>3 DEF Launchers, Ids
<1>6. s1 \in States /\ s1.lch = l1 /\ s1.ctx = s.ctx /\ s1.ctl = s.ctl
      /\ s1.sess = s.sess /\ s1.queue = s.queue
    BY <1>3, <1>4 DEF States
<1>7. s2 = [s1 EXCEPT !.lch = l2]
    BY <1>6 DEF States
<1> HIDE DEF s2, l2
<1>8. s2 \in States /\ s2.lch = l2 /\ s2.ctx = s.ctx /\ s2.ctl = s.ctl
      /\ s2.sess = s.sess /\ s2.queue = s.queue
    BY <1>5, <1>6, <1>7 DEF States
<1>9. hasPendingActivity(s) /\ ~s.ctl.retired
  <2>1. hasPendingActivity(s)
      BY DEF Cared, hasPendingActivity
  <2> QED
      BY <2>1 DEF CtlPart
<1>10. CASE ~succeeded /\ t = publishFatalRetirement(lost, r, s.lch.accepting)
  <2>1. /\ l3 \in Launchers /\ l3.inflight = l1.inflight /\ l3.current = l1.current
        /\ l3.fatal = s.lch.fatal \cup {r} /\ l3.pending = 0 /\ ~l3.accepting
      BY <1>3 DEF Launchers, Ids
  <2>2. d \in Contexts
      BY <1>2 DEF Contexts
  <2>3. lost = [s1 EXCEPT !.lch = l3, !.ctx[r] = d]
      BY <1>6 DEF States
  <2> HIDE DEF lost, l3, d
  <2>4. /\ lost \in States /\ lost.lch = l3 /\ lost.ctl = s.ctl
        /\ lost.queue = s.queue /\ lost.ctx[r] = d
        /\ \A q \in Requests : q # r => lost.ctx[q] = s.ctx[q]
      BY <1>6, <2>1, <2>2, <2>3 DEF States
  <2>5. CtxPart(lost)
      BY <1>3, <2>1, <2>4, LaunchLost DEF d
  <2>6. \A q \in Requests : lost.ctx[q].thread = s.ctx[q].thread
      BY <1>2, <2>4 DEF d, Contexts
  <2>7. ~s.lch.accepting => Forgotten(lost, r)
      BY <1>9, <2>1, <2>4 DEF Forgotten, CtlPart
  <2> QED
      BY <1>2, <1>9, <1>10, <2>1, <2>4, <2>5, <2>6, <2>7, FatalPublished
<1>11. CASE /\ succeeded /\ ~quiet
            /\ t = publishFatalRetirement(unseen, r, s.lch.accepting)
  <2>1. /\ l4 \in Launchers /\ l4.inflight = l1.inflight /\ l4.current = l1.current
        /\ l4.fatal = s.lch.fatal \ {r} /\ l4.pending = 0 /\ ~l4.accepting
      BY <1>3, <1>5 DEF Launchers, Ids
  <2>2. unseen = [s2 EXCEPT !.lch = l4]
      BY <1>8 DEF States
  <2> HIDE DEF unseen, l4
  <2>3. /\ unseen \in States /\ unseen.lch = l4 /\ unseen.ctl = s.ctl
        /\ unseen.queue = s.queue /\ unseen.ctx = s.ctx
      BY <1>8, <2>1, <2>2 DEF States
  <2>4. CtxPart(unseen)
      BY <1>3, <1>11, <2>1, <2>3, LaunchForgotten
  <2>5. ~s.lch.accepting => Forgotten(unseen, r)
      BY <1>9, <2>1, <2>3 DEF Forgotten, CtlPart
  <2> QED
      BY <1>2, <1>9, <1>11, <2>1, <2>3, <2>4, <2>5, FatalPublished
<1>12. CASE succeeded /\ t \in launchPending(retirementCompleted(w, r))
  <2>1. CtxPart(s2)
      BY <1>3, <1>5, <1>8, <1>12, LaunchForgotten
  <2> DEFINE x == workerExited(s2, r)
  <2>2. x = fail(s2, r)
      BY DEF workerExited, fail
  <2>3. w = IF quiet THEN s2 ELSE x
      OBVIOUS
  <2> HIDE DEF w, x, quiet
  <2>4. /\ Stopped(s2, x) /\ x.lch = s2.lch
        /\ x.ctl = IF s2.ctl.current = r THEN Idle(s2.ctl) ELSE s2.ctl
      BY <1>8, <2>2, FailStops
  <2>5. Stopped(s2, s2)
      BY <1>8, StoppedSame
  <2>6. Stopped(s2, w) /\ w.lch = l2 /\ w \in States
      BY <1>8, <2>3, <2>4, <2>5 DEF Stopped, Undisturbed
  <2>7. \/ quiet /\ w.ctl = s.ctl
        \/ ~quiet /\ w.ctl = IF s.ctl.current = r THEN Idle(s.ctl) ELSE s.ctl
      BY <1>8, <2>3, <2>4
  <2>8. CtxPart(w)
      BY <1>8, <2>1, <2>6, StoppedLaunches
  <2>9. w.ctl.runtime # 0 => w.ctl.runtime # r
    <3>1. CASE quiet
      <4>1. c.fatalCleanupObserved => ~s.lch.accepting
          BY DEF CtxPart, LaunchesOK
      <4>2. ~c.attached => s.lch.current # r
          BY RequestsAssumption DEF CtxPart, LaunchesOK
      <4> QED
          BY <2>7, <3>1, <4>1, <4>2 DEF CtlPart, quiet
    <3>2. CASE ~quiet
        BY <1>2, <2>7, <3>2, IdleController DEF CtlPart
    <3> QED
        BY <3>1, <3>2
  <2>10. /\ w.ctl.runtime # 0 => w.ctl = s.ctl
         /\ w.ctl.pending # None => w.ctl = s.ctl
         /\ w.ctl.closing = s.ctl.closing /\ w.ctl.retired = s.ctl.retired
         /\ s.ctl.runtime = 0 => w.ctl.runtime = 0
         /\ s.ctl.pending = None => w.ctl.pending = None
      BY <1>2, <2>7, IdleController
  <2>11. w.sess.generation = s.sess.generation
      BY <1>8, <2>6 DEF Stopped, Undisturbed
  <2>12. Forgotten(w, r)
      BY <1>3, <1>5, <1>9, <2>6, <2>9, <2>10, <2>11 DEF Forgotten, CtlPart
  <2> DEFINE v == retirementCompleted(w, r)
  <2>13. /\ v \in States /\ CtxPart(v) /\ CtlPart(v) /\ v.lch = l2
         /\ \A q \in Requests : v.ctx[q].thread = w.ctx[q].thread
      BY <2>6, <2>8, <2>12, CompletionHeard, CompletionControl
  <2>14. \A q \in Requests : v.ctx[q].thread = s.ctx[q].thread
      BY <1>8, <2>6, <2>13 DEF Stopped, Undisturbed, SameLaunch
  <2> HIDE DEF v
  <2>15. t \in launchPending(v)
      BY <1>12 DEF v, w, x, quiet
  <2> QED
      BY <1>5, <2>13, <2>14, <2>15, PendingLaunched
<1> QED
    BY <1>1, <1>10, <1>11, <1>12

-----------------------------------------------------------------------------
\* An admitted Worker is attached.

\* An attach that is undone.
LEMMA RolledBack ==
    ASSUME NEW s \in States, NEW p \in Targets
    PROVE  Stopped(s, rollback(s, p)) /\ rollback(s, p).ctl = s.ctl
<1> DEFINE a == IF s.sess.generation = p.gen THEN shutdown(s) ELSE s
<1>1. rollback(s, p) = kill(a, p.req)
    BY DEF rollback
<1>2. Stopped(s, a) /\ a.ctl = s.ctl /\ a \in States
    BY Shut, StoppedSame DEF Stopped, Undisturbed
<1> HIDE DEF a
<1>3. p.req \in Ids
    BY DEF Targets
<1>4. Stopped(a, kill(a, p.req)) /\ kill(a, p.req).ctl = a.ctl
    BY <1>2, <1>3, Killed
<1> QED
    BY <1>1, <1>2, <1>4, StoppedTwice

\* completeAttach: the Worker is served, or nothing is.
LEMMA AttachCompleted ==
    ASSUME NEW s \in States, s.ctl.runtime = 0, s.ctl.pending = None,
           NEW p \in Targets, NEW o \in completeAttach(s, p)
    PROVE  /\ Undisturbed(s, o.s) /\ o.s.ctl.pending = None
           /\ o.s.ctl.closing = s.ctl.closing /\ o.s.ctl.retired = s.ctl.retired
           /\ ~o.ok => o.s.ctl.runtime = 0
           /\ o.ok => /\ o.s.ctl.runtime = p.req /\ o.s.ctl.current = p.req
                      /\ o.s.ctl.generation = o.s.sess.generation
<1> DEFINE a == [s EXCEPT !.ctl.runtime = p.req, !.ctl.current = p.req,
                          !.ctl.generation = p.gen]
           c == [s.ctl EXCEPT !.runtime = p.req, !.current = p.req,
                              !.generation = p.gen]
           d == [c EXCEPT !.target = None]
           b == [a EXCEPT !.ctl.target = None]
<1>1. \/ o = [s |-> rollback(s, p), ok |-> FALSE]
      \/ o = [s |-> ctlStopCurrent(a), ok |-> FALSE]
      \/ o = [s |-> b, ok |-> TRUE] /\ s.sess.generation = p.gen
    BY DEF completeAttach
<1>2. s.ctl \in Controllers /\ p.req \in Ids /\ p.gen \in Nat
    BY DEF States, Targets
<1>3. /\ c \in Controllers /\ d \in Controllers
      /\ c.closing = s.ctl.closing /\ c.retired = s.ctl.retired
      /\ d.closing = s.ctl.closing /\ d.retired = s.ctl.retired
      /\ d.pending = None /\ d.runtime = p.req /\ d.current = p.req
      /\ d.generation = p.gen
    BY <1>2, NoTarget DEF Controllers
<1>4. a = [s EXCEPT !.ctl = c] /\ b = [s EXCEPT !.ctl = d]
    BY DEF States
<1> HIDE DEF a, b, c, d
<1>5. /\ a \in States /\ a.ctl = c /\ Undisturbed(s, a)
      /\ b \in States /\ b.ctl = d /\ Undisturbed(s, b) /\ b.sess = s.sess
  <2>1. /\ a \in States /\ a.ctl = c /\ a.ctx = s.ctx /\ a.lch = s.lch
        /\ a.queue = s.queue
        /\ b \in States /\ b.ctl = d /\ b.ctx = s.ctx /\ b.lch = s.lch
        /\ b.queue = s.queue /\ b.sess = s.sess
      BY <1>3, <1>4, SetControl
  <2> QED
      BY <2>1 DEF Undisturbed, SameLaunch, SameLauncher
<1>6. CASE o = [s |-> rollback(s, p), ok |-> FALSE]
    BY <1>6, RolledBack DEF Stopped
<1>7. CASE o = [s |-> ctlStopCurrent(a), ok |-> FALSE]
  <2>1. Stopped(a, o.s) /\ o.s.ctl = Idle(c)
      BY <1>5, <1>7, CurrentStopped
  <2>2. Undisturbed(s, o.s)
      BY <1>5, <2>1, UndisturbedTwice DEF Stopped
  <2> QED
      BY <1>3, <1>7, <2>1, <2>2, IdleController
<1>8. CASE o = [s |-> b, ok |-> TRUE] /\ s.sess.generation = p.gen
    BY <1>3, <1>5, <1>8
<1> QED
    BY <1>1, <1>6, <1>7, <1>8

\* A new session: its Worker is not served yet.
LEMMA Attached ==
    ASSUME NEW s \in States
    PROVE  /\ attach(s) \in States /\ Undisturbed(s, attach(s))
           /\ attach(s).ctl = s.ctl
<1> DEFINE x == [state |-> "Running", generation |-> s.sess.generation + 1,
                 io |-> TRUE]
<1>1. s.sess.generation + 1 \in Nat
    BY DEF States, Sessions
<1>2. x \in Sessions
    BY <1>1 DEF Sessions
<1>3. attach(s) = [s EXCEPT !.sess = x]
    BY DEF attach
<1> HIDE DEF x
<1> QED
    BY <1>2, <1>3 DEF States, Undisturbed, SameLaunch, SameLauncher

\* The attach follows the navigation.
LEMMA Retargeted ==
    ASSUME NEW s \in States, NEW p \in Targets
    PROVE  retargeted(s, p) \in Targets /\ retargeted(s, p).req = p.req
BY DEF retargeted, States, Controllers, Targets

\* The controller takes the Worker, keeps it waiting, or refuses it.
LEMMA AttachRealized ==
    ASSUME NEW s \in States, s.ctl.runtime = 0, s.ctl.pending = None,
           NEW r \in Requests, NEW o \in realizeAttach(s, r)
    PROVE  /\ Undisturbed(s, o.s)
           /\ o.s.ctl.closing = s.ctl.closing /\ o.s.ctl.retired = s.ctl.retired
           /\ ~o.ok => o.s.ctl.runtime = 0 /\ o.s.ctl.pending = None
           /\ o.s.ctl.runtime # 0 => /\ o.s.ctl.runtime = r /\ o.s.ctl.current = r
                                     /\ o.s.ctl.generation = o.s.sess.generation
                                     /\ o.s.ctl.pending = None
           /\ o.s.ctl.pending # None => o.s.ctl.pending.req = r
<1> DEFINE p(cap) == [req |-> r, nav |-> s.ctl.target.nav,
                      gen |-> s.sess.generation + 1, cap |-> cap]
           w(cap) == [s EXCEPT !.ctl.pending = p(cap)]
<1>1. \/ o = [s |-> s, ok |-> FALSE]
      \/ o = [s |-> kill(s, r), ok |-> FALSE]
      \/ \E cap \in {"init", "ready"} : o = [s |-> shutdown(w(cap)), ok |-> TRUE]
      \/ o \in completeAttach(attach(s), retargeted(s, p("ready")))
  <2>1. CASE attachRefused(s, r)
      BY <2>1 DEF realizeAttach
  <2>2. CASE ~attachRefused(s, r)
    <3>1. PICK cap \in {"init", "ready", "failed"} :
            o \in CASE cap = "failed" -> {[s |-> kill(s, r), ok |-> FALSE]}
                    [] cap # "failed" /\ (cap = "init" \/ ~canAttachImmediately(s)) ->
                         IF s.ctl.pending # None THEN {[s |-> s, ok |-> FALSE]}
                           ELSE {[s |-> shutdown(w(cap)), ok |-> TRUE]}
                    [] OTHER -> completeAttach(attach(s), retargeted(s, p(cap)))
        BY <2>2 DEF realizeAttach
    <3> QED
        BY <3>1
  <2> QED
      BY <2>1, <2>2
<1>2. \A cap \in {"init", "ready"} : p(cap) \in Targets /\ p(cap).req = r
  <2>1. s.ctl.target.nav \in Nat /\ s.sess.generation + 1 \in Nat
      BY DEF States, Controllers, Targets, Sessions
  <2> QED
      BY <2>1 DEF Targets, Ids
<1>3. CASE o = [s |-> s, ok |-> FALSE]
    BY <1>3, UndisturbedSame
<1>4. CASE o = [s |-> kill(s, r), ok |-> FALSE]
    BY <1>4, Killed DEF Stopped, Ids
<1>5. ASSUME NEW cap \in {"init", "ready"}, o = [s |-> shutdown(w(cap)), ok |-> TRUE]
      PROVE  /\ Undisturbed(s, o.s) /\ o.s.ctl.runtime = 0
             /\ o.s.ctl.closing = s.ctl.closing /\ o.s.ctl.retired = s.ctl.retired
             /\ o.s.ctl.pending.req = r /\ o.ok
  <2> DEFINE a == w(cap)
             q == p(cap)
             c == [s.ctl EXCEPT !.pending = q]
  <2>1. q \in Targets /\ q.req = r
      BY <1>2
  <2>2. a = [s EXCEPT !.ctl = c]
      OBVIOUS
  <2> HIDE DEF a, p, q, w
  <2>3. /\ c \in Controllers /\ c.pending = q /\ c.runtime = 0
        /\ c.closing = s.ctl.closing /\ c.retired = s.ctl.retired
      BY <2>1 DEF States, Controllers
  <2> HIDE DEF c
  <2>4. /\ a \in States /\ a.ctl = c /\ a.ctx = s.ctx /\ a.lch = s.lch
        /\ a.queue = s.queue
      BY <2>2, <2>3, SetControl
  <2>5. Undisturbed(s, a)
      BY <2>4 DEF Undisturbed, SameLaunch, SameLauncher
  <2>6. Stopped(a, shutdown(a)) /\ shutdown(a).ctl = c
      BY <2>4, Shut
  <2>7. o.s = shutdown(a) /\ o.ok
      BY <1>5 DEF a
  <2> QED
      BY <2>1, <2>3, <2>5, <2>6, <2>7, UndisturbedTwice DEF Stopped
<1>6. CASE o \in completeAttach(attach(s), retargeted(s, p("ready")))
  <2> DEFINE q == retargeted(s, p("ready"))
             a == attach(s)
  <2>1. q \in Targets /\ q.req = r
      BY <1>2, Retargeted
  <2>2. a \in States /\ Undisturbed(s, a) /\ a.ctl = s.ctl
      BY Attached
  <2> HIDE DEF q, a
  <2>3. o \in completeAttach(a, q)
      BY <1>6 DEF q, a
  <2>4. /\ Undisturbed(a, o.s) /\ o.s.ctl.pending = None
        /\ o.s.ctl.closing = a.ctl.closing /\ o.s.ctl.retired = a.ctl.retired
        /\ ~o.ok => o.s.ctl.runtime = 0
        /\ o.ok => /\ o.s.ctl.runtime = r /\ o.s.ctl.current = r
                   /\ o.s.ctl.generation = o.s.sess.generation
      BY <2>1, <2>2, <2>3, AttachCompleted
  <2> QED
      BY <2>2, <2>4, UndisturbedTwice
<1> QED
    BY <1>1, <1>3, <1>4, <1>5, <1>6, NoTarget

\* The launcher serves the Worker that was attached.
LEMMA LaunchAttached ==
    ASSUME NEW s \in States, CtxPart(s), NEW r \in Requests, r \in s.lch.inflight,
           s.ctx[r].adm = "resolved",
           NEW l \in Launchers, l.inflight = s.lch.inflight \ {r},
           l.current = r, l.fatal = s.lch.fatal, l.pending = s.lch.pending,
           l.accepting = s.lch.accepting,
           NEW d \in Contexts, d.sb = s.ctx[r].sb, d.thread = s.ctx[r].thread,
           d.submitted = s.ctx[r].submitted, d.canceled = s.ctx[r].canceled,
           d.observer = s.ctx[r].observer, d.attached,
           d.session = s.ctx[r].session, d.adm = s.ctx[r].adm,
           d.guard = s.ctx[r].guard, d.temp = s.ctx[r].temp,
           d.mgr = s.ctx[r].mgr,
           d.fatalCleanupObserved = s.ctx[r].fatalCleanupObserved,
           NEW t \in States, t.queue = s.queue, t.lch = l, t.ctx[r] = d,
           \A q \in Requests : q # r => t.ctx[q] = s.ctx[q]
    PROVE  /\ CtxPart(t)
           /\ t.lch.current = r /\ t.lch.accepting = s.lch.accepting
           /\ t.lch.pending = s.lch.pending
           /\ \A q \in Requests : t.ctx[q].thread = s.ctx[q].thread
<1>1. /\ s.lch \in Launchers /\ s.queue \in Seq(Events) /\ r \in Requests
      /\ r # 0 /\ s.ctx[r] \in Contexts
    BY RequestsAssumption DEF States, Launchers
<1>2. LaunchesOK(s)
    BY DEF CtxPart
<1>3. s.lch.current = 0 /\ s.lch.inflight = {r} /\ l.inflight = {}
    BY <1>2 DEF LaunchesOK
<1>4. \A q \in Requests : Cared(t.lch, q) <=> Cared(s.lch, q)
    BY <1>1, <1>3 DEF Cared
<1>5. \A q \in Requests : /\ t.ctx[q].thread = s.ctx[q].thread
                          /\ t.ctx[q].mgr = s.ctx[q].mgr
                          /\ t.ctx[q].adm = s.ctx[q].adm
                          /\ t.ctx[q].canceled = s.ctx[q].canceled
                          /\ t.ctx[q].fatalCleanupObserved
                               = s.ctx[q].fatalCleanupObserved
    OBVIOUS
<1>6. \A q \in Requests : Occupied(t.ctx[q]) <=> Occupied(s.ctx[q])
    BY <1>5 DEF Occupied
<1>7. LaunchesOK(t)
  <2>1. t.lch.current # 0 => t.lch.inflight = {} /\ t.ctx[t.lch.current].attached
      BY <1>3
  <2>2. t.lch.pending # 0 => t.ctx[t.lch.pending].thread = "none"
    <3>1. s.lch.pending \in Ids
        BY <1>1 DEF Launchers
    <3> QED
        BY <1>2, <1>5, <3>1 DEF LaunchesOK, Ids
  <2>3. \A q \in t.lch.fatal : t.ctx[q].mgr # "none"
      BY <1>1, <1>2, <1>5 DEF LaunchesOK, Launchers
  <2>4. \A q \in Requests : Cared(t.lch, q) => t.ctx[q].thread # "none"
      BY <1>2, <1>4, <1>5 DEF LaunchesOK
  <2>5. \A q \in Requests : Occupied(t.ctx[q]) => Cared(t.lch, q)
      BY <1>2, <1>4, <1>6 DEF LaunchesOK
  <2>6. \A q, x \in Requests :
          Occupied(t.ctx[q]) /\ Occupied(t.ctx[x]) => q = x
      BY <1>2, <1>6 DEF LaunchesOK
  <2>7. t.lch.accepting => /\ t.lch.fatal = {}
                           /\ \A q \in Requests : ~t.ctx[q].fatalCleanupObserved
      BY <1>2, <1>5 DEF LaunchesOK
  <2>8. \A q, x \in t.lch.inflight : q = x
      BY <1>3
  <2> QED
      BY <2>1, <2>2, <2>3, <2>4, <2>5, <2>6, <2>7, <2>8 DEF LaunchesOK
<1>8. ContextOK(s.ctx[r])
    BY <1>1 DEF CtxPart
<1>9. s.ctx[r].adm = "resolved" /\ r \in Requests
    OBVIOUS
<1>10. s.ctx[r].thread # "none" /\ ~Launching(s.ctx[r])
    BY ONLY <1>8, <1>9 DEF ContextOK
<1>11. ContextOK(d)
    BY <1>8, <1>10 DEF ContextOK, Launching, Clean
<1>12. \A q \in Requests : q # r /\ MayAttach(s, q) => MayAttach(t, q)
    BY <1>5 DEF MayAttach
<1>13. AdmissionsOK(s)
    BY DEF CtxPart
<1>14. AdmissionsOK(t)
  <2>1. \A q \in Requests : Launching(t.ctx[q]) <=> Launching(s.ctx[q])
      BY <1>5 DEF Launching
  <2> QED
      BY ONLY <1>5, <1>9, <1>10, <1>12, <1>13, <2>1 DEF AdmissionsOK
<1>15. \A e \in Events : EventOK(s, e) => EventOK(t, e)
    BY ONLY <1>4, <1>5, <1>9, <1>12 DEF EventOK
<1>16. QueueOK(t)
    BY <1>1, <1>15 DEF QueueOK, CtxPart
<1>17. \A q \in Requests : ContextOK(t.ctx[q])
    BY <1>11 DEF CtxPart
<1>18. CtxPart(t)
    BY <1>7, <1>14, <1>16, <1>17 DEF CtxPart
<1> QED
    BY <1>5, <1>18

\* The attach that waited is completed, given up, or waits on.
LEMMA PendingCompleted ==
    ASSUME NEW s \in States, CtxPart(s), CtlPart(s),
           NEW t \in completePendingAttach(s)
    PROVE  /\ t \in States /\ CtxPart(t) /\ CtlPart(t)
           /\ t.lch.pending \in {0, s.lch.pending}
           /\ \A q \in Requests : t.ctx[q].thread = s.ctx[q].thread
<1> DEFINE p == s.ctl.pending
           c == [s.ctl EXCEPT !.pending = None]
           s1 == [s EXCEPT !.ctl.pending = None]
           a == attach(s1)
           failed(o) == IF o.s.ctl.current = p.req /\ o.s.ctl.pending = None
                          THEN ctlStopCurrent(o.s) ELSE o.s
           k == kill(a, p.req)
           x == retargeted(s, p)
<1>1. CASE t = s
    BY <1>1
<1>2. s.ctl \in Controllers /\ p \in Targets
    BY DEF States, Controllers
<1>3. CASE p # None /\ t # s
  <2>1. \/ t = clearPendingAttach(s)
        \/ t = ctlCancelLaunch(clearPendingAttach(s), p.req)
        \/ t = failed([s |-> k])
        \/ \E o \in completeAttach(a, x) : t = IF o.ok THEN o.s ELSE failed(o)
      BY <1>3 DEF completePendingAttach
  <2>2. /\ s.ctl.runtime = 0 /\ p.req \in Requests /\ p.req = s.lch.current
        /\ s.lch.accepting /\ ~s.ctl.closing /\ ~s.ctl.retired
      BY <1>2, <1>3 DEF CtlPart, Targets, Ids
  <2>3. Stopped(s, clearPendingAttach(s))
      BY PendingCleared
  <2>4. /\ clearPendingAttach(s) \in States /\ CtxPart(clearPendingAttach(s))
        /\ CtlPart(clearPendingAttach(s))
        /\ clearPendingAttach(s).lch.pending = s.lch.pending
        /\ \A q \in Requests :
             clearPendingAttach(s).ctx[q].thread = s.ctx[q].thread
      BY <2>3, StoppedLaunches, StoppedControl
         DEF Stopped, Undisturbed, SameLauncher, SameLaunch
  <2>5. CASE t = clearPendingAttach(s)
      BY <2>4, <2>5
  <2>6. CASE t = ctlCancelLaunch(clearPendingAttach(s), p.req)
      BY <2>2, <2>4, <2>6, ControllerCanceled
  <2>7. /\ c \in Controllers /\ c.runtime = 0 /\ c.pending = None
        /\ ~c.closing /\ ~c.retired
      BY <1>2, <2>2, NoTarget DEF Controllers
  <2>8. s1 = [s EXCEPT !.ctl = c]
      OBVIOUS
  <2>9. x \in Targets /\ x.req = p.req
      BY <1>2, Retargeted
  <2> HIDE DEF c, s1, x
  <2>10. s1 \in States /\ s1.ctl = c /\ Undisturbed(s, s1)
    <3>1. /\ s1 \in States /\ s1.ctl = c /\ s1.ctx = s.ctx /\ s1.lch = s.lch
          /\ s1.queue = s.queue
        BY <2>7, <2>8, SetControl
    <3> QED
        BY <3>1 DEF Undisturbed, SameLaunch, SameLauncher
  <2>11. a \in States /\ a.ctl = c /\ Undisturbed(s, a)
      BY <2>10, Attached, UndisturbedTwice
  <2> HIDE DEF a
  <2>12. ASSUME NEW u, Undisturbed(s, u), ~u.ctl.closing, ~u.ctl.retired,
                u.ctl.pending = None,
                u.ctl.runtime # 0 => /\ u.ctl.runtime = p.req
                                     /\ u.ctl.current = p.req
                                     /\ u.ctl.generation = u.sess.generation,
                t = u
         PROVE  /\ t \in States /\ CtxPart(t) /\ CtlPart(t)
                /\ t.lch.pending = s.lch.pending
                /\ \A q \in Requests : t.ctx[q].thread = s.ctx[q].thread
    <3>1. t \in States /\ CtxPart(t) /\ SameLauncher(s.lch, t.lch)
          /\ \A q \in Requests : SameLaunch(s.ctx[q], t.ctx[q])
        BY <2>12, UndisturbedLaunches DEF Undisturbed
    <3>2. CtlPart(t)
        BY <2>2, <2>12, <3>1 DEF CtlPart, SameLauncher
    <3> QED
        BY <3>1, <3>2 DEF SameLauncher, SameLaunch
  <2>13. ASSUME NEW u, Undisturbed(s, u), ~u.ctl.closing, ~u.ctl.retired,
                u.ctl.pending = None, u.ctl.runtime = 0, t = failed([s |-> u])
         PROVE  /\ t \in States /\ CtxPart(t) /\ CtlPart(t)
                /\ t.lch.pending = s.lch.pending
                /\ \A q \in Requests : t.ctx[q].thread = s.ctx[q].thread
    <3>1. u \in States /\ u.ctl \in Controllers
        BY <2>13 DEF Undisturbed, States
    <3>2. Stopped(u, ctlStopCurrent(u)) /\ ctlStopCurrent(u).ctl = Idle(u.ctl)
        BY <3>1, CurrentStopped
    <3>3. Undisturbed(s, ctlStopCurrent(u))
        BY <2>13, <3>2, UndisturbedTwice DEF Stopped
    <3>4. t = u \/ t = ctlStopCurrent(u)
        BY <2>13
    <3>5. CASE t = u
        BY <2>12, <2>13, <3>5
    <3>6. CASE t = ctlStopCurrent(u)
        BY <2>12, <2>13, <3>1, <3>2, <3>3, <3>6, IdleController
    <3> QED
        BY <3>4, <3>5, <3>6
  <2>14. CASE t = failed([s |-> k])
    <3>1. Stopped(a, k) /\ k.ctl = a.ctl
        BY <2>2, <2>11, Killed DEF Ids
    <3> HIDE DEF k
    <3>2. Undisturbed(s, k)
        BY <2>11, <3>1, UndisturbedTwice DEF Stopped
    <3> HIDE DEF failed
    <3> QED
        BY <2>7, <2>11, <2>13, <2>14, <3>1, <3>2
  <2>15. ASSUME NEW o \in completeAttach(a, x),
                t = IF o.ok THEN o.s ELSE failed(o)
         PROVE  /\ t \in States /\ CtxPart(t) /\ CtlPart(t)
                /\ t.lch.pending = s.lch.pending
                /\ \A q \in Requests : t.ctx[q].thread = s.ctx[q].thread
    <3>1. /\ Undisturbed(a, o.s) /\ o.s.ctl.pending = None
          /\ ~o.s.ctl.closing /\ ~o.s.ctl.retired
          /\ ~o.ok => o.s.ctl.runtime = 0
          /\ o.ok => /\ o.s.ctl.runtime = p.req /\ o.s.ctl.current = p.req
                     /\ o.s.ctl.generation = o.s.sess.generation
        BY <2>7, <2>9, <2>11, AttachCompleted
    <3>2. Undisturbed(s, o.s)
        BY <2>11, <3>1, UndisturbedTwice
    <3>3. failed(o) = failed([s |-> o.s])
        OBVIOUS
    <3> HIDE DEF failed
    <3>4. CASE o.ok
        BY <2>12, <2>15, <3>1, <3>2, <3>4
    <3>5. CASE ~o.ok
        BY <2>13, <2>15, <3>1, <3>2, <3>3, <3>5
    <3> QED
        BY <3>4, <3>5
  <2> QED
      BY <2>1, <2>5, <2>6, <2>14, <2>15
<1> QED
    BY <1>1, <1>3 DEF completePendingAttach

-----------------------------------------------------------------------------
\* A launch whose admission is settled.

\* A launch whose admission was resolved.
LEMMA SettledContext ==
    ASSUME NEW s \in States, CtxPart(s), NEW r \in Requests,
           s.ctx[r].adm # "none",
           NEW d \in Contexts, d.adm = "resolved",
           d.sb = s.ctx[r].sb, d.thread = s.ctx[r].thread,
           d.submitted = s.ctx[r].submitted, d.attached = s.ctx[r].attached,
           d.canceled = s.ctx[r].canceled, d.mgr = s.ctx[r].mgr,
           d.fatalCleanupObserved = s.ctx[r].fatalCleanupObserved,
           d.guard = s.ctx[r].guard, d.temp = s.ctx[r].temp,
           d.session => s.ctx[r].session,
           NEW t \in States,
           t.ctl = s.ctl, t.lch = s.lch, t.sess = s.sess, t.queue = s.queue,
           t.ctx[r] = d, \A q \in Requests : q # r => t.ctx[q] = s.ctx[q]
    PROVE  /\ CtxPart(t) /\ (CtlPart(s) => CtlPart(t))
           /\ \A q \in Requests : t.ctx[q].thread = s.ctx[q].thread
<1>2. ContextOK(s.ctx[r]) /\ s.ctx[r] \in Contexts
    BY DEF CtxPart, States
<1>3. s.ctx[r].thread # "none" /\ ~Launching(s.ctx[r])
    BY <1>2 DEF ContextOK
<1>4. s.ctx[r].thread = "finished" /\ ~Launching(d)
    BY <1>3 DEF Launching
<1>5. ContextOK(d)
    BY <1>2, <1>4 DEF ContextOK, Clean
<1>6. ~Queued(s, "admit", r)
    BY DEF Queued, CtxPart, QueueOK, EventOK
<1>7. Moved(s, t, r)
    BY <1>4, <1>5, <1>6 DEF Moved, Carried
<1>8. CtxPart(t)
    BY <1>7, MovedLaunches DEF SameLauncher
<1>9. CtlPart(s) => CtlPart(t)
    BY DEF CtlPart, hasPendingActivity
<1> QED
    BY <1>8, <1>9

\* Nobody admits it a second time.
LEMMA SettledIsAbandoned ==
    ASSUME NEW s \in States, CtxPart(s), NEW r \in Requests,
           s.ctx[r].adm = "resolved"
    PROVE  Abandoned(s, r) /\ s.ctx[r].thread = "finished"
<1>1. ContextOK(s.ctx[r])
    BY DEF CtxPart
<1>2. ~Launching(s.ctx[r]) /\ s.ctx[r].thread # "none"
    BY <1>1 DEF ContextOK
<1>3. ~Queued(s, "admit", r)
    BY DEF Queued, CtxPart, QueueOK, EventOK
<1> QED
    BY <1>2, <1>3 DEF Abandoned, Launching

\* It may be retired at any moment.
LEMMA SettledRetired ==
    ASSUME NEW s \in States, CtxPart(s), CtlPart(s), NEW r \in Requests,
           s.ctx[r].adm = "resolved",
           NEW t \in {retireAsync(s, r), fail(retireAsync(s, r), r)}
    PROVE  /\ t \in States /\ CtxPart(t) /\ CtlPart(t)
           /\ t.lch.pending = s.lch.pending
           /\ \A q \in Requests : t.ctx[q].thread = s.ctx[q].thread
<1> DEFINE a == retireAsync(s, r)
<1>1. /\ a \in States /\ CtxPart(a) /\ a.ctl = s.ctl /\ a.lch = s.lch
      /\ a.sess = s.sess /\ \A q \in Requests : a.ctx[q].thread = s.ctx[q].thread
    BY SettledIsAbandoned, OneRetired
<1>2. t = a \/ t = fail(a, r)
    OBVIOUS
<1> HIDE DEF a
<1>3. CtlPart(a)
    BY <1>1 DEF CtlPart, hasPendingActivity
<1>4. Stopped(a, fail(a, r)) /\ Stopped(a, a)
    BY <1>1, FailStops, StoppedSame
<1>5. Stopped(a, t)
    BY <1>2, <1>4
<1>6. CtxPart(t) /\ CtlPart(t)
    BY <1>1, <1>3, <1>5, StoppedLaunches, StoppedControl
<1>7. t \in States /\ SameLauncher(a.lch, t.lch)
      /\ \A q \in Requests : SameLaunch(a.ctx[q], t.ctx[q])
    BY <1>5 DEF Stopped, Undisturbed
<1> QED
    BY <1>1, <1>6, <1>7 DEF SameLauncher, SameLaunch

\* completeLaunch, whatever the answer.
LEMMA LaunchCompleted ==
    ASSUME NEW s \in States, CtxPart(s), CtlPart(s), NEW r \in Requests,
           s.ctx[r].adm # "none", NEW answer,
           NEW t \in completeLaunch(s, r, answer)
    PROVE  /\ t \in States /\ CtxPart(t) /\ CtlPart(t)
           /\ t.lch.pending = s.lch.pending
           /\ \A q \in Requests : t.ctx[q].thread = s.ctx[q].thread
<1> DEFINE c == s.ctx[r]
           d1 == [c EXCEPT !.adm = "resolved"]
           d2 == [d1 EXCEPT !.observer = "watching", !.session = FALSE]
           d3 == [d1 EXCEPT !.observationFailed = TRUE]
           d4 == [d3 EXCEPT !.observer = "none"]
           s1 == [s EXCEPT !.ctx[r].adm = "resolved"]
           s2 == [s1 EXCEPT !.ctx[r].observer = "watching", !.ctx[r].session = FALSE]
           s3 == [s1 EXCEPT !.ctx[r].observationFailed = TRUE]
           s4 == [s1 EXCEPT !.ctx[r].observationFailed = TRUE,
                            !.ctx[r].observer = "none"]
           s5 == requestTerminateNoWait(s4, r)
           refuse(x) == fail(retireAsync(x, r), r)
           served(x) == [x EXCEPT !.ctx[r].attached = TRUE,
                                  !.lch.inflight = @ \ {r}, !.lch.current = r,
                                  !.lch.expectedStop = 0]
           Fine(x) == /\ x \in States /\ CtxPart(x) /\ CtlPart(x)
                      /\ x.lch.pending = s.lch.pending
                      /\ \A q \in Requests : x.ctx[q].thread = s.ctx[q].thread
<1>1. \/ t = s
      \/ t = retireAsync(s1, r)
      \/ t = refuse(s1) \/ t = refuse(s3) \/ t = refuse(s5) \/ t = refuse(s2)
      \/ /\ c.adm # "resolved" /\ ~c.canceled /\ s.lch.accepting
         /\ \E o \in realizeAttach(s2, r) :
               t = IF ~o.ok THEN refuse(o.s) ELSE served(o.s)
  <2> HIDE DEF s1, s2, s3, s4, s5
  <2>1. \/ t = s
        \/ t = retireAsync(s1, r)
        \/ t = refuse(s1)
        \/ t = refuse([s1 EXCEPT !.ctx[r].observationFailed = TRUE])
        \/ t = refuse(requestTerminateNoWait(
                 [s1 EXCEPT !.ctx[r].observationFailed = TRUE,
                            !.ctx[r].observer = "none"], r))
        \/ t = refuse(s2)
        \/ /\ c.adm # "resolved" /\ ~c.canceled /\ s.lch.accepting
           /\ \E o \in realizeAttach(s2, r) :
                 t = IF ~o.ok THEN refuse(o.s) ELSE served(o.s)
      BY DEF completeLaunch, s1, s2
  <2> QED
      BY <2>1 DEF s3, s4, s5
<1>2. c \in Contexts
    BY DEF States
<1>3. /\ d1 \in Contexts /\ d2 \in Contexts /\ d3 \in Contexts /\ d4 \in Contexts
      /\ \A d \in {d1, d2, d3, d4} :
           /\ d.adm = "resolved" /\ d.sb = c.sb /\ d.thread = c.thread
           /\ d.submitted = c.submitted /\ d.attached = c.attached
           /\ d.canceled = c.canceled /\ d.mgr = c.mgr
           /\ d.fatalCleanupObserved = c.fatalCleanupObserved
           /\ d.guard = c.guard /\ d.temp = c.temp
           /\ d.session => c.session
    BY <1>2 DEF Contexts
<1>4. s1 = [s EXCEPT !.ctx[r] = d1]
    OBVIOUS
<1>5. s2 = [s EXCEPT !.ctx[r] = d2]
    BY DEF States
<1>6. s3 = [s EXCEPT !.ctx[r] = d3]
    BY DEF States
<1>7. s4 = [s EXCEPT !.ctx[r] = d4]
    BY DEF States
<1> HIDE DEF c, d1, d2, d3, d4, s1, s2, s3, s4
<1>8. ASSUME NEW d \in {d1, d2, d3, d4}, NEW x, x = [s EXCEPT !.ctx[r] = d]
      PROVE  /\ Fine(x) /\ x.ctx[r] = d /\ x.ctx[r].adm = "resolved"
             /\ x.ctl = s.ctl /\ x.lch = s.lch
  <2>1. /\ d \in Contexts /\ d.adm = "resolved" /\ d.sb = c.sb /\ d.thread = c.thread
        /\ d.submitted = c.submitted /\ d.attached = c.attached
        /\ d.canceled = c.canceled /\ d.mgr = c.mgr
        /\ d.fatalCleanupObserved = c.fatalCleanupObserved
        /\ d.guard = c.guard /\ d.temp = c.temp
        /\ d.session => c.session
      BY <1>3, <1>8
  <2>2. /\ x \in States
        /\ x.ctl = s.ctl /\ x.lch = s.lch /\ x.sess = s.sess
        /\ x.queue = s.queue
        /\ x.ctx[r] = d /\ \A q \in Requests : q # r => x.ctx[q] = s.ctx[q]
      BY <1>8, <2>1 DEF States
  <2>3. /\ CtxPart(x) /\ (CtlPart(s) => CtlPart(x))
        /\ \A q \in Requests : x.ctx[q].thread = s.ctx[q].thread
      BY <2>1, <2>2, SettledContext DEF c
  <2> QED
      BY <2>1, <2>2, <2>3
<1>9. Fine(s1) /\ Fine(s2) /\ Fine(s3) /\ Fine(s4)
      /\ s1.ctx[r].adm = "resolved" /\ s2.ctx[r].adm = "resolved"
      /\ s3.ctx[r].adm = "resolved" /\ s4.ctx[r].adm = "resolved"
      /\ s2.ctx[r] = d2 /\ s2.lch = s.lch /\ s2.ctl = s.ctl
    BY <1>4, <1>5, <1>6, <1>7, <1>8
<1>10. ASSUME NEW x, Fine(x), x.ctx[r].adm = "resolved",
              NEW y \in {retireAsync(x, r), fail(retireAsync(x, r), r)}
       PROVE  Fine(y)
    BY <1>10, SettledRetired
<1>11. Fine(s5) /\ s5.ctx[r].adm = "resolved"
  <2>1. Stopped(s4, s5)
      BY <1>9, TerminationRequested
  <2>2. CtxPart(s5) /\ CtlPart(s5)
      BY <1>9, <2>1, StoppedLaunches, StoppedControl
  <2>3. s5 \in States /\ SameLauncher(s4.lch, s5.lch)
        /\ \A q \in Requests : SameLaunch(s4.ctx[q], s5.ctx[q])
      BY <2>1 DEF Stopped, Undisturbed
  <2> QED
      BY <1>9, <2>2, <2>3 DEF SameLauncher, SameLaunch
<1> HIDE DEF s5
<1>12. CASE t = s
    BY <1>12
<1>13. CASE \/ t = retireAsync(s1, r) \/ t = refuse(s1) \/ t = refuse(s3)
            \/ t = refuse(s5) \/ t = refuse(s2)
  <2> HIDE DEF Fine
  <2> QED
      BY <1>9, <1>10, <1>11, <1>13 DEF Fine
<1>14. CASE /\ c.adm # "resolved" /\ ~c.canceled /\ s.lch.accepting
            /\ \E o \in realizeAttach(s2, r) :
                  t = IF ~o.ok THEN refuse(o.s) ELSE served(o.s)
  <2>1. PICK o \in realizeAttach(s2, r) :
          t = IF ~o.ok THEN refuse(o.s) ELSE served(o.s)
      BY <1>14
  <2>2. r \in s.lch.inflight
    <3>1. c.adm \in {"waiting", "answered"}
        BY <1>2, <1>14 DEF Contexts, c
    <3> QED
        BY <1>14, <3>1 DEF CtxPart, AdmissionsOK, MayAttach, c
  <2>3. s.lch.current = 0
      BY <2>2 DEF CtxPart, LaunchesOK
  <2>4. /\ s.ctl.runtime = 0 /\ s.ctl.pending = None /\ ~s.ctl.closing
        /\ ~s.ctl.retired
      BY <1>14, <2>3 DEF CtlPart
  <2>5. /\ Undisturbed(s2, o.s) /\ ~o.s.ctl.closing /\ ~o.s.ctl.retired
        /\ ~o.ok => o.s.ctl.runtime = 0 /\ o.s.ctl.pending = None
        /\ o.s.ctl.runtime # 0 => /\ o.s.ctl.runtime = r /\ o.s.ctl.current = r
                                  /\ o.s.ctl.generation = o.s.sess.generation
                                  /\ o.s.ctl.pending = None
        /\ o.s.ctl.pending # None => o.s.ctl.pending.req = r
      BY <1>9, <2>1, <2>4, AttachRealized
  <2>6. o.s \in States /\ CtxPart(o.s)
      BY <1>9, <2>5, UndisturbedLaunches DEF Undisturbed
  <2>7. SameLauncher(s2.lch, o.s.lch)
        /\ \A q \in Requests : SameLaunch(s2.ctx[q], o.s.ctx[q])
      BY <2>5 DEF Undisturbed
  <2>8. /\ o.s.lch.pending = s.lch.pending /\ o.s.lch.accepting
        /\ r \in o.s.lch.inflight /\ o.s.ctx[r].adm = "resolved"
        /\ \A q \in Requests : o.s.ctx[q].thread = s.ctx[q].thread
      BY <1>9, <1>14, <2>2, <2>7 DEF SameLauncher, SameLaunch
  <2>9. CASE ~o.ok
    <3>1. CtlPart(o.s)
        BY <2>5, <2>6, <2>9, ControllerHalted
    <3>2. Fine(o.s) /\ t = fail(retireAsync(o.s, r), r)
        BY <2>1, <2>6, <2>8, <2>9, <3>1
    <3>3. Fine(t)
      <4> HIDE DEF Fine
      <4> QED
          BY <1>10, <2>8, <3>2
    <3> QED
        BY <3>3
  <2>10. CASE o.ok
    <3> DEFINE x == o.s
               l == [x.lch EXCEPT !.inflight = @ \ {r}, !.current = r,
                                  !.expectedStop = 0]
               d == [x.ctx[r] EXCEPT !.attached = TRUE]
    <3>1. t = [x EXCEPT !.ctx[r] = d, !.lch = l]
        BY <2>1, <2>6, <2>10 DEF States
    <3>2. /\ x \in States /\ CtxPart(x) /\ r \in x.lch.inflight
          /\ x.ctx[r].adm = "resolved"
        BY <2>6, <2>8
    <3> HIDE DEF x
    <3>3. l \in Launchers /\ d \in Contexts
      <4>1. x.lch \in Launchers /\ x.ctx[r] \in Contexts
          BY <3>2 DEF States
      <4>2. l \in Launchers
          BY <4>1 DEF Launchers, Ids
      <4>3. d \in Contexts
          BY <4>1 DEF Contexts
      <4> QED
          BY <4>2, <4>3
    <3>4. /\ l.inflight = x.lch.inflight \ {r} /\ l.current = r
          /\ l.fatal = x.lch.fatal /\ l.pending = x.lch.pending
          /\ l.accepting = x.lch.accepting
        BY <3>2 DEF States, Launchers
    <3>5. /\ d.sb = x.ctx[r].sb /\ d.thread = x.ctx[r].thread
          /\ d.submitted = x.ctx[r].submitted /\ d.canceled = x.ctx[r].canceled
          /\ d.observer = x.ctx[r].observer /\ d.attached
          /\ d.session = x.ctx[r].session /\ d.adm = x.ctx[r].adm
          /\ d.guard = x.ctx[r].guard /\ d.temp = x.ctx[r].temp
          /\ d.mgr = x.ctx[r].mgr
          /\ d.fatalCleanupObserved = x.ctx[r].fatalCleanupObserved
        BY <3>2 DEF States, Contexts
    <3> HIDE DEF l, d
    <3>6. /\ t \in States /\ t.ctl = x.ctl /\ t.sess = x.sess
          /\ t.queue = x.queue /\ t.lch = l /\ t.ctx[r] = d
          /\ \A q \in Requests : q # r => t.ctx[q] = x.ctx[q]
        BY <3>1, <3>2, <3>3 DEF States
    <3>7. /\ CtxPart(t)
          /\ t.lch.current = r /\ t.lch.accepting = x.lch.accepting
          /\ t.lch.pending = x.lch.pending
          /\ \A q \in Requests : t.ctx[q].thread = x.ctx[q].thread
        BY <3>2, <3>3, <3>6, <3>4, <3>5, LaunchAttached
    <3>8. r # 0
        BY RequestsAssumption
    <3>9. CtlPart(t)
        BY <2>5, <2>8, <3>6, <3>7, <3>8 DEF CtlPart, x
    <3> QED
        BY <2>8, <3>6, <3>7, <3>9 DEF x
  <2> QED
      BY <2>9, <2>10
<1> QED
    BY <1>1, <1>12, <1>13, <1>14

-----------------------------------------------------------------------------
\* From a call to an action.

\* A call that leaves the invariant's parts true, and drops the request that
\* waits or leaves it.
Follows(s, t) ==
    /\ t \in States /\ CtxPart(t) /\ CtlPart(t)
    /\ t.lch.pending \in {0, s.lch.pending}
    /\ \A q \in Requests : q # s.lch.pending /\ s.ctx[q].thread = "none"
                             => t.ctx[q].thread = "none"

\* A state of the variables is the record that they became.
LEMMA Became ==
    ASSUME NEW s \in States, Become(s)
    PROVE  Here' = s
BY DEF Become, Here, States

\* The record and the variables.
LEMMA HereIs ==
    /\ Here.ctl = ctl /\ Here.lch = lch /\ Here.ctx = ctx /\ Here.sess = sess
    /\ Here.queue = queue /\ Here.nav = nav
BY DEF Here

\* Actions of the threads and of the event loop keep the invariant so.
LEMMA Kept ==
    ASSUME IInv, NEW t, Follows(Here, t), Become(t), requested' = requested
    PROVE  IInv'
<1>1. t \in States /\ CtxPart(t) /\ CtlPart(t)
    BY DEF Follows
<1>2. Here' = t
    BY <1>1, Became
<1>3. /\ lch'.pending \in {0, lch.pending}
      /\ \A q \in Requests : q # lch.pending /\ ctx[q].thread = "none"
                               => ctx'[q].thread = "none"
    BY HereIs DEF Follows, Become
<1>4. requested \in Nat /\ lch.pending \in Nat
  <2>1. lch \in Launchers
      BY HereIs DEF IInv, States
  <2>2. requested \in Ids /\ lch.pending \in Ids
      BY <2>1 DEF IInv, RequestsOK, Launchers, Ids
  <2>3. \A i \in Ids : i \in Nat
      BY RequestsAssumption DEF Ids
  <2> QED
      BY <2>2, <2>3
<1>5. RequestsOK'
  <2>1. lch'.pending <= requested
      BY <1>3, <1>4 DEF IInv, RequestsOK
  <2>2. ASSUME NEW r \in Requests, r > requested
        PROVE  ctx'[r].thread = "none"
    <3>1. r # lch.pending
        BY <1>4, <2>2, RequestsAssumption DEF IInv, RequestsOK
    <3> QED
        BY <1>3, <2>2, <3>1 DEF IInv, RequestsOK
  <2> QED
      BY <2>1, <2>2 DEF IInv, RequestsOK
<1> QED
    BY <1>1, <1>2, <1>5 DEF IInv

\* What a call that only stops something leaves.
LEMMA StoppedFollows ==
    ASSUME NEW s \in States, CtxPart(s), CtlPart(s), NEW t, Stopped(s, t)
    PROVE  Follows(s, t)
<1>1. CtxPart(t) /\ CtlPart(t)
    BY StoppedLaunches, StoppedControl
<1> QED
    BY <1>1 DEF Stopped, Undisturbed, SameLauncher, SameLaunch, Follows

\* One call after the other.
LEMMA FollowsTwice ==
    ASSUME NEW s, NEW t, NEW u, Follows(s, t), Follows(t, u),
           t.lch.pending = s.lch.pending
    PROVE  Follows(s, u)
BY DEF Follows

\* What the controller's part of the invariant is about.
LEMMA SameControl ==
    ASSUME NEW s, CtlPart(s), NEW t, t.ctl = s.ctl, SameLauncher(s.lch, t.lch),
           t.sess.generation = s.sess.generation
    PROVE  CtlPart(t)
BY DEF CtlPart, hasPendingActivity, SameLauncher

\* Posting an event that is true.
LEMMA PostedFollows ==
    ASSUME NEW s \in States, CtxPart(s), CtlPart(s), NEW e \in Events,
           EventOK(s, e),
           e.t \in {"retired", "lost"} => ~Queued(s, "retired", e.r),
           e.t = "admit" => ~Queued(s, "admit", e.r)
    PROVE  Follows(s, Post(s, e)) /\ Post(s, e).lch = s.lch
<1>1. /\ Post(s, e) \in States
      /\ Post(s, e).ctl = s.ctl /\ Post(s, e).ctx = s.ctx
      /\ Post(s, e).lch = s.lch /\ Post(s, e).sess = s.sess
    BY Posted
<1>2. CtxPart(Post(s, e))
    BY PostedLaunches
<1>3. CtlPart(Post(s, e))
    BY <1>1 DEF CtlPart, hasPendingActivity
<1> QED
    BY <1>1, <1>2, <1>3 DEF Follows

-----------------------------------------------------------------------------
\* The Host's calls.

\* retargetPendingLaunch.
LEMMA RetargetStep ==
    ASSUME IInv, RetargetPendingLaunch
    PROVE  IInv'
<1> DEFINE g == [ctl.target EXCEPT !.nav = nav]
           p == IF ctl.pending.req = ctl.current
                  THEN [ctl.pending EXCEPT !.nav = nav] ELSE ctl.pending
           c == [ctl EXCEPT !.target = g, !.pending = p]
           t == [Here EXCEPT !.ctl.target.nav = nav,
                        !.ctl.pending = IF @.req = ctl.current
                                          THEN [@ EXCEPT !.nav = nav] ELSE @]
<1>1. Here \in States /\ CtxPart(Here) /\ CtlPart(Here) /\ ctl.current # 0
    BY DEF IInv, RetargetPendingLaunch
<1>2. ctl \in Controllers /\ nav \in Nat
    BY <1>1, HereIs DEF States
<1>3. ctl.target \in Targets /\ ctl.pending \in Targets
    BY <1>2 DEF Controllers
<1>4. g \in Targets /\ p \in Targets /\ p.req = ctl.pending.req
    BY <1>2, <1>3 DEF Targets
<1>5. p # None => ctl.pending # None
    BY <1>1 DEF None
<1>6. t = [Here EXCEPT !.ctl = c]
    BY <1>1, HereIs DEF States
<1>7. Become(t) /\ requested' = requested
    BY DEF RetargetPendingLaunch, Gui
<1> HIDE DEF g, p, t
<1>8. /\ c \in Controllers /\ c.current = ctl.current /\ c.pending = p
      /\ c.runtime = ctl.runtime /\ c.generation = ctl.generation
      /\ c.closing = ctl.closing /\ c.retired = ctl.retired
    BY <1>2, <1>4 DEF Controllers
<1> HIDE DEF c
<1>9. /\ t \in States /\ t.ctl = c /\ t.lch = Here.lch /\ t.ctx = Here.ctx
      /\ t.sess = Here.sess /\ t.queue = Here.queue
    BY <1>1, <1>6, <1>8, SetControl
<1>10. CtxPart(t)
    BY <1>1, <1>9, SameContexts
<1>11. CtlPart(t)
  <2>1. p # None => p.req = ctl.pending.req /\ ctl.pending # None
      BY <1>4, <1>5
  <2>2. ~lch.accepting => p = None
    <3>1. ctl.pending = None => p = None
        BY <1>5
    <3> QED
        BY <1>1, <3>1, HereIs DEF CtlPart
  <2> QED
      BY <1>1, <1>8, <1>9, <2>1, <2>2, HereIs DEF CtlPart, hasPendingActivity
<1>12. Follows(Here, t)
    BY <1>9, <1>10, <1>11 DEF Follows
<1> QED
    BY <1>7, <1>12, Kept

\* cancelLaunchIfCurrent.
LEMMA CancelStep ==
    ASSUME IInv, CancelLaunchIfCurrent
    PROVE  IInv'
<1>1. Here \in States /\ CtxPart(Here) /\ CtlPart(Here) /\ ctl.current # 0
    BY DEF IInv, CancelLaunchIfCurrent
<1>2. ctl.current \in Requests
    BY <1>1, HereIs DEF States, Controllers, Ids
<1>3. Follows(Here, ctlCancelLaunch(Here, ctl.current))
    BY <1>1, <1>2, ControllerCanceled DEF Follows
<1> QED
    BY <1>3, Kept DEF CancelLaunchIfCurrent

\* The Host stops the Worker.
LEMMA StopStep ==
    ASSUME IInv, Stop
    PROVE  IInv'
<1>1. Here \in States /\ CtxPart(Here) /\ CtlPart(Here)
    BY DEF IInv
<1>2. Follows(Here, lchStopCurrent(Here))
    BY <1>1, LauncherStopped, StoppedFollows
<1> QED
    BY <1>2, Kept DEF Stop

\* The Host shuts the transport gate.
LEMMA HostFailClosedStep ==
    ASSUME IInv, HostFailClosed
    PROVE  IInv'
<1> DEFINE c == [ctl EXCEPT !.gate = FALSE]
           s == [Here EXCEPT !.ctl.gate = FALSE]
           e == [t |-> "failClosed", r |-> 0]
<1>1. Here \in States /\ CtxPart(Here) /\ CtlPart(Here)
    BY DEF IInv
<1>2. ctl \in Controllers
    BY <1>1, HereIs DEF States
<1>3. s = [Here EXCEPT !.ctl = c]
    BY <1>1, HereIs DEF States
<1>4. Become(Post(s, e)) /\ requested' = requested
    BY DEF HostFailClosed
<1>5. e \in Events /\ e.t = "failClosed"
    BY DEF Events, Words, Ids
<1> HIDE DEF s, e
<1>6. /\ c \in Controllers /\ c.current = ctl.current /\ c.pending = ctl.pending
      /\ c.runtime = ctl.runtime /\ c.generation = ctl.generation
      /\ c.closing = ctl.closing /\ c.retired = ctl.retired
    BY <1>2 DEF Controllers
<1> HIDE DEF c
<1>7. /\ s \in States /\ s.ctl = c /\ s.lch = Here.lch /\ s.ctx = Here.ctx
      /\ s.sess = Here.sess /\ s.queue = Here.queue
    BY <1>1, <1>3, <1>6, SetControl
<1>8. CtxPart(s)
    BY <1>1, <1>7, SameContexts
<1>9. CtlPart(s)
    BY <1>1, <1>6, <1>7, HereIs DEF CtlPart, hasPendingActivity
<1>10. Follows(Here, s) /\ s.lch.pending = Here.lch.pending
    BY <1>7, <1>8, <1>9 DEF Follows
<1>11. Follows(s, Post(s, e))
    BY <1>5, <1>7, <1>8, <1>9, PostedFollows DEF EventOK
<1>12. Follows(Here, Post(s, e))
    BY <1>10, <1>11, FollowsTwice
<1> QED
    BY <1>4, <1>12, Kept

\* The tab is closed.
LEMMA CloseStep ==
    ASSUME IInv, Close
    PROVE  IInv'
<1> DEFINE c == [ctl EXCEPT !.closing = TRUE, !.accepting = FALSE, !.target = None]
           s == [Here EXCEPT !.ctl.closing = TRUE, !.ctl.accepting = FALSE,
                             !.ctl.target = None]
           s1 == cancel(s)
           s2 == [s1 EXCEPT !.ctl.current = 0, !.ctl.generation = 0]
           c2 == [s1.ctl EXCEPT !.current = 0, !.generation = 0]
           t == emitRetired(s2)
<1>1. Here \in States /\ CtxPart(Here) /\ CtlPart(Here) /\ ~ctl.closing
    BY DEF IInv, Close
<1>2. ctl \in Controllers /\ ~ctl.retired
    BY <1>1, HereIs DEF States, CtlPart
<1>3. s = [Here EXCEPT !.ctl = c]
    BY <1>1, HereIs DEF States
<1>4. Become(t) /\ requested' = requested
    BY DEF Close, Gui
<1> HIDE DEF s, t
<1>5. c \in Controllers /\ c.closing /\ ~c.retired
    BY <1>2, NoTarget DEF Controllers
<1> HIDE DEF c
<1>6. /\ s \in States /\ s.ctl = c /\ s.lch = Here.lch /\ s.ctx = Here.ctx
      /\ s.sess = Here.sess /\ s.queue = Here.queue
    BY <1>1, <1>3, <1>5, SetControl
<1>7. CtxPart(s)
    BY <1>1, <1>6, SameContexts
<1>8. /\ s1 \in States /\ CtxPart(s1) /\ s1.ctl = Idle(c)
      /\ s1.lch.pending = 0 /\ ~s1.lch.accepting
      /\ \A r \in Requests : s1.ctx[r].thread = s.ctx[r].thread
    BY <1>5, <1>6, <1>7, Canceled
<1>9. s2 = [s1 EXCEPT !.ctl = c2]
    BY <1>8 DEF States
<1> HIDE DEF s1, s2
<1>10. /\ c2 \in Controllers /\ c2.runtime = 0 /\ c2.pending = None
       /\ c2.closing /\ ~c2.retired
  <2>1. Idle(c) \in Controllers /\ Idle(c).runtime = 0 /\ Idle(c).pending = None
        /\ Idle(c).closing /\ ~Idle(c).retired
      BY <1>5, IdleController
  <2>2. s1.ctl \in Controllers /\ s1.ctl.runtime = 0 /\ s1.ctl.pending = None
        /\ s1.ctl.closing /\ ~s1.ctl.retired
      BY <1>8, <2>1
  <2> QED
      BY <2>2 DEF Controllers, Ids
<1> HIDE DEF c2
<1>11. /\ s2 \in States /\ s2.ctl = c2 /\ s2.ctx = s1.ctx /\ s2.lch = s1.lch
       /\ s2.queue = s1.queue
    BY <1>8, <1>9, <1>10, SetControl
<1>12. CtxPart(s2)
    BY <1>8, <1>11, SameContexts
<1>13. /\ t \in States /\ t.ctx = s2.ctx /\ t.lch = s2.lch /\ t.queue = s2.queue
       /\ t.ctl.runtime = 0 /\ t.ctl.pending = None /\ t.ctl.closing
       /\ t.ctl.retired => ~hasPendingActivity(s2)
    BY <1>10, <1>11, RetiredEmitted DEF t
<1>14. CtxPart(t)
    BY <1>11, <1>12, <1>13, SameContexts
<1>15. CtlPart(t)
    BY <1>8, <1>11, <1>13, ControllerHalted DEF hasPendingActivity
<1>16. Follows(Here, t)
    BY <1>6, <1>8, <1>11, <1>13, <1>14, <1>15 DEF Follows
<1> QED
    BY <1>4, <1>16, Kept

\* The tab navigates.
LEMMA NavigateStep ==
    ASSUME IInv, Navigate
    PROVE  IInv'
<1> DEFINE t == [Here EXCEPT !.nav = @ + 1]
<1>1. Here \in States /\ CtxPart(Here) /\ CtlPart(Here)
    BY DEF IInv
<1>2. Here.nav + 1 \in Nat \ {0}
    BY <1>1 DEF States
<1>3. Become(t) /\ requested' = requested
    BY DEF Navigate
<1>4. /\ t \in States /\ t.ctl = Here.ctl /\ t.lch = Here.lch
      /\ t.ctx = Here.ctx /\ t.sess = Here.sess /\ t.queue = Here.queue
    BY <1>1, <1>2 DEF States
<1> HIDE DEF t
<1>5. CtxPart(t)
    BY <1>1, <1>4, SameContexts
<1>6. CtlPart(t)
    BY <1>1, <1>4 DEF CtlPart, hasPendingActivity
<1>7. Follows(Here, t)
    BY <1>4, <1>5, <1>6 DEF Follows
<1> QED
    BY <1>3, <1>7, Kept

\* What the Host asks for is launched, or waits for the last Worker's end.
LEMMA RequestStep ==
    ASSUME IInv, RequestLaunch
    PROVE  IInv'
<1> DEFINE r == requested + 1
           g == [None EXCEPT !.req = r, !.nav = nav]
           c == [ctl EXCEPT !.current = r, !.target = g]
           s1 == [Here EXCEPT !.ctl.current = r,
                              !.ctl.target = [None EXCEPT !.req = r, !.nav = nav]]
<1>1. /\ Here \in States /\ CtxPart(Here) /\ CtlPart(Here) /\ RequestsOK
      /\ r \in Requests /\ isAccepting /\ requested' = r
    BY DEF IInv, RequestLaunch
<1>2. PICK o \in lchRequestLaunch(s1, r) :
        Become(IF ~o.ok /\ ~hasPendingActivity(o.s)
                 THEN clearIfCurrent(o.s, r) ELSE o.s)
    BY DEF RequestLaunch
<1>3. ctl \in Controllers /\ nav \in Nat /\ ~ctl.closing /\ ~ctl.retired
      /\ lch.accepting
    BY <1>1, HereIs DEF States, isAccepting, CtlPart
<1>4. requested \in Nat /\ lch.pending \in Nat /\ lch.pending <= requested
  <2>1. lch \in Launchers
      BY <1>1, HereIs DEF States
  <2>2. requested \in Ids /\ lch.pending \in Ids
      BY <1>1, <2>1 DEF RequestsOK, Launchers, Ids
  <2> QED
      BY <1>1, <2>2, RequestsAssumption DEF Ids, RequestsOK
<1>5. r # lch.pending /\ ctx[r].thread = "none" /\ r # requested
    BY <1>1, <1>4 DEF RequestsOK
<1>6. s1 = [Here EXCEPT !.ctl = c]
    BY <1>1, HereIs DEF States
<1> HIDE DEF s1
<1>7. g \in Targets
    BY <1>1, <1>3 DEF Targets, None, Ids
<1>8. /\ c \in Controllers /\ c.pending = ctl.pending /\ c.runtime = ctl.runtime
      /\ c.generation = ctl.generation /\ c.closing = ctl.closing
      /\ c.retired = ctl.retired
    BY <1>1, <1>3, <1>7 DEF Controllers, Ids
<1> HIDE DEF c, g, r
<1>9. /\ s1 \in States /\ s1.ctl = c /\ s1.lch = Here.lch /\ s1.ctx = Here.ctx
      /\ s1.sess = Here.sess /\ s1.queue = Here.queue
    BY <1>1, <1>6, <1>8, SetControl
<1>10. CtxPart(s1)
    BY <1>1, <1>9, SameContexts
<1>11. ~busy(s1) => CtlPart(s1)
  <2>1. ~busy(s1) => c.runtime = 0 /\ c.pending = None
    <3>1. lch.current = 0 => ctl.runtime = 0 /\ ctl.pending = None
        BY <1>1, HereIs DEF CtlPart
    <3> QED
        BY <1>8, <1>9, <3>1, HereIs DEF busy
  <2> QED
      BY <1>3, <1>8, <1>9, <2>1, ControllerHalted
<1>12. /\ o.s \in States /\ CtxPart(o.s) /\ CtlPart(o.s)
       /\ o.s.lch.pending \in {r, lch.pending}
       /\ ~o.ok => o.s.lch.current = 0
       /\ \A q \in Requests : q # r => o.s.ctx[q].thread = ctx[q].thread
    BY <1>1, <1>2, <1>3, <1>5, <1>8, <1>9, <1>10, <1>11, HereIs, LaunchRequested
<1> DEFINE x == clearIfCurrent(o.s, r)
           t == IF ~o.ok /\ ~hasPendingActivity(o.s) THEN x ELSE o.s
<1>13. ~o.ok => CtxPart(x) /\ CtlPart(x) /\ x \in States
                /\ x.lch = o.s.lch /\ x.ctx = o.s.ctx
  <2>1. /\ x \in States
        /\ x.ctx = o.s.ctx /\ x.lch = o.s.lch /\ x.queue = o.s.queue
        /\ x.ctl.runtime = o.s.ctl.runtime /\ x.ctl.pending = o.s.ctl.pending
        /\ x.ctl.closing = o.s.ctl.closing /\ x.ctl.retired = o.s.ctl.retired
      BY <1>1, <1>12, CurrentCleared
  <2>2. CtxPart(x)
      BY <1>12, <2>1, SameContexts
  <2>3. ~o.ok => o.s.ctl.runtime = 0 /\ o.s.ctl.pending = None
      BY <1>12 DEF CtlPart
  <2>4. /\ x.ctl.closing => ~x.lch.accepting
        /\ x.ctl.retired => x.ctl.closing /\ ~hasPendingActivity(x)
      BY <1>12, <2>1 DEF CtlPart, hasPendingActivity
  <2>5. ~o.ok => CtlPart(x)
      BY <2>1, <2>3, <2>4, ControllerHalted
  <2> QED
      BY <2>1, <2>2, <2>5
<1>14. Become(t)
    BY <1>2
<1>15. /\ t \in States /\ CtxPart(t) /\ CtlPart(t)
       /\ t.lch.pending \in {r, lch.pending}
       /\ \A q \in Requests : q # r => t.ctx[q].thread = ctx[q].thread
    BY <1>12, <1>13
<1> HIDE DEF t
<1>16. Here' = t /\ lch'.pending = t.lch.pending /\ ctx' = t.ctx
    BY <1>14, <1>15, Became DEF Become
<1>17. r \in Nat /\ r = requested + 1
    BY <1>4 DEF r
<1>18. RequestsOK'
  <2>1. lch'.pending <= r
      BY <1>4, <1>15, <1>16, <1>17
  <2>2. ASSUME NEW q \in Requests, q > r
        PROVE  ctx'[q].thread = "none"
    <3>1. q # r /\ q > requested
        BY <1>4, <1>17, <2>2, RequestsAssumption
    <3> QED
        BY <1>1, <1>15, <1>16, <3>1 DEF RequestsOK
  <2> QED
      BY <1>1, <2>1, <2>2 DEF RequestsOK
<1> QED
    BY <1>15, <1>16, <1>18 DEF IInv

-----------------------------------------------------------------------------
\* The launch thread.

\* What the steps of a launch leave alone.
SameOwner(c, d) ==
    /\ d.submitted = c.submitted /\ d.attached = c.attached
    /\ d.canceled = c.canceled /\ d.adm = c.adm /\ d.mgr = c.mgr
    /\ d.fatalCleanupObserved = c.fatalCleanupObserved

\* The context r, and nothing else, becomes d.
OneContext(s, t, r, d) ==
    /\ t \in States /\ t.ctl = s.ctl /\ t.lch = s.lch /\ t.sess = s.sess
    /\ t.queue = s.queue /\ t.nav = s.nav
    /\ t.ctx[r] = d /\ \A q \in Requests : q # r => t.ctx[q] = s.ctx[q]

\* One context of a state is replaced, and nothing else.
LEMMA ContextSet ==
    ASSUME NEW s \in States, NEW r \in Requests, NEW d \in Contexts,
           NEW t, t = [s EXCEPT !.ctx[r] = d]
    PROVE  OneContext(s, t, r, d)
BY DEF States, OneContext

\* A step of the launch thread changes only its own context.
LEMMA ThreadMoves ==
    ASSUME NEW s \in States, CtxPart(s), CtlPart(s), NEW r \in Requests,
           Launching(s.ctx[r]), NEW d, ContextOK(d), d.thread # "none",
           SameOwner(s.ctx[r], d), NEW t, OneContext(s, t, r, d)
    PROVE  /\ Follows(s, t)
           /\ d.adm = "none" /\ ~Queued(t, "admit", r) /\ MayAttach(t, r)
<1>1. ContextOK(s.ctx[r]) /\ AdmissionsOK(s)
    BY DEF CtxPart
<1>2. s.ctx[r].adm = "none" /\ MayAttach(s, r) /\ s.ctx[r].thread # "none"
    BY <1>1 DEF ContextOK, AdmissionsOK, Launching
<1>3. s.ctx[r].thread # "finished"
    BY DEF Launching
<1>4. ~Queued(s, "admit", r)
    BY <1>3 DEF Queued, CtxPart, QueueOK, EventOK
<1>5. MayAttach(t, r)
    BY <1>2 DEF MayAttach, SameOwner, OneContext
<1>6. Moved(s, t, r)
    BY <1>2, <1>4, <1>5 DEF Moved, Carried, SameOwner, OneContext
<1>7. CtxPart(t)
    BY <1>6, MovedLaunches DEF SameLauncher, OneContext
<1>8. CtlPart(t)
    BY DEF CtlPart, hasPendingActivity, OneContext
<1>9. Follows(s, t)
    BY <1>2, <1>7, <1>8 DEF Follows, OneContext
<1>10. ~Queued(t, "admit", r)
    BY <1>4 DEF Queued, OneContext
<1> QED
    BY <1>2, <1>5, <1>9, <1>10 DEF SameOwner

\* A launch that failed is retired, whatever it had acquired.
LEMMA LaunchFails ==
    ASSUME NEW s \in States, CtxPart(s), CtlPart(s), NEW r \in Requests,
           Launching(s.ctx[r]), NEW d \in Contexts,
           SandboxOK(d.sb), Executing(d.sb) => d.guard /\ d.temp,
           SameOwner(s.ctx[r], d), d.observer # "watching",
           NEW x, OneContext(s, x, r, d)
    PROVE  Follows(s, endFailed(x, r))
<1> DEFINE f == [d EXCEPT !.thread = "finished"]
           t == [x EXCEPT !.ctx[r].thread = "finished"]
           a == retireAsync(t, r)
           e == [t |-> "fail", r |-> r]
<1>1. x \in States /\ x.ctx[r] = d
    BY DEF OneContext
<1>2. t = [x EXCEPT !.ctx[r] = f]
    BY <1>1 DEF States
<1>3. f \in Contexts /\ f.thread = "finished" /\ f.sb = d.sb /\ SameOwner(d, f)
      /\ f.observer = d.observer /\ f.guard = d.guard /\ f.temp = d.temp
    BY DEF Contexts, Steps, SameOwner
<1>4. endFailed(x, r) = Post(a, e)
    BY DEF endFailed
<1>5. e \in Events /\ e.t = "fail"
    BY DEF Events, Words, Ids
<1> HIDE DEF f, t, a, e
<1>6. OneContext(s, t, r, f)
    BY <1>1, <1>2, <1>3, SetContext DEF OneContext
<1>7. s.ctx[r].mgr # "done" /\ s.ctx[r] \in Contexts
      /\ (s.ctx[r].submitted <=> s.ctx[r].mgr # "none")
  <2>1. ContextOK(s.ctx[r])
      BY DEF CtxPart
  <2> QED
      BY <2>1 DEF ContextOK, Launching, States
<1>8. ContextOK(f)
    BY <1>3, <1>7 DEF ContextOK, SameOwner, Launching
<1>9. SameOwner(s.ctx[r], f)
    BY <1>3 DEF SameOwner
<1>10. Follows(s, t) /\ f.adm = "none" /\ ~Queued(t, "admit", r)
    BY <1>3, <1>6, <1>8, <1>9, ThreadMoves
<1>11. t \in States /\ CtxPart(t) /\ CtlPart(t) /\ t.ctx[r] = f /\ t.lch = s.lch
    BY <1>6, <1>10 DEF Follows, OneContext
<1>12. Abandoned(t, r)
    BY <1>3, <1>10, <1>11 DEF Abandoned, Launching
<1>13. /\ a \in States /\ CtxPart(a) /\ a.ctl = t.ctl /\ a.lch = t.lch
       /\ a.sess = t.sess /\ a.ctx[r].thread = t.ctx[r].thread
       /\ \A q \in Requests : q # r => a.ctx[q] = t.ctx[q]
    BY <1>3, <1>11, <1>12, OneRetired DEF a
<1>14. CtlPart(a)
    BY <1>11, <1>13 DEF CtlPart, hasPendingActivity
<1>15. Follows(t, a) /\ a.lch.pending = t.lch.pending
    BY <1>13, <1>14 DEF Follows
<1>16. Follows(a, Post(a, e))
    BY <1>5, <1>13, <1>14, PostedFollows DEF EventOK
<1>17. Follows(t, Post(a, e))
    BY <1>15, <1>16, FollowsTwice
<1> QED
    BY <1>4, <1>10, <1>11, <1>17, FollowsTwice

\* Each step of the launch starts from here.
LEMMA LaunchIs ==
    ASSUME IInv, NEW r \in Requests, Launching(ctx[r])
    PROVE  /\ Here \in States /\ CtxPart(Here) /\ CtlPart(Here)
           /\ ctx[r] \in Contexts /\ ContextOK(ctx[r]) /\ ctx[r].temp
           /\ ctx[r].adm = "none" /\ ctx[r].observer # "watching"
           /\ ctx[r].mgr # "done"
<1>1. Here \in States /\ CtxPart(Here) /\ CtlPart(Here)
    BY DEF IInv
<1>2. ctx[r] \in Contexts /\ ContextOK(ctx[r])
    BY <1>1, HereIs DEF States, CtxPart
<1> QED
    BY <1>1, <1>2 DEF ContextOK, Launching

\* A step that fails without a change of its own.
LEMMA FailedAtOnce ==
    ASSUME IInv, NEW r \in Requests, Launching(ctx[r]), Gui(endFailed(Here, r))
    PROVE  IInv'
<1>1. /\ Here \in States /\ CtxPart(Here) /\ CtlPart(Here)
      /\ ctx[r] \in Contexts /\ ContextOK(ctx[r]) /\ ctx[r].observer # "watching"
    BY LaunchIs
<1>2. /\ OneContext(Here, Here, r, ctx[r]) /\ SameOwner(ctx[r], ctx[r])
      /\ Launching(Here.ctx[r])
    BY <1>1, HereIs DEF OneContext, SameOwner
<1>3. SandboxOK(ctx[r].sb) /\ (Executing(ctx[r].sb) => ctx[r].guard /\ ctx[r].temp)
    BY <1>1 DEF ContextOK
<1>4. Follows(Here, endFailed(Here, r))
    BY <1>1, <1>2, <1>3, HereIs, LaunchFails
<1> QED
    BY <1>4, Kept DEF Gui

\* SandboxLauncher::prepare.
LEMMA PrepareStep ==
    ASSUME IInv, NEW r \in Requests, Prepare(r)
    PROVE  IInv'
<1> DEFINE c == ctx[r]
           d == [c EXCEPT !.sb = prepare(@), !.thread = "validate"]
           t == AdvanceTo([Here EXCEPT !.ctx[r].sb = prepare(@)], r, "validate")
<1>1. c.thread = "prepare" /\ Launching(ctx[r])
    BY DEF Prepare, At, Launching
<1>2. /\ Here \in States /\ CtxPart(Here) /\ CtlPart(Here)
      /\ c \in Contexts /\ ContextOK(c) /\ c.temp /\ c.adm = "none"
      /\ c.observer # "watching" /\ c.mgr # "done"
    BY <1>1, LaunchIs
<1>3. t = [Here EXCEPT !.ctx[r] = d]
    BY <1>2, HereIs DEF AdvanceTo, States, Contexts
<1>4. c.sb = NoSandbox
    BY <1>1, <1>2 DEF ContextOK
<1>5. Gui(endFailed(Here, r)) \/ Gui(t)
    BY DEF Prepare
<1> HIDE DEF t
<1>6. /\ d \in Contexts /\ d.thread = "validate" /\ d.sb = prepare(NoSandbox)
      /\ d.temp /\ d.observer = c.observer /\ SameOwner(c, d)
    BY <1>2, <1>4, PreparedSandbox DEF Contexts, SameOwner, Steps
<1>7. ContextOK(d)
  <2>1. SandboxOK(d.sb) /\ ~Executing(d.sb)
      BY <1>6, PreparedSandbox DEF Executing
  <2> HIDE DEF c, d
  <2> QED
      BY <1>2, <1>6, <2>1 DEF ContextOK, SameOwner, Launching
<1> HIDE DEF d
<1>8. OneContext(Here, t, r, d)
    BY <1>2, <1>3, <1>6, ContextSet
<1>9. Follows(Here, t)
    BY <1>1, <1>2, <1>6, <1>7, <1>8, HereIs, ThreadMoves
<1>10. CASE Gui(t)
    BY <1>9, <1>10, Kept DEF Gui
<1> QED
    BY <1>1, <1>5, <1>10, FailedAtOnce

\* The package binding is validated and guarded.
LEMMA ValidateStep ==
    ASSUME IInv, NEW r \in Requests, ValidateBinding(r)
    PROVE  IInv'
<1> DEFINE c == ctx[r]
           d == [c EXCEPT !.guard = TRUE, !.thread = "launch"]
           t == AdvanceTo([Here EXCEPT !.ctx[r].guard = TRUE], r, "launch")
<1>1. c.thread = "validate" /\ Launching(ctx[r])
    BY DEF ValidateBinding, At, Launching
<1>2. /\ Here \in States /\ CtxPart(Here) /\ CtlPart(Here)
      /\ c \in Contexts /\ ContextOK(c) /\ c.temp /\ c.adm = "none"
      /\ c.observer # "watching" /\ c.mgr # "done"
    BY <1>1, LaunchIs
<1>3. t = [Here EXCEPT !.ctx[r] = d]
    BY <1>2, HereIs DEF AdvanceTo, States, Contexts
<1>4. c.sb = prepare(NoSandbox) /\ SandboxOK(c.sb) /\ ~Executing(c.sb)
    BY <1>1, <1>2, PreparedSandbox DEF ContextOK, Executing
<1>5. \/ \E held \in BOOLEAN :
           Gui(endFailed([Here EXCEPT !.ctx[r].guard = held], r))
      \/ Gui(t)
    BY DEF ValidateBinding
<1> HIDE DEF t
<1>6. /\ d \in Contexts /\ d.thread = "launch" /\ d.sb = c.sb /\ d.guard
      /\ d.temp /\ d.observer = c.observer /\ SameOwner(c, d)
    BY <1>2 DEF Contexts, SameOwner, Steps
<1>7. ContextOK(d)
  <2> HIDE DEF c, d
  <2> QED
      BY <1>2, <1>4, <1>6 DEF ContextOK, SameOwner, Launching
<1> HIDE DEF d
<1>8. CASE Gui(t)
  <2>1. OneContext(Here, t, r, d)
      BY <1>2, <1>3, <1>6, ContextSet
  <2>2. Follows(Here, t)
      BY <1>1, <1>2, <1>6, <1>7, <2>1, HereIs, ThreadMoves
  <2> QED
      BY <1>8, <2>2, Kept DEF Gui
<1>9. ASSUME NEW held \in BOOLEAN,
             Gui(endFailed([Here EXCEPT !.ctx[r].guard = held], r))
      PROVE  IInv'
  <2> DEFINE k == [c EXCEPT !.guard = held]
             x == [Here EXCEPT !.ctx[r].guard = held]
  <2>1. x = [Here EXCEPT !.ctx[r] = k]
      BY <1>2, HereIs DEF States, Contexts
  <2>2. /\ k \in Contexts /\ k.sb = c.sb /\ k.observer = c.observer
        /\ SameOwner(c, k)
      BY <1>2 DEF Contexts, SameOwner
  <2>3. Gui(endFailed(x, r))
      BY <1>9
  <2> HIDE DEF k, x
  <2>4. OneContext(Here, x, r, k)
      BY <1>2, <2>1, <2>2, ContextSet
  <2>5. Follows(Here, endFailed(x, r))
      BY <1>1, <1>2, <1>4, <2>2, <2>4, HereIs, LaunchFails
  <2> QED
      BY <2>3, <2>5, Kept DEF Gui
<1> QED
    BY <1>5, <1>8, <1>9

\* The process, with everything it was launched with; or what its launch left.
LEMMA LaunchStep ==
    ASSUME IInv, NEW r \in Requests, LaunchProcess(r)
    PROVE  IInv'
<1> DEFINE c == ctx[r]
           d == [c EXCEPT !.sb = launched(@)]
           k == [d EXCEPT !.terminationRequested = TRUE, !.sb = terminate(@)]
           h == [d EXCEPT !.observer = "held", !.session = TRUE]
           g == IF c.terminationRequested THEN [h EXCEPT !.sb = terminate(@)] ELSE h
           m == [g EXCEPT !.thread = "handshake"]
           started == [Here EXCEPT !.ctx[r].sb = launched(@)]
           ended == requestTerminateNoWait(started, r)
           ready == [started EXCEPT !.ctx[r].observer = "held",
                                    !.ctx[r].session = TRUE]
           asked == IF ctx[r].terminationRequested THEN kill(ready, r) ELSE ready
           t == AdvanceTo(asked, r, "handshake")
<1>1. c.thread = "launch" /\ Launching(ctx[r])
    BY DEF LaunchProcess, At, Launching
<1>2. /\ Here \in States /\ CtxPart(Here) /\ CtlPart(Here)
      /\ c \in Contexts /\ ContextOK(c) /\ c.temp /\ c.adm = "none"
      /\ c.observer # "watching" /\ c.mgr # "done"
    BY <1>1, LaunchIs
<1>3. c.guard /\ c.sb = prepare(NoSandbox)
    BY <1>1, <1>2 DEF ContextOK
<1>4. \/ \E sb \in launchFailures(c.sb) :
           Gui(endFailed([Here EXCEPT !.ctx[r].sb = sb], r))
      \/ Gui(endFailed(ended, r)) \/ Gui(endFailed(started, r)) \/ Gui(t)
    BY DEF LaunchProcess
<1>5. started = [Here EXCEPT !.ctx[r] = d]
    BY <1>2, HereIs DEF States, Contexts
<1>6. /\ d \in Contexts /\ d.sb = launched(prepare(NoSandbox)) /\ SandboxOK(d.sb)
      /\ d.guard /\ d.temp /\ d.observer = c.observer /\ SameOwner(c, d)
      /\ d.terminationRequested = c.terminationRequested
    BY <1>2, <1>3, LaunchedSandbox DEF Contexts, SameOwner
<1> HIDE DEF d, started
<1>7. OneContext(Here, started, r, d) /\ started \in States /\ started.ctx[r] = d
  <2>1. OneContext(Here, started, r, d)
      BY <1>2, <1>5, <1>6, ContextSet
  <2> QED
      BY <2>1 DEF OneContext
<1>8. ASSUME NEW x, NEW f \in Contexts, OneContext(Here, x, r, f), SandboxOK(f.sb),
             f.guard, f.temp, f.observer # "watching", SameOwner(c, f),
             Gui(endFailed(x, r))
      PROVE  IInv'
  <2>1. Follows(Here, endFailed(x, r))
      BY <1>1, <1>2, <1>8, HereIs, LaunchFails
  <2> QED
      BY <1>8, <2>1, Kept DEF Gui
<1>9. ASSUME NEW sb \in launchFailures(c.sb),
             Gui(endFailed([Here EXCEPT !.ctx[r].sb = sb], r))
      PROVE  IInv'
  <2> DEFINE f == [c EXCEPT !.sb = sb]
             x == [Here EXCEPT !.ctx[r].sb = sb]
  <2>1. x = [Here EXCEPT !.ctx[r] = f]
      BY <1>2, HereIs DEF States, Contexts
  <2>2. sb \in Sandboxes /\ SandboxOK(sb)
      BY <1>3, <1>9, FailedSandbox
  <2>3. /\ f \in Contexts /\ f.sb = sb /\ f.observer = c.observer
        /\ f.guard /\ f.temp /\ SameOwner(c, f)
      BY <1>2, <1>3, <2>2 DEF Contexts, SameOwner
  <2>4. Gui(endFailed(x, r))
      BY <1>9
  <2> HIDE DEF f, x
  <2>5. OneContext(Here, x, r, f)
      BY <1>2, <2>1, <2>3, ContextSet
  <2> QED
      BY <1>2, <1>8, <2>2, <2>3, <2>4, <2>5
<1>10. CASE Gui(endFailed(started, r))
    BY <1>2, <1>6, <1>7, <1>8, <1>10
<1>11. /\ terminate(d.sb) \in Sandboxes /\ SandboxOK(terminate(d.sb))
    BY <1>6, TerminatedSandbox DEF Contexts
<1>12. CASE Gui(endFailed(ended, r))
  <2>1. ended = [started EXCEPT !.ctx[r] = k]
      BY <1>6, <1>7 DEF requestTerminateNoWait, kill, States, Contexts
  <2>2. /\ k \in Contexts /\ k.sb = terminate(d.sb) /\ k.observer = d.observer
        /\ k.guard /\ k.temp /\ SameOwner(d, k)
      BY <1>6, <1>11 DEF Contexts, SameOwner
  <2> HIDE DEF k, ended
  <2>3. OneContext(started, ended, r, k)
      BY <1>7, <2>1, <2>2, ContextSet
  <2>4. OneContext(Here, ended, r, k)
      BY <1>7, <2>3 DEF OneContext
  <2>5. SameOwner(c, k)
      BY <1>6, <2>2 DEF SameOwner
  <2> QED
      BY <1>2, <1>6, <1>8, <1>11, <1>12, <2>2, <2>4, <2>5
<1>13. CASE Gui(t)
  <2>1. ready = [started EXCEPT !.ctx[r] = h]
      BY <1>6, <1>7 DEF States, Contexts
  <2>2. /\ h \in Contexts /\ h.sb = d.sb /\ h.observer = "held"
        /\ h.guard /\ h.temp /\ SameOwner(d, h)
      BY <1>6 DEF Contexts, SameOwner
  <2> HIDE DEF h, ready
  <2>3. OneContext(started, ready, r, h) /\ ready \in States /\ ready.ctx[r] = h
    <3>1. OneContext(started, ready, r, h)
        BY <1>7, <2>1, <2>2, ContextSet
    <3> QED
        BY <3>1 DEF OneContext
  <2>4. asked = [ready EXCEPT !.ctx[r] = g]
    <3>1. CASE c.terminationRequested
        BY <2>2, <2>3, <3>1 DEF kill, States, Contexts
    <3>2. CASE ~c.terminationRequested
        BY <2>2, <2>3, <3>2 DEF States, Contexts
    <3> QED
        BY <3>1, <3>2
  <2>5. /\ g \in Contexts /\ g.sb \in {d.sb, terminate(d.sb)}
        /\ g.observer = "held" /\ g.guard /\ g.temp /\ SameOwner(h, g)
      BY <1>11, <2>2 DEF Contexts, SameOwner
  <2> HIDE DEF g, asked
  <2>6. OneContext(ready, asked, r, g) /\ asked \in States /\ asked.ctx[r] = g
    <3>1. OneContext(ready, asked, r, g)
        BY <2>3, <2>4, <2>5, ContextSet
    <3> QED
        BY <3>1 DEF OneContext
  <2>7. t = [asked EXCEPT !.ctx[r] = m]
      BY <2>5, <2>6 DEF AdvanceTo, States, Contexts
  <2>8. /\ m \in Contexts /\ m.sb = g.sb /\ m.thread = "handshake"
        /\ m.observer = "held" /\ m.guard /\ m.temp /\ SameOwner(g, m)
      BY <2>5 DEF Contexts, SameOwner, Steps
  <2> HIDE DEF m, t
  <2>9. OneContext(asked, t, r, m)
      BY <2>6, <2>7, <2>8, ContextSet
  <2>10. OneContext(Here, t, r, m)
      BY <1>7, <2>3, <2>6, <2>9 DEF OneContext
  <2>11. SameOwner(c, m) /\ SandboxOK(m.sb)
      BY <1>6, <1>11, <2>2, <2>5, <2>8 DEF SameOwner
  <2>12. ContextOK(m)
    <3> HIDE DEF c
    <3> QED
        BY <1>2, <2>8, <2>11 DEF ContextOK, SameOwner, Launching
  <2>13. Follows(Here, t)
      BY <1>1, <1>2, <2>8, <2>10, <2>11, <2>12, HereIs, ThreadMoves
  <2> QED
      BY <1>13, <2>13, Kept DEF Gui
<1> QED
    BY <1>4, <1>9, <1>10, <1>12, <1>13

\* The Worker's first messages.
LEMMA HandshakeStep ==
    ASSUME IInv, NEW r \in Requests, Handshake(r)
    PROVE  IInv'
<1> DEFINE c == ctx[r]
           d == [c EXCEPT !.thread = "revalidate"]
           t == AdvanceTo(Here, r, "revalidate")
<1>1. c.thread = "handshake" /\ Launching(ctx[r])
    BY DEF Handshake, At, Launching
<1>2. /\ Here \in States /\ CtxPart(Here) /\ CtlPart(Here)
      /\ c \in Contexts /\ ContextOK(c) /\ c.temp /\ c.adm = "none"
      /\ c.observer # "watching" /\ c.mgr # "done"
    BY <1>1, LaunchIs
<1>3. t = [Here EXCEPT !.ctx[r] = d]
    BY <1>2, HereIs DEF AdvanceTo, States, Contexts
<1>4. Gui(endFailed(Here, r)) \/ Gui(t)
    BY DEF Handshake
<1> HIDE DEF t
<1>5. /\ d \in Contexts /\ d.thread = "revalidate" /\ d.sb = c.sb
      /\ d.temp /\ d.guard = c.guard /\ d.observer = c.observer /\ SameOwner(c, d)
    BY <1>2 DEF Contexts, SameOwner, Steps
<1>6. ContextOK(d)
  <2> HIDE DEF c, d
  <2> QED
      BY <1>2, <1>5 DEF ContextOK, SameOwner, Launching
<1> HIDE DEF d
<1>7. OneContext(Here, t, r, d)
    BY <1>2, <1>3, <1>5, ContextSet
<1>8. Follows(Here, t)
    BY <1>1, <1>2, <1>5, <1>6, <1>7, HereIs, ThreadMoves
<1>9. CASE Gui(t)
    BY <1>8, <1>9, Kept DEF Gui
<1> QED
    BY <1>1, <1>4, <1>9, FailedAtOnce

\* The last step of the thread asks for the admission of what it launched.
LEMMA RevalidateStep ==
    ASSUME IInv, NEW r \in Requests, Revalidate(r)
    PROVE  IInv'
<1> DEFINE c == ctx[r]
           d == [c EXCEPT !.thread = "finished"]
           t == AdvanceTo(Here, r, "finished")
           e == [t |-> "admit", r |-> r]
<1>1. c.thread = "revalidate" /\ Launching(ctx[r])
    BY DEF Revalidate, At, Launching
<1>2. /\ Here \in States /\ CtxPart(Here) /\ CtlPart(Here)
      /\ c \in Contexts /\ ContextOK(c) /\ c.temp /\ c.adm = "none"
      /\ c.observer # "watching" /\ c.mgr # "done"
    BY <1>1, LaunchIs
<1>3. t = [Here EXCEPT !.ctx[r] = d]
    BY <1>2, HereIs DEF AdvanceTo, States, Contexts
<1>4. Gui(endFailed(Here, r)) \/ Gui(Post(t, e))
    BY DEF Revalidate
<1>5. e \in Events /\ e.t = "admit" /\ e.r = r
    BY DEF Events, Words, Ids
<1> HIDE DEF t, e
<1>6. /\ d \in Contexts /\ d.thread = "finished" /\ d.sb = c.sb
      /\ d.temp /\ d.guard = c.guard /\ d.observer = c.observer /\ SameOwner(c, d)
    BY <1>2 DEF Contexts, SameOwner, Steps
<1>7. ContextOK(d)
  <2> HIDE DEF c, d
  <2> QED
      BY <1>2, <1>6 DEF ContextOK, SameOwner, Launching
<1> HIDE DEF d
<1>8. OneContext(Here, t, r, d)
    BY <1>2, <1>3, <1>6, ContextSet
<1>9. /\ Follows(Here, t) /\ d.adm = "none" /\ ~Queued(t, "admit", r)
      /\ MayAttach(t, r)
    BY <1>1, <1>2, <1>6, <1>7, <1>8, HereIs, ThreadMoves
<1>10. /\ t \in States /\ CtxPart(t) /\ CtlPart(t) /\ t.ctx[r] = d
       /\ t.lch = Here.lch
    BY <1>8, <1>9 DEF Follows, OneContext
<1>11. EventOK(t, e)
    BY <1>5, <1>6, <1>9, <1>10 DEF EventOK
<1>12. Follows(t, Post(t, e))
    BY <1>5, <1>9, <1>10, <1>11, PostedFollows
<1>13. Follows(Here, Post(t, e))
    BY <1>9, <1>10, <1>12, FollowsTwice
<1>14. CASE Gui(Post(t, e))
    BY <1>13, <1>14, Kept DEF Gui
<1> QED
    BY <1>1, <1>4, <1>14, FailedAtOnce

-----------------------------------------------------------------------------
\* The Worker process and its observer.

\* A context that changes while its launch stays where it is; one that is
\* being retired can no longer be admitted, whatever becomes of its record.
LEMMA ContextMoves ==
    ASSUME NEW s \in States, CtxPart(s), CtlPart(s), NEW r \in Requests,
           NEW d, ContextOK(d), s.ctx[r].thread # "none",
           d.thread = s.ctx[r].thread, d.attached = s.ctx[r].attached,
           d.canceled = s.ctx[r].canceled, d.adm = s.ctx[r].adm,
           d.fatalCleanupObserved = s.ctx[r].fatalCleanupObserved,
           \/ d.mgr = s.ctx[r].mgr
           \/ s.ctx[r].mgr \notin {"none", "done"} /\ d.mgr # "none",
           NEW t, OneContext(s, t, r, d)
    PROVE  Follows(s, t)
<1>1. AdmissionsOK(s)
    BY DEF CtxPart
<1>2. MayAttach(s, r) => MayAttach(t, r)
    BY DEF MayAttach, OneContext
<1>3. Launching(d) <=> Launching(s.ctx[r])
    BY DEF Launching
<1>4. Launching(d) \/ d.adm \in {"waiting", "answered"} => MayAttach(t, r)
    BY <1>1, <1>2, <1>3 DEF AdmissionsOK
<1>5. Queued(s, "admit", r) => /\ MayAttach(s, r) /\ s.ctx[r].thread = "finished"
                               /\ s.ctx[r].adm = "none"
    BY DEF Queued, CtxPart, QueueOK, EventOK
<1>6. Moved(s, t, r)
    BY <1>2, <1>4, <1>5 DEF Moved, Carried, OneContext
<1>7. CtxPart(t)
    BY <1>6, MovedLaunches DEF SameLauncher, OneContext
<1>8. CtlPart(t)
    BY DEF CtlPart, hasPendingActivity, OneContext
<1> QED
    BY <1>7, <1>8 DEF Follows, OneContext

\* The process has ended, by itself or because it was asked to.
LEMMA ProcessEnds ==
    ASSUME IInv, NEW r \in Requests, Executing(ctx[r].sb),
           Become([Here EXCEPT !.ctx[r].sb.exec = "dead"]),
           requested' = requested
    PROVE  IInv'
<1> DEFINE c == ctx[r]
           k == [c.sb EXCEPT !.exec = "dead"]
           d == [c EXCEPT !.sb = k]
           t == [Here EXCEPT !.ctx[r].sb.exec = "dead"]
<1>1. /\ Here \in States /\ CtxPart(Here) /\ CtlPart(Here)
      /\ c \in Contexts /\ ContextOK(c)
    BY HereIs DEF IInv, States, CtxPart
<1>2. /\ t = [Here EXCEPT !.ctx[r] = d] /\ Become(t)
    BY <1>1, HereIs DEF States, Contexts, Sandboxes
<1> HIDE DEF t
<1>3. c.sb \in Sandboxes /\ SandboxOK(c.sb) /\ Executing(c.sb)
    BY <1>1 DEF Contexts, ContextOK
<1>4. k \in Sandboxes /\ SandboxOK(k) /\ ~Executing(k)
    BY <1>3, DeadSandbox
<1>5. c.thread \in {"handshake", "revalidate", "finished"} /\ c.mgr # "done"
  <2>1. c.sb # NoSandbox /\ c.sb # prepare(NoSandbox)
      BY <1>3, PreparedSandbox DEF Executing, NoSandbox
  <2>2. c.thread \in Steps
      BY <1>1 DEF Contexts
  <2> HIDE DEF c
  <2> QED
      BY <1>1, <1>3, <2>1, <2>2 DEF ContextOK, Steps, Clean
<1> HIDE DEF k
<1>6. /\ d \in Contexts /\ d.sb = k /\ d.thread = c.thread /\ d.guard = c.guard
      /\ d.temp = c.temp /\ d.observer = c.observer /\ SameOwner(c, d)
    BY <1>1, <1>4 DEF Contexts, SameOwner
<1>7. ContextOK(d)
  <2> HIDE DEF c, d
  <2> QED
      BY <1>1, <1>4, <1>5, <1>6 DEF ContextOK, SameOwner, Launching
<1> HIDE DEF d
<1>8. OneContext(Here, t, r, d)
    BY <1>1, <1>2, <1>6, ContextSet
<1>9. Follows(Here, t)
    BY <1>1, <1>5, <1>6, <1>7, <1>8, HereIs, ContextMoves DEF SameOwner
<1> QED
    BY <1>2, <1>9, Kept

\* What is observed, or cannot be any more, was attached: it is retired.
LEMMA Observed ==
    ASSUME IInv, NEW r \in Requests, ctx[r].observer = "watching",
           NEW d \in Contexts, d.observer = "done", d.sb = ctx[r].sb,
           d.thread = ctx[r].thread, SameOwner(ctx[r], d),
           d.guard = ctx[r].guard, d.temp = ctx[r].temp,
           d.session = ctx[r].session,
           NEW t, OneContext(Here, t, r, d)
    PROVE  /\ t \in States /\ CtxPart(t) /\ CtlPart(t) /\ t.lch = Here.lch
           /\ t.ctx[r].adm = "resolved"
           /\ \A q \in Requests : t.ctx[q].thread = ctx[q].thread
<1>1. /\ Here \in States /\ CtxPart(Here) /\ CtlPart(Here) /\ ContextOK(ctx[r])
    BY HereIs DEF IInv, CtxPart
<1>2. ctx[r].adm = "resolved" /\ d.adm = "resolved"
    BY <1>1 DEF ContextOK, SameOwner
<1>3. /\ CtxPart(t) /\ (CtlPart(Here) => CtlPart(t))
      /\ \A q \in Requests : t.ctx[q].thread = Here.ctx[q].thread
  <2>1. /\ t \in States /\ t.ctl = Here.ctl /\ t.lch = Here.lch
        /\ t.sess = Here.sess /\ t.queue = Here.queue
        /\ t.ctx[r] = d /\ \A q \in Requests : q # r => t.ctx[q] = Here.ctx[q]
      BY DEF OneContext
  <2>2. /\ d.sb = Here.ctx[r].sb /\ d.thread = Here.ctx[r].thread
        /\ d.submitted = Here.ctx[r].submitted
        /\ d.attached = Here.ctx[r].attached
        /\ d.canceled = Here.ctx[r].canceled /\ d.mgr = Here.ctx[r].mgr
        /\ d.fatalCleanupObserved = Here.ctx[r].fatalCleanupObserved
        /\ d.guard = Here.ctx[r].guard /\ d.temp = Here.ctx[r].temp
        /\ d.session = Here.ctx[r].session /\ Here.ctx[r].adm # "none"
      BY <1>2, HereIs DEF SameOwner
  <2> QED
      BY ONLY <1>1, <1>2, <2>1, <2>2, r \in Requests, d \in Contexts, SettledContext
<1> QED
    BY <1>1, <1>2, <1>3, HereIs DEF OneContext

\* The process is seen to have ended.
LEMMA ObserveStep ==
    ASSUME IInv, NEW r \in Requests, Observe(r)
    PROVE  IInv'
<1> DEFINE d == [ctx[r] EXCEPT !.observer = "done"]
           t == [Here EXCEPT !.ctx[r].observer = "done"]
<1>1. Here \in States /\ CtlPart(Here) /\ ctx[r] \in Contexts
    BY HereIs DEF IInv, States
<1>2. t = [Here EXCEPT !.ctx[r] = d]
    BY <1>1, HereIs DEF States, Contexts
<1>3. ctx[r].observer = "watching" /\ Gui(retireAsync(t, r))
    BY DEF Observe
<1>4. /\ d \in Contexts /\ d.observer = "done" /\ d.sb = ctx[r].sb
      /\ d.thread = ctx[r].thread /\ SameOwner(ctx[r], d)
      /\ d.guard = ctx[r].guard /\ d.temp = ctx[r].temp
      /\ d.session = ctx[r].session
    BY <1>1 DEF Contexts, SameOwner
<1> HIDE DEF d, t
<1>5. /\ t \in States /\ CtxPart(t) /\ CtlPart(t) /\ t.lch = Here.lch
      /\ t.ctx[r].adm = "resolved"
      /\ \A q \in Requests : t.ctx[q].thread = ctx[q].thread
  <2>1. OneContext(Here, t, r, d)
      BY <1>1, <1>2, <1>4, ContextSet
  <2> QED
      BY <1>3, <1>4, <2>1, Observed
<1>6. Follows(Here, retireAsync(t, r))
    BY <1>5, HereIs, SettledRetired DEF Follows
<1> QED
    BY <1>3, <1>6, Kept DEF Gui

\* Watching the process failed.
LEMMA ObserveErrorStep ==
    ASSUME IInv, NEW r \in Requests, ObserveError(r)
    PROVE  IInv'
<1> DEFINE d == [ctx[r] EXCEPT !.observer = "done", !.observationFailed = TRUE]
           t == [Here EXCEPT !.ctx[r].observer = "done",
                             !.ctx[r].observationFailed = TRUE]
           u == requestTerminateNoWait(t, r)
<1>1. Here \in States /\ CtlPart(Here) /\ ctx[r] \in Contexts
    BY HereIs DEF IInv, States
<1>2. t = [Here EXCEPT !.ctx[r] = d]
    BY <1>1, HereIs DEF States, Contexts
<1>3. /\ ctx[r].observer = "watching" /\ Become(retireAsync(u, r))
      /\ requested' = requested
    BY DEF ObserveError
<1>4. /\ d \in Contexts /\ d.observer = "done" /\ d.sb = ctx[r].sb
      /\ d.thread = ctx[r].thread /\ SameOwner(ctx[r], d)
      /\ d.guard = ctx[r].guard /\ d.temp = ctx[r].temp
      /\ d.session = ctx[r].session
    BY <1>1 DEF Contexts, SameOwner
<1> HIDE DEF d, t
<1>5. /\ t \in States /\ CtxPart(t) /\ CtlPart(t) /\ t.lch = Here.lch
      /\ t.ctx[r].adm = "resolved"
      /\ \A q \in Requests : t.ctx[q].thread = ctx[q].thread
  <2>1. OneContext(Here, t, r, d)
      BY <1>1, <1>2, <1>4, ContextSet
  <2> QED
      BY <1>3, <1>4, <2>1, Observed
<1>6. Stopped(t, u)
    BY <1>5, TerminationRequested
<1>7. CtxPart(u) /\ CtlPart(u)
    BY <1>5, <1>6, StoppedLaunches, StoppedControl
<1>8. /\ u \in States /\ u.lch.pending = t.lch.pending /\ u.ctx[r].adm = "resolved"
      /\ \A q \in Requests : u.ctx[q].thread = ctx[q].thread
    BY <1>5, <1>6 DEF Stopped, Undisturbed, SameLauncher, SameLaunch
<1> HIDE DEF u
<1>9. Follows(Here, retireAsync(u, r))
    BY <1>5, <1>7, <1>8, HereIs, SettledRetired DEF Follows
<1> QED
    BY <1>3, <1>9, Kept

-----------------------------------------------------------------------------
\* The retirement thread.

\* What is being retired is known to the launcher, and nothing was reported yet.
LEMMA BeingRetired ==
    ASSUME IInv, NEW r \in Requests, ctx[r].mgr \in {"active", "fatal"}
    PROVE  /\ Here \in States /\ CtxPart(Here) /\ CtlPart(Here)
           /\ ctx[r] \in Contexts /\ ContextOK(ctx[r]) /\ ctx[r].thread # "none"
           /\ Cared(lch, r) /\ ~Queued(Here, "retired", r)
<1>1. Here \in States /\ CtxPart(Here) /\ CtlPart(Here)
    BY DEF IInv
<1>2. ctx[r] \in Contexts /\ ContextOK(ctx[r])
    BY <1>1, HereIs DEF States, CtxPart
<1>3. ctx[r].thread # "none"
    BY <1>2 DEF ContextOK
<1>4. Cared(lch, r)
    BY <1>1, <1>3, HereIs DEF CtxPart, LaunchesOK, Occupied
<1>5. ~Queued(Here, "retired", r)
    BY <1>1, HereIs DEF Queued, CtxPart, QueueOK, EventOK
<1> QED
    BY <1>1, <1>2, <1>3, <1>4, <1>5

\* An attempt that failed is followed by another, or reported.
LEMMA FailedAttempt ==
    ASSUME NEW s \in States, CtxPart(s), CtlPart(s), NEW r \in Requests,
           s.ctx[r].mgr = "active", Cared(s.lch, r), ~Queued(s, "retired", r),
           s.ctx[r].thread # "none"
    PROVE  Follows(s, attemptFailed(s, r))
<1> DEFINE c == s.ctx[r]
           d == [c EXCEPT !.attempts = @ + 1]
           f == [d EXCEPT !.mgr = "fatal"]
           s1 == [s EXCEPT !.ctx[r].attempts = @ + 1]
           s2 == [s1 EXCEPT !.ctx[r].mgr = "fatal"]
           e == [t |-> "lost", r |-> r]
<1>1. c \in Contexts /\ ContextOK(c)
    BY DEF States, CtxPart
<1>2. c.attempts + 1 \in Nat
    BY <1>1 DEF Contexts
<1>3. s1 = [s EXCEPT !.ctx[r] = d]
    BY <1>1 DEF States, Contexts
<1>4. attemptFailed(s, r) \in {s1, Post(s2, e)}
    BY DEF attemptFailed
<1>5. e \in Events /\ e.t = "lost" /\ e.r = r
    BY DEF Events, Words, Ids
<1> HIDE DEF s1, e
<1>6. /\ d \in Contexts /\ d.sb = c.sb /\ d.thread = c.thread
      /\ d.guard = c.guard /\ d.temp = c.temp /\ d.observer = c.observer
      /\ SameOwner(c, d) /\ d.session = c.session
    BY <1>1, <1>2 DEF Contexts, SameOwner
<1> HIDE DEF d
<1>7. OneContext(s, s1, r, d) /\ s1 \in States /\ s1.ctx[r] = d
  <2>1. OneContext(s, s1, r, d)
      BY <1>3, <1>6, ContextSet
  <2> QED
      BY <2>1 DEF OneContext
<1>8. /\ f \in Contexts /\ f.sb = c.sb /\ f.thread = c.thread
      /\ f.guard = c.guard /\ f.temp = c.temp /\ f.observer = c.observer
      /\ f.mgr = "fatal" /\ f.submitted = c.submitted /\ f.attached = c.attached
      /\ f.canceled = c.canceled /\ f.adm = c.adm
      /\ f.fatalCleanupObserved = c.fatalCleanupObserved
    BY <1>6 DEF Contexts, SameOwner
<1>9. s2 = [s1 EXCEPT !.ctx[r] = f]
    BY <1>7 DEF States, Contexts
<1> HIDE DEF f, s2
<1>10. OneContext(s, s2, r, f)
  <2>1. OneContext(s1, s2, r, f)
      BY <1>7, <1>8, <1>9, ContextSet
  <2> QED
      BY <1>7, <2>1 DEF OneContext
<1>11. ContextOK(d)
  <2> HIDE DEF c
  <2> QED
      BY <1>1, <1>6 DEF ContextOK, SameOwner, Launching, Clean
<1>12. ContextOK(f)
  <2>1. c.mgr = "active"
      OBVIOUS
  <2> HIDE DEF c
  <2> QED
      BY <1>1, <1>8, <2>1 DEF ContextOK, Launching
<1>13. Follows(s, s1)
    BY <1>6, <1>7, <1>11, ContextMoves DEF SameOwner
<1>14. Follows(s, s2)
    BY <1>8, <1>10, <1>12, ContextMoves
<1>15. /\ s2 \in States /\ CtxPart(s2) /\ CtlPart(s2)
       /\ s2.lch = s.lch /\ s2.queue = s.queue /\ s2.ctx[r] = f
    BY <1>10, <1>14 DEF Follows, OneContext
<1>16. ~Queued(s2, "retired", r)
    BY <1>15 DEF Queued
<1>17. Follows(s2, Post(s2, e))
    BY <1>5, <1>8, <1>15, <1>16, PostedFollows DEF EventOK
<1>18. Follows(s, Post(s2, e))
    BY <1>14, <1>15, <1>17, FollowsTwice
<1> QED
    BY <1>4, <1>13, <1>18

\* One attempt of the retirement thread.
LEMMA AttemptStep ==
    ASSUME IInv, NEW r \in Requests, Attempt(r)
    PROVE  IInv'
<1>1. /\ Here \in States /\ CtxPart(Here) /\ CtlPart(Here)
      /\ ctx[r] \in Contexts /\ ContextOK(ctx[r]) /\ ctx[r].thread # "none"
      /\ Cared(lch, r) /\ ~Queued(Here, "retired", r)
    BY BeingRetired DEF Attempt
<1>2. ctx[r].mgr = "active" /\ ~Launching(ctx[r])
    BY DEF Attempt
<1>3. PICK c \in attemptRetirement(ctx[r]) :
        LET s == [Here EXCEPT !.ctx[r] = c]
        IN  \/ /\ Clean(c) /\ ~c.temp
               /\ Gui(Post([s EXCEPT !.ctx[r].mgr = "done"],
                           [t |-> "retired", r |-> r]))
            \/ /\ ~(Clean(c) /\ ~c.temp)
               /\ Incident /\ UNCHANGED requested
               /\ Become(attemptFailed(s, r))
    BY DEF Attempt
<1> DEFINE s == [Here EXCEPT !.ctx[r] = c]
           d == [c EXCEPT !.mgr = "done"]
           t == [s EXCEPT !.ctx[r].mgr = "done"]
           e == [t |-> "retired", r |-> r]
<1>4. /\ c \in Contexts /\ SandboxOK(c.sb) /\ ~c.session
      /\ Executing(c.sb) => c.guard /\ c.temp
      /\ c.thread = "finished"
      /\ c.submitted = ctx[r].submitted /\ c.attached = ctx[r].attached
      /\ c.canceled = ctx[r].canceled /\ c.mgr = ctx[r].mgr
      /\ c.fatalCleanupObserved = ctx[r].fatalCleanupObserved
      /\ c.adm = ctx[r].adm
      /\ (c.observer = "watching" => ctx[r].observer = "watching")
    BY <1>1, <1>2, <1>3, AttemptedRetirement
<1>5. \/ /\ Clean(c) /\ ~c.temp /\ Gui(Post(t, e))
      \/ Become(attemptFailed(s, r)) /\ requested' = requested
    BY <1>3
<1>6. e \in Events /\ e.t = "retired" /\ e.r = r
    BY DEF Events, Words, Ids
<1>7. OneContext(Here, s, r, c) /\ s \in States /\ s.ctx[r] = c
  <2>1. OneContext(Here, s, r, c)
      BY <1>1, <1>4, ContextSet
  <2> QED
      BY <2>1 DEF OneContext
<1>8. ctx[r].thread = "finished"
    BY <1>1, <1>2 DEF Launching
<1>9. t = [s EXCEPT !.ctx[r] = d]
    BY <1>7 DEF States
<1> HIDE DEF s, t, e
<1>10. CASE Become(attemptFailed(s, r)) /\ requested' = requested
  <2>1. ContextOK(c)
      BY <1>1, <1>2, <1>4, <1>8 DEF ContextOK, Launching
  <2>2. Follows(Here, s)
      BY <1>1, <1>4, <1>7, <1>8, <2>1, HereIs, ContextMoves
  <2>3. CtxPart(s) /\ CtlPart(s) /\ s.lch = Here.lch /\ s.queue = Here.queue
      BY <1>7, <2>2 DEF Follows, OneContext
  <2>4. ~Queued(s, "retired", r) /\ Cared(s.lch, r)
      BY <1>1, <2>3, HereIs DEF Queued
  <2>5. Follows(s, attemptFailed(s, r))
      BY <1>2, <1>4, <1>7, <2>3, <2>4, FailedAttempt
  <2>6. Follows(Here, attemptFailed(s, r))
      BY <2>2, <2>3, <2>5, FollowsTwice
  <2> QED
      BY <1>10, <2>6, Kept
<1>11. CASE Clean(c) /\ ~c.temp /\ Gui(Post(t, e))
  <2>1. /\ d \in Contexts /\ d.sb = c.sb /\ d.thread = c.thread /\ d.mgr = "done"
        /\ d.guard = c.guard /\ d.temp = c.temp /\ d.observer = c.observer
        /\ d.session = c.session /\ d.submitted = c.submitted
        /\ d.attached = c.attached /\ d.canceled = c.canceled /\ d.adm = c.adm
        /\ d.fatalCleanupObserved = c.fatalCleanupObserved
      BY <1>4 DEF Contexts
  <2> HIDE DEF d
  <2>2. OneContext(s, t, r, d)
      BY <1>7, <1>9, <2>1, ContextSet
  <2>3. OneContext(Here, t, r, d)
      BY <1>7, <2>2 DEF OneContext
  <2>4. Clean(d) /\ ~d.temp /\ ~d.session
      BY <1>4, <1>11, <2>1 DEF Clean
  <2>5. ContextOK(d)
      BY <1>1, <1>2, <1>4, <2>1, <2>4 DEF ContextOK, Launching, Clean
  <2>6. Follows(Here, t)
      BY <1>1, <1>2, <1>4, <1>8, <2>1, <2>3, <2>5, HereIs, ContextMoves
  <2>7. /\ t \in States /\ CtxPart(t) /\ CtlPart(t)
        /\ t.lch = Here.lch /\ t.queue = Here.queue /\ t.ctx[r] = d
      BY <2>3, <2>6 DEF Follows, OneContext
  <2>8. ~Queued(t, "retired", r) /\ EventOK(t, e)
      BY <1>1, <1>6, <2>1, <2>7, HereIs DEF Queued, EventOK
  <2>9. Follows(t, Post(t, e))
      BY <1>6, <2>7, <2>8, PostedFollows
  <2>10. Follows(Here, Post(t, e))
      BY <2>6, <2>7, <2>9, FollowsTwice
  <2> QED
      BY <1>11, <2>10, Kept DEF Gui
<1> QED
    BY <1>5, <1>10, <1>11

\* An attempt that gave up waiting for the launch thread.
LEMMA AttemptTooEarlyStep ==
    ASSUME IInv, NEW r \in Requests, AttemptTooEarly(r)
    PROVE  IInv'
<1>1. /\ Here \in States /\ CtxPart(Here) /\ CtlPart(Here)
      /\ ctx[r].thread # "none" /\ Cared(lch, r) /\ ~Queued(Here, "retired", r)
    BY BeingRetired DEF AttemptTooEarly
<1>2. Follows(Here, attemptFailed(Here, r))
    BY <1>1, HereIs, FailedAttempt DEF AttemptTooEarly
<1> QED
    BY <1>2, Kept DEF AttemptTooEarly

\* A fatal retirement is retried.
LEMMA RetryStep ==
    ASSUME IInv, NEW r \in Requests, RetryFatal(r)
    PROVE  IInv'
<1> DEFINE c == ctx[r]
           d == [c EXCEPT !.mgr = "active", !.attempts = 0]
           t == [Here EXCEPT !.ctx[r].mgr = "active", !.ctx[r].attempts = 0]
<1>1. /\ Here \in States /\ CtxPart(Here) /\ CtlPart(Here)
      /\ c \in Contexts /\ ContextOK(c) /\ c.thread # "none" /\ c.mgr = "fatal"
    BY BeingRetired DEF RetryFatal
<1>2. t = [Here EXCEPT !.ctx[r] = d] /\ Gui(t)
  <2>1. Gui(t)
      BY DEF RetryFatal
  <2>2. Here.ctx[r] = c
      BY HereIs
  <2>3. t = [Here EXCEPT !.ctx[r] = d]
      BY <2>2
  <2> QED
      BY <2>1, <2>3
<1> HIDE DEF t
<1>3. /\ d \in Contexts /\ d.sb = c.sb /\ d.thread = c.thread /\ d.mgr = "active"
      /\ d.guard = c.guard /\ d.temp = c.temp /\ d.observer = c.observer
      /\ d.submitted = c.submitted
      /\ d.attached = c.attached /\ d.canceled = c.canceled /\ d.adm = c.adm
      /\ d.fatalCleanupObserved = c.fatalCleanupObserved
    BY <1>1 DEF Contexts
<1>4. ContextOK(d)
  <2> HIDE DEF c, d
  <2> QED
      BY <1>1, <1>3 DEF ContextOK, Launching
<1> HIDE DEF d
<1>5. OneContext(Here, t, r, d)
    BY <1>1, <1>2, <1>3, ContextSet
<1>6. Follows(Here, t)
    BY <1>1, <1>3, <1>4, <1>5, HereIs, ContextMoves
<1> QED
    BY <1>2, <1>6, Kept DEF Gui

-----------------------------------------------------------------------------
\* Events of the GUI thread.

\* A launch that its thread handed on waits for the coordinator's answer, or is
\* given up.
LEMMA AdmissionRequested ==
    ASSUME NEW s \in States, CtxPart(s), CtlPart(s), NEW r \in Requests,
           MayAttach(s, r), s.ctx[r].thread = "finished", s.ctx[r].adm = "none",
           ~Queued(s, "admit", r)
    PROVE  Follows(s, requestAdmission(s, r))
<1> DEFINE c == s.ctx[r]
           d == [c EXCEPT !.adm = "waiting"]
           t == [s EXCEPT !.ctx[r].adm = "waiting"]
           a == retireAsync(s, r)
<1>1. c \in Contexts /\ ContextOK(c)
    BY DEF States, CtxPart
<1>2. t = [s EXCEPT !.ctx[r] = d]
    BY DEF States
<1>3. requestAdmission(s, r) \in {a, t}
    BY DEF requestAdmission
<1> HIDE DEF t, a
<1>4. CASE requestAdmission(s, r) = a
  <2>1. Abandoned(s, r)
      BY DEF Abandoned, Launching
  <2>2. /\ a \in States /\ CtxPart(a) /\ a.ctl = s.ctl /\ a.lch = s.lch
        /\ a.sess = s.sess /\ a.ctx[r].thread = s.ctx[r].thread
        /\ \A q \in Requests : q # r => a.ctx[q] = s.ctx[q]
      BY <2>1, OneRetired DEF a
  <2>3. CtlPart(a)
      BY <2>2 DEF CtlPart, hasPendingActivity
  <2> QED
      BY <1>4, <2>2, <2>3 DEF Follows
<1>5. CASE requestAdmission(s, r) = t
  <2>1. /\ d \in Contexts /\ d.sb = c.sb /\ d.thread = c.thread /\ d.mgr = c.mgr
        /\ d.guard = c.guard /\ d.temp = c.temp /\ d.observer = c.observer
        /\ d.submitted = c.submitted /\ d.session = c.session
        /\ d.attached = c.attached /\ d.canceled = c.canceled
        /\ d.fatalCleanupObserved = c.fatalCleanupObserved /\ d.adm = "waiting"
      BY <1>1 DEF Contexts
  <2>2. ContextOK(d)
    <3>1. c.thread = "finished" /\ c.adm = "none"
        OBVIOUS
    <3> HIDE DEF c, d
    <3> QED
        BY <1>1, <2>1, <3>1 DEF ContextOK, Launching, Clean
  <2> HIDE DEF d
  <2>3. OneContext(s, t, r, d)
      BY <1>2, <2>1, ContextSet
  <2>4. MayAttach(t, r)
      BY <2>1, <2>3 DEF MayAttach, OneContext
  <2>5. Moved(s, t, r)
      BY <2>1, <2>2, <2>3, <2>4 DEF Moved, Carried, OneContext
  <2>6. CtxPart(t)
      BY <2>3, <2>5, MovedLaunches DEF SameLauncher, OneContext
  <2>7. CtlPart(t)
      BY <2>3 DEF CtlPart, hasPendingActivity, OneContext
  <2> QED
      BY <1>5, <2>1, <2>3, <2>6, <2>7 DEF Follows, OneContext
<1> QED
    BY <1>3, <1>4, <1>5

\* The controller fails closed, from the Host's queue.
LEMMA FailedClosed ==
    ASSUME NEW s \in States, CtxPart(s), CtlPart(s)
    PROVE  Follows(s, failClosed(s))
<1> DEFINE e == [t |-> "cancel", r |-> 0]
           a == clearPendingAttach(s)
           b == Post(a, e)
           d == shutdown(b)
<1>1. e \in Events /\ e.t = "cancel"
    BY DEF Events, Words, Ids
<1>2. failClosed(s) = lchStopCurrent(d)
    BY DEF failClosed
<1> HIDE DEF a, b, d, e
<1>3. Stopped(s, a) /\ a.lch = s.lch
    BY PendingCleared DEF a
<1>4. a \in States /\ Follows(s, a)
    BY <1>3, StoppedFollows DEF Follows
<1>5. CtxPart(a) /\ CtlPart(a)
    BY <1>4 DEF Follows
<1>6. Follows(a, b) /\ b.lch = a.lch
    BY <1>1, <1>4, <1>5, PostedFollows DEF EventOK, b
<1>7. b \in States /\ CtxPart(b) /\ CtlPart(b)
    BY <1>6 DEF Follows
<1>8. Stopped(b, d)
    BY <1>7, Shut DEF d
<1>9. d \in States
    BY <1>8 DEF Stopped, Undisturbed
<1>10. Stopped(b, lchStopCurrent(d))
    BY <1>7, <1>8, <1>9, LauncherStopped, StoppedTwice
<1>11. Follows(b, lchStopCurrent(d))
    BY <1>7, <1>10, StoppedFollows
<1>12. Follows(s, b)
    BY <1>3, <1>4, <1>6, FollowsTwice
<1> QED
    BY <1>2, <1>3, <1>6, <1>11, <1>12, FollowsTwice

\* One queued event of the GUI thread.
LEMMA EventStep ==
    ASSUME IInv, HandleEvent
    PROVE  IInv'
<1> DEFINE e == Head(queue)
           s == [Here EXCEPT !.queue = Tail(@)]
<1>1. /\ Here \in States /\ CtxPart(Here) /\ CtlPart(Here) /\ Here.queue # <<>>
      /\ e = Head(Here.queue)
    BY HereIs DEF IInv, HandleEvent
<1>2. \/ e.t = "fail" /\ Gui(fail(s, e.r))
      \/ e.t = "admit" /\ Gui(requestAdmission(s, e.r))
      \/ e.t = "cancel" /\ Gui(cancel(s))
      \/ e.t = "failClosed" /\ Gui(failClosed(s))
      \/ e.t = "retired" /\ \E x \in handleRetirement(s, e.r, TRUE) : Gui(x)
      \/ e.t = "lost" /\ \E x \in handleRetirement(s, e.r, FALSE) : Gui(x)
      \/ /\ e.t \notin {"fail", "admit", "cancel", "failClosed", "retired", "lost"}
         /\ \E x \in completeLaunch(s, e.r, e.t) : Gui(x)
    BY DEF HandleEvent
<1>3. /\ s \in States /\ CtxPart(s) /\ CtlPart(s)
      /\ s.ctx = Here.ctx /\ s.lch = Here.lch
      /\ e \in Events /\ EventOK(s, e)
      /\ e.t = "retired" => ~Queued(s, "retired", e.r) /\ ~Queued(s, "lost", e.r)
      /\ e.t = "admit" => ~Queued(s, "admit", e.r)
    BY <1>1, Taken
<1> HIDE DEF s, e
<1>4. ASSUME NEW x, Gui(x), Follows(s, x)
      PROVE  IInv'
  <2>1. Follows(Here, x)
      BY <1>3, <1>4 DEF Follows
  <2> QED
      BY <1>4, <2>1, Kept DEF Gui
<1>5. CASE e.t = "fail" /\ Gui(fail(s, e.r))
  <2>1. Follows(s, fail(s, e.r))
      BY <1>3, FailStops, StoppedFollows
  <2> QED
      BY <1>4, <1>5, <2>1
<1>6. CASE e.t = "admit" /\ Gui(requestAdmission(s, e.r))
  <2>1. /\ e.r \in Requests /\ MayAttach(s, e.r) /\ s.ctx[e.r].thread = "finished"
        /\ s.ctx[e.r].adm = "none" /\ ~Queued(s, "admit", e.r)
      BY <1>3, <1>6 DEF EventOK
  <2>2. Follows(s, requestAdmission(s, e.r))
      BY <1>3, <2>1, AdmissionRequested
  <2> QED
      BY <1>4, <1>6, <2>2
<1>7. CASE e.t = "cancel" /\ Gui(cancel(s))
  <2>1. Follows(s, cancel(s))
      BY <1>3, Canceled DEF CtlPart, Follows
  <2> QED
      BY <1>4, <1>7, <2>1
<1>8. CASE e.t = "failClosed" /\ Gui(failClosed(s))
    BY <1>3, <1>4, <1>8, FailedClosed
<1>9. CASE e.t = "retired" /\ \E x \in handleRetirement(s, e.r, TRUE) : Gui(x)
  <2>1. PICK x \in handleRetirement(s, e.r, TRUE) : Gui(x)
      BY <1>9
  <2>2. /\ e.r \in Requests /\ Cared(s.lch, e.r) /\ s.ctx[e.r].mgr = "done"
        /\ ~Queued(s, "retired", e.r) /\ ~Queued(s, "lost", e.r)
      BY <1>3, <1>9 DEF EventOK
  <2>3. Follows(s, x)
      BY <1>3, <2>1, <2>2, RetirementHandled DEF Follows
  <2> QED
      BY <1>4, <2>1, <2>3
<1>10. CASE e.t = "lost" /\ \E x \in handleRetirement(s, e.r, FALSE) : Gui(x)
  <2>1. PICK x \in handleRetirement(s, e.r, FALSE) : Gui(x)
      BY <1>10
  <2>2. e.r \in Requests /\ Cared(s.lch, e.r) /\ s.ctx[e.r].mgr # "none"
      BY <1>3, <1>10 DEF EventOK
  <2>3. Follows(s, x)
      BY <1>3, <2>1, <2>2, RetirementHandled DEF Follows
  <2> QED
      BY <1>4, <2>1, <2>3
<1>11. CASE /\ e.t \notin {"fail", "admit", "cancel", "failClosed", "retired",
                           "lost"}
            /\ \E x \in completeLaunch(s, e.r, e.t) : Gui(x)
  <2>1. PICK x \in completeLaunch(s, e.r, e.t) : Gui(x)
      BY <1>11
  <2>2. e.t \in {"accepted", "rejected", "stale"}
      BY <1>3, <1>11 DEF Events, Words
  <2>3. e.r \in Requests /\ s.ctx[e.r].adm # "none"
      BY <1>3, <2>2 DEF EventOK
  <2>4. Follows(s, x)
      BY <1>3, <2>1, <2>3, LaunchCompleted DEF Follows
  <2> QED
      BY <1>4, <2>1, <2>4
<1> QED
    BY <1>2, <1>5, <1>6, <1>7, <1>8, <1>9, <1>10, <1>11

\* The coordinator's answer is on its way.
LEMMA AnswerStep ==
    ASSUME IInv, NEW r \in Requests, Answer(r)
    PROVE  IInv'
<1> DEFINE c == ctx[r]
           d == [c EXCEPT !.adm = "answered"]
           t == [Here EXCEPT !.ctx[r].adm = "answered"]
<1>1. /\ Here \in States /\ CtxPart(Here) /\ CtlPart(Here)
      /\ c \in Contexts /\ ContextOK(c)
    BY HereIs DEF IInv, States, CtxPart
<1>2. c.adm = "waiting"
    BY DEF Answer
<1>3. PICK a \in {"accepted", "rejected", "stale"} :
        Gui(Post(t, [t |-> a, r |-> r]))
    BY DEF Answer
<1> DEFINE e == [t |-> a, r |-> r]
<1>4. t = [Here EXCEPT !.ctx[r] = d]
    BY <1>1, HereIs DEF States
<1>5. /\ e \in Events /\ e.t \in {"accepted", "rejected", "stale"} /\ e.r = r
      /\ Gui(Post(t, e))
    BY <1>3 DEF Events, Words, Ids
<1> HIDE DEF t, e
<1>6. /\ d \in Contexts /\ d.sb = c.sb /\ d.thread = c.thread /\ d.mgr = c.mgr
      /\ d.guard = c.guard /\ d.temp = c.temp /\ d.observer = c.observer
      /\ d.submitted = c.submitted /\ d.session = c.session
      /\ d.attached = c.attached /\ d.canceled = c.canceled
      /\ d.fatalCleanupObserved = c.fatalCleanupObserved /\ d.adm = "answered"
    BY <1>1 DEF Contexts
<1>7. c.thread # "none" /\ ~Launching(c)
    BY <1>1, <1>2 DEF ContextOK
<1>8. ContextOK(d)
  <2> HIDE DEF c, d
  <2> QED
      BY <1>1, <1>2, <1>6, <1>7 DEF ContextOK, Launching, Clean
<1> HIDE DEF d
<1>9. OneContext(Here, t, r, d)
    BY <1>1, <1>4, <1>6, ContextSet
<1>10. MayAttach(t, r)
  <2>1. MayAttach(Here, r)
      BY <1>1, <1>2, HereIs DEF CtxPart, AdmissionsOK
  <2> QED
      BY <1>6, <1>9, <2>1, HereIs DEF MayAttach, OneContext
<1>11. ~Queued(Here, "admit", r)
    BY <1>1, <1>2, HereIs DEF Queued, CtxPart, QueueOK, EventOK
<1>12. Moved(Here, t, r)
    BY <1>2, <1>6, <1>7, <1>8, <1>9, <1>10, <1>11, HereIs
       DEF Moved, Carried, OneContext
<1>13. CtxPart(t)
    BY <1>1, <1>9, <1>12, MovedLaunches DEF SameLauncher, OneContext
<1>14. CtlPart(t)
    BY <1>1, <1>9 DEF CtlPart, hasPendingActivity, OneContext
<1>15. /\ Follows(Here, t) /\ t \in States /\ t.ctx[r] = d
       /\ t.lch = Here.lch
    BY <1>6, <1>9, <1>13, <1>14, HereIs DEF Follows, OneContext
<1>16. EventOK(t, e)
    BY <1>5, <1>6, <1>15 DEF EventOK
<1>17. Follows(t, Post(t, e))
    BY <1>5, <1>13, <1>14, <1>15, <1>16, PostedFollows
<1>18. Follows(Here, Post(t, e))
    BY <1>15, <1>17, FollowsTwice
<1> QED
    BY <1>5, <1>18, Kept DEF Gui

\* The admission is not answered in time.
LEMMA TimeoutStep ==
    ASSUME IInv, NEW r \in Requests, AdmissionTimeout(r)
    PROVE  IInv'
<1>1. Here \in States /\ CtxPart(Here) /\ CtlPart(Here)
    BY DEF IInv
<1>2. PICK s \in completeLaunch(Here, r, "timeout") : Gui(s)
    BY DEF AdmissionTimeout
<1>3. Here.ctx[r].adm # "none"
    BY HereIs DEF AdmissionTimeout
<1>4. Follows(Here, s)
    BY <1>1, <1>2, <1>3, LaunchCompleted DEF Follows
<1> QED
    BY <1>2, <1>4, Kept DEF Gui

\* A session that changes its state serves the Worker it served, or none.
LEMMA SessionChanges ==
    ASSUME NEW s \in States, CtxPart(s), CtlPart(s), NEW n \in Sessions,
           n.generation = s.sess.generation,
           NEW t, t = [s EXCEPT !.sess = n]
    PROVE  t \in States /\ CtxPart(t) /\ CtlPart(t) /\ t.lch = s.lch /\ t.ctx = s.ctx
<1>1. /\ t \in States /\ t.ctl = s.ctl /\ t.lch = s.lch /\ t.ctx = s.ctx
      /\ t.sess = n /\ t.queue = s.queue
    BY DEF States
<1>2. CtxPart(t)
    BY <1>1, SameContexts
<1>3. CtlPart(t)
    BY <1>1 DEF CtlPart, hasPendingActivity
<1> QED
    BY <1>1, <1>2, <1>3

\* The session fails.
LEMMA SessionFailsStep ==
    ASSUME IInv, SessionFails
    PROVE  IInv'
<1> DEFINE n == [sess EXCEPT !.state = "Failed"]
           s == [Here EXCEPT !.sess.state = "Failed"]
           x == IF /\ \/ sess.generation = ctl.generation
                      \/ sess.generation = ctl.pending.gen
                   /\ ctl.current # 0
                  THEN ctlStopCurrent(s) ELSE s
<1>1. Here \in States /\ CtxPart(Here) /\ CtlPart(Here) /\ sess \in Sessions
    BY HereIs DEF IInv, States
<1>2. s = [Here EXCEPT !.sess = n]
    BY <1>1, HereIs DEF States
<1>3. Become(x) /\ requested' = requested
    BY DEF SessionFails
<1>4. x \in {s, ctlStopCurrent(s)}
    OBVIOUS
<1> HIDE DEF s, x
<1>5. n \in Sessions /\ n.generation = Here.sess.generation
    BY <1>1, HereIs DEF Sessions
<1> HIDE DEF n
<1>6. s \in States /\ CtxPart(s) /\ CtlPart(s) /\ s.lch = Here.lch /\ s.ctx = Here.ctx
    BY <1>1, <1>2, <1>5, SessionChanges
<1>7. Stopped(s, s) /\ Stopped(s, ctlStopCurrent(s))
    BY <1>6, StoppedSame, CurrentStopped
<1>8. Follows(s, x)
    BY <1>4, <1>6, <1>7, StoppedFollows
<1>9. Follows(Here, x)
    BY <1>6, <1>8 DEF Follows
<1> QED
    BY <1>3, <1>9, Kept

\* The thread of the session has ended.
LEMMA SessionDetachesStep ==
    ASSUME IInv, SessionDetaches
    PROVE  IInv'
<1> DEFINE n == [sess EXCEPT !.io = FALSE,
                             !.state = IF @ = "Failed" THEN @ ELSE "Detached"]
           s == [Here EXCEPT !.sess.io = FALSE,
                             !.sess.state = IF @ = "Failed" THEN @ ELSE "Detached"]
<1>1. Here \in States /\ CtxPart(Here) /\ CtlPart(Here) /\ sess \in Sessions
    BY HereIs DEF IInv, States
<1>2. s = [Here EXCEPT !.sess = n]
    BY <1>1, HereIs DEF States, Sessions
<1>3. PICK x \in completePendingAttach(s) : Gui(x)
    BY DEF SessionDetaches
<1> HIDE DEF s
<1>4. n \in Sessions /\ n.generation = Here.sess.generation
    BY <1>1, HereIs DEF Sessions
<1> HIDE DEF n
<1>5. s \in States /\ CtxPart(s) /\ CtlPart(s) /\ s.lch = Here.lch /\ s.ctx = Here.ctx
    BY <1>1, <1>2, <1>4, SessionChanges
<1>6. Follows(s, x)
    BY <1>3, <1>5, PendingCompleted DEF Follows
<1>7. Follows(Here, x)
    BY <1>5, <1>6 DEF Follows
<1> QED
    BY <1>3, <1>7, Kept DEF Gui

\* The capability runtime is ready, or is not.
LEMMA CapabilityStep ==
    ASSUME IInv, CapabilityInitialized
    PROVE  IInv'
<1>1. Here \in States /\ CtxPart(Here) /\ CtlPart(Here) /\ ctl \in Controllers
    BY HereIs DEF IInv, States
<1>2. PICK cap \in {"ready", "failed"} :
        \E x \in completePendingAttach([Here EXCEPT !.ctl.pending.cap = cap]) : Gui(x)
    BY DEF CapabilityInitialized
<1> DEFINE p == [ctl.pending EXCEPT !.cap = cap]
           c == [ctl EXCEPT !.pending = p]
           s == [Here EXCEPT !.ctl.pending.cap = cap]
<1>3. PICK x \in completePendingAttach(s) : Gui(x)
    BY <1>2
<1>4. s = [Here EXCEPT !.ctl = c]
    BY <1>1, HereIs DEF States, Controllers
<1> HIDE DEF s
<1>5. ctl.pending \in Targets /\ ctl.pending # None
    BY <1>1 DEF Controllers, CapabilityInitialized, None
<1>6. p \in Targets /\ p.req = ctl.pending.req
    BY <1>2, <1>5 DEF Targets
<1> HIDE DEF p
<1>7. /\ c \in Controllers /\ c.pending = p /\ c.runtime = ctl.runtime
      /\ c.current = ctl.current /\ c.generation = ctl.generation
      /\ c.closing = ctl.closing /\ c.retired = ctl.retired
    BY <1>1, <1>6 DEF Controllers
<1> HIDE DEF c
<1>8. /\ s \in States /\ s.ctl = c /\ s.ctx = Here.ctx /\ s.lch = Here.lch
      /\ s.sess = Here.sess /\ s.queue = Here.queue
    BY <1>1, <1>4, <1>7, SetControl
<1>9. CtxPart(s)
    BY <1>1, <1>8, SameContexts
<1>10. CtlPart(s)
    BY <1>1, <1>5, <1>6, <1>7, <1>8, HereIs DEF CtlPart, hasPendingActivity
<1>11. Follows(s, x)
    BY <1>3, <1>8, <1>9, <1>10, PendingCompleted DEF Follows
<1>12. Follows(Here, x)
    BY <1>8, <1>11 DEF Follows
<1> QED
    BY <1>3, <1>12, Kept DEF Gui

-----------------------------------------------------------------------------
\* The invariant.

\* The invariant holds when the tab is opened.
LEMMA InitialState ==
    Init => IInv
<1> SUFFICES ASSUME Init PROVE IInv
    OBVIOUS
<1>1. NoContext \in Contexts /\ ContextOK(NoContext) /\ NoContext.thread = "none"
      /\ NoContext.adm = "none" /\ ~NoContext.fatalCleanupObserved
      /\ NoContext.mgr = "none"
    BY EmptySandbox DEF NoContext, Contexts, Steps, ContextOK, Launching, NoSandbox,
       Executing
<1>2. ctx \in [Requests -> Contexts] /\ \A r \in Requests : ctx[r] = NoContext
    BY <1>1 DEF Init
<1>3. ctl \in Controllers /\ lch \in Launchers /\ sess \in Sessions
      /\ queue \in Seq(Events) /\ nav \in Nat \ {0}
  <2>1. ctl \in Controllers
      BY NoTarget DEF Init, Controllers, Ids
  <2>2. lch \in Launchers /\ sess \in Sessions
      BY DEF Init, Launchers, Sessions, Ids
  <2>3. queue = <<>> /\ nav = 1
      BY DEF Init
  <2> QED
      BY <2>1, <2>2, <2>3
<1>4. Here \in States
    BY <1>2, <1>3 DEF Here, States
<1>5. LaunchesOK(Here)
    BY <1>1, <1>2, HereIs DEF Init, LaunchesOK, Cared, Occupied
<1>6. AdmissionsOK(Here)
    BY <1>1, <1>2, HereIs DEF AdmissionsOK, Launching
<1>7. QueueOK(Here)
  <2>1. Len(Here.queue) = 0
      BY HereIs DEF Init
  <2> QED
      BY <2>1 DEF QueueOK
<1>8. CtxPart(Here)
    BY <1>1, <1>2, <1>5, <1>6, <1>7, HereIs DEF CtxPart
<1>9. CtlPart(Here)
  <2>1. /\ Here.ctl.runtime = 0 /\ Here.ctl.pending = None /\ ~Here.ctl.closing
        /\ ~Here.ctl.retired
      BY HereIs DEF Init
  <2> QED
      BY <1>4, <2>1, ControllerHalted
<1>10. RequestsOK
    BY <1>1, <1>2 DEF Init, RequestsOK
<1> QED
    BY <1>4, <1>8, <1>9, <1>10 DEF IInv

\* Every action keeps it.
LEMMA StepKeepsInvariant ==
    IInv /\ [Next]_vars => IInv'
<1> SUFFICES ASSUME IInv, [Next]_vars PROVE IInv'
    OBVIOUS
<1>1. CASE UNCHANGED vars
  <2>1. Become(Here) /\ requested' = requested
      BY <1>1, HereIs DEF vars, Become
  <2>2. Follows(Here, Here)
      BY DEF IInv, Follows
  <2> QED
      BY <2>1, <2>2, Kept
<1>2. CASE RequestLaunch \/ RetargetPendingLaunch \/ CancelLaunchIfCurrent
           \/ Stop \/ HostFailClosed \/ Close \/ Navigate
    BY <1>2, RequestStep, RetargetStep, CancelStep, StopStep,
       HostFailClosedStep, CloseStep, NavigateStep
<1>3. CASE HandleEvent \/ SessionFails \/ SessionDetaches \/ CapabilityInitialized
    BY <1>3, EventStep, SessionFailsStep, SessionDetachesStep, CapabilityStep
<1>4. ASSUME NEW r \in Requests, LaunchThread(r)
      PROVE  IInv'
    BY <1>4, PrepareStep, ValidateStep, LaunchStep, HandshakeStep, RevalidateStep
       DEF LaunchThread
<1>5. ASSUME NEW r \in Requests, TerminationEnds(r) \/ WorkerDies(r)
      PROVE  IInv'
  <2>1. /\ Executing(ctx[r].sb) /\ Become([Here EXCEPT !.ctx[r].sb.exec = "dead"])
        /\ requested' = requested
      BY <1>5 DEF TerminationEnds, WorkerDies, Gui, Executing
  <2> QED
      BY <2>1, ProcessEnds
<1>6. ASSUME NEW r \in Requests, Observe(r) \/ ObserveError(r)
      PROVE  IInv'
    BY <1>6, ObserveStep, ObserveErrorStep
<1>7. ASSUME NEW r \in Requests, Attempt(r) \/ AttemptTooEarly(r) \/ RetryFatal(r)
      PROVE  IInv'
    BY <1>7, AttemptStep, AttemptTooEarlyStep, RetryStep
<1>8. ASSUME NEW r \in Requests, Answer(r) \/ AdmissionTimeout(r)
      PROVE  IInv'
    BY <1>8, AnswerStep, TimeoutStep
<1> QED
    BY <1>1, <1>2, <1>3, <1>4, <1>5, <1>6, <1>7, <1>8 DEF Next, Threads

\* The invariant that the theorems below are read from.
THEOREM TabInvariant == Spec => []IInv
<1>1. Init => IInv
    BY InitialState
<1>2. IInv /\ [Next]_vars => IInv'
    BY StepKeepsInvariant
<1> QED
    BY <1>1, <1>2, PTL DEF Spec

-----------------------------------------------------------------------------
\* What the invariant says of the tab.

\* One Worker, and confined.
LEMMA ConfinedByInvariant ==
    ASSUME IInv
    PROVE  WorkerIsOneAndConfined
<1>1. /\ Here \in States /\ CtxPart(Here) /\ CtlPart(Here) /\ RequestsOK
    BY DEF IInv
<1>2. /\ ctx \in [Requests -> Contexts] /\ lch \in Launchers
      /\ ctl \in Controllers /\ nav \in Nat \ {0}
      /\ \A r \in Requests : ctx[r] \in Contexts /\ ContextOK(ctx[r])
    BY <1>1, HereIs DEF States, CtxPart
<1>3. TypeOK
  <2>1. lch.inflight \subseteq Requests /\ lch.fatal \subseteq Requests
      BY <1>2 DEF Launchers
  <2>2. \A r \in Requests : /\ ctx[r].sb.acl \subseteq Grants
                            /\ ctx[r].mgr \in {"none", "active", "fatal", "done"}
      BY <1>2 DEF Contexts, Sandboxes
  <2> QED
      BY <1>1, <1>2, <2>1, <2>2 DEF TypeOK, RequestsOK
<1>4. WorkerIsConfined
  <2> SUFFICES ASSUME NEW r \in Requests, Executing(ctx[r].sb)
               PROVE  /\ ctx[r].guard /\ ctx[r].temp
                      /\ ctx[r].sb.process = Grants /\ ctx[r].sb.acl = Grants
      BY DEF WorkerIsConfined
  <2>1. /\ ctx[r].guard /\ ctx[r].temp /\ SandboxOK(ctx[r].sb)
      BY <1>2 DEF ContextOK
  <2>2. ctx[r].sb \in Sandboxes
      BY <1>2 DEF Contexts
  <2>3. ctx[r].sb.process = Grants /\ ctx[r].sb.acl = Owned(ctx[r].sb)
        /\ ctx[r].sb.acl \subseteq Grants
      BY <2>1, <2>2 DEF SandboxOK, Sandboxes
  <2>4. ctx[r].sb.process \subseteq ctx[r].sb.acl
      BY <2>3 DEF Owned
  <2> QED
      BY <2>1, <2>3, <2>4
<1>5. OneWorkerPerTab
  <2>1. \A q, r \in Requests :
          Executing(ctx[q].sb) /\ Executing(ctx[r].sb) => q = r
    <3>1. ASSUME NEW r \in Requests, Executing(ctx[r].sb)
          PROVE  Occupied(ctx[r])
      <4>1. ctx[r].sb # NoSandbox
          BY <3>1 DEF Executing, NoSandbox
      <4>2. ContextOK(ctx[r])
          BY <1>2
      <4>3. ctx[r].thread # "none" /\ ctx[r].mgr # "done"
          BY ONLY <3>1, <4>1, <4>2 DEF ContextOK, Clean
      <4> QED
          BY <4>3 DEF Occupied
    <3> QED
        BY <1>1, <3>1, HereIs DEF CtxPart, LaunchesOK
  <2> DEFINE W == {r \in Requests : Executing(ctx[r].sb)}
  <2>2. Cardinality(W) <= 1
    <3>1. CASE W = {}
        BY <3>1, FS_EmptySet
    <3>2. CASE W # {}
      <4>1. PICK r : r \in W
          BY <3>2
      <4>2. W = {r}
          BY <2>1, <4>1
      <4>3. Cardinality({r}) = 1
          BY FS_Singleton
      <4> HIDE DEF W
      <4> QED
          BY <4>2, <4>3
    <3> QED
        BY <3>1, <3>2
  <2>3. ctl.runtime # 0 =>
          /\ ctl.runtime = lch.current /\ ctx[ctl.runtime].attached
          /\ ctl.current = ctl.runtime /\ ctl.generation = sess.generation
      BY <1>1, HereIs DEF CtlPart, CtxPart, LaunchesOK
  <2>4. ctl.pending # None => ctl.runtime = 0
      BY <1>1, HereIs DEF CtlPart
  <2> QED
      BY <2>2, <2>3, <2>4 DEF OneWorkerPerTab
<1> QED
    BY <1>3, <1>4, <1>5 DEF WorkerIsOneAndConfined

\* Nothing of a launch outlives its owner.
LEMMA NothingLeaksByInvariant ==
    ASSUME IInv
    PROVE  NothingLeaks
<1> SUFFICES ASSUME NEW r \in Requests
             PROVE  /\ ctx[r].sb.acl = Owned(ctx[r].sb)
                    /\ ctx[r].mgr = "done" =>
                         /\ ctx[r].sb.acl = {} /\ ctx[r].sb.exec \in {"none", "closed"}
                         /\ ~ctx[r].guard /\ ~ctx[r].temp /\ ~ctx[r].session
                    /\ ctx[r].mgr = "none" /\ ctx[r].temp =>
                         Launching(ctx[r]) \/ r \in lch.inflight \/ r = lch.current
    BY DEF NothingLeaks
<1>1. CtxPart(Here) /\ ctx[r] \in Contexts /\ ContextOK(ctx[r])
    BY HereIs DEF IInv, States, CtxPart
<1>2. ctx[r].sb \in Sandboxes /\ SandboxOK(ctx[r].sb)
    BY <1>1 DEF Contexts, ContextOK
<1>3. ctx[r].sb.acl = Owned(ctx[r].sb)
    BY <1>2 DEF SandboxOK
<1>4. ctx[r].mgr = "done" =>
        /\ ctx[r].sb.acl = {} /\ ctx[r].sb.exec \in {"none", "closed"}
        /\ ~ctx[r].guard /\ ~ctx[r].temp /\ ~ctx[r].session
  <2>1. ctx[r].mgr = "done" =>
          Clean(ctx[r]) /\ ~ctx[r].temp /\ ~ctx[r].session
      BY <1>1 DEF ContextOK
  <2>2. Clean(ctx[r]) => /\ Owned(ctx[r].sb) = {} /\ ~ctx[r].guard
                         /\ ctx[r].sb.exec \in {"none", "closed"}
      BY <1>2 DEF Clean, Executing, Sandboxes
  <2> QED
      BY <1>3, <2>1, <2>2
<1>5. ctx[r].mgr = "none" /\ ctx[r].temp =>
        Launching(ctx[r]) \/ r \in lch.inflight \/ r = lch.current
  <2>1. ctx[r].mgr = "none" /\ ctx[r].temp => Occupied(ctx[r])
      BY <1>1 DEF ContextOK, Occupied
  <2>2. /\ Occupied(ctx[r]) => Cared(lch, r)
        /\ r \in lch.fatal => ctx[r].mgr # "none"
      BY <1>1, HereIs DEF CtxPart, LaunchesOK
  <2> QED
      BY <2>1, <2>2 DEF Cared
<1> QED
    BY <1>3, <1>4, <1>5

\* Nothing is behind a retirement.
LEMMA RetiredByInvariant ==
    ASSUME IInv
    PROVE  RetiredMeansGone
<1> SUFFICES ASSUME ctl.retired
             PROVE  /\ ~hasPendingActivity(Here) /\ ctl.runtime = 0
                    /\ \A r \in Requests : ctx[r].sb.acl = {}
                         /\ ~Executing(ctx[r].sb) /\ ~ctx[r].temp
    BY DEF RetiredMeansGone
<1>1. CtxPart(Here) /\ CtlPart(Here)
    BY DEF IInv
<1>2. ~hasPendingActivity(Here) /\ ctl.runtime = 0
    BY <1>1, HereIs DEF CtlPart
<1>3. ASSUME NEW r \in Requests
      PROVE  ctx[r].sb.acl = {} /\ ~Executing(ctx[r].sb) /\ ~ctx[r].temp
  <2>1. ~Cared(lch, r)
      BY <1>2, HereIs DEF hasPendingActivity, Cared
  <2>2. ~Occupied(ctx[r]) /\ ContextOK(ctx[r])
      BY <1>1, <2>1, HereIs DEF CtxPart, LaunchesOK
  <2>3. CASE ctx[r].thread = "none"
    <3>1. ctx[r].sb = NoSandbox /\ ~ctx[r].temp
        BY <2>2, <2>3 DEF ContextOK
    <3> QED
        BY <3>1 DEF NoSandbox, Executing
  <2>4. CASE ctx[r].mgr = "done"
    <3>1. Clean(ctx[r]) /\ ~ctx[r].temp /\ ctx[r].sb.acl = Owned(ctx[r].sb)
        BY <2>2, <2>4 DEF ContextOK, SandboxOK
    <3> QED
        BY <3>1 DEF Clean
  <2> QED
      BY <2>2, <2>3, <2>4 DEF Occupied
<1> QED
    BY <1>2, <1>3

\* At most one Worker of the tab lives, it is the one the controller serves if
\* it serves any, and as long as it executes it holds its package guard, its
\* temporary directory and every grant it was launched with (the launcher's
\* single slot, SandboxProcess::closeExecution before every other close).
THEOREM TabServesOneConfinedWorker == Spec => []WorkerIsOneAndConfined
<1>1. IInv => WorkerIsOneAndConfined
    BY ConfinedByInvariant
<1> QED
    BY <1>1, TabInvariant, PTL

\* No access right outlives its owner, and a launch that was reported as
\* cleaned up has left nothing (AclGrant::close and attemptRetirement, for any
\* failures in any order).
THEOREM TabLeaksNothing == Spec => []NothingLeaks
<1>1. IInv => NothingLeaks
    BY NothingLeaksByInvariant
<1> QED
    BY <1>1, TabInvariant, PTL

\* A controller that announced its retirement, and may be deleted, has left no
\* Worker, no launch and no clean-up behind.
THEOREM TabRetiresLast == Spec => []RetiredMeansGone
<1>1. IInv => RetiredMeansGone
    BY RetiredByInvariant
<1> QED
    BY <1>1, TabInvariant, PTL
===============================================================================
