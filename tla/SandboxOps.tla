----------------------------- MODULE SandboxOps -----------------------------
(***************************************************************************)
(* runtime/sandbox/windows/SandboxLauncher and AclGrant: what preparing,   *)
(* launching and closing a sandboxed Worker does to the access control     *)
(* lists it changes, and which object then owes each of them its           *)
(* restoration.  A call that can fail half way is the set of the sandboxes *)
(* it can leave behind.                                                    *)
(***************************************************************************)
EXTENDS FiniteSets

\* The lists a launch changes: the package directory (prepare), the Worker's
\* temporary directory and the runtime resources (launch).
LaunchGrants == {"temp", "runtime"}
Grants == {"package"} \cup LaunchGrants

\* acl: the changes in force on disk.  prepared, process, cleanup: the grants
\* that SandboxPreparedLaunch, SandboxProcess and failedLaunchCleanup hold.
NoSandbox == [acl |-> {}, prepared |-> {}, process |-> {}, cleanup |-> {},
              exec |-> "none"]

Executing(sb) == sb.exec \in {"running", "dying"}
Owned(sb) == sb.prepared \cup sb.process \cup sb.cleanup

\* AclGrant::close on everything `owner' holds: a grant that cannot be
\* restored stays with its owner.
closeGrants(sb, owner) ==
    {[sb EXCEPT !.acl = @ \ (sb[owner] \ kept), ![owner] = kept] :
        kept \in SUBSET sb[owner]}

\* SandboxLauncher::prepare: the package grant is its last step.
prepare(sb) == [sb EXCEPT !.acl = {"package"}, !.prepared = {"package"}]

BugForgetsFailedRestore(sb, applied) ==
    {[sb EXCEPT !.acl = @ \cup (applied \ restored)] :
        restored \in SUBSET applied}

\* failureAfterCheckedRollback: the grants applied so far are undone; what
\* cannot be goes to an owner that will try again.
failureAfterCheckedRollback(sb, applied) ==
    closeGrants([sb EXCEPT !.acl = @ \cup applied, !.cleanup = applied],
                "cleanup")

\* SandboxLauncher::launch: before the first grant, after the temporary
\* directory's, or after all of them (creating, assigning to the job and
\* resuming the process included).
launchFailures(sb) ==
    {sb} \cup UNION {failureAfterCheckedRollback(sb, applied) :
                       applied \in {{"temp"}, LaunchGrants}}

launched(sb) ==
    [sb EXCEPT !.acl = @ \cup LaunchGrants,
               !.process = sb.prepared \cup LaunchGrants,
               !.prepared = {}, !.exec = "running"]

\* SandboxProcess::requestTerminateNoWait.
terminate(sb) ==
    IF sb.exec = "running" THEN [sb EXCEPT !.exec = "dying"] ELSE sb

\* SandboxProcess::closeExecution waits for the process, at most five seconds.
closeExecution(sb) ==
    IF sb.exec \in {"none", "closed"} THEN {sb}
      ELSE {sb, [sb EXCEPT !.exec = "closed"]}
=============================================================================
