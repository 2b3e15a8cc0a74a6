------------------------------ MODULE Commands ------------------------------
(***************************************************************************)
(* The commands of src/axis/cli.py that act on a container another process *)
(* runs: `axis stop`, `axis clean` and `axis reconcile`.  Each parameter p *)
(* is one invocation.                                                      *)
(***************************************************************************)
EXTENDS Cleanup

(***************************************************************************)
(* stop_command.                                                           *)
(***************************************************************************)
StopResolve(p) ==
  /\ pc[p] = "stop"
  /\ Look(p, IF "runtime" \in files THEN "stopStatus" ELSE "stopRaised")
  /\ UNCHANGED runVars

StopStatus(p) ==
  /\ pc[p] = "stopStatus"
  /\ Look(p, IF ReadStatus.state \in Terminal THEN "stopIdle" ELSE "stopPid")
  /\ UNCHANGED runVars

StopPid(p) ==
  /\ pc[p] = "stopPid"
  /\ Look(p, IF IsPidAlive(ReadPid) THEN "stopMark" ELSE "stopIdle")
  /\ UNCHANGED runVars

\* Nothing seems to run: record the stop without a transition.
StopIdle(p) ==
  /\ pc[p] = "stopIdle"
  /\ WriteBegin(p, [ReadStatus EXCEPT !.state = "exited", !.manual_stop = TRUE],
                "stopDone")
  /\ UNCHANGED runVars

StopMarkForgetsIntent(p) ==
  /\ pc[p] = "stopMark"
  /\ TransitionBegin(p, [ReadStatus EXCEPT !.state = "stopping"], "procs", "stopRaised")
  /\ UNCHANGED runVars

StopMark(p) ==
  /\ pc[p] = "stopMark"
  /\ TransitionBegin(p, [ReadStatus EXCEPT !.state = "stopping", !.manual_stop = TRUE],
                     "procs", "stopRaised")
  /\ UNCHANGED runVars

StopExit(p) ==
  /\ pc[p] = "stopExit"
  /\ TransitionBegin(p, [ReadStatus EXCEPT !.state = "exited", !.manual_stop = TRUE,
                                           !.exit_reason = "stopped"],
                     "stopDone", "stopRaised")
  /\ UNCHANGED runVars

StopCommand(p) ==
  \/ StopResolve(p) \/ StopStatus(p) \/ StopPid(p) \/ StopIdle(p)
  \/ StopMark(p) \/ StopProcesses(p) \/ StopExit(p) \/ Commit(p)

(***************************************************************************)
(* clean_command.                                                          *)
(***************************************************************************)
CleanResolve(p) ==
  /\ pc[p] = "clean"
  /\ Look(p, IF "runtime" \in files THEN "cleanStart" ELSE "cleanUnknown")
  /\ UNCHANGED runVars

CleanUnknown(p) ==
  /\ pc[p] = "cleanUnknown"
  /\ Look(p, IF files = {} THEN "cleanDone" ELSE "cleanRaised")
  /\ UNCHANGED runVars

CleanCommand(p) ==
  \/ CleanResolve(p) \/ CleanUnknown(p)
  \/ CleanupState(p) \/ CleanupNetwork(p) \/ StopProcesses(p) \/ Commit(p)

(***************************************************************************)
(* reconcile_command, on the one container there is.                       *)
(***************************************************************************)
ReconcileFind(p) ==
  /\ pc[p] = "rec"
  /\ Look(p, IF "runtime" \in files THEN "recStatus" ELSE "recDone")
  /\ UNCHANGED runVars

ReconcileRunningOnly(p) ==
  /\ pc[p] = "recStatus"
  /\ Look(p, IF "runtime" \notin files THEN "recRaised"
             ELSE IF ReadStatus.state = "running" THEN "recPid" ELSE "recNet")
  /\ UNCHANGED runVars

ReconcileStatus(p) ==
  /\ pc[p] = "recStatus"
  /\ Look(p, IF "runtime" \notin files THEN "recRaised"
             ELSE IF ReadStatus.state \in {"running", "starting", "stopping"}
                  THEN "recPid" ELSE "recNet")
  /\ UNCHANGED runVars

ReconcilePid(p) ==
  /\ pc[p] = "recPid"
  /\ Look(p, IF IsPidAlive(ReadPid) THEN "recNet" ELSE "recFail")
  /\ UNCHANGED runVars

\* A write that raises PermissionError is reported and left.
ReportsOnly(p, label) == p \in Unprivileged /\ Look(p, label)

ReconcileFail(p) ==
  /\ pc[p] = "recFail"
  /\ \/ ReportsOnly(p, "recNet")
     \/ /\ p \notin Unprivileged
        /\ WriteBegin(p, [ReadStatus EXCEPT !.state = "failed", !.exit_reason = "stale_pid"],
                      "recNet")
  /\ UNCHANGED runVars

ReconcileNetwork(p) ==
  /\ pc[p] = "recNet"
  /\ Look(p, IF "network" \in files THEN "recProxies" ELSE "recDone")
  /\ UNCHANGED runVars

\* The proxies that are alive are worked out now and written back later.
ReconcileProxies(p) ==
  /\ pc[p] = "recProxies"
  /\ targets' = [targets EXCEPT ![p] = network \cap proxies]
  /\ Goto(p, IF "network" \notin files THEN "recRaised"
             ELSE IF network \subseteq proxies THEN "recDone" ELSE "recWrite")
  /\ UNCHANGED <<next, pending, victims, pidRead, dirVars, procVars, netVars, runVars>>

ReconcileWrite(p) ==
  /\ pc[p] = "recWrite"
  /\ \/ ReportsOnly(p, "recDone")
     \/ /\ p \notin Unprivileged
        /\ network' = targets[p]
        /\ files' = files \cup {"network"}
        /\ Goto(p, "recDone")
        /\ UNCHANGED <<next, pending, targets, victims, pidRead, status, pidFile, lock>>
        /\ UNCHANGED <<procVars, netVars>>
  /\ UNCHANGED runVars

ReconcileCommand(p) ==
  \/ ReconcileFind(p) \/ ReconcileStatus(p) \/ ReconcilePid(p) \/ ReconcileFail(p)
  \/ ReconcileNetwork(p) \/ ReconcileProxies(p) \/ ReconcileWrite(p) \/ Commit(p)

=============================================================================
