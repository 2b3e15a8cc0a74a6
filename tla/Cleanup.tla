------------------------------- MODULE Cleanup -------------------------------
(***************************************************************************)
(* The two procedures of src/axis/cli.py that more than one command runs:  *)
(* cleanup_network_state and stop_container_processes, and the body of     *)
(* cleanup_container_state, which `axis clean` and an interrupted          *)
(* `axis run` both end in.                                                 *)
(***************************************************************************)
EXTENDS ContainerState

\* The value of an `axis run` that ends in cleanup_container_state is its own.
Cleaned(p) == IF p = Run THEN "returned" ELSE "cleanDone"
CleanRaised(p) == IF p = Run THEN "raised" ELSE "cleanRaised"

(***************************************************************************)
(* cleanup_network_state, called when network.json exists: read it, kill   *)
(* every proxy it lists, delete the veth and release the address.  The     *)
(* file may be gone by the time it is read.                                *)
(***************************************************************************)
NetCheck(p, cont) ==
  /\ next' = [next EXCEPT ![p] = cont]
  /\ Goto(p, IF "network" \in files THEN "netRead" ELSE cont)
  /\ UNCHANGED <<pending, targets, victims, pidRead, dirVars, procVars, netVars>>

NetRead(p) ==
  /\ pc[p] = "netRead"
  /\ \/ /\ "network" \in files
        /\ targets' = [targets EXCEPT ![p] = network]
        /\ Goto(p, "netKill")
     \/ /\ "network" \notin files
        /\ Goto(p, CleanRaised(p))
        /\ UNCHANGED targets
  /\ UNCHANGED <<next, pending, victims, pidRead, dirVars, procVars, netVars, runVars>>

NetKillNone(p) ==
  /\ pc[p] = "netKill"
  /\ Look(p, "netRelease")
  /\ UNCHANGED runVars

NetKill(p) ==
  /\ pc[p] = "netKill"
  /\ proxies' = proxies \ targets[p]
  /\ targets' = [targets EXCEPT ![p] = {}]
  /\ Goto(p, "netRelease")
  /\ UNCHANGED <<next, pending, victims, pidRead, dirVars, procVars, ip, runVars>>

NetRelease(p) ==
  /\ pc[p] = "netRelease"
  /\ ip' = FALSE
  /\ Goto(p, next[p])
  /\ UNCHANGED <<next, pending, targets, victims, pidRead, dirVars, procVars, proxies, runVars>>

CleanupNetwork(p) == NetRead(p) \/ NetKill(p) \/ NetRelease(p)

(***************************************************************************)
(* stop_container_processes.  With the cgroup path of runtime.json it      *)
(* signals the members of the cgroup, waits, and writes cgroup.kill for    *)
(* whoever is left when it stops waiting.  Without members it falls back   *)
(* on the pid file and terminate_pid(force=True).  Time is abstract: a     *)
(* wait may end in any later state.                                        *)
(***************************************************************************)
Members == IF "runtime" \in files THEN cgroup ELSE {}

\* Until axis-runtime releases it the process has no handler, and the init of
\* a pid namespace ignores what it does not handle.
Handling(pids) == pids \cap cgroup

AfterKill(p) == IF p \in Stops THEN "stopExit" ELSE "cleanDeleted"

SignalMembers(p) ==
  /\ pc[p] = "procs"
  /\ Members # {}
  /\ term' = term \cup Members
  /\ Goto(p, "wait")
  /\ UNCHANGED <<next, pending, targets, victims, pidRead, dirVars, netVars, runVars>>
  /\ UNCHANGED <<starts, live, cgroup, kill, exits>>

WaitGivesUp(p) ==
  /\ pc[p] = "wait"
  /\ Goto(p, AfterKill(p))
  /\ UNCHANGED <<next, pending, targets, victims, pidRead, dirVars, netVars, runVars>>
  /\ UNCHANGED procVars

WaitMembers(p) ==
  /\ pc[p] = "wait"
  /\ kill' = kill \cup cgroup
  /\ Goto(p, AfterKill(p))
  /\ UNCHANGED <<next, pending, targets, victims, pidRead, dirVars, netVars, runVars>>
  /\ UNCHANGED <<starts, live, cgroup, term, exits>>

SignalPid(p) ==
  /\ pc[p] = "procs"
  /\ Members = {}
  /\ \/ /\ IsPidAlive(ReadPid)
        /\ pidRead' = [pidRead EXCEPT ![p] = ReadPid]
        /\ term' = term \cup Handling({ReadPid})
        /\ Goto(p, "force")
     \/ /\ ~IsPidAlive(ReadPid)
        /\ Goto(p, AfterKill(p))
        /\ UNCHANGED <<pidRead, term>>
  /\ UNCHANGED <<next, pending, targets, victims, dirVars, netVars, runVars>>
  /\ UNCHANGED <<starts, live, cgroup, kill, exits>>

ForcePid(p) ==
  /\ pc[p] = "force"
  /\ kill' = kill \cup (live \cap {pidRead[p]})
  /\ pidRead' = [pidRead EXCEPT ![p] = 0]
  /\ Goto(p, AfterKill(p))
  /\ UNCHANGED <<next, pending, targets, victims, dirVars, netVars, runVars>>
  /\ UNCHANGED <<starts, live, cgroup, term, exits>>

StopProcesses(p) ==
  SignalMembers(p) \/ WaitMembers(p) \/ SignalPid(p) \/ ForcePid(p)

(***************************************************************************)
(* cleanup_container_state, from the check that the directory exists.      *)
(***************************************************************************)
CleanStart(p) ==
  /\ pc[p] = "cleanStart"
  /\ Look(p, IF files = {} THEN Cleaned(p)
             ELSE IF "runtime" \in files THEN "cleanMark" ELSE CleanRaised(p))
  /\ UNCHANGED runVars

CleanMark(p) ==
  /\ pc[p] = "cleanMark"
  /\ WriteBegin(p, [ReadStatus EXCEPT !.state = "stopping", !.manual_stop = TRUE],
                "cleanNet")
  /\ UNCHANGED runVars

CleanNetwork(p) ==
  /\ pc[p] = "cleanNet"
  /\ NetCheck(p, "procs")
  /\ UNCHANGED runVars

CleanDeleted(p) ==
  /\ pc[p] = "cleanDeleted"
  /\ WriteBegin(p, [ReadStatus EXCEPT !.state = "deleted", !.manual_stop = TRUE],
                "cleanScan")
  /\ UNCHANGED runVars

\* remove_container: rmtree lists the directory, then unlinks what it listed.
CleanScan(p) ==
  /\ pc[p] = "cleanScan"
  /\ victims' = [victims EXCEPT ![p] = files]
  /\ Goto(p, "cleanUnlink")
  /\ UNCHANGED <<next, pending, targets, pidRead, dirVars, procVars, netVars, runVars>>

\* An unlinked container.lock stays locked for its holder only: whoever
\* opens the path next creates and locks another file.
CleanUnlink(p) ==
  /\ pc[p] = "cleanUnlink"
  /\ \E entry \in victims[p] :
       /\ victims' = [victims EXCEPT ![p] = @ \ {entry}]
       /\ files' = files \ {entry}
       /\ status' = IF entry = "status" THEN DefaultStatus ELSE status
       /\ pidFile' = IF entry = "pid" THEN 0 ELSE pidFile
       /\ network' = IF entry = "network" THEN {} ELSE network
       /\ lock' = IF entry = "lock" /\ entry \in files THEN Nobody ELSE lock
  /\ UNCHANGED <<pc, next, pending, targets, pidRead>>
  /\ UNCHANGED <<procVars, netVars, runVars>>

CleanEnd(p) ==
  /\ pc[p] = "cleanUnlink"
  /\ victims[p] = {}
  /\ Look(p, Cleaned(p))
  /\ UNCHANGED runVars

CleanupState(p) ==
  \/ CleanStart(p) \/ CleanMark(p) \/ CleanNetwork(p) \/ CleanDeleted(p)
  \/ CleanScan(p) \/ CleanUnlink(p) \/ CleanEnd(p)

=============================================================================
