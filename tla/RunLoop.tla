------------------------------- MODULE RunLoop -------------------------------
(***************************************************************************)
(* `axis run`: run_command, run_container_loop and run_container_once of   *)
(* src/axis/cli.py, with the calls they make into state.py, runtime.py and *)
(* network.py.  The process stays attached to the container, and with      *)
(* RESTART always it launches it again after each exit.                    *)
(***************************************************************************)
EXTENDS Cleanup

At(label) == pc[Run] = label

(***************************************************************************)
(* run_command, up to the loop: the directory, the first transition, the   *)
(* root filesystem, runtime.json.                                          *)
(***************************************************************************)
CreateState ==
  /\ At("create")
  /\ files' = files \cup {"other"}
  /\ Goto(Run, "created")
  /\ UNCHANGED <<next, pending, targets, victims, pidRead, status, pidFile, network, lock>>
  /\ UNCHANGED <<procVars, netVars, runVars>>

MarkCreated ==
  /\ At("created")
  /\ TransitionBegin(Run, [ReadStatus EXCEPT !.state = "created", !.manual_stop = FALSE],
                     "prepare", "raised")
  /\ UNCHANGED runVars

WriteRuntimeConfig ==
  /\ At("prepare")
  /\ files' = files \cup {"runtime"}
  /\ Goto(Run, "journal")
  /\ UNCHANGED <<next, pending, targets, victims, pidRead, status, pidFile, network, lock>>
  /\ UNCHANGED <<procVars, netVars, runVars>>

\* The cgroup path is read back from runtime.json and added to the journal.
JournalCgroup ==
  /\ At("journal")
  /\ \/ "runtime" \in files /\ AddResource(Run, "loop")
     \/ "runtime" \notin files /\ Look(Run, "raised")
  /\ UNCHANGED runVars

(***************************************************************************)
(* run_container_loop: read the status, then go to "starting" with the     *)
(* values that were read.                                                  *)
(***************************************************************************)
LoopRead ==
  /\ At("loop")
  /\ seen' = ReadStatus
  /\ Look(Run, "starting")
  /\ UNCHANGED <<runtime, listed, netWritten, outcome>>

MarkStarting ==
  /\ At("starting")
  /\ TransitionBegin(Run,
       [ReadStatus EXCEPT !.state = "starting", !.manual_stop = seen.manual_stop,
                          !.restart_count = seen.restart_count],
       "launch", "raised")
  /\ UNCHANGED runVars

\* The locals with which run_container_once begins.
FreshLocals == runtime' = 0 /\ netWritten' = FALSE /\ listed' = {}

(***************************************************************************)
(* run_container_once.  axis-runtime fails without runtime.json, which is  *)
(* an error of start_runtime; the container it clones exists from here on, *)
(* blocked until axis-runtime has put it in its cgroup.                    *)
(***************************************************************************)
Launch ==
  /\ At("launch")
  /\ FreshLocals
  /\ outcome' = "ok"
  /\ \/ /\ "runtime" \in files
        /\ starts' = starts + 1
        /\ live' = live \cup {starts + 1}
        /\ Goto(Run, "report")
        /\ UNCHANGED files
     \/ /\ "runtime" \notin files
        /\ files' = files \cup {"other"}
        /\ Goto(Run, "fail")
        /\ UNCHANGED <<starts, live>>
  /\ UNCHANGED <<next, pending, targets, victims, pidRead, status, pidFile, network, lock>>
  /\ UNCHANGED <<cgroup, term, kill, exits, netVars, seen>>

\* start_runtime reads the pid from the first line of axis-runtime, which is
\* appended to logs.txt first; the directory is recreated for that.
ReadReport ==
  /\ At("report")
  /\ files' = files \cup {"other"}
  /\ runtime' = starts
  /\ Goto(Run, "writePid")
  /\ UNCHANGED <<next, pending, targets, victims, pidRead, status, pidFile, network, lock>>
  /\ UNCHANGED <<procVars, netVars, seen, listed, netWritten, outcome>>

WritePid ==
  /\ At("writePid")
  /\ \/ /\ files # {}
        /\ pidFile' = starts
        /\ files' = files \cup {"pid"}
        /\ Goto(Run, "markRunning")
     \/ /\ files = {}
        /\ Goto(Run, "fail")
        /\ UNCHANGED <<pidFile, files>>
  /\ UNCHANGED <<next, pending, targets, victims, pidRead, status, network, lock>>
  /\ UNCHANGED <<procVars, netVars, runVars>>

MarkRunning ==
  /\ At("markRunning")
  /\ TransitionBegin(Run, [ReadStatus EXCEPT !.state = "running", !.manual_stop = FALSE],
                     "allocIp", "fail")
  /\ UNCHANGED runVars

AllocateIp ==
  /\ At("allocIp")
  /\ ip' = TRUE
  /\ Goto(Run, "netConfig")
  /\ UNCHANGED <<next, pending, targets, victims, pidRead, dirVars, procVars, proxies, runVars>>

\* The rest of setup_network enters the namespaces of the container process
\* and raises when that process is gone; it recreates rootfs/etc.
ConfigureNetwork ==
  /\ At("netConfig")
  /\ \/ /\ IsPidAlive(starts)
        /\ files' = files \cup {"other"}
        /\ Goto(Run, "journalNet")
     \/ /\ ~IsPidAlive(starts)
        /\ Goto(Run, "fail")
        /\ UNCHANGED files
  /\ UNCHANGED <<next, pending, targets, victims, pidRead, status, pidFile, network, lock>>
  /\ UNCHANGED <<procVars, netVars, runVars>>

JournalNetwork ==
  /\ At("journalNet")
  /\ AddResource(Run, "proxy")
  /\ UNCHANGED runVars

\* start_port_proxies, one mapping: the proxy binds the port; when another
\* live proxy holds it, the new one exits, either before it is polled (the
\* command raises) or after (its pid is recorded all the same).
StartProxy ==
  /\ At("proxy")
  /\ \E port \in Ports \ {x[2] : x \in listed} :
       LET proxy == <<starts, port>>
           taken == \E x \in proxies : x[2] = port
       IN \/ /\ listed' = listed \cup {proxy}
             /\ proxies' = IF taken THEN proxies ELSE proxies \cup {proxy}
             /\ Goto(Run, "journalProxy")
          \/ /\ taken
             /\ Goto(Run, "fail")
             /\ UNCHANGED <<listed, proxies>>
  /\ UNCHANGED <<next, pending, targets, victims, pidRead, dirVars, procVars, ip>>
  /\ UNCHANGED <<seen, runtime, netWritten, outcome>>

JournalProxy ==
  /\ At("journalProxy")
  /\ AddResource(Run, "proxy")
  /\ UNCHANGED runVars

WriteNetwork ==
  /\ At("proxy")
  /\ Ports = {x[2] : x \in listed}
  /\ network' = listed
  /\ files' = files \cup {"network"}
  /\ netWritten' = TRUE
  /\ Goto(Run, "publish")
  /\ UNCHANGED <<next, pending, targets, victims, pidRead, status, pidFile, lock>>
  /\ UNCHANGED <<procVars, netVars, seen, runtime, listed, outcome>>

Published ==
  /\ At("publish")
  /\ Look(Run, "stream")
  /\ UNCHANGED runVars

\* stream_until_exit: each line of output is appended to logs.txt, whose
\* directory is recreated; at end of file it waits for axis-runtime.
StreamLine ==
  /\ At("stream")
  /\ "other" \notin files
  /\ IsPidAlive(starts)
  /\ files' = files \cup {"other"}
  /\ UNCHANGED <<ctlVars, status, pidFile, network, lock>>
  /\ UNCHANGED <<procVars, netVars, runVars>>

\* Between the mkdir and the open of a line the rmtree of a clean may remove
\* the directory: the open then raises.
LineRaises ==
  /\ At("report") \/ At("stream")
  /\ files = {}
  /\ \E c \in Cleans : pc[c] = "cleanUnlink"
  /\ Look(Run, "fail")
  /\ UNCHANGED runVars

StreamEndAnyTime ==
  /\ At("stream")
  /\ Look(Run, "exitRead")
  /\ UNCHANGED runVars

StreamEnd ==
  /\ At("stream")
  /\ ~IsPidAlive(starts)
  /\ Look(Run, "exitRead")
  /\ UNCHANGED runVars

\* The status and then runtime.json are read after the exit; without the
\* latter the command raises.
ExitRead ==
  /\ At("exitRead")
  /\ seen' = ReadStatus
  /\ Look(Run, IF "runtime" \in files THEN "markExited" ELSE "fail")
  /\ UNCHANGED <<runtime, listed, netWritten, outcome>>

MarkExited ==
  /\ At("markExited")
  /\ TransitionBegin(Run,
       [ReadStatus EXCEPT !.state = "exited", !.manual_stop = seen.manual_stop,
                          !.exit_reason = "exit"],
       "finally", "fail")
  /\ UNCHANGED runVars

(***************************************************************************)
(* except Exception: kill the container whose pid the run has been told,   *)
(* and write "failed" without looking at the table of transitions.         *)
(***************************************************************************)
FailSignal ==
  /\ At("fail")
  /\ \/ /\ runtime # 0
        /\ term' = term \cup Handling({runtime})
        /\ Goto(Run, "failKill")
     \/ /\ runtime = 0
        /\ Goto(Run, "failMark")
        /\ UNCHANGED term
  /\ UNCHANGED <<next, pending, targets, victims, pidRead, dirVars, netVars, runVars>>
  /\ UNCHANGED <<starts, live, cgroup, kill, exits>>

FailNoForce ==
  /\ At("failKill")
  /\ Look(Run, "failMark")
  /\ UNCHANGED runVars

FailForce ==
  /\ At("failKill")
  /\ kill' = kill \cup (live \cap {runtime})
  /\ Goto(Run, "failMark")
  /\ UNCHANGED <<next, pending, targets, victims, pidRead, dirVars, netVars, runVars>>
  /\ UNCHANGED <<starts, live, cgroup, term, exits>>

FailUnmarked ==
  /\ At("failMark")
  /\ outcome' = "error"
  /\ Look(Run, "finally")
  /\ UNCHANGED <<seen, runtime, listed, netWritten>>

FailMark ==
  /\ At("failMark")
  /\ outcome' = "error"
  /\ WriteBegin(Run, [ReadStatus EXCEPT !.state = "failed", !.exit_reason = "runtime_error"],
                "finally")
  /\ UNCHANGED <<seen, runtime, listed, netWritten>>

(***************************************************************************)
(* finally: release the network if this launch wrote network.json and the  *)
(* file is still there, then return, re-raise, or go on being interrupted. *)
(***************************************************************************)
Resume == CASE outcome = "ok"        -> "loopCheck"
            [] outcome = "error"     -> "raised"
            [] outcome = "interrupt" -> "intrMark"

FinallySkips ==
  /\ At("finally")
  /\ Look(Run, Resume)
  /\ UNCHANGED runVars

Finally ==
  /\ At("finally")
  /\ \/ netWritten /\ NetCheck(Run, Resume)
     \/ ~netWritten /\ Look(Run, Resume)
  /\ UNCHANGED runVars

RestartWanted(s) == RestartAlways /\ ~s.manual_stop

LoopCheck ==
  /\ At("loopCheck")
  /\ seen' = ReadStatus
  /\ Look(Run, IF RestartWanted(ReadStatus) THEN "bump" ELSE "returned")
  /\ UNCHANGED <<runtime, listed, netWritten, outcome>>

\* The sleep of one second ends in any later state of the other commands.
BumpRestartCount ==
  /\ At("bump")
  /\ WriteBegin(Run, [ReadStatus EXCEPT !.state = "exited",
                                        !.restart_count = seen.restart_count + 1],
                "loop")
  /\ UNCHANGED runVars

(***************************************************************************)
(* A failpoint, a missing binary, a line that cannot be logged or printed, *)
(* a failed command of docker, ip, iptables or nsenter, a proxy that exits *)
(* at once: the step at that label raises.                                 *)
(***************************************************************************)
FaultOf(label) == IF label = "prepare" THEN "raised" ELSE "fail"

Fault ==
  /\ pc[Run] \in Faults
  /\ Goto(Run, FaultOf(pc[Run]))
  /\ IF At("launch")
     THEN FreshLocals /\ outcome' = "ok" /\ UNCHANGED seen
     ELSE UNCHANGED runVars
  /\ UNCHANGED <<next, pending, targets, victims, pidRead, dirVars, procVars, netVars>>

(***************************************************************************)
(* Ctrl-C, delivered to the foreground process group: KeyboardInterrupt in *)
(* `axis run`, SIGINT to the container.  `except Exception` does not catch *)
(* it, `finally` runs, and run_command, once in the loop, cleans the       *)
(* container.                                                              *)
(***************************************************************************)
InTry == {"launch", "report", "writePid", "markRunning", "allocIp", "netConfig", "journalNet",
          "proxy", "journalProxy", "publish", "stream", "exitRead", "markExited",
          "fail", "failKill", "failMark"}
Setup == {"create", "created", "prepare", "journal"}
InLoop == {"loop", "starting", "finally", "netRead", "netKill",
           "netRelease", "loopCheck", "bump"}

\* The part of the code a process is in while its payload is pending.
Where == IF ~At("commit") THEN pc[Run]
         ELSE CASE next[Run] = "prepare" -> "created"
                [] next[Run] = "launch"  -> "starting"
                [] next[Run] = "allocIp" -> "markRunning"
                [] next[Run] = "finally" -> "markExited"
                [] next[Run] = "loop"    -> "bump"
                [] OTHER                 -> "cleanup"

Interrupt ==
  /\ Interrupts
  /\ outcome # "interrupt"
  /\ \/ Where \in Setup /\ Goto(Run, "raised")
     \/ Where \in InTry /\ Goto(Run, "finally")
     \/ Where \in InLoop /\ Goto(Run, "intrMark")
  /\ outcome' = "interrupt"
  /\ lock' = Release(Run)
  /\ term' = term \cup Handling(live)
  /\ IF At("launch") THEN FreshLocals ELSE UNCHANGED <<runtime, netWritten, listed>>
  /\ UNCHANGED <<next, pending, targets, victims, pidRead, files, status, pidFile, network>>
  /\ UNCHANGED <<starts, live, cgroup, kill, exits, netVars, seen>>

InterruptMark ==
  /\ At("intrMark")
  /\ WriteBegin(Run, [ReadStatus EXCEPT !.state = "stopping", !.manual_stop = TRUE],
                "cleanStart")
  /\ UNCHANGED runVars

(***************************************************************************)
(* The attached process dies: terminal closed, SIGKILL, host out of memory.*)
(***************************************************************************)
RunOver == {"returned", "raised", "crashed"}

Crash ==
  /\ Crashes
  /\ pc[Run] \notin RunOver
  /\ Goto(Run, "crashed")
  /\ lock' = Release(Run)
  /\ UNCHANGED <<next, pending, targets, victims, pidRead, files, status, pidFile, network>>
  /\ UNCHANGED <<procVars, netVars, runVars>>

RunStep ==
  \/ CreateState \/ MarkCreated \/ WriteRuntimeConfig \/ JournalCgroup
  \/ LoopRead \/ MarkStarting \/ Launch \/ ReadReport \/ WritePid \/ MarkRunning
  \/ AllocateIp \/ ConfigureNetwork \/ JournalNetwork
  \/ StartProxy \/ JournalProxy \/ WriteNetwork \/ Published
  \/ StreamEnd \/ ExitRead \/ MarkExited
  \/ FailSignal \/ FailForce \/ FailMark
  \/ Finally \/ LoopCheck \/ BumpRestartCount \/ InterruptMark
  \/ Commit(Run) \/ CleanupNetwork(Run) \/ StopProcesses(Run) \/ CleanupState(Run)

=============================================================================
