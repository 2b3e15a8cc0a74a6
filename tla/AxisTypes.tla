------------------------------ MODULE AxisTypes ------------------------------
(***************************************************************************)
(* The type invariant of Axis.tla, proved.  Each command is a sequence of  *)
(* calls of the same few operations of state.py, so there is one lemma per *)
(* operation and one per command.                                          *)
(***************************************************************************)
EXTENDS Axis, TLAPS

\* The part of the type invariant that every command can disturb.
SharedOK == ControlOK /\ DirectoryOK /\ KernelOK

\* A step that only reads moves one process to a label that exists.
LEMMA LookKeeps ==
  ASSUME SharedOK, NEW p \in Procs, NEW label \in Labels, Look(p, label)
  PROVE  SharedOK'
BY DEF SharedOK, ControlOK, DirectoryOK, KernelOK, Look, Goto, dirVars, procVars, netVars

\* write_status: computing the payload keeps the types if the payload is a status.
LEMMA WriteBeginKeeps ==
  ASSUME SharedOK, NEW p \in Procs, NEW payload \in Status, NEW cont \in Labels,
         WriteBegin(p, payload, cont)
  PROVE  SharedOK'
<1>1. "commit" \in Labels
  BY DEF Labels
<1> QED
  BY <1>1 DEF SharedOK, ControlOK, DirectoryOK, KernelOK, WriteBegin, Goto, dirVars,
     procVars, netVars

\* transition_state: so does taking the lock and validating.
LEMMA TransitionBeginKeeps ==
  ASSUME SharedOK, NEW p \in Procs, NEW payload \in Status, NEW cont \in Labels,
         NEW err \in Labels, TransitionBegin(p, payload, cont, err)
  PROVE  SharedOK'
<1>1. "commit" \in Labels
  BY DEF Labels
<1>2. "lock" \in FileNames
  BY DEF FileNames
<1> QED
  BY <1>1, <1>2 DEF SharedOK, ControlOK, DirectoryOK, KernelOK, TransitionBegin, Goto,
     procVars, netVars

\* add_resource keeps the types.
LEMMA AddResourceKeeps ==
  ASSUME SharedOK, NEW p \in Procs, NEW cont \in Labels, AddResource(p, cont)
  PROVE  SharedOK'
BY DEF SharedOK, ControlOK, DirectoryOK, KernelOK, AddResource, Goto, procVars, netVars,
   FileNames

\* The test for network.json keeps the types.
LEMMA NetCheckKeeps ==
  ASSUME SharedOK, NEW p \in Procs, NEW cont \in Labels, NetCheck(p, cont)
  PROVE  SharedOK'
<1>1. "netRead" \in Labels
  BY DEF Labels
<1> QED
  BY <1>1 DEF SharedOK, ControlOK, DirectoryOK, KernelOK, NetCheck, Goto, dirVars, procVars,
     netVars

\* What read_status returns without a file is a status.
LEMMA DefaultStatusOK == DefaultStatus \in Status
BY DEF DefaultStatus, Status, States

\* os.replace writes a payload, which is a status, over the file.
LEMMA CommitKeeps ==
  ASSUME SharedOK, NEW p \in Procs, Commit(p)
  PROVE  SharedOK'
BY DefaultStatusOK DEF SharedOK, ControlOK, DirectoryOK, KernelOK, Commit, Release, Goto,
   procVars, netVars, FileNames

\* The type invariant is its shared part and the locals of `axis run`.
LEMMA TypeParts == TypeOK <=> SharedOK /\ LocalsOK
BY DEF TypeOK, SharedOK

\* A step that leaves those locals alone needs the shared part only.
LEMMA TypeStays == LocalsOK /\ UNCHANGED runVars /\ SharedOK' => TypeOK'
BY DEF LocalsOK, runVars, TypeOK, SharedOK

\* cleanup_network_state keeps the types, in whichever command runs it.
LEMMA NetworkSteps ==
  ASSUME TypeOK, NEW p \in Procs, CleanupNetwork(p)
  PROVE  TypeOK'
<1> USE DEF TypeOK, ControlOK, DirectoryOK, KernelOK, LocalsOK, Goto, dirVars, procVars,
            netVars, runVars
<1>1. CASE NetRead(p)
  BY <1>1 DEF NetRead, CleanRaised, Labels, Final, RunOver
<1>2. CASE NetKill(p)
  BY <1>2 DEF NetKill, Labels
<1>3. CASE NetRelease(p)
  BY <1>3 DEF NetRelease
<1> QED
  BY <1>1, <1>2, <1>3 DEF CleanupNetwork

\* stop_container_processes keeps the types, in whichever command runs it.
LEMMA ProcessSteps ==
  ASSUME TypeOK, NEW p \in Procs, StopProcesses(p)
  PROVE  TypeOK'
<1> USE DEF TypeOK, ControlOK, DirectoryOK, KernelOK, LocalsOK, Goto, dirVars, procVars,
            netVars, runVars
<1>1. AfterKill(p) \in Labels /\ "wait" \in Labels /\ "force" \in Labels
  BY DEF AfterKill, Labels
<1>2. CASE SignalMembers(p)
  BY <1>1, <1>2 DEF SignalMembers, Members
<1>3. CASE WaitMembers(p)
  BY <1>1, <1>3 DEF WaitMembers
<1>4. CASE SignalPid(p)
  BY <1>1, <1>4 DEF SignalPid, Handling, ReadPid
<1>5. CASE ForcePid(p)
  BY <1>1, <1>5 DEF ForcePid
<1> QED
  BY <1>2, <1>3, <1>4, <1>5 DEF StopProcesses

\* cleanup_container_state keeps the types, in whichever command runs it.
LEMMA CleanSteps ==
  ASSUME TypeOK, NEW p \in Procs, CleanupState(p)
  PROVE  TypeOK'
<1>0. SharedOK /\ LocalsOK
  BY TypeParts
<1>1. /\ {"cleanMark", "cleanNet", "procs", "cleanScan", "cleanUnlink"} \subseteq Labels
      /\ Cleaned(p) \in Labels /\ CleanRaised(p) \in Labels
  BY DEF Cleaned, CleanRaised, Labels, Final, RunOver
<1>2. CASE CleanStart(p)
  BY <1>0, <1>1, <1>2, LookKeeps, TypeStays DEF CleanStart
<1>3. CASE CleanMark(p)
  <2>1. [ReadStatus EXCEPT !.state = "stopping", !.manual_stop = TRUE] \in Status
    BY DEF ReadStatus, Status, States, TypeOK, DirectoryOK
  <2> QED
    BY <1>0, <1>1, <1>3, <2>1, WriteBeginKeeps, TypeStays DEF CleanMark
<1>4. CASE CleanNetwork(p)
  BY <1>0, <1>1, <1>4, NetCheckKeeps, TypeStays DEF CleanNetwork
<1>5. CASE CleanDeleted(p)
  <2>1. [ReadStatus EXCEPT !.state = "deleted", !.manual_stop = TRUE] \in Status
    BY DEF ReadStatus, Status, States, TypeOK, DirectoryOK
  <2> QED
    BY <1>0, <1>1, <1>5, <2>1, WriteBeginKeeps, TypeStays DEF CleanDeleted
<1>6. CASE CleanScan(p)
  BY <1>1, <1>6 DEF CleanScan, TypeOK, ControlOK, DirectoryOK, KernelOK, LocalsOK, Goto,
     dirVars, procVars, netVars, runVars
<1>7. CASE CleanUnlink(p)
  BY <1>7, DefaultStatusOK DEF CleanUnlink, TypeOK, ControlOK, DirectoryOK, KernelOK,
     LocalsOK, procVars, netVars, runVars
<1>8. CASE CleanEnd(p)
  BY <1>0, <1>1, <1>8, LookKeeps, TypeStays DEF CleanEnd
<1> QED
  BY <1>2, <1>3, <1>4, <1>5, <1>6, <1>7, <1>8 DEF CleanupState

\* The write of status.json keeps the types.
LEMMA CommitStep ==
  ASSUME TypeOK, NEW p \in Procs, Commit(p)
  PROVE  TypeOK'
BY CommitKeeps, TypeParts, TypeStays DEF Commit

\* A step of `axis stop` keeps the types.
LEMMA StopSteps ==
  ASSUME TypeOK, NEW p \in Stops, StopCommand(p)
  PROVE  TypeOK'
<1>0. SharedOK /\ LocalsOK /\ p \in Procs
  BY TypeParts DEF Procs
<1>1. {"stopStatus", "stopRaised", "stopIdle", "stopPid", "stopMark", "stopDone", "procs"}
        \subseteq Labels
  BY DEF Labels, Final
<1>2. CASE StopResolve(p)
  BY <1>0, <1>1, <1>2, LookKeeps, TypeStays DEF StopResolve
<1>3. CASE StopStatus(p)
  BY <1>0, <1>1, <1>3, LookKeeps, TypeStays DEF StopStatus
<1>4. CASE StopPid(p)
  BY <1>0, <1>1, <1>4, LookKeeps, TypeStays DEF StopPid
<1>5. CASE StopIdle(p)
  <2>1. [ReadStatus EXCEPT !.state = "exited", !.manual_stop = TRUE] \in Status
    BY DEF ReadStatus, Status, States, TypeOK, DirectoryOK
  <2> QED
    BY <1>0, <1>1, <1>5, <2>1, WriteBeginKeeps, TypeStays DEF StopIdle
<1>6. CASE StopMark(p)
  <2>1. [ReadStatus EXCEPT !.state = "stopping", !.manual_stop = TRUE] \in Status
    BY DEF ReadStatus, Status, States, TypeOK, DirectoryOK
  <2> QED
    BY <1>0, <1>1, <1>6, <2>1, TransitionBeginKeeps, TypeStays DEF StopMark
<1>7. CASE StopExit(p)
  <2>1. [ReadStatus EXCEPT !.state = "exited", !.manual_stop = TRUE,
                           !.exit_reason = "stopped"] \in Status
    BY DEF ReadStatus, Status, States, TypeOK, DirectoryOK
  <2> QED
    BY <1>0, <1>1, <1>7, <2>1, TransitionBeginKeeps, TypeStays DEF StopExit
<1> QED
  BY <1>0, <1>2, <1>3, <1>4, <1>5, <1>6, <1>7, ProcessSteps, CommitStep DEF StopCommand

\* A step of `axis clean` keeps the types.
LEMMA CleanCommandSteps ==
  ASSUME TypeOK, NEW p \in Cleans, CleanCommand(p)
  PROVE  TypeOK'
<1>0. SharedOK /\ LocalsOK /\ p \in Procs
  BY TypeParts DEF Procs
<1>1. {"cleanStart", "cleanUnknown", "cleanDone", "cleanRaised"} \subseteq Labels
  BY DEF Labels, Final
<1>2. CASE CleanResolve(p)
  BY <1>0, <1>1, <1>2, LookKeeps, TypeStays DEF CleanResolve
<1>3. CASE CleanUnknown(p)
  BY <1>0, <1>1, <1>3, LookKeeps, TypeStays DEF CleanUnknown
<1> QED
  BY <1>0, <1>2, <1>3, CleanSteps, NetworkSteps, ProcessSteps, CommitStep DEF CleanCommand

\* A step of `axis reconcile` keeps the types.
LEMMA ReconcileSteps ==
  ASSUME TypeOK, NEW p \in Reconciles, ReconcileCommand(p)
  PROVE  TypeOK'
<1>0. SharedOK /\ LocalsOK /\ p \in Procs
  BY TypeParts DEF Procs
<1>1. {"recStatus", "recDone", "recRaised", "recPid", "recNet", "recFail", "recProxies",
       "recWrite"} \subseteq Labels
  BY DEF Labels, Final
<1>2. CASE ReconcileFind(p)
  BY <1>0, <1>1, <1>2, LookKeeps, TypeStays DEF ReconcileFind
<1>3. CASE ReconcileStatus(p)
  BY <1>0, <1>1, <1>3, LookKeeps, TypeStays DEF ReconcileStatus
<1>4. CASE ReconcilePid(p)
  BY <1>0, <1>1, <1>4, LookKeeps, TypeStays DEF ReconcilePid
<1>5. CASE ReconcileFail(p)
  <2>1. [ReadStatus EXCEPT !.state = "failed", !.exit_reason = "stale_pid"] \in Status
    BY DEF ReadStatus, Status, States, TypeOK, DirectoryOK
  <2> QED
    BY <1>0, <1>1, <1>5, <2>1, WriteBeginKeeps, LookKeeps, TypeStays DEF ReconcileFail,
       ReportsOnly
<1>6. CASE ReconcileNetwork(p)
  BY <1>0, <1>1, <1>6, LookKeeps, TypeStays DEF ReconcileNetwork
<1>7. CASE ReconcileProxies(p)
  BY <1>0, <1>1, <1>7 DEF ReconcileProxies, TypeOK, ControlOK, DirectoryOK, KernelOK,
     LocalsOK, Goto, dirVars, procVars, netVars, runVars
<1>8. CASE ReconcileWrite(p)
  <2>1. CASE ReportsOnly(p, "recDone")
    BY <1>0, <1>1, <1>8, <2>1, LookKeeps, TypeStays DEF ReconcileWrite, ReportsOnly
  <2>2. CASE ~ReportsOnly(p, "recDone")
    BY <1>0, <1>1, <1>8, <2>2 DEF ReconcileWrite, TypeOK, ControlOK, DirectoryOK, KernelOK,
       LocalsOK, Goto, procVars, netVars, runVars, FileNames
  <2> QED
    BY <2>1, <2>2
<1> QED
  BY <1>0, <1>2, <1>3, <1>4, <1>5, <1>6, <1>7, <1>8, CommitStep DEF ReconcileCommand

\* The kernel and the container process keep the types.
LEMMA KernelSteps ==
  ASSUME TypeOK, Kernel
  PROVE  TypeOK'
<1> USE DEF TypeOK, ControlOK, DirectoryOK, KernelOK, LocalsOK, KernelFrame, Gone,
            ctlVars, dirVars, netVars, runVars
<1>1. PICK i \in live : JoinCgroup(i) \/ Exit(i) \/ TermExit(i) \/ KillExit(i)
  BY DEF Kernel
<1>2. CASE JoinCgroup(i)
  BY <1>2 DEF JoinCgroup
<1>3. CASE Exit(i)
  BY <1>3 DEF Exit
<1>4. CASE TermExit(i)
  BY <1>4 DEF TermExit
<1>5. CASE KillExit(i)
  BY <1>5 DEF KillExit
<1> QED
  BY <1>1, <1>2, <1>3, <1>4, <1>5

\* Every payload `axis run` computes is a status.
LEMMA RunPayloads ==
  ASSUME TypeOK
  PROVE  /\ [ReadStatus EXCEPT !.state = "created", !.manual_stop = FALSE] \in Status
         /\ [ReadStatus EXCEPT !.state = "starting", !.manual_stop = seen.manual_stop,
                               !.restart_count = seen.restart_count] \in Status
         /\ [ReadStatus EXCEPT !.state = "running", !.manual_stop = FALSE] \in Status
         /\ [ReadStatus EXCEPT !.state = "exited", !.manual_stop = seen.manual_stop,
                               !.exit_reason = "exit"] \in Status
         /\ [ReadStatus EXCEPT !.state = "failed", !.exit_reason = "runtime_error"] \in Status
         /\ [ReadStatus EXCEPT !.state = "exited",
                               !.restart_count = seen.restart_count + 1] \in Status
         /\ [ReadStatus EXCEPT !.state = "stopping", !.manual_stop = TRUE] \in Status
<1>1. ReadStatus \in Status /\ seen.manual_stop \in BOOLEAN /\ seen.restart_count \in Nat
  BY DEF TypeOK, DirectoryOK, LocalsOK, ReadStatus, Status
<1>2. /\ [ReadStatus EXCEPT !.state = "created", !.manual_stop = FALSE] \in Status
      /\ [ReadStatus EXCEPT !.state = "running", !.manual_stop = FALSE] \in Status
      /\ [ReadStatus EXCEPT !.state = "failed", !.exit_reason = "runtime_error"] \in Status
      /\ [ReadStatus EXCEPT !.state = "stopping", !.manual_stop = TRUE] \in Status
  BY <1>1 DEF Status, States
<1>3. [ReadStatus EXCEPT !.state = "starting", !.manual_stop = seen.manual_stop,
                         !.restart_count = seen.restart_count] \in Status
  BY <1>1 DEF Status, States
<1>4. [ReadStatus EXCEPT !.state = "exited", !.manual_stop = seen.manual_stop,
                         !.exit_reason = "exit"] \in Status
  BY <1>1 DEF Status, States
<1>5. [ReadStatus EXCEPT !.state = "exited",
                         !.restart_count = seen.restart_count + 1] \in Status
  <2>1. \A n \in Nat : [ReadStatus EXCEPT !.state = "exited", !.restart_count = n] \in Status
    BY <1>1 DEF Status, States
  <2>2. seen.restart_count + 1 \in Nat
    BY <1>1
  <2> QED
    BY <2>1, <2>2
<1> QED
  BY <1>2, <1>3, <1>4, <1>5

\* The steps of `axis run` up to the launch keep the types.
LEMMA RunSetupSteps ==
  ASSUME TypeOK,
         \/ CreateState \/ MarkCreated \/ WriteRuntimeConfig \/ JournalCgroup
         \/ LoopRead \/ MarkStarting
  PROVE  TypeOK'
<1>0. SharedOK /\ LocalsOK /\ Run \in Procs
  BY TypeParts DEF Procs
<1>1. {"created", "prepare", "journal", "loop", "raised", "starting", "launch"} \subseteq Labels
  BY DEF Labels, Final, RunOver
<1>2. CASE CreateState
  BY <1>0, <1>1, <1>2 DEF CreateState, TypeOK, ControlOK, DirectoryOK, KernelOK, LocalsOK,
     Goto, procVars, netVars, runVars, FileNames
<1>3. CASE MarkCreated
  BY <1>0, <1>1, <1>3, RunPayloads, TransitionBeginKeeps, TypeStays DEF MarkCreated
<1>4. CASE WriteRuntimeConfig
  BY <1>0, <1>1, <1>4 DEF WriteRuntimeConfig, TypeOK, ControlOK, DirectoryOK, KernelOK,
     LocalsOK, Goto, procVars, netVars, runVars, FileNames
<1>5. CASE JournalCgroup
  BY <1>0, <1>1, <1>5, AddResourceKeeps, LookKeeps, TypeStays DEF JournalCgroup
<1>6. CASE LoopRead
  <2>1. SharedOK'
    BY <1>0, <1>1, <1>6, LookKeeps DEF LoopRead
  <2> QED
    BY <2>1, <1>6 DEF LoopRead, TypeOK, SharedOK, DirectoryOK, LocalsOK, ReadStatus
<1>7. CASE MarkStarting
  BY <1>0, <1>1, <1>7, RunPayloads, TransitionBeginKeeps, TypeStays DEF MarkStarting
<1> QED
  BY <1>2, <1>3, <1>4, <1>5, <1>6, <1>7

\* The steps from the launch to the stream of output keep the types.
LEMMA RunLaunchSteps ==
  ASSUME TypeOK,
         \/ Launch \/ ReadReport \/ WritePid \/ MarkRunning \/ AllocateIp
         \/ ConfigureNetwork \/ JournalNetwork \/ StartProxy \/ JournalProxy \/ WriteNetwork \/ Published
         \/ StreamLine
  PROVE  TypeOK'
<1>0. SharedOK /\ LocalsOK /\ Run \in Procs
  BY TypeParts DEF Procs
<1>1. {"report", "writePid", "markRunning", "fail", "allocIp", "netConfig", "journalNet",
       "proxy", "journalProxy", "publish", "stream"} \subseteq Labels
  BY DEF Labels
<1>2. CASE Launch
  <2>1. KernelOK'
    <3>0. \/ starts' = starts + 1 /\ live' = live \cup {starts + 1}
          \/ UNCHANGED <<starts, live>>
      BY <1>2 DEF Launch
    <3>1. starts' \in Nat /\ live' \in SUBSET Nat /\ live \subseteq live'
      <4>1. starts \in Nat /\ starts + 1 \in Nat
        BY DEF TypeOK, KernelOK
      <4>2. live \subseteq Nat
        BY DEF TypeOK, KernelOK
      <4> DEFINE launched == starts + 1
      <4>3. \/ starts' = launched /\ live' = live \cup {launched}
            \/ UNCHANGED <<starts, live>>
        BY <3>0
      <4> HIDE DEF launched
      <4> QED
        BY <4>1, <4>2, <4>3 DEF launched
    <3>2. UNCHANGED <<cgroup, term, kill, exits, proxies, ip>>
      BY <1>2 DEF Launch, netVars
    <3> QED
      BY <3>1, <3>2 DEF TypeOK, KernelOK
  <2>2. ControlOK'
    BY <1>0, <1>1, <1>2 DEF Launch, TypeOK, ControlOK, Goto
  <2>3. DirectoryOK'
    BY <1>2 DEF Launch, TypeOK, DirectoryOK, FileNames
  <2>4. LocalsOK'
    BY <1>2 DEF Launch, FreshLocals, TypeOK, LocalsOK
  <2> QED
    BY <2>1, <2>2, <2>3, <2>4 DEF TypeOK
<1>3. CASE WritePid
  BY <1>0, <1>1, <1>3 DEF WritePid, TypeOK, ControlOK, DirectoryOK, KernelOK, LocalsOK,
     Goto, procVars, netVars, runVars, FileNames
<1>4. CASE MarkRunning
  BY <1>0, <1>1, <1>4, RunPayloads, TransitionBeginKeeps, TypeStays DEF MarkRunning
<1>5. CASE AllocateIp
  BY <1>0, <1>1, <1>5 DEF AllocateIp, TypeOK, ControlOK, DirectoryOK, KernelOK, LocalsOK,
     Goto, dirVars, procVars, runVars
<1>6. CASE ConfigureNetwork
  BY <1>0, <1>1, <1>6 DEF ConfigureNetwork, TypeOK, ControlOK, DirectoryOK, KernelOK,
     LocalsOK, Goto, procVars, netVars, runVars, FileNames
<1>7. CASE JournalNetwork
  BY <1>0, <1>1, <1>7, AddResourceKeeps, TypeStays DEF JournalNetwork
<1>8. CASE StartProxy
  <2>1. PICK port \in Ports :
          /\ listed' \in {listed, listed \cup {<<starts, port>>}}
          /\ proxies' \in {proxies, proxies \cup {<<starts, port>>}}
          /\ Goto(Run, "journalProxy") \/ Goto(Run, "fail")
    BY <1>8 DEF StartProxy
  <2>2. <<starts, port>> \in Proxies
    BY DEF TypeOK, KernelOK, Proxies
  <2> QED
    BY <1>0, <1>1, <1>8, <2>1, <2>2 DEF StartProxy, TypeOK, ControlOK, DirectoryOK,
       KernelOK, LocalsOK, Goto, dirVars, procVars
<1>9. CASE JournalProxy
  BY <1>0, <1>1, <1>9, AddResourceKeeps, TypeStays DEF JournalProxy
<1>10. CASE WriteNetwork
  BY <1>0, <1>1, <1>10 DEF WriteNetwork, TypeOK, ControlOK, DirectoryOK, KernelOK, LocalsOK,
     Goto, procVars, netVars, FileNames
<1>11. CASE Published
  BY <1>0, <1>1, <1>11, LookKeeps, TypeStays DEF Published
<1>12. CASE StreamLine
  BY <1>12 DEF StreamLine, TypeOK, ControlOK, DirectoryOK, KernelOK, LocalsOK, ctlVars,
     procVars, netVars, runVars, FileNames
<1>13. CASE ReadReport
  BY <1>0, <1>1, <1>13 DEF ReadReport, TypeOK, ControlOK, DirectoryOK, KernelOK, LocalsOK,
     Goto, procVars, netVars, FileNames
<1> QED
  BY <1>2, <1>3, <1>4, <1>5, <1>6, <1>7, <1>8, <1>9, <1>10, <1>11, <1>12, <1>13

\* The steps after the exit or a failure keep the types.
LEMMA RunEndSteps ==
  ASSUME TypeOK,
         \/ StreamEnd \/ ExitRead \/ MarkExited \/ FailSignal \/ FailForce \/ FailMark
         \/ Finally \/ LoopCheck \/ BumpRestartCount \/ InterruptMark
  PROVE  TypeOK'
<1>0. SharedOK /\ LocalsOK /\ Run \in Procs
  BY TypeParts DEF Procs
<1>1. /\ {"exitRead", "markExited", "fail", "finally", "failKill", "failMark", "bump",
          "returned", "loop", "cleanStart"} \subseteq Labels
      /\ Resume \in Labels
  BY <1>0 DEF Labels, Final, RunOver, Resume, LocalsOK
<1>2. CASE StreamEnd
  BY <1>0, <1>1, <1>2, LookKeeps, TypeStays DEF StreamEnd
<1>3. CASE ExitRead
  <2>1. SharedOK'
    BY <1>0, <1>1, <1>3, LookKeeps DEF ExitRead
  <2> QED
    BY <2>1, <1>3 DEF ExitRead, TypeOK, SharedOK, DirectoryOK, LocalsOK, ReadStatus
<1>4. CASE MarkExited
  BY <1>0, <1>1, <1>4, RunPayloads, TransitionBeginKeeps, TypeStays DEF MarkExited
<1>5. CASE FailSignal
  BY <1>0, <1>1, <1>5 DEF FailSignal, Handling, TypeOK, ControlOK, DirectoryOK, KernelOK,
     LocalsOK, Goto, dirVars, netVars, runVars
<1>6. CASE FailForce
  BY <1>0, <1>1, <1>6 DEF FailForce, TypeOK, ControlOK, DirectoryOK, KernelOK, LocalsOK,
     Goto, dirVars, netVars, runVars
<1>7. CASE FailMark
  <2>1. SharedOK'
    BY <1>0, <1>1, <1>7, RunPayloads, WriteBeginKeeps DEF FailMark
  <2> QED
    BY <2>1, <1>7 DEF FailMark, TypeOK, SharedOK, LocalsOK
<1>8. CASE Finally
  BY <1>0, <1>1, <1>8, NetCheckKeeps, LookKeeps, TypeStays DEF Finally
<1>9. CASE LoopCheck
  <2>1. SharedOK'
    BY <1>0, <1>1, <1>9, LookKeeps DEF LoopCheck
  <2> QED
    BY <2>1, <1>9 DEF LoopCheck, TypeOK, SharedOK, DirectoryOK, LocalsOK, ReadStatus
<1>10. CASE BumpRestartCount
  BY <1>0, <1>1, <1>10, RunPayloads, WriteBeginKeeps, TypeStays DEF BumpRestartCount
<1>11. CASE InterruptMark
  BY <1>0, <1>1, <1>11, RunPayloads, WriteBeginKeeps, TypeStays DEF InterruptMark
<1> QED
  BY <1>2, <1>3, <1>4, <1>5, <1>6, <1>7, <1>8, <1>9, <1>10, <1>11

\* The locals with which run_container_once begins have their types.
LEMMA FreshKeeps ==
  ASSUME FreshLocals
  PROVE  runtime' \in Nat /\ netWritten' \in BOOLEAN /\ listed' \in SUBSET Proxies
BY DEF FreshLocals

\* Every step of `axis run`, failing and dying included, keeps the types.
LEMMA AttachedSteps ==
  ASSUME TypeOK, Attached
  PROVE  TypeOK'
<1>0. SharedOK /\ LocalsOK /\ Run \in Procs
  BY TypeParts DEF Procs
<1>1. {"raised", "failMark", "fail", "finally", "intrMark", "crashed"} \subseteq Labels
  BY DEF Labels, Final, RunOver
<1>2. CASE RunStep
  BY <1>0, <1>2, RunSetupSteps, RunLaunchSteps, RunEndSteps, CommitStep, NetworkSteps,
     ProcessSteps, CleanSteps DEF RunStep
<1>3. CASE StreamLine
  BY <1>3, RunLaunchSteps
<1>4. CASE Fault
  <2>1. LocalsOK'
    BY <1>0, <1>4, FreshKeeps DEF Fault, LocalsOK, runVars
  <2>2. SharedOK'
    BY <1>0, <1>1, <1>4 DEF Fault, FaultOf, SharedOK, ControlOK, DirectoryOK, KernelOK, Goto,
       dirVars, procVars, netVars
  <2> QED
    BY <2>1, <2>2 DEF TypeOK, SharedOK
<1>5. CASE Interrupt
  <2>1. LocalsOK'
    BY <1>0, <1>5, FreshKeeps DEF Interrupt, LocalsOK
  <2>2. SharedOK'
    BY <1>0, <1>1, <1>5 DEF Interrupt, Release, Handling, SharedOK, ControlOK, DirectoryOK,
       KernelOK, Goto, netVars
  <2> QED
    BY <2>1, <2>2 DEF TypeOK, SharedOK
<1>6. CASE Crash
  BY <1>0, <1>1, <1>6 DEF Crash, Release, TypeOK, ControlOK, DirectoryOK, KernelOK,
     LocalsOK, Goto, procVars, netVars, runVars
<1>7. CASE LineRaises
  BY <1>0, <1>1, <1>7, LookKeeps, TypeStays DEF LineRaises
<1> QED
  BY <1>2, <1>3, <1>4, <1>5, <1>6, <1>7 DEF Attached

\* The initial values have their types.
LEMMA InitType == Init => TypeOK
<1> SUFFICES ASSUME Init PROVE TypeOK
  OBVIOUS
<1>1. \A p \in Procs : Start(p) \in Labels
  BY DEF Start, Procs, Labels
<1> QED
  BY <1>1, DefaultStatusOK DEF Init, TypeOK, ControlOK, DirectoryOK, KernelOK, LocalsOK

\* Every step keeps the types.
LEMMA StepType == TypeOK /\ [Next]_vars => TypeOK'
<1>1. ASSUME TypeOK, UNCHANGED vars PROVE TypeOK'
  BY <1>1 DEF vars, ctlVars, dirVars, procVars, netVars, runVars, TypeOK, ControlOK,
     DirectoryOK, KernelOK, LocalsOK
<1> QED
  BY <1>1, AttachedSteps, StopSteps, CleanCommandSteps, ReconcileSteps, KernelSteps DEF
     Next, Command

\* THEOREM 1.  In every behaviour, for all numbers of commands and ports, every
\* variable keeps the kind of value the code of src/axis gives it.
THEOREM TypeCorrect == Spec => []TypeOK
BY InitType, StepType, PTL DEF Spec

=============================================================================
