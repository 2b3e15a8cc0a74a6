------------------------------ MODULE AxisProofs ------------------------------
(***************************************************************************)
(* What Axis.tla promises about the processes of a container, proved for   *)
(* every number of commands, ports, exits and faults.                      *)
(***************************************************************************)
EXTENDS AxisTypes

(***************************************************************************)
(* The inductive invariant.  OneContainerProcess is not inductive: a       *)
(* launch adds a process, so one must know that none is there.  That is a  *)
(* fact about where the run is, and it has to be carried through its shared*)
(* procedures, its except and finally clauses, and a Ctrl-C.               *)
(***************************************************************************)
Shared == {"commit", "netRead", "netKill", "netRelease"}

\* Where the run is, or where it resumes after a shared procedure.
Ahead == IF pc[Run] \in Shared THEN next[Run] ELSE pc[Run]

\* The labels between two launches.
Quiet ==
  {"create", "created", "prepare", "journal", "loop", "starting", "launch",
   "exitRead", "markExited", "loopCheck", "bump"}

CleanLabels ==
  {"intrMark", "cleanStart", "cleanMark", "cleanNet", "cleanDeleted", "cleanScan",
   "cleanUnlink", "procs", "wait", "force"}

\* The only process there can be is that of the last launch.
Alone == live \subseteq {starts}

\* Between two launches, and when a launch is over in order, it is gone.
NothingRuns ==
  Ahead \in Quiet \/ (Ahead = "finally" /\ outcome = "ok") => live = {}

\* The run knows the pid of its last launch, or of none.
Told == runtime \in {0, starts}

\* On the way out after a failure the process of a launch it has been told the
\* pid of is gone or has been sent SIGKILL.
Ending ==
  \/ Ahead \in {"failMark", "raised", "returned"} /\ outcome # "interrupt"
  \/ Ahead = "finally" /\ outcome = "error"

Doomed == Ending /\ runtime # 0 => live \subseteq kill

\* The run cleans its container after a Ctrl-C only, and after a Ctrl-C it does
\* nothing but that.
CleansInterrupted == Ahead \in CleanLabels => outcome = "interrupt"

Interrupted ==
  outcome = "interrupt" =>
    Ahead \in CleanLabels \cup {"finally", "raised", "returned", "crashed"}

\* Where the shared procedures of the run return to.
NetNext ==
  /\ pc[Run] \in {"netRead", "netKill", "netRelease"} =>
       next[Run] \in {"loopCheck", "raised", "intrMark", "procs"}
  /\ pc[Run] = "commit" => next[Run] \notin Shared

IInv ==
  /\ Alone /\ NothingRuns /\ Told /\ Doomed
  /\ CleansInterrupted /\ Interrupted /\ NetNext

\* A step that leaves the control of the run, its outcome and the processes
\* alone, and at most sends more SIGKILLs, keeps the invariant.
LEMMA OtherSteps ==
  ASSUME TypeOK, IInv, UNCHANGED <<pc[Run], next[Run], starts, live, runtime, outcome>>,
         kill \subseteq kill'
  PROVE  IInv'
BY DEF IInv, Alone, NothingRuns, Told, Ending, Doomed, CleansInterrupted, Interrupted, NetNext,
   Ahead

\* The shared procedures keep the invariant when another command runs them.
LEMMA SharedOther ==
  ASSUME TypeOK, IInv, NEW p \in Procs \ {Run},
         \/ NetRead(p) \/ NetKill(p) \/ NetRelease(p)
         \/ StopProcesses(p) \/ CleanupState(p) \/ Commit(p)
  PROVE  IInv'
<1>0. Run \in Procs /\ p # Run
  BY DEF Procs
<1>1. /\ UNCHANGED <<pc[Run], next[Run], starts, live, runtime, outcome>>
      /\ kill \subseteq kill'
  BY <1>0 DEF TypeOK, ControlOK, NetRead, NetKill, NetRelease, StopProcesses, SignalMembers,
     WaitMembers, SignalPid, ForcePid, CleanupState, CleanStart, CleanMark, CleanNetwork,
     CleanDeleted, CleanScan, CleanUnlink, CleanEnd, Commit, Look, WriteBegin, NetCheck,
     Goto, dirVars, procVars, netVars, runVars
<1> QED
  BY <1>1, OtherSteps

\* A step of `axis stop`, `axis clean` or `axis reconcile` keeps the invariant.
LEMMA CommandOther ==
  ASSUME TypeOK, IInv, Command
  PROVE  IInv'
<1>1. ASSUME NEW p \in Stops, StopCommand(p) PROVE IInv'
  <2>1. p \in Procs \ {Run} /\ Run \in Procs
    BY ProcsAssumption DEF Procs
  <2>2. CASE StopProcesses(p) \/ Commit(p)
    BY <2>1, <2>2, SharedOther
  <2>3. CASE \/ StopResolve(p) \/ StopStatus(p) \/ StopPid(p)
             \/ StopIdle(p) \/ StopMark(p) \/ StopExit(p)
    <3>1. /\ UNCHANGED <<pc[Run], next[Run], starts, live, runtime, outcome>>
          /\ kill \subseteq kill'
      BY <2>1, <2>3 DEF TypeOK, ControlOK, StopResolve, StopStatus, StopPid, StopIdle,
         StopMark, StopExit, Look, WriteBegin, TransitionBegin, Goto, dirVars, procVars,
         netVars, runVars
    <3> QED
      BY <3>1, OtherSteps
  <2> QED
    BY <1>1, <2>2, <2>3 DEF StopCommand
<1>2. ASSUME NEW p \in Cleans, CleanCommand(p) PROVE IInv'
  <2>1. p \in Procs \ {Run} /\ Run \in Procs
    BY ProcsAssumption DEF Procs
  <2>2. CASE CleanupState(p) \/ CleanupNetwork(p) \/ StopProcesses(p) \/ Commit(p)
    BY <2>1, <2>2, SharedOther DEF CleanupNetwork
  <2>3. CASE CleanResolve(p) \/ CleanUnknown(p)
    <3>1. /\ UNCHANGED <<pc[Run], next[Run], starts, live, runtime, outcome>>
          /\ kill \subseteq kill'
      BY <2>1, <2>3 DEF TypeOK, ControlOK, CleanResolve, CleanUnknown, Look, Goto, dirVars,
         procVars, netVars, runVars
    <3> QED
      BY <3>1, OtherSteps
  <2> QED
    BY <1>2, <2>2, <2>3 DEF CleanCommand
<1>3. ASSUME NEW p \in Reconciles, ReconcileCommand(p) PROVE IInv'
  <2>1. p \in Procs \ {Run} /\ Run \in Procs
    BY ProcsAssumption DEF Procs
  <2>2. CASE Commit(p)
    BY <2>1, <2>2, SharedOther
  <2>3. CASE ~Commit(p)
    <3>1. /\ UNCHANGED <<pc[Run], next[Run], starts, live, runtime, outcome>>
          /\ kill \subseteq kill'
      BY <1>3, <2>1, <2>3 DEF TypeOK, ControlOK, ReconcileCommand, ReconcileFind,
         ReconcileStatus, ReconcilePid, ReconcileFail, ReconcileNetwork, ReconcileProxies,
         ReconcileWrite, ReportsOnly, Look, WriteBegin, Goto, dirVars, procVars, netVars,
         runVars
    <3> QED
      BY <3>1, OtherSteps
  <2> QED
    BY <2>2, <2>3
<1> QED
  BY <1>1, <1>2, <1>3 DEF Command

\* A container process that joins its cgroup or exits keeps the invariant.
LEMMA KernelIInv ==
  ASSUME TypeOK, IInv, Kernel
  PROVE  IInv'
<1>1. /\ UNCHANGED <<pc, next, starts, runtime, outcome>>
      /\ live' \subseteq live
      /\ live' \cap kill \subseteq kill'
  BY DEF Kernel, JoinCgroup, Exit, TermExit, KillExit, Gone, KernelFrame, ctlVars, runVars
<1> QED
  BY <1>1 DEF IInv, Alone, NothingRuns, Told, Ending, Doomed, CleansInterrupted, Interrupted,
     NetNext, Ahead

\* Before the launch nothing runs, and the setup steps start nothing.
LEMMA RunSetupIInv ==
  ASSUME TypeOK, IInv,
         \/ CreateState \/ MarkCreated \/ WriteRuntimeConfig \/ JournalCgroup
         \/ LoopRead \/ MarkStarting
  PROVE  IInv'
<1>0. Run \in Procs /\ pc \in [Procs -> Labels] /\ next \in [Procs -> Labels]
  BY DEF Procs, TypeOK, ControlOK
<1>1. live = {} /\ live' = {}
  BY DEF CreateState, MarkCreated, WriteRuntimeConfig, JournalCgroup, LoopRead,
     MarkStarting, TransitionBegin, AddResource, Look, procVars, At, IInv, NothingRuns,
     Ahead, Shared, Quiet
<1>3. outcome' # "interrupt" /\ UNCHANGED <<starts, runtime>>
  BY DEF TransitionBegin, AddResource, Look, procVars, CreateState, MarkCreated,
     WriteRuntimeConfig, JournalCgroup, LoopRead, MarkStarting, runVars, At, IInv,
     Interrupted, Ahead, Shared, CleanLabels
<1>2. /\ Ahead' \notin CleanLabels \cup Shared
      /\ pc'[Run] \notin {"netRead", "netKill", "netRelease"}
  BY <1>0 DEF CreateState, MarkCreated, WriteRuntimeConfig, JournalCgroup, LoopRead,
     MarkStarting, TransitionBegin, AddResource, Look, Goto, Ahead, Shared, CleanLabels
<1> QED
  BY <1>1, <1>2, <1>3 DEF IInv, Alone, NothingRuns, Told, Doomed, CleansInterrupted,
     Interrupted, NetNext, Ahead, Shared

\* A step of the run that leaves the processes alone and goes on to a label of
\* which the invariant says nothing keeps it.
LEMMA LaunchSilent ==
  ASSUME TypeOK, IInv, UNCHANGED <<starts, live>>, outcome' # "interrupt",
         runtime' \in {0, starts}, pc'[Run] \notin {"netRead", "netKill", "netRelease"},
         Ahead' \in {"writePid", "markRunning", "allocIp", "netConfig", "journalNet", "proxy",
           "journalProxy", "publish", "stream", "fail", "failKill", "crashed"}
  PROVE  IInv'
BY DEF IInv, Alone, NothingRuns, Told, Ending, Doomed, CleansInterrupted, Interrupted, NetNext,
   Quiet, CleanLabels, Ahead, Shared

\* From the launch to the stream: the launch finds nothing running.
LEMMA RunLaunchIInv ==
  ASSUME TypeOK, IInv,
         \/ Launch \/ ReadReport \/ WritePid \/ MarkRunning \/ AllocateIp
         \/ ConfigureNetwork \/ JournalNetwork \/ StartProxy \/ JournalProxy
         \/ WriteNetwork \/ Published \/ StreamLine \/ LineRaises
  PROVE  IInv'
<1>0. Run \in Procs /\ pc \in [Procs -> Labels] /\ next \in [Procs -> Labels]
  BY DEF Procs, TypeOK, ControlOK
<1>1. CASE Launch
  <2>1. live = {} /\ pc[Run] = "launch"
    BY <1>1 DEF Launch, At, IInv, NothingRuns, Ahead, Shared, Quiet
  <2>2. \/ live' = {starts'} /\ Ahead' = "report"
        \/ live' = {} /\ Ahead' = "fail"
    BY <1>0, <1>1, <2>1 DEF Launch, Goto, Ahead, Shared
  <2>3. pc'[Run] \in {"report", "fail"} /\ outcome' = "ok" /\ runtime' = 0
    BY <1>0, <1>1 DEF Launch, FreshLocals, Goto
  <2> QED
    BY <2>2, <2>3 DEF IInv, Alone, NothingRuns, Told, Ending, Doomed, CleansInterrupted,
       Interrupted, NetNext, Quiet, CleanLabels
<1>2. CASE ReadReport \/ WritePid \/ MarkRunning \/ AllocateIp \/ ConfigureNetwork
           \/ JournalNetwork \/ StartProxy \/ JournalProxy \/ WriteNetwork \/ Published
           \/ LineRaises
  <2>1. UNCHANGED <<starts, live, outcome>> /\ runtime' \in {runtime, starts}
    BY <1>2 DEF ReadReport, LineRaises, WritePid, MarkRunning, AllocateIp, ConfigureNetwork,
       JournalNetwork, StartProxy, JournalProxy, WriteNetwork, Published, TransitionBegin,
       AddResource, Look, procVars, runVars
  <2>3. outcome # "interrupt" /\ runtime' \in {0, starts}
    BY <1>2, <2>1 DEF ReadReport, LineRaises, Told, WritePid, MarkRunning, AllocateIp,
       ConfigureNetwork, JournalNetwork, StartProxy, JournalProxy, WriteNetwork, Published,
       At, IInv, Interrupted, Ahead, Shared, CleanLabels
  <2>2. /\ pc'[Run] \in {"writePid", "markRunning", "commit", "netConfig", "journalNet", "proxy",
                        "journalProxy", "publish", "stream", "fail"}
        /\ pc'[Run] = "commit" => next'[Run] = "allocIp"
    BY <1>0, <1>2 DEF ReadReport, LineRaises, WritePid, MarkRunning, AllocateIp,
       ConfigureNetwork, JournalNetwork, StartProxy, JournalProxy, WriteNetwork, Published,
       TransitionBegin, AddResource, Look, Goto
  <2> QED
    BY <2>1, <2>2, <2>3, LaunchSilent DEF Ahead, Shared
<1>3. CASE StreamLine
  BY <1>3 DEF StreamLine, ctlVars, procVars, runVars, IInv, Alone, NothingRuns, Told, Ending,
     Doomed, CleansInterrupted, Interrupted, NetNext, Ahead
<1> QED
  BY <1>1, <1>2, <1>3

\* After the exit, and in the except and finally clauses: the wait for
\* axis-runtime ends with the process gone, and the except clause sends SIGKILL.
LEMMA RunEndIInv ==
  ASSUME TypeOK, IInv,
         \/ StreamEnd \/ ExitRead \/ MarkExited \/ FailSignal \/ FailForce \/ FailMark
         \/ Finally \/ LoopCheck \/ BumpRestartCount \/ InterruptMark
  PROVE  IInv'
<1> USE DEF At, Goto
<1>0. Run \in Procs /\ pc \in [Procs -> Labels] /\ next \in [Procs -> Labels]
  BY DEF Procs, TypeOK, ControlOK
<1>a. ASSUME pc[Run] \in {"stream", "exitRead", "markExited", "loopCheck", "bump", "fail",
                           "failKill", "failMark"}
      PROVE  outcome # "interrupt"
  BY <1>a DEF IInv, Interrupted, Ahead, Shared, CleanLabels
<1>1. CASE StreamEnd
  <2>1. live = {}
    BY <1>1 DEF StreamEnd, IsPidAlive, IInv, Alone
  <2>2. UNCHANGED <<runtime, outcome>> /\ outcome # "interrupt"
    BY <1>1, <1>a DEF StreamEnd, runVars
  <2> QED
    BY <1>0, <1>1, <2>1, <2>2 DEF StreamEnd, Look, procVars, IInv, Alone, NothingRuns, Told,
       Ending, Doomed, CleansInterrupted, Interrupted, NetNext, Ahead, Shared, Quiet,
       CleanLabels
<1>2. CASE ExitRead \/ MarkExited \/ LoopCheck \/ BumpRestartCount
  <2>1. live = {} /\ live' = {} /\ UNCHANGED starts
    BY <1>2 DEF ExitRead, MarkExited, LoopCheck, BumpRestartCount, Look, TransitionBegin,
       WriteBegin, procVars, IInv, NothingRuns, Ahead, Shared, Quiet
  <2>2. /\ pc'[Run] \in {"markExited", "fail", "commit", "bump", "returned"}
        /\ pc'[Run] = "commit" => next'[Run] \in {"finally", "loop"}
    BY <1>0, <1>2 DEF ExitRead, MarkExited, LoopCheck, BumpRestartCount, Look,
       TransitionBegin, WriteBegin
  <2>3. UNCHANGED <<runtime, outcome>> /\ outcome # "interrupt"
    BY <1>2, <1>a DEF ExitRead, MarkExited, LoopCheck, BumpRestartCount, runVars
  <2> QED
    BY <2>1, <2>2, <2>3 DEF IInv, Alone, NothingRuns, Told, Doomed, CleansInterrupted,
       Interrupted, NetNext, Ahead, Shared, CleanLabels
<1>3. CASE FailSignal
  <2>1. /\ UNCHANGED <<starts, live, runtime>> /\ outcome' # "interrupt"
        /\ \/ pc'[Run] = "failKill"
           \/ pc'[Run] = "failMark" /\ runtime = 0
    BY <1>0, <1>3, <1>a DEF FailSignal, runVars
  <2>2. CASE pc'[Run] = "failKill"
    BY <2>1, <2>2, LaunchSilent DEF IInv, Told, Ahead, Shared
  <2>3. CASE pc'[Run] = "failMark" /\ runtime = 0
    BY <2>1, <2>3 DEF IInv, Alone, NothingRuns, Told, Ending, Doomed, CleansInterrupted,
       Interrupted, NetNext, Ahead, Shared, Quiet, CleanLabels
  <2> QED
    BY <2>1, <2>2, <2>3
<1>4. CASE FailForce
  <2>1. /\ UNCHANGED <<starts, live, runtime>> /\ pc'[Run] = "failMark"
        /\ runtime # 0 => live \subseteq kill'
        /\ outcome' # "interrupt"
    BY <1>0, <1>4, <1>a DEF FailForce, IInv, Alone, Told, runVars
  <2> QED
    BY <2>1 DEF IInv, Alone, NothingRuns, Told, Ending, Doomed, CleansInterrupted, Interrupted,
       NetNext, Ahead, Shared, Quiet, CleanLabels
<1>5. CASE FailMark
  <2>1. /\ pc[Run] = "failMark" /\ pc'[Run] = "commit" /\ next'[Run] = "finally"
        /\ outcome' = "error" /\ UNCHANGED <<starts, live, kill, runtime>>
    BY <1>0, <1>5 DEF FailMark, WriteBegin, procVars
  <2>2. outcome # "interrupt" /\ runtime # 0 => live \subseteq kill
    BY <2>1 DEF IInv, Doomed, Ending, Ahead, Shared
  <2>3. outcome # "interrupt"
    BY <1>a, <2>1
  <2> QED
    BY <2>1, <2>2, <2>3 DEF IInv, Alone, NothingRuns, Told, Ending, Doomed, CleansInterrupted,
       Interrupted, NetNext, Ahead, Shared, Quiet, CleanLabels
<1>6. CASE Finally
  <2>1. /\ pc[Run] = "finally" /\ Ahead' = Resume
        /\ UNCHANGED <<starts, live, kill, runtime, outcome>>
        /\ Resume \in {"loopCheck", "raised", "intrMark"}
        /\ outcome = "ok" => Resume = "loopCheck"
        /\ outcome = "error" => Resume = "raised"
        /\ outcome = "interrupt" => Resume = "intrMark"
        /\ outcome \in {"ok", "error", "interrupt"}
        /\ pc'[Run] \in {"netRead", Resume}
        /\ pc'[Run] = "netRead" => next'[Run] = Resume
    BY <1>0, <1>6 DEF Finally, NetCheck, Look, Resume, Ahead, Shared, procVars, runVars,
       TypeOK, LocalsOK
  <2> QED
    BY <2>1 DEF IInv, Alone, NothingRuns, Told, Ending, Doomed, CleansInterrupted, Interrupted,
       NetNext, Ahead, Shared, Quiet, CleanLabels
<1>7. CASE InterruptMark
  <2>1. /\ pc[Run] = "intrMark" /\ pc'[Run] = "commit" /\ next'[Run] = "cleanStart"
        /\ UNCHANGED <<starts, live, runtime, outcome>>
    BY <1>0, <1>7 DEF InterruptMark, WriteBegin, procVars, runVars
  <2> QED
    BY <2>1 DEF IInv, Alone, NothingRuns, Told, Ending, Doomed, CleansInterrupted, Interrupted,
       NetNext, Ahead, Shared, Quiet, CleanLabels
<1> QED
  BY <1>1, <1>2, <1>3, <1>4, <1>5, <1>6, <1>7

\* The shared procedures keep the invariant when the run itself executes them.
LEMMA RunSharedIInv ==
  ASSUME TypeOK, IInv,
         Commit(Run) \/ CleanupNetwork(Run) \/ StopProcesses(Run) \/ CleanupState(Run)
  PROVE  IInv'
<1>0. Run \in Procs /\ pc \in [Procs -> Labels] /\ next \in [Procs -> Labels]
  BY DEF Procs, TypeOK, ControlOK
<1>1. UNCHANGED <<starts, live, runtime, outcome>> /\ kill \subseteq kill'
  BY DEF Commit, CleanupNetwork, NetRead, NetKill, NetRelease, StopProcesses, SignalMembers,
     WaitMembers, SignalPid, ForcePid, CleanupState, CleanStart, CleanMark, CleanNetwork,
     CleanDeleted, CleanScan, CleanUnlink, CleanEnd, Look, WriteBegin, NetCheck, procVars,
     runVars
<1>2. CASE Commit(Run)
  <2>1. pc[Run] = "commit" /\ pc'[Run] = next[Run] /\ UNCHANGED next
    BY <1>0, <1>2 DEF Commit, Goto
  <2>2. next[Run] \notin Shared
    BY <2>1 DEF IInv, NetNext
  <2>3. Ahead = next[Run] /\ Ahead' = next[Run]
    BY <2>1, <2>2 DEF Ahead, Shared
  <2> QED
    BY <1>1, <2>1, <2>2, <2>3 DEF IInv, Alone, NothingRuns, Told, Ending, Doomed,
       CleansInterrupted, Interrupted, NetNext, Shared
<1>3. CASE CleanupNetwork(Run)
  <2>1. /\ pc[Run] \in {"netRead", "netKill", "netRelease"} /\ UNCHANGED next
        /\ pc'[Run] \in {"netKill", "netRelease", next[Run], "raised"}
        /\ pc[Run] # "netRead" => pc'[Run] # "raised" \/ next[Run] = "raised"
    BY <1>0, <1>3 DEF CleanupNetwork, NetRead, NetKill, NetRelease, CleanRaised, Look, Goto
  <2>2. next[Run] \in {"loopCheck", "raised", "intrMark", "procs"} /\ Ahead = next[Run]
    BY <2>1 DEF IInv, NetNext, Ahead, Shared
  <2>3. Ahead' \in {next[Run], "raised"}
    BY <2>1, <2>2 DEF Ahead, Shared
  <2>4. CASE Ahead' = next[Run]
    BY <1>1, <2>1, <2>2, <2>4 DEF IInv, Alone, NothingRuns, Told, Ending, Doomed,
       CleansInterrupted, Interrupted, NetNext
  <2>5. CASE Ahead' = "raised"
    <3>1. outcome # "interrupt" /\ runtime # 0 => live \subseteq kill
      <4>1. CASE next[Run] = "loopCheck"
        BY <2>2, <4>1 DEF IInv, NothingRuns, Quiet
      <4>2. CASE next[Run] = "raised"
        BY <2>2, <4>2 DEF IInv, Doomed, Ending
      <4>3. CASE next[Run] \in {"intrMark", "procs"}
        BY <2>2, <4>3 DEF IInv, CleansInterrupted, CleanLabels
      <4> QED
        BY <2>2, <4>1, <4>2, <4>3
    <3> QED
      BY <1>1, <2>1, <2>2, <2>5, <3>1 DEF IInv, Alone, NothingRuns, Told, Ending, Doomed,
         CleansInterrupted, Interrupted, NetNext, Quiet, CleanLabels
  <2> QED
    BY <2>3, <2>4, <2>5
<1>4. CASE StopProcesses(Run) \/ CleanupState(Run)
  <2>1. /\ pc[Run] \in CleanLabels
        /\ Ahead' \in CleanLabels \cup {"raised", "returned"}
        /\ pc'[Run] \in {"netRead", "netKill", "netRelease"} => next'[Run] = "procs"
    <3>1. Run \notin Stops
      BY ProcsAssumption
    <3>2. CASE StopProcesses(Run)
      <4>1. /\ pc[Run] \in {"procs", "wait", "force"}
            /\ pc'[Run] \in {"wait", "force", "cleanDeleted"}
        BY <1>0, <3>1, <3>2 DEF StopProcesses, SignalMembers, WaitMembers, SignalPid,
           ForcePid, AfterKill, Goto
      <4> QED
        BY <4>1 DEF Ahead, Shared, CleanLabels
    <3>3. CASE CleanStart(Run)
      BY <1>0, <3>3 DEF CleanStart, Cleaned, CleanRaised, Look, Goto, Ahead, Shared,
         CleanLabels
    <3>4. CASE CleanMark(Run) \/ CleanNetwork(Run) \/ CleanDeleted(Run)
      BY <1>0, <3>4 DEF CleanMark, CleanNetwork, CleanDeleted, WriteBegin, NetCheck, Goto,
         Ahead, Shared, CleanLabels
    <3>5. CASE CleanScan(Run) \/ CleanUnlink(Run) \/ CleanEnd(Run)
      BY <1>0, <3>5 DEF CleanScan, CleanUnlink, CleanEnd, Cleaned, Look, Goto, Ahead,
         Shared, CleanLabels
    <3> QED
      BY <1>4, <3>2, <3>3, <3>4, <3>5 DEF CleanupState
  <2>2. outcome = "interrupt"
    BY <2>1 DEF IInv, CleansInterrupted, Ahead, Shared, CleanLabels
  <2>3. Alone /\ Told
    BY DEF IInv
  <2> QED
    BY <1>1, <2>1, <2>2, <2>3 DEF IInv, Alone, NothingRuns, Told, Ending, Doomed,
       CleansInterrupted, Interrupted, NetNext, Ahead, Shared, Quiet, CleanLabels
<1> QED
  BY <1>2, <1>3, <1>4

\* A step of the run that raises keeps the invariant.
LEMMA FaultIInv ==
  ASSUME TypeOK, IInv, Fault
  PROVE  IInv'
<1>0. Run \in Procs /\ pc \in [Procs -> Labels]
  BY DEF Procs, TypeOK, ControlOK
<1>1. /\ pc[Run] \in FaultPoints /\ pc'[Run] = FaultOf(pc[Run])
      /\ UNCHANGED <<starts, live, kill>> /\ outcome' \in {"ok", outcome}
      /\ runtime' \in {0, runtime}
  BY <1>0, ConfigAssumption DEF Fault, FreshLocals, Goto, procVars, runVars
<1>2. outcome # "interrupt"
  BY <1>1 DEF FaultPoints, IInv, Interrupted, Ahead, Shared, CleanLabels
<1>3. CASE pc[Run] \in {"prepare", "launch"}
  <2>1. live = {}
    BY <1>3 DEF IInv, NothingRuns, Ahead, Shared, Quiet
  <2>2. pc'[Run] \in {"raised", "fail"}
    BY <1>1, <1>3 DEF FaultOf
  <2> QED
    BY <1>1, <1>2, <2>1, <2>2 DEF IInv, Alone, NothingRuns, Told, Ending, Doomed,
       CleansInterrupted, Interrupted, NetNext, Ahead, Shared, CleanLabels
<1>4. CASE pc[Run] \notin {"prepare", "launch"}
  <2>1. pc'[Run] = "fail"
    BY <1>1, <1>4 DEF FaultOf
  <2> QED
    BY <1>1, <1>2, <2>1, LaunchSilent DEF IInv, Told, Ahead, Shared
<1> QED
  BY <1>3, <1>4

\* A Ctrl-C keeps the invariant.
LEMMA InterruptIInv ==
  ASSUME TypeOK, IInv, Interrupt
  PROVE  IInv'
<1>0. Run \in Procs /\ pc \in [Procs -> Labels]
  BY DEF Procs, TypeOK, ControlOK
<1>1. /\ outcome' = "interrupt" /\ UNCHANGED <<starts, live>>
      /\ pc'[Run] \in {"raised", "finally", "intrMark"} /\ runtime' \in {0, runtime}
  BY <1>0 DEF Interrupt, FreshLocals, Goto
<1> QED
  BY <1>1 DEF IInv, Alone, NothingRuns, Told, Ending, Doomed, CleansInterrupted, Interrupted,
     NetNext, Ahead, Shared, Quiet, CleanLabels

\* The death of the run keeps the invariant.
LEMMA CrashIInv ==
  ASSUME TypeOK, IInv, Crash
  PROVE  IInv'
<1>0. Run \in Procs /\ pc \in [Procs -> Labels]
  BY DEF Procs, TypeOK, ControlOK
<1>1. UNCHANGED <<starts, live, runtime, outcome>> /\ pc'[Run] = "crashed"
  BY <1>0 DEF Crash, Goto, procVars, runVars
<1> QED
  BY <1>1 DEF IInv, Alone, NothingRuns, Told, Ending, Doomed, CleansInterrupted, Interrupted,
     NetNext, Ahead, Shared, Quiet, CleanLabels

\* The invariant holds initially.
LEMMA InitIInv == Init => IInv
<1> SUFFICES ASSUME Init PROVE IInv
  OBVIOUS
<1>1. pc[Run] = "create" /\ live = {} /\ starts = 0 /\ runtime = 0 /\ outcome = "ok"
  BY ProcsAssumption DEF Init, Procs, Start
<1> QED
  BY <1>1 DEF IInv, Alone, NothingRuns, Told, Ending, Doomed, CleansInterrupted, Interrupted,
     NetNext, Ahead, Shared, Quiet, CleanLabels

\* Every step keeps the invariant.
LEMMA StepIInv == TypeOK /\ IInv /\ [Next]_vars => IInv'
<1>1. ASSUME TypeOK, IInv, Attached PROVE IInv'
  <2>1. CASE RunStep
    BY <1>1, <2>1, RunSetupIInv, RunLaunchIInv, RunEndIInv, RunSharedIInv DEF RunStep
  <2> QED
    BY <1>1, <2>1, RunLaunchIInv, FaultIInv, InterruptIInv, CrashIInv DEF Attached
<1>2. ASSUME TypeOK, IInv, UNCHANGED vars PROVE IInv'
  BY <1>2, OtherSteps DEF vars, ctlVars, procVars, runVars
<1> QED
  BY <1>1, <1>2, CommandOther, KernelIInv DEF Next

\* THEOREM 2.  The inductive invariant holds in every behaviour.
THEOREM Inductive == Spec => [](TypeOK /\ IInv)
<1>1. Init => TypeOK /\ IInv
  BY InitType, InitIInv
<1>2. TypeOK /\ IInv /\ [Next]_vars => (TypeOK /\ IInv)'
  BY StepType, StepIInv
<1> QED
  BY <1>1, <1>2, PTL DEF Spec

\* THEOREM 3.  At no time do two launches of the container run side by side
\* (run_container_loop), with any number of commands, faults and Ctrl-C.
THEOREM OneAtATime == Spec => []OneContainerProcess
<1>1. IInv => OneContainerProcess
  BY DEF IInv, Alone, OneContainerProcess
<1> QED
  BY <1>1, Inductive, PTL

\* THEOREM 4.  An `axis run` that has been told the pid of its last launch and
\* has ended without a Ctrl-C leaves no process that is not dead or about to
\* die by SIGKILL (except clause of run_container_once).  Before it is told, a
\* step that raises does leave one (runtime.py:69).
THEOREM NoOrphan == Spec => []RunLeavesNoOrphan
<1>1. IInv => RunLeavesNoOrphan
  BY DEF IInv, Doomed, Ending, RunLeavesNoOrphan, Ahead, Shared
<1> QED
  BY <1>1, Inductive, PTL

\* A launch is a launch of the abstract supervisor.
LEMMA LaunchMaps ==
  ASSUME TypeOK, IInv, Launch
  PROVE  [Supervised!Next]_<<starts, live>>
<1>1. live = {}
  BY DEF Launch, At, IInv, NothingRuns, Ahead, Shared, Quiet
<1>2. \/ starts' = starts + 1 /\ live' = live \cup {starts + 1}
      \/ UNCHANGED <<starts, live>>
  BY DEF Launch
<1>3. CASE starts' = starts + 1 /\ live' = live \cup {starts + 1}
  <2>1. live' = {starts'}
    BY <1>1, <1>3
  <2> QED
    BY <1>1, <1>3, <2>1 DEF Supervised!Next, Supervised!Launch
<1> QED
  BY <1>2, <1>3

\* A process that ends is the end the abstract supervisor waits for.
LEMMA KernelMaps ==
  ASSUME TypeOK, IInv, Kernel
  PROVE  [Supervised!Next]_<<starts, live>>
<1>1. PICK i \in live : JoinCgroup(i) \/ Exit(i) \/ TermExit(i) \/ KillExit(i)
  BY DEF Kernel
<1>2. UNCHANGED starts /\ (UNCHANGED live \/ live' = live \ {i})
  BY <1>1 DEF JoinCgroup, Exit, TermExit, KillExit, Gone, KernelFrame
<1>3. live = {i}
  BY DEF IInv, Alone
<1> QED
  BY <1>2, <1>3 DEF Supervised!Next, Supervised!End

\* Every other step leaves the launches and the processes alone.
LEMMA OthersStutter ==
  ASSUME TypeOK, IInv, [Next]_vars, ~Launch, ~Kernel
  PROVE  UNCHANGED <<starts, live>>
<1>1. ASSUME NEW p \in Procs,
             Commit(p) \/ CleanupNetwork(p) \/ StopProcesses(p) \/ CleanupState(p)
      PROVE  UNCHANGED <<starts, live>>
  BY <1>1 DEF Commit, CleanupNetwork, NetRead, NetKill, NetRelease, StopProcesses,
     SignalMembers, WaitMembers, SignalPid, ForcePid, CleanupState, CleanStart, CleanMark,
     CleanNetwork, CleanDeleted, CleanScan, CleanUnlink, CleanEnd, Look, WriteBegin,
     NetCheck, procVars
<1>2. CASE Command
  <2>1. ASSUME NEW p \in Stops, StopCommand(p) PROVE UNCHANGED <<starts, live>>
    BY <1>1, <2>1 DEF Procs, StopCommand, StopResolve, StopStatus, StopPid, StopIdle,
       StopMark, StopExit, Look, WriteBegin, TransitionBegin, procVars
  <2>2. ASSUME NEW p \in Cleans, CleanCommand(p) PROVE UNCHANGED <<starts, live>>
    BY <1>1, <2>2 DEF Procs, CleanCommand, CleanResolve, CleanUnknown, Look, procVars
  <2>3. ASSUME NEW p \in Reconciles, ReconcileCommand(p) PROVE UNCHANGED <<starts, live>>
    BY <1>1, <2>3 DEF Procs, ReconcileCommand, ReconcileFind, ReconcileStatus, ReconcilePid,
       ReconcileFail, ReconcileNetwork, ReconcileProxies, ReconcileWrite, ReportsOnly, Look,
       WriteBegin, procVars
  <2> QED
    BY <1>2, <2>1, <2>2, <2>3 DEF Command
<1>3. CASE Attached
  <2>1. CASE \/ CreateState \/ MarkCreated \/ WriteRuntimeConfig \/ JournalCgroup
             \/ LoopRead \/ MarkStarting \/ ReadReport \/ WritePid \/ MarkRunning
             \/ AllocateIp \/ ConfigureNetwork \/ JournalNetwork
    BY <2>1 DEF ReadReport, CreateState, MarkCreated, WriteRuntimeConfig, JournalCgroup,
       LoopRead, MarkStarting, WritePid, MarkRunning, AllocateIp, ConfigureNetwork,
       JournalNetwork, TransitionBegin, AddResource, Look, procVars
  <2>2. CASE \/ StartProxy \/ JournalProxy \/ WriteNetwork \/ Published
             \/ StreamLine \/ LineRaises \/ StreamEnd \/ ExitRead \/ MarkExited
             \/ FailSignal \/ FailForce \/ FailMark
             \/ Finally \/ LoopCheck \/ BumpRestartCount \/ InterruptMark
    BY <2>2 DEF StartProxy, JournalProxy, WriteNetwork, Published, StreamLine, LineRaises,
       StreamEnd, ExitRead, MarkExited, FailSignal, FailForce, FailMark, Finally, LoopCheck,
       BumpRestartCount, InterruptMark, TransitionBegin, AddResource, WriteBegin, NetCheck,
       Look, procVars
  <2>3. CASE Fault \/ Interrupt \/ Crash
    BY <2>3 DEF Fault, Interrupt, Crash, procVars
  <2>4. CASE Commit(Run) \/ CleanupNetwork(Run) \/ StopProcesses(Run) \/ CleanupState(Run)
    BY <1>1, <2>4 DEF Procs
  <2> QED
    BY <1>3, <2>1, <2>2, <2>3, <2>4 DEF Attached, RunStep
<1>4. CASE UNCHANGED vars
  BY <1>4 DEF vars, procVars
<1> QED
  BY <1>2, <1>3, <1>4 DEF Next

\* THEOREM 5.  `axis run`, with every command and the kernel around it,
\* implements the abstract supervisor: one launch, its end, the next launch.
THEOREM RunImplementsSupervisor == Spec => ImplementsSupervisor
<1>1. Init => Supervised!Init
  BY DEF Init, Supervised!Init
<1>2. TypeOK /\ IInv /\ [Next]_vars => [Supervised!Next]_<<starts, live>>
  BY LaunchMaps, KernelMaps, OthersStutter
<1> QED
  BY <1>1, <1>2, Inductive, PTL DEF Spec, ImplementsSupervisor, Supervised!Spec,
     Supervised!supervisorVars

(***************************************************************************)
(* What is on its way to the status file: each writer knows what it is     *)
(* about to write, whatever the file says by the time it does.             *)
(***************************************************************************)
StopsWrite ==
  \A p \in Stops :
    pc[p] = "commit" =>
      /\ pending[p].manual_stop
      /\ \/ next[p] = "procs" /\ pending[p].state = "stopping"
         \/ next[p] = "stopDone" /\ pending[p].state = "exited"

ReconcilesWrite ==
  \A p \in Reconciles :
    pc[p] = "commit" => next[p] = "recNet" /\ pending[p].state = "failed"

RunWrites ==
  pc[Run] = "commit" =>
    \/ outcome = "interrupt"
    \/ next[Run] = "prepare" /\ pending[Run].state = "created"
    \/ next[Run] = "launch" /\ pending[Run].state = "starting"
    \/ next[Run] = "allocIp" /\ pending[Run].state = "running"
    \/ next[Run] = "finally" /\ pending[Run].state \in {"exited", "failed"}
    \/ next[Run] = "loop" /\ pending[Run].state = "exited"

Writes == StopsWrite /\ ReconcilesWrite /\ RunWrites

\* A run whose launch has failed goes nowhere but out.
ErrorEnds == outcome = "error" => Ahead \in {"finally", "raised", "crashed"}

\* The setup comes before the first launch.
Unlaunched == Ahead \in {"create", "created", "prepare", "journal"} => starts = 0

Course == Writes /\ ErrorEnds /\ Unlaunched

\* What a step of the run leaves alone.
OthersStay == \A p \in Procs \ {Run} : UNCHANGED <<pc[p], next[p], pending[p]>>

\* What the payloads say of the fields they are computed for.
LEMMA Payloads ==
  ASSUME TypeOK
  PROVE  /\ [ReadStatus EXCEPT !.state = "created", !.manual_stop = FALSE].state = "created"
         /\ [ReadStatus EXCEPT !.state = "starting", !.manual_stop = seen.manual_stop,
                               !.restart_count = seen.restart_count].state = "starting"
         /\ [ReadStatus EXCEPT !.state = "running", !.manual_stop = FALSE].state = "running"
         /\ LET exited == [ReadStatus EXCEPT !.state = "exited",
                                             !.manual_stop = seen.manual_stop,
                                             !.exit_reason = "exit"]
            IN  exited.state = "exited" /\ exited.manual_stop = seen.manual_stop
         /\ [ReadStatus EXCEPT !.state = "failed",
                               !.exit_reason = "runtime_error"].state = "failed"
         /\ [ReadStatus EXCEPT !.state = "exited",
                               !.restart_count = seen.restart_count + 1].state = "exited"
BY DEF TypeOK, DirectoryOK, ReadStatus, Status

\* A step of the run moves the run only, and keeps its course.
LEMMA RunKeepsCourse ==
  ASSUME TypeOK, IInv, Course, Attached
  PROVE  OthersStay /\ (RunWrites /\ ErrorEnds /\ Unlaunched)'
<1>0. Run \in Procs /\ pc \in [Procs -> Labels] /\ next \in [Procs -> Labels]
      /\ pending \in [Procs -> Status] /\ status \in Status
  BY DEF Procs, TypeOK, ControlOK, DirectoryOK
<1>a. ASSUME Ahead \notin {"finally", "raised", "returned", "crashed"} \cup CleanLabels
      PROVE  outcome = "ok"
  BY <1>a DEF TypeOK, LocalsOK, Course, ErrorEnds, IInv, Interrupted
<1> USE <1>0 DEF Course, Writes, RunWrites, ErrorEnds, Unlaunched, OthersStay, Ahead, Shared,
                 At, Goto
<1>1. CASE \/ CreateState \/ MarkCreated \/ WriteRuntimeConfig \/ JournalCgroup
           \/ LoopRead \/ MarkStarting
  BY <1>1, <1>a, Payloads DEF CreateState, MarkCreated, WriteRuntimeConfig, JournalCgroup,
     LoopRead, MarkStarting, TransitionBegin, AddResource, Look, procVars, runVars,
     CleanLabels
<1>2. CASE Launch \/ ReadReport \/ WritePid \/ MarkRunning \/ AllocateIp \/ ConfigureNetwork
  BY <1>2, <1>a, Payloads DEF Launch, ReadReport, WritePid, MarkRunning, AllocateIp,
     ConfigureNetwork, TransitionBegin, procVars, runVars, CleanLabels
<1>3. CASE \/ JournalNetwork \/ StartProxy \/ JournalProxy \/ WriteNetwork \/ Published
           \/ StreamLine \/ LineRaises \/ StreamEnd
  BY <1>3, <1>a DEF LineRaises, JournalNetwork, StartProxy, JournalProxy, WriteNetwork,
     Published, StreamLine, StreamEnd, AddResource, Look, procVars, runVars, ctlVars,
     CleanLabels
<1>4. CASE \/ ExitRead \/ MarkExited \/ FailSignal \/ FailForce \/ FailMark
           \/ LoopCheck \/ BumpRestartCount
  BY <1>4, <1>a, Payloads DEF ExitRead, MarkExited, FailSignal, FailForce, FailMark, LoopCheck,
     BumpRestartCount, TransitionBegin, WriteBegin, Look, procVars, runVars, CleanLabels
<1>5. CASE Finally
  BY <1>5 DEF Finally, NetCheck, Look, Resume, procVars, runVars, TypeOK, LocalsOK
<1>6. CASE Commit(Run)
  BY <1>6 DEF Commit, procVars, runVars, IInv, NetNext
<1>7. CASE CleanupNetwork(Run)
  BY <1>7 DEF CleanupNetwork, NetRead, NetKill, NetRelease, CleanRaised, Look, procVars,
     runVars, IInv, NetNext
<1>8. CASE InterruptMark \/ StopProcesses(Run) \/ CleanupState(Run)
  <2>1. Ahead \in CleanLabels
    BY <1>8 DEF InterruptMark, StopProcesses, SignalMembers, WaitMembers, SignalPid,
       ForcePid, CleanupState, CleanStart, CleanMark, CleanNetwork, CleanDeleted, CleanScan,
       CleanUnlink, CleanEnd, CleanLabels
  <2>2. outcome = "interrupt" /\ UNCHANGED <<starts, outcome>>
    BY <1>8, <2>1 DEF IInv, CleansInterrupted, InterruptMark, StopProcesses, SignalMembers,
       WaitMembers, SignalPid, ForcePid, CleanupState, CleanStart, CleanMark, CleanNetwork,
       CleanDeleted, CleanScan, CleanUnlink, CleanEnd, Look, WriteBegin, NetCheck, procVars,
       runVars
  <2>3. OthersStay
    BY <1>8 DEF InterruptMark, StopProcesses, SignalMembers, WaitMembers, SignalPid,
       ForcePid, CleanupState, CleanStart, CleanMark, CleanNetwork, CleanDeleted, CleanScan,
       CleanUnlink, CleanEnd, Look, WriteBegin, NetCheck
  <2>4. Ahead' \notin {"create", "created", "prepare", "journal"}
    <3>1. Run \notin Stops
      BY ProcsAssumption
    <3> QED
      BY <1>8, <3>1 DEF InterruptMark, StopProcesses, SignalMembers, WaitMembers, SignalPid,
         ForcePid, CleanupState, CleanStart, CleanMark, CleanNetwork, CleanDeleted,
         CleanScan, CleanUnlink, CleanEnd, Look, WriteBegin, NetCheck, AfterKill, Cleaned,
         CleanRaised
  <2> QED
    BY <2>2, <2>3, <2>4
<1>9. CASE Fault \/ Crash
  BY <1>9, <1>a, ConfigAssumption DEF Fault, Crash, FaultOf, FaultPoints, procVars, runVars,
     CleanLabels
<1>10. CASE Interrupt
  BY <1>10 DEF Interrupt
<1> QED
  BY <1>1, <1>2, <1>3, <1>4, <1>5, <1>6, <1>7, <1>8, <1>9, <1>10 DEF Attached, RunStep

\* A stop can be marked only over a container that runs or is being stopped,
\* and "stopping" can always become "exited".
LEMMA Transitions ==
  /\ \A from \in States : Valid(from, "stopping") => from \in {"running", "stopping"}
  /\ \A from \in States : Valid(from, "starting") => from \notin {"running", "stopping"}
  /\ Valid("stopping", "exited")
BY DEF Valid, AllowedTransitions, States

\* What is about to be written by a command other than the run that moves.
CommandWrites(p) ==
  /\ p \in Stops /\ pc[p] = "commit" =>
       /\ pending[p].manual_stop
       /\ \/ next[p] = "procs" /\ pending[p].state = "stopping"
          \/ next[p] = "stopDone" /\ pending[p].state = "exited"
  /\ p \in Reconciles /\ pc[p] = "commit" =>
       next[p] = "recNet" /\ pending[p].state = "failed"

\* A step of a stop moves that stop only; it writes the status only in
\* Commit, and only once it has marked the container it sends signals.
LEMMA StopKeepsCourse ==
  ASSUME TypeOK, StopsWrite, NEW p \in Stops, StopCommand(p)
  PROVE  /\ \A q \in Procs \ {p} : UNCHANGED <<pc[q], next[q], pending[q]>>
         /\ CommandWrites(p)'
         /\ UNCHANGED <<starts, live, exits, runVars>>
         /\ \/ UNCHANGED status
            \/ pc[p] = "commit" /\ status' = pending[p]
         /\ \/ UNCHANGED <<term, kill>>
            \/ pc[p] \in {"procs", "wait", "force"}
         /\ pc'[p] = "commit" /\ next'[p] = "procs" => status.state \in {"running", "stopping"}
         /\ pc'[p] \in {"procs", "wait", "force", "stopExit"} =>
              \/ pc[p] \in {"procs", "wait", "force", "stopExit"}
              \/ pc[p] = "commit" /\ next[p] = "procs" /\ status' = pending[p]
         /\ pc[p] \in {"procs", "wait", "force"} =>
              pc'[p] \in {"procs", "wait", "force", "stopExit"}
         /\ pc[p] = "stopExit" /\ status.state = "stopping" =>
              pc'[p] = "commit" /\ next'[p] = "stopDone"
         /\ pc[p] = "commit" => pc'[p] = next[p] /\ status' = pending[p]
<1>0. /\ p \in Procs /\ p \notin Reconciles /\ p # Run
      /\ pc \in [Procs -> Labels] /\ next \in [Procs -> Labels]
      /\ pending \in [Procs -> Status] /\ status \in Status /\ status.state \in States
      /\ status.manual_stop \in BOOLEAN
  BY ProcsAssumption DEF Procs, TypeOK, ControlOK, DirectoryOK, Status
<1>a. /\ LET marked == [ReadStatus EXCEPT !.state = "stopping", !.manual_stop = TRUE]
         IN  marked.state = "stopping" /\ marked.manual_stop
      /\ LET idle == [ReadStatus EXCEPT !.state = "exited", !.manual_stop = TRUE]
         IN  idle.state = "exited" /\ idle.manual_stop
      /\ LET ended == [ReadStatus EXCEPT !.state = "exited", !.manual_stop = TRUE,
                                         !.exit_reason = "stopped"]
         IN  ended.state = "exited" /\ ended.manual_stop
  BY <1>0 DEF ReadStatus, Status
<1> USE <1>0 DEF CommandWrites, StopsWrite, Goto
<1>1. CASE StopResolve(p) \/ StopStatus(p) \/ StopPid(p)
  BY <1>1 DEF StopResolve, StopStatus, StopPid, Look, dirVars, procVars
<1>2. CASE StopIdle(p) \/ StopMark(p) \/ StopExit(p)
  BY <1>a, <1>2, Transitions DEF StopIdle, StopMark, StopExit, WriteBegin, TransitionBegin,
     dirVars, procVars, ReadStatus
<1>3. CASE StopProcesses(p)
  BY <1>3 DEF StopProcesses, SignalMembers, WaitMembers, SignalPid, ForcePid, AfterKill,
     dirVars
<1>4. CASE Commit(p)
  BY <1>4 DEF Commit, procVars
<1> QED
  BY <1>1, <1>2, <1>3, <1>4 DEF StopCommand

\* A step of a clean moves that clean only.
LEMMA CleanKeepsCourse ==
  ASSUME TypeOK, NEW p \in Cleans, CleanCommand(p)
  PROVE  /\ \A q \in Procs \ {p} : UNCHANGED <<pc[q], next[q], pending[q]>>
         /\ UNCHANGED <<starts, runVars>>
<1>0. p \in Procs
  BY DEF Procs
<1> USE <1>0 DEF TypeOK, ControlOK, Goto, procVars
<1>1. CASE CleanResolve(p) \/ CleanUnknown(p)
  BY <1>1 DEF CleanResolve, CleanUnknown, Look
<1>2. CASE CleanupState(p)
  BY <1>2 DEF CleanupState, CleanStart, CleanMark, CleanNetwork, CleanDeleted, CleanScan,
     CleanUnlink, CleanEnd, WriteBegin, NetCheck, Look
<1>3. CASE CleanupNetwork(p) \/ StopProcesses(p) \/ Commit(p)
  BY <1>3 DEF CleanupNetwork, NetRead, NetKill, NetRelease, StopProcesses, SignalMembers,
     WaitMembers, SignalPid, ForcePid, Commit
<1> QED
  BY <1>1, <1>2, <1>3 DEF CleanCommand

\* A step of a reconcile moves that reconcile only, and writes nothing but
\* "failed".
LEMMA ReconcileKeepsCourse ==
  ASSUME TypeOK, ReconcilesWrite, NEW p \in Reconciles, ReconcileCommand(p)
  PROVE  /\ \A q \in Procs \ {p} : UNCHANGED <<pc[q], next[q], pending[q]>>
         /\ CommandWrites(p)'
         /\ UNCHANGED <<starts, runVars>>
         /\ UNCHANGED status \/ status'.state = "failed"
<1>0. /\ p \in Procs /\ p \notin Stops
      /\ pc \in [Procs -> Labels] /\ next \in [Procs -> Labels]
      /\ pending \in [Procs -> Status] /\ status \in Status
  BY ProcsAssumption DEF Procs, TypeOK, ControlOK, DirectoryOK
<1>a. [ReadStatus EXCEPT !.state = "failed", !.exit_reason = "stale_pid"].state = "failed"
  BY <1>0 DEF ReadStatus, Status
<1> USE <1>0 DEF CommandWrites, ReconcilesWrite, Goto
<1>1. CASE \/ ReconcileFind(p) \/ ReconcileStatus(p) \/ ReconcilePid(p)
           \/ ReconcileNetwork(p) \/ ReconcileProxies(p) \/ ReconcileWrite(p)
  BY <1>1 DEF ReconcileFind, ReconcileStatus, ReconcilePid, ReconcileNetwork,
     ReconcileProxies, ReconcileWrite, ReportsOnly, Look, dirVars, procVars
<1>2. CASE ReconcileFail(p)
  BY <1>a, <1>2 DEF ReconcileFail, ReportsOnly, Look, WriteBegin, dirVars, procVars
<1>3. CASE Commit(p)
  BY <1>3 DEF Commit, procVars
<1> QED
  BY <1>1, <1>2, <1>3 DEF ReconcileCommand

\* Every step keeps the course of the run and of the writes.
LEMMA StepCourse == TypeOK /\ IInv /\ Course /\ [Next]_vars => Course'
<1> SUFFICES ASSUME TypeOK, IInv, Course, [Next]_vars PROVE Course'
  OBVIOUS
<1>0. /\ Run \in Procs /\ Run \notin Stops \cup Cleans \cup Reconciles
      /\ Stops \cup Cleans \cup Reconciles \subseteq Procs
      /\ Stops \cap Cleans = {} /\ Stops \cap Reconciles = {} /\ Cleans \cap Reconciles = {}
  BY ProcsAssumption DEF Procs
<1> USE <1>0 DEF Course, Writes, StopsWrite, ReconcilesWrite
<1>1. CASE Attached
  BY <1>1, RunKeepsCourse DEF OthersStay
<1>2. ASSUME UNCHANGED <<pc[Run], next[Run], pending[Run], starts, runVars>>
      PROVE  (RunWrites /\ ErrorEnds /\ Unlaunched)'
  BY <1>2 DEF RunWrites, ErrorEnds, Unlaunched, Ahead, runVars
<1>3. ASSUME NEW p \in Stops, StopCommand(p) PROVE Course'
  BY <1>2, <1>3, StopKeepsCourse DEF CommandWrites
<1>4. ASSUME NEW p \in Cleans, CleanCommand(p) PROVE Course'
  BY <1>2, <1>4, CleanKeepsCourse
<1>5. ASSUME NEW p \in Reconciles, ReconcileCommand(p) PROVE Course'
  BY <1>2, <1>5, ReconcileKeepsCourse DEF CommandWrites
<1>6. CASE Kernel \/ UNCHANGED vars
  <2>1. UNCHANGED <<ctlVars, starts, runVars>>
    BY <1>6 DEF Kernel, JoinCgroup, Exit, TermExit, KillExit, KernelFrame, vars, procVars
  <2> QED
    BY <1>2, <2>1 DEF ctlVars
<1> QED
  BY <1>1, <1>3, <1>4, <1>5, <1>6 DEF Next, Command

(***************************************************************************)
(* A stop against the restart loop, as long as the container has not ended *)
(* by itself.  The intent of a stop is one field of a file that the run    *)
(* writes too, so it has to be followed from the stop that writes it to    *)
(* the run that reads it: it cannot be written before the container is     *)
(* marked running, it is there before any signal is, and once the process  *)
(* is gone the run carries it through its own write of "exited".           *)
(***************************************************************************)
Marked(p) == pc[p] \in {"procs", "wait", "force", "stopExit"}
Marking(p) == pc[p] = "commit" /\ next[p] = "procs"

\* Until its first "running" is written no stop can mark the container.
Early ==
  /\ outcome = "ok"
  /\ \/ Ahead \in {"create", "created", "prepare", "journal", "loop", "starting", "launch",
                   "report", "writePid", "markRunning"}
     \/ pc[Run] = "commit" /\ next[Run] = "allocIp"

Unmarked ==
  Early =>
    /\ status.state \notin {"running", "stopping"}
    /\ \A p \in Stops : ~Marked(p) /\ ~Marking(p)
    /\ Ahead \in {"report", "writePid", "markRunning", "allocIp"} =>
         live = {starts} /\ term = {} /\ kill = {}

\* From then on whoever has been stopped, or is about to be, has been marked.
Up == {"allocIp", "netConfig", "journalNet", "proxy", "journalProxy", "publish", "stream"}

Intended ==
  /\ outcome = "ok" /\ pc[Run] \in Up
  /\ live = {} \/ term # {} \/ kill # {} \/ \E p \in Stops : Marked(p)
  => status.manual_stop

\* A container that has exited has been stopped, and the run keeps that.
Down == {"exitRead", "markExited", "finally", "loopCheck"}

Stopped ==
  outcome = "ok" /\ Ahead \in Down =>
    /\ status.manual_stop
    /\ pc[Run] = "markExited" => seen.manual_stop
    /\ pc[Run] = "commit" => pending[Run].manual_stop

LaunchedOnce ==
  outcome = "ok" =>
    /\ Ahead # "bump"
    /\ starts > 0 => Ahead \notin {"loop", "starting", "launch"}

NotOvertaken == exits = 0 => Unmarked /\ Intended /\ Stopped /\ LaunchedOnce

StopsAlone == Cleans = {} /\ Reconciles = {}

\* A step of a stop keeps it.
LEMMA StopNotOvertaken ==
  ASSUME StopsAlone, TypeOK, IInv, Course, NotOvertaken, NEW p \in Stops, StopCommand(p)
  PROVE  NotOvertaken'
<1>0. /\ Run \in Procs \ {p} /\ Stops \subseteq Procs
  BY ProcsAssumption DEF Procs
<1>1. /\ UNCHANGED <<pc[Run], next[Run], pending[Run], starts, live, exits, runVars>>
      /\ \A q \in Stops \ {p} : UNCHANGED <<pc[q], next[q]>>
      /\ \/ UNCHANGED status
         \/ pc[p] = "commit" /\ status' = pending[p]
      /\ UNCHANGED <<term, kill>> \/ Marked(p)
      /\ Marking(p)' => status.state \in {"running", "stopping"}
      /\ Marked(p)' => Marked(p) \/ (Marking(p) /\ status' = pending[p])
  BY <1>0, StopKeepsCourse DEF Course, Writes, Marked, Marking
<1>2. pc[p] = "commit" =>
        /\ pending[p].manual_stop
        /\ \/ pending[p].state = "stopping" /\ Marking(p)
           \/ pending[p].state = "exited"
  BY DEF Course, Writes, StopsWrite, Marking
<1>3. UNCHANGED <<Ahead, outcome, seen>>
  BY <1>1 DEF Ahead, runVars
<1> SUFFICES ASSUME exits = 0, Unmarked, Intended, Stopped, LaunchedOnce
             PROVE  (Unmarked /\ Intended /\ Stopped /\ LaunchedOnce)'
  BY <1>1 DEF NotOvertaken
<1>4. Unmarked'
  <2> SUFFICES ASSUME Early' PROVE Unmarked'
    BY DEF Unmarked
  <2>1. Early
    BY <1>1, <1>3 DEF Early
  <2>2. /\ status.state \notin {"running", "stopping"}
        /\ \A q \in Stops : ~Marked(q) /\ ~Marking(q)
    BY <2>1 DEF Unmarked
  <2>3. status'.state \notin {"running", "stopping"}
    BY <1>1, <1>2, <2>2
  <2>4. ~Marked(p)' /\ ~Marking(p)' /\ UNCHANGED <<term, kill>>
    BY <1>1, <2>2
  <2>5. \A q \in Stops : ~Marked(q)' /\ ~Marking(q)'
    BY <1>1, <2>2, <2>4 DEF Marked, Marking
  <2> QED
    BY <1>1, <1>3, <2>1, <2>3, <2>4, <2>5 DEF Unmarked
<1>5. Intended'
  <2> SUFFICES ASSUME outcome = "ok", pc[Run] \in Up,
                      live = {} \/ term' # {} \/ kill' # {} \/ \E q \in Stops : Marked(q)'
               PROVE  status'.manual_stop
    BY <1>1, <1>3 DEF Intended
  <2>1. CASE pc[p] = "commit" /\ status' = pending[p]
    BY <1>2, <2>1
  <2>2. CASE UNCHANGED status /\ ~(Marking(p) /\ status' = pending[p])
    <3>1. \A q \in Stops : Marked(q)' => Marked(q)
      BY <1>1, <2>2 DEF Marked
    <3> QED
      BY <1>1, <2>2, <3>1 DEF Intended
  <2> QED
    BY <1>1, <2>1, <2>2 DEF Marking
<1>6. Stopped'
  BY <1>1, <1>2, <1>3 DEF Stopped
<1>7. LaunchedOnce'
  BY <1>1, <1>3 DEF LaunchedOnce
<1> QED
  BY <1>4, <1>5, <1>6, <1>7

\* A process that ends without having been signalled ends by itself.
LEMMA KernelNotOvertaken ==
  ASSUME TypeOK, IInv, NotOvertaken, Kernel
  PROVE  NotOvertaken'
<1> SUFFICES ASSUME exits' = 0 PROVE (Unmarked /\ Intended /\ Stopped /\ LaunchedOnce)'
  BY DEF NotOvertaken
<1>1. PICK i \in live : JoinCgroup(i) \/ Exit(i) \/ TermExit(i) \/ KillExit(i)
  BY DEF Kernel
<1>2. /\ UNCHANGED <<ctlVars, status, starts, runVars>> /\ exits \in Nat
      /\ term' \subseteq term /\ kill' \subseteq kill
      /\ \/ UNCHANGED <<live, exits>>
         \/ UNCHANGED exits /\ i \in term \cup kill
         \/ exits' = exits + 1
  BY <1>1 DEF JoinCgroup, Exit, TermExit, KillExit, Gone, KernelFrame, dirVars, TypeOK,
     KernelOK
<1>3. exits = 0 /\ (UNCHANGED live \/ term # {} \/ kill # {})
  BY <1>2
<1>4. Unmarked /\ Intended /\ Stopped /\ LaunchedOnce
  BY <1>3 DEF NotOvertaken
<1>5. UNCHANGED <<Ahead, Early, pc, next, pending, seen, outcome>>
  BY <1>2 DEF ctlVars, runVars, Ahead, Early
<1>6. Unmarked'
  BY <1>2, <1>3, <1>4, <1>5 DEF Unmarked, Marked, Marking
<1>7. Intended'
  BY <1>2, <1>3, <1>4, <1>5 DEF Intended, Marked
<1>8. Stopped' /\ LaunchedOnce'
  BY <1>2, <1>4, <1>5 DEF Stopped, LaunchedOnce
<1> QED
  BY <1>6, <1>7, <1>8

\* A step of the run keeps it, when nobody can delete the status under it.
LEMMA RunNotOvertaken ==
  ASSUME TypeOK, IInv, Course, NotOvertaken, Attached
  PROVE  NotOvertaken'
<1>0. /\ Run \in Procs /\ pc \in [Procs -> Labels] /\ next \in [Procs -> Labels]
      /\ pending \in [Procs -> Status] /\ status \in Status /\ status.state \in States
      /\ outcome \in {"ok", "error", "interrupt"}
  BY DEF Procs, TypeOK, ControlOK, DirectoryOK, LocalsOK, Status
<1>a. ASSUME Ahead \notin {"finally", "raised", "returned", "crashed"} \cup CleanLabels
      PROVE  outcome = "ok"
  BY <1>0, <1>a DEF Course, ErrorEnds, IInv, Interrupted
<1>b. exits' = exits /\ \A p \in Stops : Marked(p)' = Marked(p) /\ Marking(p)' = Marking(p)
  <2>1. \A p \in Stops : Marked(p)' = Marked(p) /\ Marking(p)' = Marking(p)
    BY RunKeepsCourse, ProcsAssumption DEF OthersStay, Marked, Marking, Procs
  <2>2. ASSUME \/ CreateState \/ MarkCreated \/ WriteRuntimeConfig \/ JournalCgroup
               \/ LoopRead \/ MarkStarting \/ Launch \/ ReadReport \/ WritePid \/ MarkRunning
               \/ AllocateIp \/ ConfigureNetwork \/ JournalNetwork \/ StartProxy
               \/ JournalProxy \/ WriteNetwork \/ Published \/ StreamLine \/ LineRaises
               \/ StreamEnd \/ ExitRead \/ MarkExited \/ FailSignal \/ FailForce \/ FailMark
               \/ Finally \/ LoopCheck \/ BumpRestartCount \/ InterruptMark
        PROVE  UNCHANGED exits
    BY <2>2 DEF ReadReport, LineRaises, CreateState, MarkCreated, WriteRuntimeConfig,
       JournalCgroup, LoopRead, MarkStarting, Launch, WritePid, MarkRunning, AllocateIp,
       ConfigureNetwork, JournalNetwork, StartProxy, JournalProxy, WriteNetwork, Published,
       StreamLine, StreamEnd, ExitRead, MarkExited, FailSignal, FailForce, FailMark, Finally,
       LoopCheck, BumpRestartCount, InterruptMark, TransitionBegin, WriteBegin, AddResource,
       NetCheck, Look, procVars
  <2>3. ASSUME \/ Commit(Run) \/ CleanupNetwork(Run) \/ StopProcesses(Run)
               \/ CleanupState(Run) \/ Fault \/ Interrupt \/ Crash
        PROVE  UNCHANGED exits
    BY <2>3 DEF Commit, CleanupNetwork, NetRead, NetKill, NetRelease, StopProcesses,
       SignalMembers, WaitMembers, SignalPid, ForcePid, CleanupState, CleanStart, CleanMark,
       CleanNetwork, CleanDeleted, CleanScan, CleanUnlink, CleanEnd, WriteBegin, NetCheck,
       Look, Fault, Interrupt, Crash, procVars
  <2> QED
    BY <2>1, <2>2, <2>3 DEF Attached, RunStep
<1> SUFFICES ASSUME exits = 0, Unmarked, Intended, Stopped, LaunchedOnce
             PROVE  (Unmarked /\ Intended /\ Stopped /\ LaunchedOnce)'
  BY <1>b DEF NotOvertaken
<1> USE <1>0, <1>b DEF At, Goto, Ahead, Shared
<1> DEFINE All == Unmarked /\ Intended /\ Stopped /\ LaunchedOnce
<1>c. ASSUME Ahead' \notin Up \cup Down \cup {"create", "created", "prepare", "journal", "loop",
                 "starting", "launch", "report", "writePid", "markRunning", "bump"}
              \/ outcome' # "ok"
      PROVE  All'
  BY <1>c DEF Unmarked, Early, Intended, Stopped, LaunchedOnce, Up
<1>1. CASE \/ CreateState \/ MarkCreated \/ WriteRuntimeConfig \/ JournalCgroup
           \/ LoopRead \/ MarkStarting
  <2>1. /\ outcome = "ok" /\ UNCHANGED <<outcome, starts, live, term, kill, status>>
        /\ Ahead' \in {"created", "prepare", "journal", "loop", "starting", "launch",
                       "raised"}
        /\ Ahead \in {"create", "created", "prepare", "journal", "loop", "starting"}
    BY <1>1, <1>a DEF CreateState, MarkCreated, WriteRuntimeConfig, JournalCgroup, LoopRead,
       MarkStarting, TransitionBegin, AddResource, Look, procVars, runVars, dirVars,
       CleanLabels, Course, Unlaunched
  <2>2. Early /\ starts = 0
    BY <2>1 DEF Early, Course, Unlaunched, LaunchedOnce, TypeOK, KernelOK
  <2>3. Unmarked' /\ LaunchedOnce'
    BY <2>1, <2>2 DEF Unmarked, LaunchedOnce
  <2> QED
    BY <2>1, <2>3 DEF Intended, Stopped, Up, Down
<1>2. CASE Launch
  <2>1. outcome = "ok" /\ Ahead = "launch" /\ pc[Run] = "launch"
    BY <1>2, <1>a DEF Launch, CleanLabels
  <2>2. starts = 0 /\ live = {} /\ term = {} /\ kill = {} /\ Early
    BY <2>1 DEF LaunchedOnce, IInv, NothingRuns, Quiet, TypeOK, KernelOK, Early
  <2>3. CASE pc'[Run] = "fail"
    BY <1>c, <2>3 DEF Up, Down
  <2>4. CASE pc'[Run] # "fail"
    <3>1. /\ pc'[Run] = "report" /\ live' = {starts'} /\ UNCHANGED <<term, kill, status>>
      BY <1>2, <2>2, <2>4 DEF Launch
    <3> QED
      BY <2>2, <3>1 DEF Unmarked, Intended, Stopped, LaunchedOnce, Up, Down
  <2> QED
    BY <2>3, <2>4
<1>3. CASE ReadReport \/ WritePid \/ MarkRunning
  <2>1. /\ outcome = "ok" /\ UNCHANGED <<outcome, starts, live, term, kill, status>>
        /\ Ahead \in {"report", "writePid", "markRunning"}
        /\ pc'[Run] \in {"writePid", "markRunning", "fail", "commit"}
        /\ pc'[Run] = "commit" => next'[Run] = "allocIp"
    BY <1>3, <1>a DEF ReadReport, WritePid, MarkRunning, TransitionBegin, procVars, runVars,
       CleanLabels
  <2>2. Early
    BY <2>1 DEF Early
  <2> QED
    BY <2>1, <2>2 DEF Unmarked, Intended, Stopped, LaunchedOnce, Up, Down, Early
<1>4. CASE AllocateIp \/ ConfigureNetwork \/ JournalNetwork \/ StartProxy
           \/ JournalProxy \/ WriteNetwork \/ Published \/ StreamLine
  <2>1. /\ outcome = "ok" /\ UNCHANGED <<outcome, starts, live, term, kill, status>>
        /\ pc[Run] \in Up /\ pc'[Run] \in Up \cup {"fail"}
    BY <1>4, <1>a DEF AllocateIp, ConfigureNetwork, JournalNetwork, StartProxy, JournalProxy,
       WriteNetwork, Published, StreamLine, AddResource, Look, procVars, runVars, dirVars,
       ctlVars, CleanLabels, Up
  <2> QED
    BY <2>1 DEF Unmarked, Intended, Stopped, LaunchedOnce, Up, Down, Early
<1>5. CASE StreamEnd
  <2>1. /\ outcome = "ok" /\ UNCHANGED <<outcome, status>> /\ live = {}
        /\ pc[Run] \in Up /\ pc'[Run] = "exitRead"
    BY <1>5, <1>a DEF StreamEnd, IsPidAlive, IInv, Alone, Look, dirVars, runVars, CleanLabels,
       Up
  <2> QED
    BY <2>1 DEF Unmarked, Intended, Stopped, LaunchedOnce, Up, Down, Early
<1>6. CASE ExitRead \/ MarkExited \/ LoopCheck
  <2>1. /\ outcome = "ok" /\ UNCHANGED <<outcome, status>> /\ Ahead \in Down
    BY <1>6, <1>a DEF ExitRead, MarkExited, LoopCheck, TransitionBegin, Look, dirVars,
       runVars, CleanLabels, Down
  <2>2. status.manual_stop /\ (pc[Run] = "markExited" => seen.manual_stop)
    BY <2>1 DEF Stopped
  <2>3. CASE ExitRead
    BY <2>1, <2>2, <2>3 DEF ExitRead, ReadStatus, Look, Unmarked, Intended, Stopped,
       LaunchedOnce, Up, Down, Early
  <2>4. CASE MarkExited
    BY <2>1, <2>2, <2>4, Payloads DEF MarkExited, TransitionBegin, Unmarked, Intended,
       Stopped, LaunchedOnce, Up, Down, Early
  <2>5. CASE LoopCheck
    BY <2>1, <2>2, <2>5 DEF LoopCheck, ReadStatus, RestartWanted, Look, Unmarked, Intended,
       Stopped, LaunchedOnce, Up, Down, Early
  <2> QED
    BY <1>6, <2>3, <2>4, <2>5
<1>7. CASE FailSignal \/ FailForce \/ FailMark
  <2>1. pc'[Run] \in {"failKill", "failMark"} \/ outcome' = "error"
    BY <1>7 DEF FailSignal, FailForce, FailMark
  <2> QED
    BY <1>c, <2>1 DEF Up, Down
<1>8. CASE Finally
  <2>1. /\ UNCHANGED <<outcome, status>> /\ Ahead' = Resume /\ Ahead = "finally"
        /\ pc'[Run] \notin {"commit", "markExited"}
    BY <1>8 DEF Finally, NetCheck, Look, Resume, dirVars, runVars
  <2>2. CASE outcome = "ok"
    BY <2>1, <2>2 DEF Resume, Unmarked, Intended, Stopped, LaunchedOnce, Up, Down, Early
  <2> QED
    BY <1>c, <2>1, <2>2
<1>9. CASE BumpRestartCount
  BY <1>9, <1>a DEF BumpRestartCount, LaunchedOnce, CleanLabels
<1>10. CASE Commit(Run)
  <2>1. /\ pc[Run] = "commit" /\ pc'[Run] = next[Run] /\ status' = pending[Run]
        /\ UNCHANGED <<next, outcome, starts, live, term, kill, seen>>
        /\ Ahead' = Ahead /\ Ahead = next[Run]
    BY <1>10 DEF Commit, procVars, runVars, IInv, NetNext
  <2>2. CASE outcome = "ok" /\ next[Run] \in {"prepare", "launch"}
    BY <2>1, <2>2 DEF Course, Writes, RunWrites, Unmarked, Intended, Stopped, LaunchedOnce,
       Up, Down, Early
  <2>3. CASE outcome = "ok" /\ next[Run] = "allocIp"
    BY <2>1, <2>3 DEF Unmarked, Intended, Stopped, LaunchedOnce, Up, Down, Early
  <2>4. CASE outcome = "ok" /\ next[Run] = "finally"
    BY <2>1, <2>4 DEF Unmarked, Intended, Stopped, LaunchedOnce, Up, Down, Early
  <2>5. CASE outcome = "ok" /\ next[Run] = "loop"
    BY <2>1, <2>5 DEF Course, Writes, RunWrites, LaunchedOnce, Unmarked, Intended, Stopped,
       Up, Down, Early
  <2> QED
    BY <1>c, <2>1, <2>2, <2>3, <2>4, <2>5 DEF Course, Writes, RunWrites
<1>11. CASE CleanupNetwork(Run)
  <2>1. /\ pc[Run] \in {"netRead", "netKill", "netRelease"} /\ UNCHANGED <<outcome, status>>
        /\ pc'[Run] \in {"netKill", "netRelease", next[Run], "raised"} /\ UNCHANGED next
    BY <1>11 DEF CleanupNetwork, NetRead, NetKill, NetRelease, CleanRaised, Look, dirVars,
       runVars
  <2>2. next[Run] \in {"loopCheck", "raised", "intrMark", "procs"}
    BY <2>1 DEF IInv, NetNext
  <2>3. CASE outcome = "ok" /\ Ahead' = "loopCheck"
    BY <2>1, <2>2, <2>3 DEF Unmarked, Intended, Stopped, LaunchedOnce, Up, Down, Early
  <2> QED
    BY <1>c, <2>1, <2>2, <2>3 DEF Up, Down
<1>12. CASE InterruptMark \/ StopProcesses(Run) \/ CleanupState(Run)
  <2>1. Ahead \in CleanLabels /\ UNCHANGED outcome
    BY <1>12 DEF InterruptMark, StopProcesses, SignalMembers, WaitMembers, SignalPid,
       ForcePid, CleanupState, CleanStart, CleanMark, CleanNetwork, CleanDeleted, CleanScan,
       CleanUnlink, CleanEnd, Look, WriteBegin, NetCheck, runVars, CleanLabels
  <2> QED
    BY <1>c, <2>1 DEF IInv, CleansInterrupted
<1>13. CASE Fault \/ LineRaises \/ Interrupt \/ Crash
  <2>1. pc'[Run] \in {"raised", "fail", "crashed"} \/ outcome' = "interrupt"
    BY <1>13 DEF Fault, FaultOf, LineRaises, Look, Interrupt, Crash
  <2> QED
    BY <1>c, <2>1 DEF Up, Down
<1> QED
  BY <1>1, <1>2, <1>3, <1>4, <1>5, <1>6, <1>7, <1>8, <1>9, <1>10, <1>11, <1>12, <1>13
  DEF Attached, RunStep

\* It holds initially.
LEMMA InitNotOvertaken == Init => Course /\ NotOvertaken
<1> SUFFICES ASSUME Init PROVE Course /\ NotOvertaken
  OBVIOUS
<1>1. /\ pc[Run] = "create" /\ live = {} /\ starts = 0 /\ outcome = "ok" /\ exits = 0
      /\ status.state = "created"
      /\ \A p \in Stops : pc[p] = "stop"
      /\ \A p \in Reconciles : pc[p] = "rec"
  BY ProcsAssumption DEF Init, Procs, Start, DefaultStatus
<1> QED
  BY <1>1 DEF Course, Writes, StopsWrite, ReconcilesWrite, RunWrites, ErrorEnds, Unlaunched,
     NotOvertaken, Unmarked, Intended, Stopped, LaunchedOnce, Marked, Marking, Up, Down,
     Ahead, Shared

\* Every step keeps it.
LEMMA StepNotOvertaken ==
  ASSUME StopsAlone
  PROVE  TypeOK /\ IInv /\ Course /\ NotOvertaken /\ [Next]_vars => NotOvertaken'
<1> SUFFICES ASSUME TypeOK, IInv, Course, NotOvertaken, [Next]_vars PROVE NotOvertaken'
  OBVIOUS
<1>1. CASE Command
  BY <1>1, StopNotOvertaken DEF Command, StopsAlone
<1>2. CASE UNCHANGED vars
  <2>1. UNCHANGED <<pc, next, pending, status, live, term, kill, exits, seen, outcome, starts>>
    BY <1>2 DEF vars, ctlVars, dirVars, procVars, runVars
  <2>2. UNCHANGED <<Unmarked, Intended, Stopped, LaunchedOnce>>
    BY <2>1 DEF Unmarked, Early, Intended, Stopped, LaunchedOnce, Marked, Marking, Ahead
  <2> QED
    BY <2>1, <2>2 DEF NotOvertaken
<1> QED
  BY <1>1, <1>2, RunNotOvertaken, KernelNotOvertaken DEF Next

\* Only a launch starts something, and it comes before any intent.
LEMMA LaunchUnmarked ==
  ASSUME TypeOK, IInv, Course, NotOvertaken, [Next]_vars, StopMarked, exits = 0
  PROVE  UNCHANGED starts
<1>1. CASE Launch
  <2>1. Ahead = "launch" /\ outcome = "ok"
    BY <1>1 DEF Launch, At, Ahead, Shared, TypeOK, LocalsOK, Course, ErrorEnds, IInv,
       Interrupted, CleanLabels
  <2>2. \A p \in Stops : ~Marked(p)
    BY <2>1 DEF NotOvertaken, Unmarked, Early
  <2> QED
    BY <2>2 DEF StopMarked, Marked
<1>2. CASE Kernel
  BY <1>2 DEF Kernel, JoinCgroup, Exit, TermExit, KillExit, KernelFrame
<1> QED
  BY <1>1, <1>2, OthersStutter

\* THEOREM 6.  However many stops there are, and whatever fails or is
\* interrupted in the run, from the moment a stop has written its intent until
\* it is done the restart loop launches nothing, unless the container had
\* ended by itself (stop_command, and the loop of run_container_loop).
\* Another writer of the status, a clean or a reconcile, can undo the intent.
THEOREM StopNotOvertakenByRestart ==
  ASSUME StopsAlone
  PROVE  Spec => NoRelaunchWhileStopping
<1>1. Init => TypeOK /\ IInv /\ Course /\ NotOvertaken
  BY InitType, InitIInv, InitNotOvertaken
<1>2. TypeOK /\ IInv /\ Course /\ NotOvertaken /\ [Next]_vars =>
        (TypeOK /\ IInv /\ Course /\ NotOvertaken)'
  BY StepType, StepIInv, StepCourse, StepNotOvertaken
<1>3. TypeOK /\ IInv /\ Course /\ NotOvertaken /\ [Next]_vars =>
        [StopMarked /\ exits = 0 => starts' = starts]_vars
  BY LaunchUnmarked
<1> QED
  BY <1>1, <1>2, <1>3, PTL DEF Spec, NoRelaunchWhileStopping

(***************************************************************************)
(* The last word on the status.  A stop that has written "stopping" is     *)
(* there until the status is something else, and a run that has ended had  *)
(* written "exited" or "failed", or found the container being stopped.     *)
(***************************************************************************)
NobodyCleans == Cleans = {} /\ ~Interrupts /\ ~Crashes

\* The run ends by returning or by raising, and nobody deletes anything.
Undisturbed ==
  /\ outcome # "interrupt"
  /\ pc[Run] \notin Final \ {"returned", "raised"}
  /\ pc[Run] = "commit" => next[Run] \in {"prepare", "launch", "allocIp", "finally", "loop"}
  /\ status.state # "deleted"

StopsEnd ==
  status.state = "stopping" =>
    \E p \in Stops : Marked(p) \/ (pc[p] = "commit" /\ next[p] = "stopDone")

Settled ==
  /\ starts > 0
  /\ pc[Run] \in {"finally", "netRead", "netKill", "netRelease", "loopCheck", "bump", "loop",
                  "starting", "returned", "raised"}
  => status.state \notin {"created", "starting", "running"}

LastWord == Undisturbed /\ StopsEnd /\ Settled

\* A step of a stop or of a reconcile keeps it.
LEMMA CommandLastWord ==
  ASSUME NobodyCleans, TypeOK, IInv, Course, LastWord, Command
  PROVE  LastWord'
<1>0. Run \notin Stops \cup Reconciles /\ Run \in Procs
      /\ Stops \cup Reconciles \subseteq Procs /\ Stops \cap Reconciles = {}
  BY ProcsAssumption DEF Procs
<1> USE <1>0 DEF LastWord, Undisturbed, Settled, runVars
<1>1. ASSUME NEW p \in Stops, StopCommand(p) PROVE LastWord'
  <2>1. /\ UNCHANGED <<pc[Run], next[Run], starts, outcome>>
        /\ \A q \in Stops \ {p} : UNCHANGED <<pc[q], next[q]>>
    BY <1>1, StopKeepsCourse DEF Course, Writes
  <2>2. \/ UNCHANGED status
        \/ status'.state = "exited"
        \/ status'.state = "stopping" /\ pc'[p] = "procs"
    BY <1>1, StopKeepsCourse DEF Course, Writes, StopsWrite
  <2>3. StopsEnd'
    <3>1. CASE status'.state # "stopping" \/ pc'[p] = "procs"
      BY <3>1 DEF StopsEnd, Marked
    <3>2. CASE status'.state = "stopping" /\ UNCHANGED status
      <4>1. PICK q \in Stops : Marked(q) \/ (pc[q] = "commit" /\ next[q] = "stopDone")
        BY <3>2 DEF StopsEnd
      <4>2. CASE q # p
        BY <2>1, <4>1, <4>2 DEF StopsEnd, Marked
      <4>3. CASE q = p
        <5>1. CASE Marked(p)
          BY <1>1, <3>2, <5>1, StopKeepsCourse DEF Course, Writes, StopsEnd, Marked
        <5>2. CASE pc[p] = "commit" /\ next[p] = "stopDone"
          BY <1>1, <3>2, <5>2, StopKeepsCourse DEF Course, Writes, StopsWrite
        <5> QED
          BY <4>1, <4>3, <5>1, <5>2
      <4> QED
        BY <4>2, <4>3
    <3> QED
      BY <2>2, <3>1, <3>2
  <2> QED
    BY <2>1, <2>2, <2>3
<1>2. ASSUME NEW p \in Reconciles, ReconcileCommand(p) PROVE LastWord'
  <2>1. /\ UNCHANGED <<pc[Run], next[Run], starts, outcome>>
        /\ \A q \in Stops : UNCHANGED <<pc[q], next[q]>>
        /\ UNCHANGED status \/ status'.state = "failed"
    BY <1>2, ReconcileKeepsCourse DEF Course, Writes
  <2> QED
    BY <2>1 DEF StopsEnd, Marked
<1> QED
  BY <1>1, <1>2 DEF Command, NobodyCleans

\* A step of the run keeps it.
LEMMA RunLastWord ==
  ASSUME NobodyCleans, TypeOK, IInv, Course, LastWord, Attached
  PROVE  LastWord'
<1>0. /\ Run \in Procs /\ pc \in [Procs -> Labels] /\ next \in [Procs -> Labels]
      /\ pending \in [Procs -> Status] /\ status \in Status /\ status.state \in States
      /\ outcome \in {"ok", "error", "interrupt"}
  BY DEF Procs, TypeOK, ControlOK, DirectoryOK, LocalsOK, Status
<1>a. \A p \in Stops : Marked(p)' = Marked(p) /\ UNCHANGED <<pc[p], next[p]>>
  BY RunKeepsCourse, ProcsAssumption DEF OthersStay, Marked, Procs
<1> USE <1>0 DEF LastWord, Undisturbed, Settled, At, Goto, Final, RunOver
<1>b. UNCHANGED status \/ status'.state # "stopping" => StopsEnd'
  BY <1>a DEF StopsEnd
<1>1. CASE CreateState \/ MarkCreated \/ WriteRuntimeConfig \/ JournalCgroup
  <2>1. starts = 0 /\ UNCHANGED <<starts, status, outcome>>
    BY <1>1 DEF CreateState, MarkCreated, WriteRuntimeConfig, JournalCgroup,
       TransitionBegin, AddResource, Look, dirVars, procVars, runVars, Course, Unlaunched,
       Ahead, Shared
  <2> QED
    BY <1>1, <1>b, <2>1 DEF CreateState, MarkCreated, WriteRuntimeConfig, JournalCgroup,
       TransitionBegin, AddResource, Look
<1>2. CASE LoopRead \/ MarkStarting \/ Launch \/ ReadReport \/ WritePid \/ MarkRunning
  BY <1>2, <1>b DEF LoopRead, MarkStarting, Launch, ReadReport, WritePid, MarkRunning,
     TransitionBegin, Look, dirVars, procVars, runVars
<1>3. CASE \/ AllocateIp \/ ConfigureNetwork \/ JournalNetwork \/ StartProxy \/ JournalProxy
           \/ WriteNetwork \/ Published \/ StreamLine \/ LineRaises \/ StreamEnd
  BY <1>3, <1>b DEF LineRaises, AllocateIp, ConfigureNetwork, JournalNetwork, StartProxy,
     JournalProxy, WriteNetwork, Published, StreamLine, StreamEnd, AddResource, Look, dirVars,
     procVars, runVars, ctlVars
<1>4. CASE \/ ExitRead \/ MarkExited \/ FailSignal \/ FailForce \/ FailMark
           \/ LoopCheck \/ BumpRestartCount
  BY <1>4, <1>b DEF ExitRead, MarkExited, FailSignal, FailForce, FailMark, LoopCheck,
     BumpRestartCount, TransitionBegin, WriteBegin, Look, dirVars, procVars, runVars
<1>5. CASE Finally
  BY <1>5, <1>b DEF Finally, NetCheck, Look, Resume, dirVars, procVars, runVars
<1>6. CASE Commit(Run)
  <2>1. /\ pc[Run] = "commit" /\ pc'[Run] = next[Run] /\ status' = pending[Run]
        /\ UNCHANGED <<next, outcome, starts>>
    BY <1>6 DEF Commit, procVars, runVars
  <2> QED
    BY <1>b, <2>1 DEF Course, Writes, RunWrites
<1>7. CASE CleanupNetwork(Run)
  <2>1. /\ pc[Run] \in {"netRead", "netKill", "netRelease"}
        /\ pc'[Run] \in {"netKill", "netRelease", next[Run], "raised"}
        /\ UNCHANGED <<next, outcome, status, starts>>
    BY <1>7 DEF CleanupNetwork, NetRead, NetKill, NetRelease, CleanRaised, Look, dirVars,
       procVars, runVars
  <2> QED
    BY <1>b, <2>1 DEF IInv, NetNext
<1>8. CASE InterruptMark \/ StopProcesses(Run) \/ CleanupState(Run)
  <2>1. Ahead \in CleanLabels
    BY <1>8 DEF InterruptMark, StopProcesses, SignalMembers, WaitMembers, SignalPid,
       ForcePid, CleanupState, CleanStart, CleanMark, CleanNetwork, CleanDeleted, CleanScan,
       CleanUnlink, CleanEnd, CleanLabels, Ahead, Shared
  <2> QED
    BY <2>1 DEF IInv, CleansInterrupted
<1>9. CASE Fault
  BY <1>9, <1>b, ConfigAssumption DEF Fault, FaultOf, FaultPoints, dirVars, procVars,
     runVars, Course, Unlaunched, Ahead, Shared
<1>10. CASE Interrupt \/ Crash
  BY <1>10 DEF Interrupt, Crash, NobodyCleans
<1> QED
  BY <1>1, <1>2, <1>3, <1>4, <1>5, <1>6, <1>7, <1>8, <1>9, <1>10 DEF Attached, RunStep

\* It holds initially and every step keeps it.
LEMMA StepLastWord ==
  ASSUME NobodyCleans
  PROVE  /\ Init => LastWord
         /\ TypeOK /\ IInv /\ Course /\ LastWord /\ [Next]_vars => LastWord'
<1>1. ASSUME Init PROVE LastWord
  <2>1. pc[Run] = "create" /\ outcome = "ok" /\ starts = 0 /\ status.state = "created"
    BY <1>1, ProcsAssumption DEF Init, Procs, Start, DefaultStatus
  <2> QED
    BY <2>1 DEF LastWord, Undisturbed, StopsEnd, Settled, Final, RunOver
<1>2. ASSUME LastWord, Kernel \/ UNCHANGED vars PROVE LastWord'
  <2>1. UNCHANGED <<pc, next, status, starts, outcome>>
    BY <1>2 DEF Kernel, JoinCgroup, Exit, TermExit, KillExit, KernelFrame, vars, ctlVars,
       dirVars, procVars, runVars
  <2> QED
    BY <1>2, <2>1 DEF LastWord, Undisturbed, StopsEnd, Settled, Marked
<1> QED
  BY <1>1, <1>2, CommandLastWord, RunLastWord DEF Next

\* THEOREM 7.  With any number of stops and reconciles and any step of the run
\* failing, once all are over the status of a container that was launched is
\* "exited" or "failed": no late write brings back a state in which it seems
\* to run.
THEOREM TerminalWhenQuiet ==
  ASSUME NobodyCleans
  PROVE  Spec => []QuiescentTerminal
<1>1. Init => TypeOK /\ IInv /\ Course /\ LastWord
  BY InitType, InitIInv, InitNotOvertaken, StepLastWord
<1>2. TypeOK /\ IInv /\ Course /\ LastWord /\ [Next]_vars =>
        (TypeOK /\ IInv /\ Course /\ LastWord)'
  BY StepType, StepIInv, StepCourse, StepLastWord
<1>3. TypeOK /\ LastWord => QuiescentTerminal
  <2> SUFFICES ASSUME TypeOK, LastWord, AllOver, starts > 0
               PROVE  status.state \in {"exited", "failed"}
    BY DEF QuiescentTerminal, ReadStatus
  <2>1. pc[Run] \in {"returned", "raised"} /\ \A p \in Stops : pc[p] \in Final
    BY DEF AllOver, Over, Procs, LastWord, Undisturbed
  <2>2. status.state \notin {"created", "starting", "running", "deleted"}
    BY <2>1 DEF LastWord, Settled, Undisturbed
  <2>3. status.state # "stopping"
    BY <2>1 DEF LastWord, StopsEnd, Marked, Final, RunOver
  <2> QED
    BY <2>2, <2>3 DEF TypeOK, DirectoryOK, Status, States
<1> QED
  BY <1>1, <1>2, <1>3, PTL DEF Spec

=============================================================================
