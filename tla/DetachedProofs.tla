---------------------------- MODULE DetachedProofs ----------------------------
(***************************************************************************)
(* What `axis run` leaves behind, and what the commands that find it       *)
(* afterwards make of it: the theorems about DetachedSpec of Axis.tla, in  *)
(* which a command is typed when the run is over and the command before it *)
(* is, for every number of commands, ports, faults, exits and Ctrl-C.      *)
(*                                                                         *)
(* The inductive invariant is built in layers, each proved from the ones   *)
(* before it.                                                              *)
(***************************************************************************)
EXTENDS AxisProofs

Others == Procs \ {Run}

\* The step `axis run` is at, or the one that follows its write of the status.
Position == IF pc[Run] = "commit" THEN next[Run] ELSE pc[Run]

(***************************************************************************)
(* Who acts.  No command has been typed while the run goes on, and never   *)
(* are two of them under way.                                              *)
(***************************************************************************)
Untyped ==
  \/ pc[Run] \in RunOver /\ live \subseteq cgroup
  \/ \A p \in Others : pc[p] = Start(p)

OneMidway == \A p, q \in Others : Midway(p) /\ Midway(q) => p = q

Alternate == Untyped /\ OneMidway

\* A step of the run is one of a run that is not over, and it leaves the
\* commands where they are.
LEMMA AttachedMoves ==
  ASSUME TypeOK, Attached
  PROVE  /\ pc[Run] \notin RunOver
         /\ \A p \in Others :
              UNCHANGED <<pc[p], next[p], targets[p], victims[p], pending[p]>>
<1>0. Run \in Procs
  BY DEF Procs
<1> USE <1>0 DEF TypeOK, ControlOK, Goto, Others, RunOver, At
<1>1. CASE \/ CreateState \/ MarkCreated \/ WriteRuntimeConfig \/ JournalCgroup
           \/ LoopRead \/ MarkStarting \/ Launch \/ ReadReport \/ WritePid \/ MarkRunning
           \/ AllocateIp \/ ConfigureNetwork \/ JournalNetwork
  BY <1>1 DEF CreateState, MarkCreated, WriteRuntimeConfig, JournalCgroup, LoopRead,
     MarkStarting, Launch, ReadReport, WritePid, MarkRunning, AllocateIp, ConfigureNetwork,
     JournalNetwork, TransitionBegin, AddResource, Look
<1>2. CASE \/ StartProxy \/ JournalProxy \/ WriteNetwork \/ Published
           \/ StreamLine \/ LineRaises \/ StreamEnd \/ ExitRead \/ MarkExited
  BY <1>2 DEF StartProxy, JournalProxy, WriteNetwork, Published, StreamLine, LineRaises,
     StreamEnd, ExitRead, MarkExited, TransitionBegin, AddResource, Look, ctlVars
<1>3. CASE \/ FailSignal \/ FailForce \/ FailMark
           \/ Finally \/ LoopCheck \/ BumpRestartCount \/ InterruptMark
  BY <1>3 DEF FailSignal, FailForce, FailMark, Finally, LoopCheck, BumpRestartCount,
     InterruptMark, WriteBegin, NetCheck, Look
<1>4. CASE Commit(Run) \/ CleanupNetwork(Run) \/ StopProcesses(Run)
  BY <1>4 DEF Commit, CleanupNetwork, NetRead, NetKill, NetRelease, StopProcesses,
     SignalMembers, WaitMembers, SignalPid, ForcePid
<1>5. CASE CleanupState(Run)
  BY <1>5 DEF CleanupState, CleanStart, CleanMark, CleanNetwork, CleanDeleted, CleanScan,
     CleanUnlink, CleanEnd, WriteBegin, NetCheck, Look
<1>6. CASE Fault \/ Crash
  BY <1>6, ConfigAssumption DEF Fault, Crash, FaultPoints
<1>7. CASE Interrupt
  BY <1>7 DEF Interrupt, Where, Setup, InTry, InLoop
<1> QED
  BY <1>1, <1>2, <1>3, <1>4, <1>5, <1>6, <1>7 DEF Attached, RunStep

\* Process p moves; it leaves the other processes and the locals of the run
\* alone, starts nothing, and at most gives back the network.
OnlyMoves(p) ==
  /\ \A q \in Procs \ {p} :
       UNCHANGED <<pc[q], next[q], targets[q], victims[q], pending[q]>>
  /\ UNCHANGED <<starts, live, cgroup, runVars>>
  /\ kill \subseteq kill' /\ proxies' \subseteq proxies /\ (ip' => ip)

\* The procedures that several commands share move their caller only.
LEMMA SharedMoves ==
  ASSUME TypeOK, NEW p \in Procs,
         Commit(p) \/ CleanupNetwork(p) \/ StopProcesses(p) \/ CleanupState(p)
  PROVE  OnlyMoves(p)
<1> USE DEF TypeOK, ControlOK, Goto, procVars, netVars, OnlyMoves
<1>1. CASE Commit(p) \/ CleanupNetwork(p) \/ StopProcesses(p)
  BY <1>1 DEF Commit, CleanupNetwork, NetRead, NetKill, NetRelease, StopProcesses,
     SignalMembers, WaitMembers, SignalPid, ForcePid
<1>2. CASE CleanupState(p)
  BY <1>2 DEF CleanupState, CleanStart, CleanMark, CleanNetwork, CleanDeleted, CleanScan,
     CleanUnlink, CleanEnd, WriteBegin, NetCheck, Look
<1> QED
  BY <1>1, <1>2

\* A step of `axis stop` moves it only.
LEMMA StopMoves ==
  ASSUME TypeOK, NEW p \in Stops, StopCommand(p)
  PROVE  OnlyMoves(p)
<1>1. p \in Procs
  BY DEF Procs
<1>2. CASE StopProcesses(p) \/ Commit(p)
  BY <1>1, <1>2, SharedMoves
<1>3. CASE \/ StopResolve(p) \/ StopStatus(p) \/ StopPid(p)
           \/ StopIdle(p) \/ StopMark(p) \/ StopExit(p)
  BY <1>1, <1>3 DEF StopResolve, StopStatus, StopPid, StopIdle, StopMark, StopExit, Look,
     WriteBegin, TransitionBegin, Goto, procVars, netVars, TypeOK, ControlOK, OnlyMoves
<1> QED
  BY <1>2, <1>3 DEF StopCommand

\* A step of `axis clean` moves it only.
LEMMA CleanMoves ==
  ASSUME TypeOK, NEW p \in Cleans, CleanCommand(p)
  PROVE  OnlyMoves(p)
<1>1. p \in Procs
  BY DEF Procs
<1>2. CASE Commit(p) \/ CleanupNetwork(p) \/ StopProcesses(p) \/ CleanupState(p)
  BY <1>1, <1>2, SharedMoves
<1>3. CASE CleanResolve(p) \/ CleanUnknown(p)
  BY <1>1, <1>3 DEF CleanResolve, CleanUnknown, Look, Goto, procVars, netVars, TypeOK,
     ControlOK, OnlyMoves
<1> QED
  BY <1>2, <1>3 DEF CleanCommand

\* A step of `axis reconcile` moves it only.
LEMMA ReconcileMoves ==
  ASSUME TypeOK, NEW p \in Reconciles, ReconcileCommand(p)
  PROVE  OnlyMoves(p)
<1>1. p \in Procs
  BY DEF Procs
<1>2. CASE Commit(p)
  BY <1>1, <1>2, SharedMoves
<1>3. CASE ~Commit(p)
  BY <1>1, <1>3 DEF ReconcileCommand, ReconcileFind, ReconcileStatus, ReconcilePid,
     ReconcileFail, ReconcileNetwork, ReconcileProxies, ReconcileWrite, ReportsOnly, Look,
     WriteBegin, Goto, procVars, netVars, TypeOK, ControlOK, OnlyMoves
<1> QED
  BY <1>2, <1>3

\* A step of the kernel.
LEMMA KernelMoves ==
  ASSUME TypeOK, Kernel
  PROVE  /\ UNCHANGED <<ctlVars, dirVars, netVars, runVars, starts>>
         /\ live' \subseteq live
         /\ live \subseteq cgroup => live' \subseteq cgroup' /\ cgroup' \subseteq cgroup
         /\ outcome = "interrupt" => cgroup' \subseteq cgroup
         /\ cgroup' \cap kill \subseteq kill' /\ live' \cap kill \subseteq kill'
BY DEF Kernel, JoinCgroup, Exit, TermExit, KillExit, Gone, KernelFrame, TypeOK, KernelOK

\* What the commands do of their own, besides the procedures they share.
StopOwn(p) ==
  \/ StopResolve(p) \/ StopStatus(p) \/ StopPid(p)
  \/ StopIdle(p) \/ StopMark(p) \/ StopExit(p)

ReconcileOwn(p) ==
  \/ ReconcileFind(p) \/ ReconcileStatus(p) \/ ReconcilePid(p) \/ ReconcileFail(p)
  \/ ReconcileNetwork(p) \/ ReconcileProxies(p) \/ ReconcileWrite(p)

CommandStep(p) ==
  \/ p \in Stops /\ StopOwn(p)
  \/ p \in Stops \cup Cleans /\ StopProcesses(p)
  \/ p \in Cleans /\ (CleanResolve(p) \/ CleanUnknown(p))
  \/ p \in Cleans /\ (CleanupState(p) \/ CleanupNetwork(p))
  \/ p \in Reconciles /\ ReconcileOwn(p)
  \/ p \in Others /\ Commit(p)

\* A step of a command is one of these steps of one of them.
LEMMA CommandCases ==
  ASSUME TypeOK, Command
  PROVE  \E p \in Others : CommandStep(p) /\ OnlyMoves(p)
<1>0. Stops \cup Cleans \cup Reconciles \subseteq Others
  BY ProcsAssumption DEF Others, Procs
<1>1. ASSUME NEW p \in Stops, StopCommand(p)
      PROVE  \E q \in Others : CommandStep(q) /\ OnlyMoves(q)
  BY <1>0, <1>1, StopMoves DEF StopCommand, StopOwn, CommandStep
<1>2. ASSUME NEW p \in Cleans, CleanCommand(p)
      PROVE  \E q \in Others : CommandStep(q) /\ OnlyMoves(q)
  BY <1>0, <1>2, CleanMoves DEF CleanCommand, CommandStep
<1>3. ASSUME NEW p \in Reconciles, ReconcileCommand(p)
      PROVE  \E q \in Others : CommandStep(q) /\ OnlyMoves(q)
  BY <1>0, <1>3, ReconcileMoves DEF ReconcileCommand, ReconcileOwn, CommandStep
<1> QED
  BY <1>1, <1>2, <1>3 DEF Command

\* Every step keeps the commands one after another, and after the run.
LEMMA StepAlternate == TypeOK /\ Alternate /\ [DetachedNext]_vars => Alternate'
<1> SUFFICES ASSUME TypeOK, Alternate, [DetachedNext]_vars PROVE Alternate'
  OBVIOUS
<1>1. CASE Attached
  BY <1>1, AttachedMoves DEF Alternate, Untyped, OneMidway, Midway, Over, Start
<1>2. CASE Afterwards
  <2>1. Untyped'
    BY <1>2, CommandCases DEF Afterwards, OnlyMoves, Others, Untyped, Procs
  <2> QED
    BY <1>2, <2>1 DEF Alternate, Afterwards, OneMidway, Others
<1>3. CASE Kernel
  BY <1>3, KernelMoves DEF Alternate, Untyped, OneMidway, Midway, Over, Start, ctlVars
<1>4. CASE UNCHANGED vars
  BY <1>4 DEF Alternate, Untyped, OneMidway, Midway, Over, Start, vars, ctlVars, procVars
<1> QED
  BY <1>1, <1>2, <1>3, <1>4 DEF DetachedNext

(***************************************************************************)
(* The directory.  While the run goes on nobody else touches it, and the   *)
(* commands find it one after another: what resolve_container has seen is  *)
(* still there, and what rmtree has listed is all there is.                *)
(***************************************************************************)
Networking == {"netRead", "netKill", "netRelease"}

\* Where each command goes on after the procedures it calls.
Continues(p) ==
  IF p = Run
  THEN {"prepare", "launch", "allocIp", "finally", "loop", "cleanStart", "cleanNet",
        "cleanScan"}
  ELSE IF p \in Stops THEN {"procs", "stopDone"}
  ELSE IF p \in Cleans THEN {"cleanNet", "cleanScan"}
  ELSE {"recNet"}

Resumes ==
  \A p \in Procs :
    /\ pc[p] = "commit" => next[p] \in Continues(p)
    /\ pc[p] \in Networking /\ p # Run => next[p] = "procs"

RunConfigured ==
  Position \notin {"create", "created", "prepare", "cleanUnlink"} \cup RunOver =>
    "runtime" \in files

CommandsConfigured ==
  \A p \in Others :
    Midway(p) /\ pc[p] \notin {"cleanUnlink", "cleanUnknown"} => "runtime" \in files

Emptying == \A p \in Procs : pc[p] = "cleanUnlink" => files \subseteq victims[p]

Emptied ==
  /\ \A c \in Cleans : pc[c] = "cleanDone" => files = {}
  /\ pc[Run] = "returned" /\ outcome = "interrupt" => files = {}

Directory == Resumes /\ RunConfigured /\ CommandsConfigured /\ Emptying /\ Emptied

\* What a step of a command does to the directory, by where the command is.
LEMMA CommandDirectory ==
  ASSUME TypeOK, Resumes, NEW p \in Others, CommandStep(p)
  PROVE  /\ pc[p] \notin Final /\ pc'[p] # Start(p)
         /\ pc[p] = Start(p) => UNCHANGED <<dirVars, procVars, netVars>>
         /\ pc[p] # "cleanUnlink" => files \subseteq files'
         /\ pc[p] \in {"cleanUnlink", "cleanUnknown"} =>
              files' \subseteq files /\ pc'[p] \in Final \cup {"cleanUnlink"}
         /\ pc[p] = Start(p) /\ pc'[p] \notin Final \cup {"cleanUnlink", "cleanUnknown"} =>
              "runtime" \in files
         /\ (pc[p] = "cleanUnlink" => files \subseteq victims[p]) =>
              /\ pc'[p] = "cleanUnlink" => files' \subseteq victims'[p]
              /\ pc'[p] = "cleanDone" => files' = {}
         /\ pc'[p] = "commit" => next'[p] \in Continues(p)
         /\ pc'[p] \in Networking => next'[p] = "procs"
<1>0. /\ p \in Procs /\ p # Run
      /\ p \in Stops => Start(p) = "stop" /\ p \notin Cleans \cup Reconciles
      /\ p \in Cleans => Start(p) = "clean" /\ p \notin Stops \cup Reconciles
      /\ p \in Reconciles => Start(p) = "rec" /\ p \notin Stops \cup Cleans
      /\ p \in Stops \cup Cleans \cup Reconciles
  BY ProcsAssumption DEF Others, Procs, Start
<1>1. Start(p) \in {"stop", "clean", "rec"}
  BY <1>0
<1> USE <1>0 DEF TypeOK, ControlOK, Goto, dirVars, procVars, netVars, Networking, Final,
                 RunOver
<1>2. CASE p \in Stops /\ StopOwn(p)
  BY <1>2 DEF StopOwn, StopResolve, StopStatus, StopPid, StopIdle, StopMark, StopExit,
     Look, WriteBegin, TransitionBegin, Continues
<1>3. CASE p \in Stops \cup Cleans /\ StopProcesses(p)
  BY <1>3 DEF StopProcesses, SignalMembers, WaitMembers, SignalPid, ForcePid, AfterKill
<1>4. CASE p \in Cleans /\ (CleanResolve(p) \/ CleanUnknown(p))
  BY <1>4 DEF CleanResolve, CleanUnknown, Look
<1>5. CASE p \in Cleans /\ (CleanupState(p) \/ CleanupNetwork(p))
  <2>1. CASE CleanupState(p)
    BY <1>5, <2>1 DEF CleanupState, CleanStart, CleanMark, CleanNetwork, CleanDeleted,
       CleanScan, CleanUnlink, CleanEnd, Cleaned, CleanRaised, WriteBegin, NetCheck, Look,
       Continues
  <2>2. CASE CleanupNetwork(p)
    BY <1>5, <2>2 DEF CleanupNetwork, NetRead, NetKill, NetRelease, CleanRaised, Resumes
  <2> QED
    BY <1>5, <2>1, <2>2
<1>6. CASE p \in Reconciles /\ ReconcileOwn(p)
  BY <1>6 DEF ReconcileOwn, ReconcileFind, ReconcileStatus, ReconcilePid, ReconcileFail,
     ReconcileNetwork, ReconcileProxies, ReconcileWrite, ReportsOnly, Look, WriteBegin,
     Continues
<1>7. CASE Commit(p)
  BY <1>1, <1>7 DEF Commit, Resumes, Continues
<1> QED
  BY <1>2, <1>3, <1>4, <1>5, <1>6, <1>7 DEF CommandStep

\* When a command changes anything but its own control it is the only one that
\* is under way.
LEMMA OnlyOne ==
  ASSUME TypeOK, Resumes, Alternate, NEW p \in Others, CommandStep(p)
  PROVE  \/ UNCHANGED <<dirVars, procVars, netVars>>
         \/ Midway(p) /\ \A q \in Others \ {p} : ~Midway(q)
BY CommandDirectory DEF Alternate, OneMidway, Midway, Over

\* The part of the invariant that is about the run.
RunDirectory ==
  /\ pc[Run] = "commit" => next[Run] \in Continues(Run)
  /\ RunConfigured
  /\ pc[Run] = "cleanUnlink" => files \subseteq victims[Run]
  /\ pc[Run] = "returned" /\ outcome = "interrupt" => files = {}

\* Every step of the run keeps it.
LEMMA RunKeepsDirectory ==
  ASSUME TypeOK, IInv, RunDirectory, Attached
  PROVE  RunDirectory'
<1>0. Run \in Procs /\ pc \in [Procs -> Labels] /\ next \in [Procs -> Labels]
      /\ victims \in [Procs -> SUBSET FileNames]
  BY DEF Procs, TypeOK, ControlOK
<1>a. \A p : Continues(p)' = Continues(p)
  BY DEF Continues
<1> USE <1>0, <1>a DEF RunDirectory, RunConfigured, Position, RunOver, Goto, At
<1>1. CASE \/ CreateState \/ MarkCreated \/ WriteRuntimeConfig \/ JournalCgroup
           \/ LoopRead \/ MarkStarting \/ Launch \/ ReadReport \/ WritePid \/ MarkRunning
  <2>1. CASE CreateState \/ MarkCreated \/ WriteRuntimeConfig \/ JournalCgroup
    BY <2>1 DEF CreateState, MarkCreated, WriteRuntimeConfig, JournalCgroup,
       TransitionBegin, AddResource, Look, Continues, dirVars
  <2>2. CASE LoopRead \/ MarkStarting
    BY <2>2 DEF LoopRead, MarkStarting, TransitionBegin, Look, Continues, dirVars
  <2>3. CASE Launch \/ ReadReport \/ WritePid \/ MarkRunning
    BY <2>3 DEF Launch, ReadReport, WritePid, MarkRunning, TransitionBegin, Continues
  <2> QED
    BY <1>1, <2>1, <2>2, <2>3
<1>2. CASE \/ AllocateIp \/ ConfigureNetwork \/ JournalNetwork \/ StartProxy \/ JournalProxy
           \/ WriteNetwork \/ Published \/ StreamLine \/ LineRaises \/ StreamEnd
           \/ ExitRead \/ MarkExited
  BY <1>2 DEF AllocateIp, ConfigureNetwork, JournalNetwork, StartProxy, JournalProxy,
     WriteNetwork, Published, StreamLine, LineRaises, StreamEnd, ExitRead, MarkExited,
     TransitionBegin, AddResource, Look, Continues, dirVars, ctlVars
<1>3. CASE \/ FailSignal \/ FailForce \/ FailMark \/ BumpRestartCount \/ InterruptMark
  BY <1>3 DEF FailSignal, FailForce, FailMark, BumpRestartCount, InterruptMark, WriteBegin,
     Continues, dirVars
<1>4. CASE Finally \/ LoopCheck
  <2>1. LoopCheck => outcome' # "interrupt"
    BY DEF LoopCheck, IInv, Interrupted, Ahead, Shared, CleanLabels
  <2>2. Resume \in {"loopCheck", "raised", "intrMark"}
    BY DEF Resume, TypeOK, LocalsOK
  <2> QED
    BY <1>4, <2>1, <2>2 DEF Finally, LoopCheck, NetCheck, Look, dirVars
<1>5. CASE Commit(Run)
  BY <1>5 DEF Commit, Continues
<1>6. CASE CleanupNetwork(Run) \/ StopProcesses(Run)
  <2>1. CASE CleanupNetwork(Run)
    BY <1>6, <2>1 DEF CleanupNetwork, NetRead, NetKill, NetRelease, CleanRaised, IInv,
       NetNext, dirVars
  <2>2. CASE StopProcesses(Run)
    BY <1>6, <2>2, ProcsAssumption DEF StopProcesses, SignalMembers, WaitMembers, SignalPid,
       ForcePid, AfterKill, dirVars
  <2> QED
    BY <1>6, <2>1, <2>2
<1>7. CASE CleanupState(Run)
  <2>1. CASE CleanStart(Run) \/ CleanMark(Run) \/ CleanNetwork(Run) \/ CleanDeleted(Run)
    BY <2>1 DEF CleanStart, CleanMark, CleanNetwork, CleanDeleted, Cleaned, CleanRaised,
       WriteBegin, NetCheck, Look, Continues, dirVars
  <2>2. CASE CleanScan(Run) \/ CleanUnlink(Run) \/ CleanEnd(Run)
    BY <2>2 DEF CleanScan, CleanUnlink, CleanEnd, Cleaned, Look, dirVars
  <2> QED
    BY <1>7, <2>1, <2>2 DEF CleanupState
<1>8. CASE Fault
  BY <1>8, ConfigAssumption DEF Fault, FaultOf, FaultPoints, dirVars
<1>9. CASE Crash
  BY <1>9 DEF Crash
<1>10. CASE Interrupt
  <2>1. /\ UNCHANGED files
        /\ pc'[Run] \in {"finally", "intrMark"} => Where \in InTry \cup InLoop
        /\ pc'[Run] \in {"finally", "intrMark", "raised"}
    BY <1>10 DEF Interrupt, Setup, InTry, InLoop
  <2>2. Where \in InTry \cup InLoop =>
          Position \notin {"create", "created", "prepare", "cleanUnlink"} \cup RunOver
    BY DEF Where, InTry, InLoop, Continues
  <2> QED
    BY <2>1, <2>2
<1> QED
  BY <1>1, <1>2, <1>3, <1>4, <1>5, <1>6, <1>7, <1>8, <1>9, <1>10 DEF Attached, RunStep

\* Every step keeps what is said of the directory.
LEMMA StepDirectory ==
  TypeOK /\ IInv /\ Alternate /\ Directory /\ [DetachedNext]_vars => Directory'
<1> SUFFICES ASSUME TypeOK, IInv, Alternate, Directory, [DetachedNext]_vars
             PROVE  Directory'
  OBVIOUS
<1>0. /\ \A p : Continues(p)' = Continues(p) /\ Start(p)' = Start(p)
      /\ \A p \in Others : p \in Procs /\ p # Run
      /\ \A p \in Others : Start(p) \in {"stop", "clean", "rec"}
      /\ Run \in Procs /\ Run \notin Others /\ Cleans \subseteq Others
      /\ \A p \in Procs : p = Run \/ p \in Others
  BY ProcsAssumption DEF Continues, Start, Others, Procs
<1> USE <1>0
<1>1. CASE Attached
  <2>1. RunDirectory'
    BY <1>1, RunKeepsDirectory DEF Directory, Resumes, Emptying, Emptied, RunDirectory
  <2>2. \A p \in Others : pc'[p] = Start(p)
    BY <1>1, AttachedMoves DEF Alternate, Untyped
  <2> QED
    BY <2>1, <2>2 DEF Directory, Resumes, Emptying, Emptied, RunDirectory,
       CommandsConfigured, Midway, Networking
<1>2. CASE Afterwards
  <2>1. PICK p \in Others : CommandStep(p) /\ OnlyMoves(p)
    BY <1>2, CommandCases DEF Afterwards
  <2>2. pc[Run] \in RunOver /\ pc'[Run] = pc[Run] /\ next'[Run] = next[Run]
        /\ UNCHANGED outcome /\ pc'[Run] \notin Networking \cup {"commit", "cleanUnlink"}
    BY <1>2, <2>1 DEF Afterwards, OnlyMoves, runVars, RunOver, Networking
  <2>3. Resumes'
    BY <2>1, <2>2, CommandDirectory DEF Directory, Resumes, OnlyMoves
  <2>4. RunConfigured'
    BY <2>2 DEF RunConfigured, Position, RunOver
  <2>5. ASSUME NEW q \in Others, q # p
        PROVE  /\ UNCHANGED <<pc[q], victims[q]>>
               /\ Midway(q)' => Midway(q)
               /\ Midway(q) => UNCHANGED files
    <3>1. UNCHANGED <<pc[q], victims[q]>>
      BY <2>1, <2>5 DEF OnlyMoves
    <3>2. Midway(q)' => Midway(q)
      BY <3>1 DEF Midway, Over
    <3>3. Midway(q) => UNCHANGED files
      BY <2>1, <2>5, OnlyOne DEF Directory, dirVars
    <3> QED
      BY <3>1, <3>2, <3>3
  <2>6. pc[p] # Start(p) => Midway(p)
    BY <2>1, CommandDirectory DEF Directory, Midway, Over
  <2>7. CommandsConfigured'
    <3> SUFFICES ASSUME NEW q \in Others, Midway(q)',
                        pc'[q] \notin {"cleanUnlink", "cleanUnknown"}
                 PROVE  "runtime" \in files'
      BY DEF CommandsConfigured
    <3>1. CASE q # p
      BY <2>5, <3>1 DEF Directory, CommandsConfigured
    <3>2. CASE q = p
      BY <2>1, <2>6, <3>2, CommandDirectory DEF Directory, CommandsConfigured, Midway, Over,
         dirVars
    <3> QED
      BY <3>1, <3>2
  <2>8. Emptying'
    <3> SUFFICES ASSUME NEW q \in Procs, pc'[q] = "cleanUnlink"
                 PROVE  files' \subseteq victims'[q]
      BY DEF Emptying
    <3>1. CASE q = p
      BY <2>1, <3>1, CommandDirectory DEF Directory, Emptying
    <3>2. CASE q # p
      <4>1. q \in Others /\ pc[q] = "cleanUnlink" /\ victims'[q] = victims[q]
        BY <2>2, <2>5, <3>2
      <4>2. Midway(q)
        BY <4>1 DEF Midway, Over, Final, RunOver
      <4> QED
        BY <2>5, <3>2, <4>1, <4>2 DEF Directory, Emptying
    <3> QED
      BY <3>1, <3>2
  <2>9. files = {} => files' = {}
    BY <2>1, <2>6, CommandDirectory DEF Directory, CommandsConfigured, dirVars
  <2>10. Emptied'
    <3>1. ASSUME NEW c \in Cleans, pc'[c] = "cleanDone" PROVE files' = {}
      <4>1. CASE c = p
        BY <2>1, <3>1, <4>1, CommandDirectory DEF Directory, Emptying
      <4>2. CASE c # p
        BY <2>5, <2>9, <3>1, <4>2 DEF Directory, Emptied
      <4> QED
        BY <4>1, <4>2
    <3> QED
      BY <2>2, <2>9, <3>1 DEF Directory, Emptied
  <2> QED
    BY <2>3, <2>4, <2>7, <2>8, <2>10 DEF Directory
<1>3. CASE Kernel
  BY <1>3, KernelMoves DEF Directory, Resumes, RunConfigured, CommandsConfigured, Emptying,
     Emptied, Position, Midway, Over, ctlVars, dirVars, runVars
<1>4. CASE UNCHANGED vars
  BY <1>4 DEF Directory, Resumes, RunConfigured, CommandsConfigured, Emptying,
     Emptied, Position, Midway, Over, vars, ctlVars, dirVars, runVars
<1> QED
  BY <1>1, <1>2, <1>3, <1>4 DEF DetachedNext

(***************************************************************************)
(* The network.  Once network.json is written every live proxy is in it,   *)
(* until somebody has killed them and released the address.                *)
(***************************************************************************)
Released == ~ip /\ proxies = {}
Listed == "network" \in files /\ proxies \subseteq network

Between ==
  {"create", "created", "prepare", "journal", "loop", "starting", "launch", "report",
   "writePid", "markRunning", "allocIp", "loopCheck", "bump"}

Unwritten ==
  {"report", "writePid", "markRunning", "allocIp", "netConfig", "journalNet", "proxy",
   "journalProxy"}

\* The labels of a clean, in a run or not, after it has released the network.
Killing == {"procs", "wait", "force", "cleanDeleted", "cleanScan", "cleanUnlink"}

BetweenReleased == Position \in Between => Released

UnwrittenListed == Position \in Unwritten => ~netWritten /\ proxies \subseteq listed

Written ==
  /\ Position \in {"publish", "stream", "exitRead", "markExited"} => netWritten
  /\ Position = "finally" /\ outcome = "ok" => netWritten
  /\ pc[Run] \in Networking /\ next[Run] = "loopCheck" => netWritten

WrittenListed == netWritten /\ Position \notin Killing \cup RunOver => Listed

ReleasesListed ==
  /\ pc[Run] = "netRead" => "network" \in files
  /\ pc[Run] = "netKill" /\ netWritten => proxies \subseteq targets[Run]
  /\ pc[Run] = "netRelease" /\ netWritten => proxies = {}

EndReleased == netWritten /\ Position \in Killing \cup {"returned", "raised"} => Released

DeathListed == netWritten /\ pc[Run] = "crashed" => Listed \/ Released

RunNetwork ==
  /\ BetweenReleased /\ UnwrittenListed /\ Written /\ WrittenListed
  /\ ReleasesListed /\ EndReleased /\ DeathListed

\* Every step of the run keeps it.
LEMMA RunKeepsNetwork ==
  ASSUME TypeOK, IInv, RunDirectory, RunNetwork, Attached
  PROVE  RunNetwork'
<1>0. Run \in Procs /\ pc \in [Procs -> Labels] /\ next \in [Procs -> Labels]
      /\ targets \in [Procs -> SUBSET Proxies] /\ netWritten \in BOOLEAN
  BY DEF Procs, TypeOK, ControlOK, LocalsOK
<1>b. pc[Run] = "commit" =>
        next[Run] \in {"prepare", "launch", "allocIp", "finally", "loop", "cleanStart",
                       "cleanNet", "cleanScan"}
  BY DEF RunDirectory, Continues
<1> USE <1>0 DEF RunNetwork, BetweenReleased, UnwrittenListed, Written, WrittenListed,
                 ReleasesListed, EndReleased, DeathListed, Released, Listed, Between,
                 Unwritten, Killing, Networking, Position, RunOver, Goto, At
<1>1. CASE CreateState \/ MarkCreated \/ WriteRuntimeConfig \/ JournalCgroup
  BY <1>1 DEF CreateState, MarkCreated, WriteRuntimeConfig, JournalCgroup, TransitionBegin,
     AddResource, Look, dirVars, netVars, runVars
<1>2. CASE LoopRead \/ MarkStarting \/ Launch \/ ReadReport \/ WritePid \/ MarkRunning
  <2>1. CASE LoopRead \/ MarkStarting
    BY <2>1 DEF LoopRead, MarkStarting, TransitionBegin, Look, dirVars, netVars, runVars
  <2>2. CASE Launch \/ ReadReport \/ WritePid \/ MarkRunning
    BY <2>2 DEF Launch, FreshLocals, ReadReport, WritePid, MarkRunning, TransitionBegin,
       netVars, runVars
  <2> QED
    BY <1>2, <2>1, <2>2
<1>3. CASE AllocateIp \/ ConfigureNetwork \/ JournalNetwork \/ StartProxy \/ JournalProxy
  <2>1. CASE AllocateIp \/ ConfigureNetwork \/ JournalNetwork \/ JournalProxy
    BY <2>1 DEF AllocateIp, ConfigureNetwork, JournalNetwork, JournalProxy, AddResource,
       dirVars, netVars, runVars
  <2>2. CASE StartProxy
    BY <2>2 DEF StartProxy, dirVars
  <2> QED
    BY <1>3, <2>1, <2>2
<1>4. CASE WriteNetwork \/ Published \/ StreamLine \/ LineRaises
  BY <1>4 DEF WriteNetwork, Published, StreamLine, LineRaises, Look, ctlVars, dirVars,
     netVars, runVars
<1>5. CASE StreamEnd \/ ExitRead \/ MarkExited
  BY <1>5 DEF StreamEnd, ExitRead, MarkExited, TransitionBegin, Look, dirVars, netVars,
     runVars
<1>6. CASE FailSignal \/ FailForce \/ FailMark
  BY <1>6 DEF FailSignal, FailForce, FailMark, WriteBegin, dirVars, netVars, runVars
<1>7. CASE BumpRestartCount \/ InterruptMark \/ LoopCheck
  BY <1>7 DEF BumpRestartCount, InterruptMark, LoopCheck, WriteBegin, Look, dirVars,
     netVars, runVars
<1>8. CASE Finally
  <2>1. \/ Resume \in {"raised", "intrMark"} /\ outcome # "ok"
        \/ Resume = "loopCheck" /\ outcome = "ok"
    BY DEF Resume, TypeOK, LocalsOK
  <2> QED
    BY <1>8, <2>1 DEF Finally, NetCheck, Look, dirVars, netVars, runVars
<1>9. CASE Commit(Run)
  BY <1>b, <1>9 DEF Commit, netVars, runVars
<1>10. CASE CleanupNetwork(Run)
  <2>1. next[Run] \in {"loopCheck", "raised", "intrMark", "procs"}
    BY <1>10 DEF CleanupNetwork, NetRead, NetKill, NetRelease, IInv, NetNext
  <2>2. CASE NetRead(Run)
    BY <2>1, <2>2 DEF NetRead, dirVars, netVars, runVars
  <2>3. CASE NetKill(Run)
    BY <2>1, <2>3 DEF NetKill, dirVars, runVars
  <2>4. CASE NetRelease(Run)
    BY <2>1, <2>4 DEF NetRelease, dirVars, runVars
  <2> QED
    BY <1>10, <2>2, <2>3, <2>4 DEF CleanupNetwork
<1>11. CASE StopProcesses(Run)
  BY <1>11, ProcsAssumption DEF StopProcesses, SignalMembers, WaitMembers, SignalPid,
     ForcePid, AfterKill, dirVars, netVars, runVars
<1>12. CASE CleanupState(Run)
  <2>1. pc[Run] = "cleanStart" => "runtime" \in files
    BY DEF RunDirectory, RunConfigured
  <2>2. CASE CleanStart(Run) \/ CleanMark(Run) \/ CleanNetwork(Run) \/ CleanDeleted(Run)
    BY <2>1, <2>2 DEF CleanStart, CleanMark, CleanNetwork, CleanDeleted, WriteBegin,
       NetCheck, Look, dirVars, netVars, runVars
  <2>3. CASE CleanScan(Run) \/ CleanUnlink(Run) \/ CleanEnd(Run)
    BY <2>3 DEF CleanScan, CleanUnlink, CleanEnd, Cleaned, Look, dirVars, netVars, runVars
  <2> QED
    BY <1>12, <2>2, <2>3 DEF CleanupState
<1>13. CASE Fault
  BY <1>13, ConfigAssumption DEF Fault, FaultOf, FaultPoints, FreshLocals, dirVars, netVars,
     runVars
<1>14. CASE Crash
  BY <1>b, <1>14 DEF Crash, netVars, runVars
<1>15. CASE Interrupt
  <2>1. /\ UNCHANGED <<files, network, netVars>> /\ outcome' = "interrupt"
        /\ netWritten' => netWritten
        /\ \/ pc'[Run] \in {"finally", "intrMark"} /\ Where \in InTry \cup InLoop
           \/ pc'[Run] = "raised" /\ Where \in Setup
    BY <1>15 DEF Interrupt, FreshLocals
  <2>2. /\ Where \in InTry \cup InLoop => Position \notin Killing \cup RunOver
        /\ Where \in Setup => Position \in Between
    BY <1>b DEF Where, InTry, InLoop, Setup
  <2> QED
    BY <2>1, <2>2 DEF netVars
<1> QED
  BY <1>1, <1>2, <1>3, <1>4, <1>5, <1>6, <1>7, <1>8, <1>9, <1>10, <1>11, <1>12, <1>13,
     <1>14, <1>15 DEF Attached, RunStep

\* After the run: what it has left is in network.json or has been given back.
AfterRun == netWritten /\ pc[Run] \in RunOver => Listed \/ Released

\* A clean has released the network before it goes on to the processes.
CleanReleases(p) ==
  netWritten =>
    /\ pc[p] = "netKill" => proxies \subseteq targets[p]
    /\ pc[p] = "netRelease" => proxies = {}
    /\ pc[p] \in Killing \cup {"cleanDone"} => Released
    /\ pc[p] = "commit" /\ next[p] = "cleanScan" => Released

\* A reconcile drops no proxy that is alive from network.json.
ReconcileKeeps(p) == pc[p] = "recWrite" => proxies \cap network \subseteq targets[p]

CommandsNetwork ==
  /\ \A p \in Cleans : CleanReleases(p)
  /\ \A p \in Reconciles : ReconcileKeeps(p)

Network == RunNetwork /\ CommandsNetwork

\* A step of a command keeps what it has to keep itself.
LEMMA CommandKeepsNetwork ==
  ASSUME TypeOK, Resumes, pc[Run] \in RunOver, AfterRun, CommandsNetwork,
         NEW p \in Others, CommandStep(p), OnlyMoves(p)
  PROVE  /\ AfterRun'
         /\ p \in Cleans => CleanReleases(p)'
         /\ p \in Reconciles => ReconcileKeeps(p)'
<1>0. /\ p \in Procs /\ p # Run /\ Run \in Procs
      /\ p \in Cleans => p \notin Stops \cup Reconciles
      /\ p \in Reconciles => p \notin Stops \cup Cleans
      /\ pc \in [Procs -> Labels] /\ next \in [Procs -> Labels]
      /\ targets \in [Procs -> SUBSET Proxies]
  BY ProcsAssumption DEF Others, Procs, TypeOK, ControlOK
<1>1. UNCHANGED <<pc[Run], netWritten>> /\ proxies' \subseteq proxies /\ (ip' => ip)
  BY <1>0 DEF OnlyMoves, runVars
<1> USE <1>0, <1>1 DEF AfterRun, CommandsNetwork, CleanReleases, ReconcileKeeps, Released,
                       Listed, Killing, Goto
<1>2. CASE p \in Stops /\ StopOwn(p)
  BY <1>2 DEF StopOwn, StopResolve, StopStatus, StopPid, StopIdle, StopMark, StopExit,
     Look, WriteBegin, TransitionBegin, dirVars
<1>3. CASE p \in Stops \cup Cleans /\ StopProcesses(p)
  BY <1>3 DEF StopProcesses, SignalMembers, WaitMembers, SignalPid, ForcePid, AfterKill,
     dirVars, netVars
<1>4. CASE p \in Cleans /\ (CleanResolve(p) \/ CleanUnknown(p))
  BY <1>4 DEF CleanResolve, CleanUnknown, Look, dirVars, netVars
<1>5. CASE p \in Cleans /\ CleanupState(p)
  <2>1. CASE CleanStart(p) \/ CleanMark(p) \/ CleanNetwork(p) \/ CleanDeleted(p)
    BY <1>5, <2>1 DEF CleanStart, CleanMark, CleanNetwork, CleanDeleted, CleanRaised,
       WriteBegin, NetCheck, Look, dirVars, netVars
  <2>2. CASE CleanScan(p) \/ CleanUnlink(p) \/ CleanEnd(p)
    BY <1>5, <2>2 DEF CleanScan, CleanUnlink, CleanEnd, Cleaned, Look, dirVars, netVars
  <2> QED
    BY <1>5, <2>1, <2>2 DEF CleanupState
<1>6. CASE p \in Cleans /\ CleanupNetwork(p)
  <2>1. pc[p] \in Networking => next[p] = "procs"
    BY DEF Resumes
  <2> QED
    BY <1>6, <2>1 DEF CleanupNetwork, NetRead, NetKill, NetRelease, CleanRaised, Networking,
       dirVars
<1>7. CASE p \in Reconciles /\ ReconcileOwn(p)
  BY <1>7 DEF ReconcileOwn, ReconcileFind, ReconcileStatus, ReconcilePid, ReconcileFail,
     ReconcileNetwork, ReconcileProxies, ReconcileWrite, ReportsOnly, Look, WriteBegin,
     dirVars, netVars
<1>8. CASE Commit(p)
  <2>1. pc'[p] = next[p] /\ next[p] \in Continues(p) /\ UNCHANGED <<next, network, netVars>>
        /\ files \subseteq files' /\ pc[p] = "commit"
    BY <1>8 DEF Commit, Resumes
  <2> QED
    BY <2>1 DEF Continues, netVars
<1> QED
  BY <1>2, <1>3, <1>4, <1>5, <1>6, <1>7, <1>8 DEF CommandStep

\* Every step keeps what is said of the network.
LEMMA StepNetwork ==
  TypeOK /\ IInv /\ Alternate /\ Directory /\ Network /\ [DetachedNext]_vars => Network'
<1> SUFFICES ASSUME TypeOK, IInv, Alternate, Directory, Network, [DetachedNext]_vars
             PROVE  Network'
  OBVIOUS
<1>0. /\ Run \in Procs /\ Run \notin Others /\ Cleans \cup Reconciles \subseteq Others
      /\ \A p \in Others : Start(p) \in {"stop", "clean", "rec"}
  BY ProcsAssumption DEF Start, Others, Procs
<1>1. CASE Attached
  <2>1. RunNetwork'
    BY <1>1, RunKeepsNetwork DEF Network, Directory, Resumes, Emptying, Emptied,
       RunDirectory, Procs
  <2>2. \A p \in Others : pc'[p] = Start(p)
    BY <1>1, AttachedMoves DEF Alternate, Untyped
  <2> QED
    BY <1>0, <2>1, <2>2 DEF Network, CommandsNetwork, CleanReleases, ReconcileKeeps, Killing
<1>2. CASE Afterwards
  <2>1. PICK p \in Others : CommandStep(p) /\ OnlyMoves(p)
    BY <1>2, CommandCases DEF Afterwards
  <2>2. /\ pc[Run] \in RunOver /\ UNCHANGED <<pc[Run], next[Run], netWritten, outcome>>
        /\ proxies' \subseteq proxies /\ (ip' => ip)
    BY <1>0, <1>2, <2>1 DEF Afterwards, OnlyMoves, runVars
  <2>3. AfterRun
    BY <2>2 DEF Network, RunNetwork, EndReleased, DeathListed, AfterRun, Position, RunOver
  <2>4. /\ AfterRun'
        /\ p \in Cleans => CleanReleases(p)'
        /\ p \in Reconciles => ReconcileKeeps(p)'
    BY <2>1, <2>2, <2>3, CommandKeepsNetwork DEF Network, Directory
  <2>5. RunNetwork'
    <3>1. EndReleased'
      BY <2>2 DEF Network, RunNetwork, EndReleased, Released, Position, RunOver
    <3> QED
      BY <2>2, <2>4, <3>1 DEF RunNetwork, BetweenReleased, UnwrittenListed, Written,
         WrittenListed, ReleasesListed, DeathListed, AfterRun, Position, RunOver, Between,
         Unwritten, Networking
  <2>6. ASSUME NEW q \in Others, q # p
        PROVE  /\ UNCHANGED <<pc[q], next[q], targets[q]>>
               /\ \/ UNCHANGED <<network, proxies, ip>>
                  \/ pc[q] \in Final \cup {"stop", "clean", "rec"}
    BY <1>0, <2>1, <2>6, OnlyOne DEF Directory, OnlyMoves, Midway, Over, dirVars, netVars,
       Others
  <2>7. ASSUME NEW q \in Cleans, q # p PROVE CleanReleases(q)'
    <3>1. CleanReleases(q) /\ q \in Others
      BY <1>0 DEF Network, CommandsNetwork
    <3> QED
      BY <2>2, <2>6, <2>7, <3>1 DEF CleanReleases, Released, Killing, Final, RunOver
  <2>8. ASSUME NEW q \in Reconciles, q # p PROVE ReconcileKeeps(q)'
    <3>1. ReconcileKeeps(q) /\ q \in Others
      BY <1>0 DEF Network, CommandsNetwork
    <3> QED
      BY <2>6, <2>8, <3>1 DEF ReconcileKeeps, Final, RunOver
  <2> QED
    BY <2>4, <2>5, <2>7, <2>8 DEF Network, CommandsNetwork
<1>3. CASE UNCHANGED <<ctlVars, dirVars, netVars, runVars>>
  BY <1>3 DEF Network, RunNetwork, BetweenReleased, UnwrittenListed, Written, WrittenListed,
     ReleasesListed, EndReleased, DeathListed, Released, Listed, Position, CommandsNetwork,
     CleanReleases, ReconcileKeeps, ctlVars, dirVars, netVars, runVars
<1> QED
  BY <1>1, <1>2, <1>3, KernelMoves DEF DetachedNext, vars

(***************************************************************************)
(* The processes.  A run that cleans after a Ctrl-C kills what is in the   *)
(* cgroup, a clean kills whatever there is, and both do so before they     *)
(* remove the directory: where nothing is left of it, nothing is left.     *)
(***************************************************************************)
NoLaunchYet == Position \in {"create", "created", "prepare", "journal"} => starts = 0

RunKills ==
  /\ Position \in {"cleanDeleted", "cleanScan", "cleanUnlink"} => cgroup \subseteq kill
  /\ Position \in {"cleanDeleted", "cleanScan"} /\ pidFile = starts => live \subseteq kill
  /\ pc[Run] = "wait" => live \subseteq cgroup
  /\ pc[Run] = "force" => pidRead[Run] = pidFile
  /\ pc[Run] = "force" => cgroup = {}
  /\ pc[Run] = "returned" /\ outcome = "interrupt" => cgroup \subseteq kill

NothingLeft ==
  pc[Run] \in RunOver /\ starts > 0 /\ files = {} =>
    /\ cgroup \subseteq kill
    /\ outcome = "interrupt" \/ live \subseteq cgroup
    /\ netWritten => Released

CleanKills(p) ==
  /\ pc[p] \in {"cleanDeleted", "cleanScan", "cleanUnlink"} => live \subseteq kill
  /\ pc[p] = "commit" /\ next[p] = "cleanScan" => live \subseteq kill
  /\ pc[p] = "force" => live = {}

Killed == NoLaunchYet /\ RunKills /\ NothingLeft /\ \A p \in Cleans : CleanKills(p)

\* Every step of the run keeps what it has to keep itself.
LEMMA RunKeepsKilled ==
  ASSUME TypeOK, IInv, RunDirectory, NoLaunchYet, RunKills, Attached
  PROVE  /\ NoLaunchYet' /\ RunKills'
         /\ pc'[Run] \in RunOver =>
              /\ files \subseteq files' /\ UNCHANGED <<starts, live, cgroup, kill, netWritten>>
              /\ pc[Run] = "cleanUnlink" => UNCHANGED <<ip, proxies, outcome>>
<1>0. Run \in Procs /\ pc \in [Procs -> Labels] /\ next \in [Procs -> Labels]
  BY DEF Procs, TypeOK, ControlOK
<1>b. /\ pc[Run] = "commit" =>
           next[Run] \in {"prepare", "launch", "allocIp", "finally", "loop", "cleanStart",
                          "cleanNet", "cleanScan"}
      /\ pc[Run] \in {"cleanStart", "procs", "wait", "force"} => "runtime" \in files
  BY DEF RunDirectory, RunConfigured, Continues, Position, RunOver
<1> USE <1>0 DEF NoLaunchYet, RunKills, Position, RunOver, Goto, At
<1>1. CASE CreateState \/ MarkCreated \/ WriteRuntimeConfig \/ JournalCgroup
  BY <1>1 DEF CreateState, MarkCreated, WriteRuntimeConfig, JournalCgroup, TransitionBegin,
     AddResource, Look, procVars, runVars, dirVars
<1>2. CASE LoopRead \/ MarkStarting \/ Launch \/ ReadReport \/ WritePid \/ MarkRunning
  <2>1. CASE LoopRead \/ MarkStarting
    BY <2>1 DEF LoopRead, MarkStarting, TransitionBegin, Look, procVars, runVars, dirVars
  <2>2. CASE Launch \/ ReadReport \/ WritePid \/ MarkRunning
    BY <2>2 DEF Launch, ReadReport, WritePid, MarkRunning, TransitionBegin
  <2> QED
    BY <1>2, <2>1, <2>2
<1>3. CASE AllocateIp \/ ConfigureNetwork \/ JournalNetwork \/ StartProxy \/ JournalProxy
  BY <1>3 DEF AllocateIp, ConfigureNetwork, JournalNetwork, StartProxy, JournalProxy,
     AddResource
<1>4. CASE \/ WriteNetwork \/ Published \/ StreamLine \/ LineRaises \/ StreamEnd
           \/ ExitRead \/ MarkExited
  BY <1>4 DEF WriteNetwork, Published, StreamLine, LineRaises, StreamEnd, ExitRead, MarkExited,
     TransitionBegin, Look, ctlVars
<1>5. CASE FailSignal \/ FailForce \/ FailMark \/ BumpRestartCount \/ InterruptMark
  BY <1>5 DEF FailSignal, FailForce, FailMark, BumpRestartCount, InterruptMark, WriteBegin
<1>6. CASE Finally \/ LoopCheck
  <2>1. LoopCheck => outcome' # "interrupt"
    BY DEF LoopCheck, IInv, Interrupted, Ahead, Shared, CleanLabels
  <2>2. Resume \in {"loopCheck", "raised", "intrMark"}
    BY DEF Resume, TypeOK, LocalsOK
  <2> QED
    BY <1>6, <2>1, <2>2 DEF Finally, LoopCheck, NetCheck, Look, procVars, runVars, dirVars
<1>7. CASE Commit(Run)
  BY <1>b, <1>7 DEF Commit, procVars
<1>8. CASE CleanupNetwork(Run)
  <2>1. next[Run] \in {"loopCheck", "raised", "intrMark", "procs"}
    BY <1>8 DEF CleanupNetwork, NetRead, NetKill, NetRelease, IInv, NetNext
  <2> QED
    BY <1>8, <2>1 DEF CleanupNetwork, NetRead, NetKill, NetRelease, CleanRaised, procVars,
       runVars, dirVars
<1>9. CASE StopProcesses(Run)
  <2>1. Run \notin Stops
    BY ProcsAssumption
  <2>2. live \subseteq {starts} /\ cgroup \subseteq live /\ pidRead \in [Procs -> Nat]
    BY DEF IInv, Alone, TypeOK, ControlOK, KernelOK
  <2>3. /\ UNCHANGED <<starts, live, cgroup, pidFile>> /\ kill \subseteq kill'
        /\ pc'[Run] \in {"wait", "force", "cleanDeleted"}
    BY <1>9, <2>1 DEF StopProcesses, SignalMembers, WaitMembers, SignalPid, ForcePid,
       AfterKill, dirVars
  <2>4. CASE SignalMembers(Run)
    BY <2>2, <2>3, <2>4 DEF SignalMembers, Members
  <2>5. CASE WaitMembers(Run)
    BY <2>1, <2>2, <2>3, <2>5 DEF WaitMembers, AfterKill
  <2>6. CASE SignalPid(Run)
    BY <1>b, <2>1, <2>2, <2>3, <2>6 DEF SignalPid, Members, AfterKill, IsPidAlive, ReadPid
  <2>7. CASE ForcePid(Run)
    BY <2>1, <2>2, <2>3, <2>7 DEF ForcePid, AfterKill
  <2> QED
    BY <1>9, <2>4, <2>5, <2>6, <2>7 DEF StopProcesses
<1>10. CASE CleanupState(Run)
  <2>1. CASE CleanStart(Run) \/ CleanMark(Run) \/ CleanNetwork(Run) \/ CleanDeleted(Run)
    BY <1>b, <2>1 DEF CleanStart, CleanMark, CleanNetwork, CleanDeleted, WriteBegin,
       NetCheck, Look, dirVars, procVars
  <2>2. CASE CleanScan(Run) \/ CleanUnlink(Run) \/ CleanEnd(Run)
    BY <2>2 DEF CleanScan, CleanUnlink, CleanEnd, Cleaned, Look, procVars, netVars, runVars,
       dirVars
  <2> QED
    BY <1>10, <2>1, <2>2 DEF CleanupState
<1>11. CASE Fault
  BY <1>11, ConfigAssumption DEF Fault, FaultOf, FaultPoints, procVars, runVars, dirVars
<1>12. CASE Crash
  BY <1>12 DEF Crash, procVars, netVars, runVars
<1>13. CASE Interrupt
  <2>1. /\ UNCHANGED <<files, starts, live, cgroup, kill>>
        /\ pc'[Run] \in {"finally", "intrMark", "raised"}
        /\ Where \in InTry \cup InLoop \cup Setup
        /\ pc'[Run] = "raised" => Where \in Setup
        /\ pc[Run] # "launch" => UNCHANGED netWritten
    BY <1>13 DEF Interrupt
  <2>2. /\ pc[Run] # "cleanUnlink"
        /\ pc'[Run] = "raised" => pc[Run] # "launch"
    BY <2>1 DEF Where, InTry, InLoop, Setup
  <2> QED
    BY <2>1, <2>2
<1> QED
  BY <1>1, <1>2, <1>3, <1>4, <1>5, <1>6, <1>7, <1>8, <1>9, <1>10, <1>11, <1>12, <1>13
     DEF Attached, RunStep

\* A step of a clean keeps what it has to keep itself.
LEMMA CleanKeepsKilled ==
  ASSUME TypeOK, Resumes, CommandsConfigured, live \subseteq cgroup, NEW p \in Cleans,
         CommandStep(p), OnlyMoves(p), CleanKills(p)
  PROVE  CleanKills(p)'
<1>0. /\ p \in Procs /\ p \in Others /\ p \notin Stops \cup Reconciles /\ Start(p) = "clean"
      /\ pc \in [Procs -> Labels] /\ next \in [Procs -> Labels]
  BY ProcsAssumption DEF Others, Procs, TypeOK, ControlOK, Start
<1>1. UNCHANGED live /\ kill \subseteq kill' /\ cgroup \subseteq live
  BY DEF OnlyMoves, TypeOK, KernelOK
<1> USE <1>0, <1>1 DEF CleanKills, Goto
<1>2. CASE StopProcesses(p)
  <2>1. pc[p] = "procs" => "runtime" \in files
    BY DEF CommandsConfigured, Midway, Over, Final, RunOver
  <2>2. CASE SignalMembers(p) \/ WaitMembers(p)
    BY <2>2 DEF SignalMembers, WaitMembers, AfterKill
  <2>3. CASE SignalPid(p) \/ ForcePid(p)
    BY <2>1, <2>3 DEF SignalPid, ForcePid, Members, IsPidAlive, AfterKill
  <2> QED
    BY <1>2, <2>2, <2>3 DEF StopProcesses
<1>3. CASE CleanResolve(p) \/ CleanUnknown(p)
  BY <1>3 DEF CleanResolve, CleanUnknown, Look
<1>4. CASE CleanupState(p)
  BY <1>4 DEF CleanupState, CleanStart, CleanMark, CleanNetwork, CleanDeleted, CleanScan,
     CleanUnlink, CleanEnd, Cleaned, CleanRaised, WriteBegin, NetCheck, Look
<1>5. CASE CleanupNetwork(p)
  <2>1. pc[p] \in Networking => next[p] = "procs"
    BY DEF Resumes, Others
  <2> QED
    BY <1>5, <2>1 DEF CleanupNetwork, NetRead, NetKill, NetRelease, CleanRaised, Networking
<1>6. CASE Commit(p)
  <2>1. pc[p] = "commit" /\ pc'[p] = next[p] /\ next[p] \in {"cleanNet", "cleanScan"}
        /\ UNCHANGED next
    BY <1>6, ProcsAssumption DEF Commit, Resumes, Continues, Others
  <2> QED
    BY <2>1
<1> QED
  BY <1>2, <1>3, <1>4, <1>5, <1>6 DEF CommandStep

\* Every step keeps what is said of the processes.
LEMMA StepKilled ==
  /\ TypeOK /\ IInv /\ Alternate /\ Directory /\ Network /\ Killed /\ [DetachedNext]_vars
  => Killed'
<1> SUFFICES ASSUME TypeOK, IInv, Alternate, Directory, Network, Killed, [DetachedNext]_vars
             PROVE  Killed'
  OBVIOUS
<1>0. /\ Run \in Procs /\ Run \notin Others /\ Cleans \subseteq Others
      /\ \A p \in Others : Start(p) \in {"stop", "clean", "rec"}
      /\ cgroup \subseteq live
  BY ProcsAssumption DEF Start, Others, Procs, TypeOK, KernelOK
<1>1. CASE Attached
  <2>0. RunDirectory
    BY <1>0 DEF Directory, Resumes, Emptying, Emptied, RunDirectory
  <2>1. /\ NoLaunchYet' /\ RunKills'
        /\ pc'[Run] \in RunOver =>
             /\ files \subseteq files' /\ UNCHANGED <<starts, live, cgroup, kill, netWritten>>
             /\ pc[Run] = "cleanUnlink" => UNCHANGED <<ip, proxies, outcome>>
    BY <1>1, <2>0, RunKeepsKilled DEF Killed
  <2>2. NothingLeft'
    <3> SUFFICES ASSUME pc'[Run] \in RunOver, starts' > 0, files' = {}
                 PROVE  /\ cgroup' \subseteq kill'
                        /\ outcome' = "interrupt" \/ live' \subseteq cgroup'
                        /\ netWritten' => Released'
      BY DEF NothingLeft
    <3>1. files = {} /\ starts > 0 /\ pc[Run] \notin RunOver
      BY <1>1, <2>1, AttachedMoves
    <3>2. Position \in {"create", "created", "prepare", "cleanUnlink"} \cup RunOver
      BY <3>1 DEF Directory, RunConfigured
    <3>3. Position = "cleanUnlink" /\ pc[Run] = "cleanUnlink"
      <4>1. pc[Run] = "commit" => next[Run] \in Continues(Run)
        BY <2>0 DEF RunDirectory
      <4> QED
        BY <3>1, <3>2, <4>1 DEF Killed, NoLaunchYet, Position, Continues, RunOver
    <3>4. cgroup \subseteq kill /\ outcome = "interrupt" /\ (netWritten => Released)
      BY <3>3 DEF Killed, RunKills, IInv, CleansInterrupted, Ahead, Shared, CleanLabels,
         Network, RunNetwork, EndReleased, Killing
    <3> QED
      BY <2>1, <3>3, <3>4 DEF Released
  <2>3. \A p \in Others : pc'[p] = Start(p)
    BY <1>1, AttachedMoves DEF Alternate, Untyped
  <2> QED
    BY <1>0, <2>1, <2>2, <2>3 DEF Killed, CleanKills
<1>2. CASE Afterwards
  <2>1. PICK p \in Others : CommandStep(p) /\ OnlyMoves(p)
    BY <1>2, CommandCases DEF Afterwards
  <2>2. /\ pc[Run] \in RunOver /\ UNCHANGED <<pc[Run], next[Run], starts, live, cgroup>>
        /\ UNCHANGED <<netWritten, outcome>>
        /\ kill \subseteq kill' /\ proxies' \subseteq proxies /\ (ip' => ip)
        /\ live \subseteq cgroup
    BY <1>0, <1>2, <2>1 DEF Afterwards, OnlyMoves, runVars
  <2>3. NoLaunchYet' /\ RunKills'
    BY <2>2 DEF Killed, NoLaunchYet, RunKills, Position, RunOver
  <2>4. NothingLeft'
    <3>1. CASE files = {}
      BY <2>2, <3>1 DEF Killed, NothingLeft, Released
    <3>2. CASE files # {} /\ files' = {}
      <4>0. pc[p] = "cleanUnlink"
        BY <2>1, <3>2, CommandDirectory DEF Directory
      <4>1. p \in Cleans
        BY <2>1, <4>0 DEF CommandStep, StopOwn, StopResolve, StopStatus, StopPid, StopIdle,
           StopMark, StopExit, StopProcesses, SignalMembers, WaitMembers, SignalPid,
           ForcePid, ReconcileOwn, ReconcileFind, ReconcileStatus, ReconcilePid,
           ReconcileFail, ReconcileNetwork, ReconcileProxies, ReconcileWrite, ReportsOnly,
           Look, Commit
      <4>2. live \subseteq kill /\ (netWritten => Released)
        BY <4>0, <4>1 DEF Killed, CleanKills, Network, CommandsNetwork, CleanReleases, Killing
      <4> QED
        BY <1>0, <2>2, <4>2 DEF NothingLeft, Released
    <3> QED
      BY <3>1, <3>2 DEF NothingLeft
  <2>5. ASSUME NEW q \in Cleans PROVE CleanKills(q)'
    <3>1. CASE q = p
      BY <2>1, <2>2, <3>1, CleanKeepsKilled DEF Directory, Killed
    <3>2. CASE q # p
      <4>1. UNCHANGED <<pc[q], next[q]>>
        BY <1>0, <2>1, <3>2 DEF OnlyMoves, Others
      <4> QED
        BY <2>2, <2>5, <4>1 DEF Killed, CleanKills
    <3> QED
      BY <3>1, <3>2
  <2> QED
    BY <2>3, <2>4, <2>5 DEF Killed
<1>3. CASE Kernel
  <2>1. /\ UNCHANGED <<ctlVars, dirVars, netVars, runVars, starts>>
        /\ live' \subseteq live
        /\ live \subseteq cgroup => live' \subseteq cgroup' /\ cgroup' \subseteq cgroup
        /\ outcome = "interrupt" => cgroup' \subseteq cgroup
        /\ cgroup' \cap kill \subseteq kill' /\ live' \cap kill \subseteq kill'
    BY <1>3, KernelMoves
  <2>2. pc[Run] = "force" \/ Position \in {"cleanDeleted", "cleanScan", "cleanUnlink"}
          => outcome = "interrupt"
    BY DEF IInv, CleansInterrupted, Ahead, Shared, CleanLabels, Position
  <2> QED
    BY <2>1, <2>2 DEF Killed, NoLaunchYet, RunKills, NothingLeft, CleanKills, Released,
       Position, ctlVars, dirVars, netVars, runVars
<1>4. CASE UNCHANGED vars
  BY <1>4 DEF Killed, NoLaunchYet, RunKills, NothingLeft, CleanKills, Released, Position,
     vars, ctlVars, dirVars, procVars, netVars, runVars
<1> QED
  BY <1>1, <1>2, <1>3, <1>4 DEF DetachedNext

(***************************************************************************)
(* The status file.  What a failed run wrote last is "failed", and only a  *)
(* stop or a clean writes over it.                                         *)
(***************************************************************************)
StartsCreated ==
  /\ pc[Run] \in {"create", "created"} => status.state = "created"
  /\ pc[Run] = "commit" /\ next[Run] = "prepare" => pending[Run].state = "created"
  /\ pc[Run] = "commit" /\ next[Run] = "loop" => pending[Run].state = "exited"
  /\ pc[Run] \in {"prepare", "journal", "loop", "starting"} =>
       status.state \in {"created", "exited"}

FailureWritten ==
  /\ outcome = "error" /\ pc[Run] = "commit" => pending[Run].state = "failed"
  /\ outcome = "error" /\ pc[Run] = "finally" => status.state = "failed"
  /\ pc[Run] \in Networking /\ next[Run] = "raised" => status.state = "failed"

NoStopNorClean == \A p \in Stops \cup Cleans : pc[p] = Start(p)

FailureKept ==
  pc[Run] = "raised" /\ starts > 0 /\ NoStopNorClean =>
    /\ status.state = "failed"
    /\ \A r \in Reconciles : pc[r] \notin {"recPid", "recFail", "commit"}

Recorded == ErrorEnds /\ StartsCreated /\ FailureWritten /\ FailureKept

\* Every step of the run keeps what it has to keep itself.
LEMMA RunKeepsRecorded ==
  ASSUME TypeOK, IInv, RunDirectory, NoLaunchYet, ReleasesListed,
         ErrorEnds, StartsCreated, FailureWritten, Attached
  PROVE  /\ ErrorEnds' /\ StartsCreated' /\ FailureWritten'
         /\ pc'[Run] = "raised" /\ starts' > 0 => status'.state = "failed"
<1>0. /\ Run \in Procs /\ pc \in [Procs -> Labels] /\ next \in [Procs -> Labels]
      /\ pending \in [Procs -> Status] /\ status \in Status
      /\ outcome \in {"ok", "error", "interrupt"}
  BY DEF Procs, TypeOK, ControlOK, DirectoryOK, LocalsOK
<1>b. /\ pc[Run] = "commit" =>
           next[Run] \in {"prepare", "launch", "allocIp", "finally", "loop", "cleanStart",
                          "cleanNet", "cleanScan"}
      /\ pc[Run] = "cleanStart" => "runtime" \in files
  BY DEF RunDirectory, RunConfigured, Continues, Position, RunOver
<1>c. pc[Run] \in Networking => next[Run] \in {"loopCheck", "raised", "intrMark", "procs"}
  BY DEF IInv, NetNext, Networking
<1> USE <1>0, <1>b, <1>c DEF ErrorEnds, StartsCreated, FailureWritten, NoLaunchYet,
        Position, Ahead, Shared, Networking, Goto, At
<1>1. CASE CreateState \/ MarkCreated \/ WriteRuntimeConfig \/ JournalCgroup
  <2>1. starts' = starts /\ starts = 0 /\ UNCHANGED <<status, outcome>>
    BY <1>1 DEF CreateState, MarkCreated, WriteRuntimeConfig, JournalCgroup,
       TransitionBegin, AddResource, Look, dirVars, procVars, runVars
  <2>2. [ReadStatus EXCEPT !.state = "created", !.manual_stop = FALSE].state = "created"
    BY DEF ReadStatus, Status
  <2>3. CASE MarkCreated
    <3>1. \/ /\ pc'[Run] = "commit" /\ next'[Run] = "prepare"
             /\ pending'[Run].state = "created"
          \/ pc'[Run] = "raised"
      BY <2>2, <2>3 DEF MarkCreated, TransitionBegin
    <3> QED
      BY <2>1, <2>3, <3>1 DEF MarkCreated
  <2>4. CASE CreateState \/ WriteRuntimeConfig \/ JournalCgroup
    BY <2>1, <2>4 DEF CreateState, WriteRuntimeConfig, JournalCgroup, AddResource, Look
  <2> QED
    BY <1>1, <2>3, <2>4
<1>2. CASE LoopRead
  BY <1>2 DEF LoopRead, Look, dirVars
<1>3. CASE MarkStarting
  <2>1. [ReadStatus EXCEPT !.state = "starting", !.manual_stop = seen.manual_stop,
                           !.restart_count = seen.restart_count].state = "starting"
    BY DEF ReadStatus, Status
  <2>2. Valid(status.state, "starting")
    BY <1>3 DEF MarkStarting, Valid, AllowedTransitions, States
  <2>3. pc'[Run] = "commit" /\ next'[Run] = "launch" /\ pc[Run] = "starting"
        /\ UNCHANGED outcome
    BY <1>3, <2>1, <2>2 DEF MarkStarting, TransitionBegin, ReadStatus, runVars
  <2> QED
    BY <2>3
<1>4. CASE Launch \/ ReadReport \/ WritePid \/ MarkRunning
  BY <1>4 DEF Launch, ReadReport, WritePid, MarkRunning, TransitionBegin, runVars
<1>5. CASE AllocateIp \/ ConfigureNetwork \/ JournalNetwork \/ StartProxy \/ JournalProxy
  BY <1>5 DEF AllocateIp, ConfigureNetwork, JournalNetwork, StartProxy, JournalProxy,
     AddResource, runVars
<1>6. CASE \/ WriteNetwork \/ Published \/ StreamLine \/ LineRaises \/ StreamEnd
           \/ ExitRead \/ MarkExited
  BY <1>6 DEF WriteNetwork, Published, StreamLine, LineRaises, StreamEnd, ExitRead, MarkExited,
     TransitionBegin, Look, ctlVars, runVars
<1>7. CASE FailSignal \/ FailForce
  BY <1>7 DEF FailSignal, FailForce, runVars
<1>8. CASE FailMark
  <2>1. [ReadStatus EXCEPT !.state = "failed", !.exit_reason = "runtime_error"].state = "failed"
    BY DEF ReadStatus, Status
  <2> QED
    BY <1>8, <2>1 DEF FailMark, WriteBegin
<1>9. CASE Finally
  <2>1. /\ Resume \in {"loopCheck", "raised", "intrMark"}
        /\ Resume = "raised" <=> outcome = "error"
    BY DEF Resume
  <2> QED
    BY <1>9, <2>1 DEF Finally, NetCheck, Look, dirVars, runVars
<1>10. CASE LoopCheck
  BY <1>10 DEF LoopCheck, Look
<1>11. CASE BumpRestartCount
  <2>1. [ReadStatus EXCEPT !.state = "exited",
                           !.restart_count = seen.restart_count + 1].state = "exited"
    BY DEF ReadStatus, Status
  <2> QED
    BY <1>11, <2>1 DEF BumpRestartCount, WriteBegin, runVars
<1>12. CASE InterruptMark
  BY <1>12 DEF InterruptMark, WriteBegin, runVars
<1>13. CASE Commit(Run)
  BY <1>13 DEF Commit, runVars
<1>14. CASE CleanupNetwork(Run)
  BY <1>14 DEF CleanupNetwork, NetRead, NetKill, NetRelease, ReleasesListed, dirVars, runVars
<1>15. CASE StopProcesses(Run) \/ CleanupState(Run)
  <2>0. Run \notin Stops
    BY ProcsAssumption
  <2>1. /\ pc[Run] \in CleanLabels
        /\ UNCHANGED outcome
        /\ pc'[Run] \in CleanLabels \cup {"commit", "netRead", "returned"}
        /\ pc'[Run] = "commit" => next'[Run] \in {"cleanNet", "cleanScan"}
        /\ pc'[Run] = "netRead" => next'[Run] = "procs"
    <3>1. CASE StopProcesses(Run)
      BY <2>0, <3>1 DEF StopProcesses, SignalMembers, WaitMembers, SignalPid, ForcePid,
         AfterKill, runVars, CleanLabels
    <3>2. CASE CleanStart(Run) \/ CleanMark(Run) \/ CleanNetwork(Run) \/ CleanDeleted(Run)
      BY <3>2 DEF CleanStart, CleanMark, CleanNetwork, CleanDeleted, Cleaned, WriteBegin,
         NetCheck, Look, runVars, CleanLabels
    <3>3. CASE CleanScan(Run) \/ CleanUnlink(Run) \/ CleanEnd(Run)
      BY <3>3 DEF CleanScan, CleanUnlink, CleanEnd, Cleaned, Look, runVars, CleanLabels
    <3> QED
      BY <1>15, <3>1, <3>2, <3>3 DEF CleanupState
  <2>2. outcome = "interrupt"
    BY <2>1 DEF IInv, CleansInterrupted, CleanLabels
  <2> QED
    BY <2>1, <2>2 DEF CleanLabels
<1>16. CASE Fault
  BY <1>16, ConfigAssumption DEF Fault, FaultOf, FaultPoints, dirVars, procVars, runVars
<1>17. CASE Crash
  BY <1>17 DEF Crash, runVars
<1>18. CASE Interrupt
  <2>1. /\ UNCHANGED <<starts, status>> /\ outcome' = "interrupt"
        /\ pc'[Run] \in {"finally", "intrMark", "raised"}
        /\ pc'[Run] = "raised" => Where \in Setup
    BY <1>18 DEF Interrupt
  <2>2. Where \in Setup => starts = 0
    BY DEF Where, Setup
  <2> QED
    BY <2>1, <2>2
<1> QED
  BY <1>1, <1>2, <1>3, <1>4, <1>5, <1>6, <1>7, <1>8, <1>9, <1>10, <1>11, <1>12, <1>13,
     <1>14, <1>15, <1>16, <1>17, <1>18 DEF Attached, RunStep

\* Every step keeps what is said of the status.
LEMMA StepRecorded ==
  /\ TypeOK /\ IInv /\ Alternate /\ Directory /\ Network /\ Killed /\ Recorded
  /\ [DetachedNext]_vars
  => Recorded'
<1> SUFFICES ASSUME TypeOK, IInv, Alternate, Directory, Network, Killed, Recorded,
                    [DetachedNext]_vars
             PROVE  Recorded'
  OBVIOUS
<1>0. /\ Run \in Procs /\ Run \notin Others /\ Stops \cup Cleans \cup Reconciles \subseteq Others
      /\ \A p \in Others : Start(p) \in {"stop", "clean", "rec"}
  BY ProcsAssumption DEF Start, Others, Procs
<1>1. CASE Attached
  <2>1. /\ ErrorEnds' /\ StartsCreated' /\ FailureWritten'
        /\ pc'[Run] = "raised" /\ starts' > 0 => status'.state = "failed"
    <3>1. RunDirectory
      BY <1>0 DEF Directory, Resumes, Emptying, Emptied, RunDirectory
    <3> QED
      BY <1>1, <3>1, RunKeepsRecorded DEF Killed, Network, RunNetwork, Recorded
  <2>2. \A p \in Others : pc'[p] = Start(p)
    BY <1>1, AttachedMoves DEF Alternate, Untyped
  <2>3. FailureKept'
    BY <1>0, <2>1, <2>2 DEF FailureKept
  <2> QED
    BY <2>1, <2>3 DEF Recorded
<1>2. CASE Afterwards
  <2>1. PICK p \in Others : CommandStep(p) /\ OnlyMoves(p)
    BY <1>2, CommandCases DEF Afterwards
  <2>2. /\ pc[Run] \in RunOver /\ UNCHANGED <<pc[Run], next[Run], starts, outcome>>
        /\ \A q \in Others \ {p} : pc'[q] = pc[q]
    BY <1>0, <1>2, <2>1 DEF Afterwards, OnlyMoves, runVars, Others
  <2>3. ErrorEnds' /\ StartsCreated' /\ FailureWritten'
    BY <2>2 DEF Recorded, ErrorEnds, StartsCreated, FailureWritten, Ahead, Shared, RunOver,
       Networking
  <2>4. ASSUME pc[Run] = "raised", starts > 0, NoStopNorClean'
        PROVE  /\ status'.state = "failed"
               /\ \A r \in Reconciles : pc'[r] \notin {"recPid", "recFail", "commit"}
    <3>1. pc'[p] # Start(p)
      BY <2>1, CommandDirectory DEF Directory
    <3>2. p \notin Stops \cup Cleans
      BY <2>4, <3>1 DEF NoStopNorClean, Start
    <3>3. NoStopNorClean
      BY <1>0, <2>2, <2>4, <3>2 DEF NoStopNorClean, Start
    <3>4. /\ status.state = "failed"
          /\ \A r \in Reconciles : pc[r] \notin {"recPid", "recFail", "commit"}
      BY <2>4, <3>3 DEF Recorded, FailureKept
    <3>5. p \in Reconciles
      BY <3>2 DEF Others, Procs
    <3>6. ReconcileOwn(p)
      BY <2>1, <3>2, <3>4, <3>5 DEF CommandStep, Commit
    <3>7. UNCHANGED status /\ pc'[p] \notin {"recPid", "recFail", "commit"}
      BY <1>0, <3>4, <3>5, <3>6 DEF ReconcileOwn, ReconcileFind, ReconcileStatus,
         ReconcilePid, ReconcileFail, ReconcileNetwork, ReconcileProxies, ReconcileWrite,
         ReportsOnly, Look, Goto, ReadStatus, dirVars, TypeOK, ControlOK, Others
    <3> QED
      BY <1>0, <2>2, <3>4, <3>7
  <2> QED
    BY <2>2, <2>3, <2>4 DEF Recorded, FailureKept
<1>3. CASE UNCHANGED <<ctlVars, dirVars, runVars, starts>>
  BY <1>3 DEF Recorded, ErrorEnds, StartsCreated, FailureWritten, FailureKept,
     NoStopNorClean, Start, Ahead, ctlVars, dirVars, runVars
<1> QED
  BY <1>1, <1>2, <1>3, KernelMoves DEF DetachedNext, vars, procVars

(***************************************************************************)
(* The theorems.                                                           *)
(***************************************************************************)
DInv ==
  /\ TypeOK /\ IInv /\ Alternate /\ Directory /\ Network /\ Killed /\ Recorded

\* The invariant holds before anything has been done.
LEMMA InitDetached == Init => DInv
<1> SUFFICES ASSUME Init PROVE DInv
  OBVIOUS
<1>0. /\ Run \in Procs /\ Run \notin Others /\ Others \subseteq Procs
      /\ Stops \cup Cleans \cup Reconciles \subseteq Others
      /\ \A p \in Others : Start(p) \in {"stop", "clean", "rec"}
      /\ Start(Run) = "create"
  BY ProcsAssumption DEF Start, Others, Procs
<1>1. /\ pc[Run] = "create" /\ \A p \in Others : pc[p] = Start(p)
      /\ files = {} /\ status = DefaultStatus /\ starts = 0 /\ live = {} /\ ~ip /\ proxies = {}
      /\ ~netWritten /\ outcome = "ok"
  BY <1>0 DEF Init
<1>2. TypeOK /\ IInv
  BY InitType, InitIInv
<1>3. Alternate
  BY <1>0, <1>1 DEF Alternate, Untyped, OneMidway, Midway
<1>4. Directory
  BY <1>0, <1>1 DEF Directory, Resumes, RunConfigured, CommandsConfigured, Emptying,
     Emptied, Position, Midway, Networking, Others
<1>5. Network
  BY <1>0, <1>1 DEF Network, RunNetwork, BetweenReleased, UnwrittenListed, Written,
     WrittenListed, ReleasesListed, EndReleased, DeathListed, Released, Position,
     CommandsNetwork, CleanReleases, ReconcileKeeps, Networking, Unwritten
<1>6. Killed
  BY <1>0, <1>1 DEF Killed, NoLaunchYet, RunKills, NothingLeft, CleanKills, Position, RunOver
<1>7. Recorded
  BY <1>0, <1>1 DEF Recorded, ErrorEnds, StartsCreated, FailureWritten, FailureKept, Ahead,
     Shared, Networking, DefaultStatus
<1> QED
  BY <1>2, <1>3, <1>4, <1>5, <1>6, <1>7 DEF DInv

\* A step with the commands afterwards is a step.
LEMMA DetachedSteps == [DetachedNext]_vars => [Next]_vars
BY DEF DetachedNext, Afterwards, Next

\* THEOREM 1.  The inductive invariant holds in every behaviour in which the
\* commands come after the run, one after another.
THEOREM DetachedInductive == DetachedSpec => []DInv
<1>1. DInv /\ [DetachedNext]_vars => DInv'
  BY DetachedSteps, StepType, StepIInv, StepAlternate, StepDirectory, StepNetwork,
     StepKilled, StepRecorded DEF DInv
<1> QED
  BY InitDetached, <1>1, PTL DEF DetachedSpec

\* THEOREM 2.  A run that wrote network.json has given back the address and
\* the proxies when it ends, whatever failed or was interrupted in between
\* (the finally clause of run_container_once, cleanup_container_state).
THEOREM NetworkGivenBack == DetachedSpec => []NetworkReleased
<1>1. DInv => NetworkReleased
  BY DEF DInv, Network, RunNetwork, EndReleased, Released, Position, NetworkReleased
<1> QED
  BY <1>1, DetachedInductive, PTL

\* THEOREM 3.  While a container is streamed network.json names every proxy
\* that is alive (start_port_proxies, write_network_state), for any ports.
THEOREM EveryProxyListed == DetachedSpec => []ProxiesListed
<1>1. DInv => ProxiesListed
  BY DEF DInv, Network, RunNetwork, Written, WrittenListed, Listed, Position, Killing,
     RunOver, ProxiesListed
<1> QED
  BY <1>1, DetachedInductive, PTL

\* THEOREM 4.  A run that raised after a launch has recorded "failed", and only
\* a stop or a clean writes over it (the except clause of run_container_once).
THEOREM FailureIsRecorded == DetachedSpec => []FailureRecorded
<1>1. DInv => FailureRecorded
  BY DEF DInv, Recorded, FailureKept, NoStopNorClean, ReadStatus, FailureRecorded
<1> QED
  BY <1>1, DetachedInductive, PTL

\* THEOREM 5.  An interrupted run that returns has removed the directory and
\* killed what axis-runtime had released, and before it removed the directory
\* it had killed the last launch if its pid was in the pid file (run_command, on
\* KeyboardInterrupt).
THEOREM InterruptedRunCleans == DetachedSpec => []InterruptCleans
<1>1. DInv => InterruptCleans
  BY DEF DInv, Directory, Emptied, Killed, RunKills, Position, InterruptCleans
<1> QED
  BY <1>1, DetachedInductive, PTL

\* THEOREM 6.  However the run ended, after `axis clean` there is no directory
\* and no process, and no proxy and no address that network.json named
\* (cleanup_container_state), after any number of other commands.
THEOREM CleanLeavesNothing == DetachedSpec => []CleanRecovers
<1>1. DInv => CleanRecovers
  <2> SUFFICES ASSUME DInv, NEW c \in Cleans, pc[c] = "cleanDone", pc[Run] \in RunOver,
                      starts > 0
               PROVE  files = {} /\ live \subseteq kill /\ (netWritten => ~ip /\ proxies = {})
    BY DEF CleanRecovers
  <2>1. files = {}
    BY DEF DInv, Directory, Emptied
  <2>2. cgroup \subseteq kill /\ (netWritten => Released)
    BY <2>1 DEF DInv, Killed, NothingLeft
  <2>3. c \in Others /\ Start(c) = "clean"
    BY ProcsAssumption DEF Others, Procs, Start
  <2>4. live \subseteq cgroup
    BY <2>3 DEF DInv, Alternate, Untyped
  <2> QED
    BY <2>1, <2>2, <2>4 DEF Released
<1> QED
  BY <1>1, DetachedInductive, PTL

=============================================================================
