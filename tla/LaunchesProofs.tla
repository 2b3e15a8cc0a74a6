--------------------------- MODULE LaunchesProofs ----------------------------
(***************************************************************************)
(* axis-runtime over several launches: the command waits for its cgroup,   *)
(* its exit code is the one reported, and what is recorded is true, for    *)
(* any exit codes, orphans, signals, kills, OOM kills and launches.        *)
(***************************************************************************)
EXTENDS Launches, TLAPS

\* The parts of TypeOK.
ParentType ==
  /\ parent \in {"clone", "setup", "start", "abort", "wait", "abortWait", "done", "killed"}
  /\ code \in 0..255

InitType ==
  /\ init \in {"none", "read", "namespaces", "handlers", "fork", "setAppPid", "waitpid",
               "reaped", "ended"}
  /\ reaped \in {"none", "app", "other"}

StatusType ==
  initStatus \in Statuses /\ waited \in Statuses /\ appStatus \in Statuses /\ appDied \in Statuses

PipeType == writers \subseteq {"parent", "init"} /\ bytes \in 0..1

SignalType == signals \in 0..MaxSignals

AppType ==
  app \in {"none", "forked", "running", "zombie", "gone"}
  /\ orphans \subseteq Orphans /\ zombies \subseteq Orphans

FlagType ==
  /\ handlers \in BOOLEAN /\ appPid \in BOOLEAN /\ appExited \in BOOLEAN
  /\ cgroup \in {"none", "joined", "refused"} /\ pending \in BOOLEAN /\ appTerm \in BOOLEAN

Types ==
  ParentType /\ InitType /\ StatusType /\ PipeType /\ SignalType /\ AppType /\ FlagType

LEMMA TypeParts == TypeOK <=> Types
  BY DEF TypeOK, Types, ParentType, InitType, StatusType, PipeType, SignalType, AppType, FlagType

\* The processes die of the two signals that are sent to them.
FatalSignals ==
  \A s \in {initStatus, waited, appStatus, appDied} :
    s.how = "signaled" => s.value \in {SIGKILL, SIGTERM}

\* The pipe holds the child back until axis-runtime has dealt with its cgroup.
HeldBack ==
  /\ parent = "clone" => init = "none"
  /\ parent \in {"clone", "setup", "start", "abort", "abortWait"} =>
       bytes = 0 /\ app = "none" /\ init \in {"none", "read", "ended"}
  /\ parent = "start" \/ bytes > 0 => cgroup # "none"
  /\ init \notin {"none", "read", "ended"} => cgroup # "none"

\* What init knows of the command.
Reaping ==
  /\ init \in {"none", "read", "namespaces", "handlers", "fork"} => app = "none"
  /\ app = "none" => ~appExited /\ reaped # "app"
  /\ init \notin {"reaped", "ended"} => reaped = "none"
  /\ reaped = "app" => app = "gone" /\ waited = appDied
  /\ appExited => app = "gone" /\ appStatus = appDied
  /\ app = "gone" /\ init # "ended" => appExited \/ reaped = "app"

\* How init has ended, and what axis-runtime returns for it.
Reporting ==
  /\ init = "ended" /\ initStatus.how = "exited" =>
       \/ app = "none" /\ initStatus = Exited(1)
       \/ app = "gone" /\ initStatus = Exited(statusToExitCode(appDied))
  /\ parent = "done" =>
       \/ code = 1 /\ app = "none" /\ init \in {"none", "ended"}
       \/ init = "ended" /\ code = statusToExitCode(initStatus)

CInv == Types /\ FatalSignals /\ HeldBack /\ AppWaitsForCgroup /\ Reaping /\ Reporting

Reasons == {"none", "oom_killed", "signal", "completed", "error"}

\* What has been recorded is about processes that have all ended.
Details ==
  /\ details \in [exit_signal : Int, exit_reason : Reasons]
  /\ recorded \in BOOLEAN /\ oomKill \in BOOLEAN /\ oomNow \in BOOLEAN
  /\ oomNow => oomKill
  /\ recorded => parent \in {"done", "killed"} /\ init = "ended"

IInv == CInv /\ Details /\ SignalRecorded /\ CompletedIsSuccess

LEMMA InitIInv == LaunchesInit => IInv
<1> SUFFICES ASSUME LaunchesInit PROVE IInv
  OBVIOUS
<1>1. ParentType /\ InitType /\ AppType /\ PipeType
  BY DEF LaunchesInit, Init, ParentType, InitType, AppType, PipeType
<1>2. StatusType /\ FatalSignals
  BY DEF LaunchesInit, Init, StatusType, FatalSignals, Statuses, NoStatus, Exited
<1>3. SignalType
  BY ContainerAssumption DEF LaunchesInit, Init, SignalType
<1>6. FlagType
  BY DEF LaunchesInit, Init, FlagType
<1>4. HeldBack /\ AppWaitsForCgroup /\ Reaping /\ Reporting
  BY DEF LaunchesInit, Init, HeldBack, AppWaitsForCgroup, Reaping, Reporting
<1>5. SignalRecorded /\ CompletedIsSuccess
  BY DEF LaunchesInit, SignalRecorded, CompletedIsSuccess
<1>7. details \in [exit_signal : Int, exit_reason : Reasons]
  BY DEF LaunchesInit, NoDetails, Reasons
<1>8. Details
  BY <1>7 DEF LaunchesInit, Details
<1> QED BY <1>1, <1>2, <1>3, <1>4, <1>5, <1>6, <1>8 DEF IInv, CInv, Types

LEMMA ExitCodeType ==
  ASSUME NEW s \in Statuses, s.how = "signaled" => s.value \in {SIGKILL, SIGTERM}
  PROVE  /\ statusToExitCode(s) \in 0..255
         /\ statusToExitCode(s) = 0 => s = Exited(0)
         /\ s.how = "signaled" => statusToExitCode(s) = 128 + s.value
         /\ s.how = "exited" => statusToExitCode(s) = s.value
  BY DEF Statuses, statusToExitCode, Exited, SIGKILL, SIGTERM

(***************************************************************************)
(* The steps of axis-runtime and its child.                                *)
(***************************************************************************)
LEMMA ParentStep ==
  ASSUME CInv, Parent \/ KillRuntime
  PROVE  CInv'
<1> USE DEF CInv
<1>1. statusToExitCode(initStatus) \in 0..255
  BY ExitCodeType DEF Types, StatusType, FatalSignals
<1>2. Types'
  <2> USE DEF Types, Parent, Clone, SetupCgroup, SendStart, Abort, WaitChild, KillRuntime
  <2>1. ParentType'
    BY <1>1 DEF ParentType
  <2>2. InitType' /\ StatusType' /\ AppType'
    BY DEF InitType, StatusType, AppType, initVars, appVars
  <2>3. PipeType'
    <3>1. writers' \subseteq {"parent", "init"}
      BY DEF PipeType, pipeVars
    <3>2. bytes' \in 0..1
      BY DEF PipeType, HeldBack, pipeVars
    <3> QED BY <3>1, <3>2 DEF PipeType
  <2>4. SignalType'
    BY DEF SignalType, sigVars
  <2>5. FlagType'
    BY DEF FlagType, initVars, sigVars, appVars
  <2> QED BY <2>1, <2>2, <2>3, <2>4, <2>5
<1>3. UNCHANGED <<initStatus, waited, appStatus, appVars>>
  BY DEF Parent, Clone, SetupCgroup, SendStart, Abort, WaitChild, KillRuntime, initVars
<1>4. FatalSignals'
  BY <1>3 DEF FatalSignals, appVars
<1>5. HeldBack' /\ AppWaitsForCgroup'
  BY DEF Types, PipeType, HeldBack, AppWaitsForCgroup, Parent, Clone, SetupCgroup, SendStart,
         Abort, WaitChild, KillRuntime, initVars, pipeVars, appVars
<1>6. Reaping'
  BY DEF HeldBack, Reaping, Parent, Clone, SetupCgroup, SendStart, Abort, WaitChild,
         KillRuntime, initVars, appVars
<1>7. Reporting'
  BY DEF HeldBack, Reporting, Parent, Clone, SetupCgroup, SendStart, Abort, WaitChild,
         KillRuntime, initVars, appVars
<1> QED BY <1>2, <1>4, <1>5, <1>6, <1>7

LEMMA EarlyChildStep ==
  ASSUME CInv, ReadStart \/ SetupNamespaces \/ InstallHandlers \/ Fork \/ SetAppPid
  PROVE  CInv'
<1> USE DEF CInv
<1>1. Types'
  <2> USE DEF Types, ReadStart, SetupNamespaces, InstallHandlers, Fork, SetAppPid, End
  <2>1. ParentType' /\ InitType'
    BY DEF ParentType, InitType, parentVars
  <2>2. StatusType'
    BY DEF StatusType, Statuses, Exited, appVars
  <2>3. PipeType'
    <3>1. writers' \subseteq {"parent", "init"}
      BY DEF PipeType, pipeVars
    <3>2. bytes' \in 0..1
      BY DEF PipeType, pipeVars
    <3> QED BY <3>1, <3>2 DEF PipeType
  <2>4. SignalType' /\ AppType'
    BY DEF SignalType, AppType, sigVars, appVars
  <2>5. FlagType'
    BY DEF FlagType, sigVars, appVars
  <2> QED BY <2>1, <2>2, <2>3, <2>4, <2>5
<1>2. FatalSignals'
  BY DEF ReadStart, SetupNamespaces, InstallHandlers, Fork, SetAppPid, End, FatalSignals,
         Exited, appVars
<1>3. HeldBack' /\ AppWaitsForCgroup'
  BY DEF ReadStart, SetupNamespaces, InstallHandlers, Fork, SetAppPid, End, HeldBack, Types,
         PipeType, AppWaitsForCgroup, parentVars, pipeVars, appVars
<1>4. Reaping'
  BY DEF ReadStart, SetupNamespaces, InstallHandlers, Fork, SetAppPid, End, Reaping, appVars
<1>5. Reporting'
  BY DEF ReadStart, SetupNamespaces, InstallHandlers, Fork, SetAppPid, End, Reaping, Reporting,
         parentVars, appVars
<1> QED BY <1>1, <1>2, <1>3, <1>4, <1>5

LEMMA ReapingStep ==
  ASSUME CInv, WaitPid \/ Record \/ Return
  PROVE  CInv'
<1> USE DEF CInv
<1>1. statusToExitCode(appStatus) \in 0..255
  BY ExitCodeType DEF Types, StatusType, FatalSignals
<1>2. CASE WaitPid
  <2>1. waited' \in Statuses /\ (waited'.how = "signaled" => waited'.value \in {SIGKILL, SIGTERM})
    BY <1>2 DEF WaitPid, Types, StatusType, FatalSignals, Statuses, Exited, Signaled, SIGKILL
  <2>2. StatusType' /\ FatalSignals'
    BY <1>2, <2>1 DEF WaitPid, Types, StatusType, FatalSignals
  <2>3. ParentType' /\ InitType' /\ PipeType' /\ SignalType' /\ AppType'
    BY <1>2 DEF WaitPid, Types, ParentType, InitType, PipeType, SignalType, AppType, parentVars,
                pipeVars, sigVars
  <2>5. FlagType'
    BY <1>2 DEF WaitPid, Types, FlagType, sigVars
  <2>4. HeldBack' /\ AppWaitsForCgroup' /\ Reaping' /\ Reporting'
    BY <1>2 DEF WaitPid, HeldBack, AppWaitsForCgroup, Reaping, Reporting, parentVars, pipeVars
  <2> QED BY <2>2, <2>3, <2>4, <2>5 DEF Types
<1>3. CASE Record
  <2>1. StatusType' /\ FatalSignals'
    BY <1>3 DEF Record, Types, StatusType, FatalSignals, Statuses, NoStatus, Exited, appVars
  <2>2. ParentType' /\ InitType' /\ PipeType' /\ SignalType' /\ AppType'
    BY <1>3 DEF Record, Types, ParentType, InitType, PipeType, SignalType, AppType, parentVars,
                pipeVars, sigVars, appVars
  <2>4. FlagType'
    BY <1>3 DEF Record, Types, FlagType, sigVars, appVars
  <2>3. HeldBack' /\ AppWaitsForCgroup' /\ Reaping' /\ Reporting'
    BY <1>3 DEF Record, HeldBack, AppWaitsForCgroup, Reaping, Reporting, parentVars,
                pipeVars, appVars
  <2> QED BY <2>1, <2>2, <2>3, <2>4 DEF Types
<1>4. CASE Return
  <2>1. appExited /\ appStatus = appDied
    BY <1>4 DEF Return, Reaping
  <2>2. initStatus' = Exited(statusToExitCode(appDied)) /\ init' = "ended"
    BY <1>4, <2>1 DEF Return, End
  <2>3. initStatus' \in Statuses /\ initStatus'.how = "exited"
    BY <1>1, <2>1, <2>2 DEF Statuses, Exited
  <2>4. StatusType' /\ FatalSignals'
    BY <1>4, <2>3 DEF Return, Types, StatusType, FatalSignals, appVars
  <2>7. ParentType' /\ InitType' /\ PipeType' /\ SignalType' /\ AppType'
    BY <1>4 DEF Return, End, Types, ParentType, InitType, PipeType, SignalType, AppType,
                parentVars, sigVars, appVars
  <2>8. FlagType'
    BY <1>4 DEF Return, Types, FlagType, sigVars, appVars
  <2>5. HeldBack' /\ AppWaitsForCgroup' /\ Reaping'
    BY <1>4 DEF Return, End, HeldBack, AppWaitsForCgroup, Reaping, parentVars, appVars
  <2>6. Reporting'
    BY <1>4, <2>2 DEF Return, Reporting, Reaping, parentVars, appVars
  <2> QED BY <2>4, <2>5, <2>6, <2>7, <2>8 DEF Types
<1> QED BY <1>2, <1>3, <1>4

(***************************************************************************)
(* The steps of the command and of those who send signals.                 *)
(***************************************************************************)
LEMMA SignalStep ==
  ASSUME CInv, Signal \/ forwardSignal
  PROVE  CInv'
<1>1. ParentType' /\ InitType' /\ StatusType' /\ PipeType' /\ AppType'
  <2> USE DEF CInv, Types, Signal, forwardSignal, parentVars, initVars, pipeVars, appVars
  <2>1. ParentType' /\ InitType' /\ StatusType'
    BY DEF ParentType, InitType, StatusType
  <2>2. PipeType' /\ AppType'
    BY DEF PipeType, AppType
  <2> QED BY <2>1, <2>2
<1>2. SignalType'
  BY ContainerAssumption DEF CInv, Types, Signal, forwardSignal, SignalType
<1>4. FlagType'
  BY DEF CInv, Types, Signal, forwardSignal, FlagType, initVars, appVars
<1>3. (FatalSignals /\ HeldBack /\ AppWaitsForCgroup /\ Reaping /\ Reporting)'
  BY DEF CInv, Signal, forwardSignal, FatalSignals, HeldBack, AppWaitsForCgroup, Reaping,
         Reporting, parentVars, initVars, pipeVars, appVars
<1> QED BY <1>1, <1>2, <1>3, <1>4 DEF CInv, Types

\* However the command ends, init is there and has not reaped it.
LEMMA AppStep ==
  ASSUME CInv, Alive, UNCHANGED <<parentVars, initVars, pipeVars, cgroup, sigVars, appTerm>>,
         app \in {"forked", "running"}, app' \in {"running", "zombie"},
         appDied' \in Statuses,
         appDied'.how = "signaled" => appDied'.value \in {SIGKILL, SIGTERM},
         orphans' \subseteq Orphans, zombies' \subseteq Orphans
  PROVE  CInv'
<1>1. ParentType' /\ InitType' /\ PipeType' /\ SignalType' /\ AppType'
  BY DEF CInv, Types, ParentType, InitType, PipeType, SignalType, AppType, parentVars, initVars,
         pipeVars, sigVars
<1>6. FlagType'
  BY DEF CInv, Types, FlagType, initVars, sigVars
<1>5. StatusType' /\ FatalSignals'
  BY DEF CInv, Types, StatusType, FatalSignals, initVars
<1>2. HeldBack' /\ AppWaitsForCgroup'
  BY DEF CInv, HeldBack, AppWaitsForCgroup, parentVars, initVars, pipeVars
<1>3. Reaping'
  BY DEF CInv, Reaping, Alive, initVars
<1>4. Reporting'
  BY DEF CInv, Reporting, HeldBack, Alive, parentVars, initVars
<1> QED BY <1>1, <1>2, <1>3, <1>4, <1>5, <1>6 DEF CInv, Types

LEMMA ExecStep ==
  ASSUME CInv, Exec \/ AppEnds
  PROVE  CInv'
<1>1. CASE Exec
  <2>1. appDied' \in Statuses /\ (appDied'.how = "signaled" => appDied'.value \in {SIGKILL, SIGTERM})
    BY <1>1 DEF CInv, Types, Exec, StatusType, FatalSignals, Statuses, Exited
  <2>2. orphans' \subseteq Orphans /\ zombies' \subseteq Orphans
    BY <1>1 DEF CInv, Types, Exec, AppType
  <2> QED BY <1>1, <2>1, <2>2, AppStep DEF Exec
<1>2. CASE AppEnds
  <2>1. appDied' \in Statuses /\ (appDied'.how = "signaled" => appDied'.value \in {SIGKILL, SIGTERM})
    BY <1>2, ContainerAssumption DEF AppEnds, Statuses, Exited, Signaled, SIGTERM
  <2>2. orphans' \subseteq Orphans /\ zombies' \subseteq Orphans
    BY <1>2 DEF CInv, Types, AppEnds, AppType
  <2> QED BY <1>2, <2>1, <2>2, AppStep DEF AppEnds
<1> QED BY <1>1, <1>2

LEMMA OrphanStep ==
  ASSUME CInv, NEW o \in Orphans, OrphanEnds(o)
  PROVE  CInv'
<1> USE DEF CInv, OrphanEnds
<1>1. ParentType' /\ InitType' /\ PipeType' /\ SignalType' /\ AppType'
  BY DEF Types, ParentType, InitType, PipeType, SignalType, AppType, parentVars, initVars,
         pipeVars, sigVars
<1>2. StatusType' /\ FatalSignals' /\ FlagType'
  BY DEF Types, StatusType, FatalSignals, FlagType, initVars, sigVars
<1>3. HeldBack' /\ AppWaitsForCgroup' /\ Reaping' /\ Reporting'
  BY DEF HeldBack, AppWaitsForCgroup, Reaping, Reporting, parentVars, initVars, pipeVars
<1> QED BY <1>1, <1>2, <1>3 DEF Types

LEMMA KillStep ==
  ASSUME CInv, KillContainer
  PROVE  CInv'
<1> USE DEF CInv, KillContainer
<1>1. ParentType' /\ InitType' /\ PipeType' /\ SignalType' /\ AppType'
  BY DEF Types, ParentType, InitType, PipeType, SignalType, AppType, parentVars, sigVars
<1>5. FlagType'
  BY DEF Types, FlagType, sigVars
<1>4. StatusType' /\ FatalSignals'
  BY DEF Types, StatusType, FatalSignals, Statuses, Signaled, SIGKILL
<1>2. HeldBack' /\ AppWaitsForCgroup'
  BY DEF HeldBack, AppWaitsForCgroup, Alive, parentVars
<1>6. Reaping'
  BY DEF Reaping
<1>3. Reporting'
  BY DEF Alive, Reporting, Signaled, parentVars
<1> QED BY <1>1, <1>2, <1>3, <1>4, <1>5, <1>6 DEF Types

LEMMA ContainerRests == CInv /\ UNCHANGED vars => CInv'
<1> SUFFICES ASSUME CInv, UNCHANGED vars PROVE CInv'
  OBVIOUS
<1> USE DEF CInv, Types, vars, parentVars, initVars, pipeVars, sigVars, appVars
<1>1. ParentType' /\ InitType' /\ StatusType' /\ PipeType' /\ SignalType' /\ AppType'
  BY DEF ParentType, InitType, StatusType, PipeType, SignalType, AppType
<1>3. FlagType'
  BY DEF FlagType
<1>2. FatalSignals' /\ HeldBack' /\ AppWaitsForCgroup' /\ Reaping' /\ Reporting'
  BY DEF FatalSignals, HeldBack, AppWaitsForCgroup, Reaping, Reporting
<1> QED BY <1>1, <1>2, <1>3

LEMMA ContainerStep == CInv /\ Next => CInv'
  BY ParentStep, EarlyChildStep, ReapingStep, SignalStep, ExecStep, OrphanStep, KillStep
  DEF Next, Parent, Child

(***************************************************************************)
(* The steps of axis run and of the OOM killer.                            *)
(***************************************************************************)
LEMMA OomStep ==
  ASSUME IInv, OomKill
  PROVE  IInv'
<1>1. CInv'
  <2>1. CASE KillContainer
    BY <2>1, KillStep DEF IInv
  <2>2. CASE UNCHANGED vars
    BY <2>2, ContainerRests DEF IInv
  <2>3. CASE /\ app \in {"forked", "running"}
             /\ app' = "zombie" /\ appDied' = Signaled(SIGKILL)
             /\ orphans' \in SUBSET (IF app = "running" THEN Orphans ELSE {})
             /\ UNCHANGED <<parentVars, initVars, pipeVars, cgroup, sigVars, appTerm, zombies>>
    <3>1. appDied' \in Statuses /\ appDied'.value \in {SIGKILL, SIGTERM}
      BY <2>3 DEF Statuses, Signaled, SIGKILL
    <3>2. orphans' \subseteq Orphans /\ zombies' \subseteq Orphans
      BY <2>3 DEF IInv, CInv, Types, AppType
    <3>3. Alive
      BY DEF OomKill
    <3> QED BY <2>3, <3>1, <3>2, <3>3, AppStep DEF IInv
  <2>4. CASE \E o \in orphans : OrphanEnds(o)
    BY <2>4, OrphanStep DEF IInv, CInv, Types, AppType
  <2> QED BY <2>1, <2>2, <2>3, <2>4 DEF OomKill
<1>2. ~recorded /\ ~recorded'
  BY DEF OomKill, IInv, Details, Alive
<1> QED BY <1>1, <1>2 DEF OomKill, IInv, Details, SignalRecorded, CompletedIsSuccess

LEMMA RelaunchStep ==
  ASSUME IInv, Relaunch
  PROVE  IInv'
<1>1. ParentType' /\ InitType' /\ AppType' /\ PipeType'
  BY DEF Relaunch, ParentType, InitType, AppType, PipeType
<1>4. StatusType' /\ FatalSignals'
  BY DEF Relaunch, StatusType, FatalSignals, Statuses, NoStatus, Exited
<1>5. SignalType'
  BY ContainerAssumption DEF Relaunch, SignalType
<1>6. FlagType'
  BY DEF Relaunch, FlagType
<1>2. HeldBack' /\ AppWaitsForCgroup' /\ Reaping' /\ Reporting'
  BY DEF Relaunch, HeldBack, AppWaitsForCgroup, Reaping, Reporting
<1>3. Details' /\ SignalRecorded' /\ CompletedIsSuccess'
  BY DEF IInv, Relaunch, Details, SignalRecorded, CompletedIsSuccess
<1> QED BY <1>1, <1>2, <1>3, <1>4, <1>5, <1>6 DEF IInv, CInv, Types

\* The details of an exit, merged over those of the one before.
LEMMA Merged ==
  ASSUME Details, NEW c \in Int, NEW oom \in BOOLEAN,
         NEW new, new = exit_details_from_code(c, oom, details)
  PROVE  /\ new \in [exit_signal : Int, exit_reason : Reasons]
         /\ oom => new.exit_reason = "oom_killed"
         /\ ~oom /\ c >= 128 => new.exit_reason = "signal" /\ new.exit_signal = c - 128
         /\ new.exit_reason = "completed" => c = 0 /\ ~oom
<1>1. CASE oom
  BY <1>1 DEF Details, Reasons, exit_details_from_code
<1>2. CASE ~oom /\ c >= 128
  BY <1>2 DEF Details, Reasons, exit_details_from_code
<1>3. CASE ~oom /\ c = 0
  BY <1>3 DEF Details, Reasons, exit_details_from_code
<1>4. CASE ~oom /\ ~(c >= 128) /\ c # 0
  BY <1>4 DEF Details, Reasons, exit_details_from_code
<1> QED BY <1>1, <1>2, <1>3, <1>4

LEMMA RecordStep ==
  ASSUME IInv, RecordExit
  PROVE  IInv'
<1> USE DEF IInv
<1>1. CInv'
  BY ContainerRests DEF RecordExit
<1>2. /\ UNCHANGED <<code, parent, init, initStatus, app, appDied, oomNow, oomKill>>
      /\ parent \in {"done", "killed"} /\ init = "ended" /\ recorded'
  BY DEF RecordExit, vars, parentVars, initVars, appVars
<1>3. ReturnCode \in Int
  BY DEF CInv, Types, ParentType, ReturnCode, SIGKILL
<1>4. Details'
  BY <1>2, <1>3, Merged DEF RecordExit, Details
<1>5. SignalRecorded'
  <2> SUFFICES ASSUME parent = "done", app = "gone", initStatus.how = "exited",
                      appDied.how = "signaled", ~oomKill
               PROVE  details'.exit_reason = "signal" /\ details'.exit_signal = appDied.value
    BY <1>2, <1>3, Merged DEF RecordExit, SignalRecorded, Details
  <2>1. code = statusToExitCode(initStatus) /\ initStatus = Exited(statusToExitCode(appDied))
    BY <1>2 DEF CInv, Reporting
  <2>2. code = 128 + appDied.value /\ appDied.value \in Nat
    BY <2>1, ExitCodeType DEF CInv, Types, StatusType, FatalSignals, Exited, SIGKILL, SIGTERM
  <2>3. ReturnCode = code
    BY DEF ReturnCode
  <2> QED BY <1>3, <2>2, <2>3, Merged DEF RecordExit, Details
<1>6. CompletedIsSuccess'
  <2> SUFFICES ASSUME details'.exit_reason = "completed"
               PROVE  appDied = Exited(0) /\ ~oomNow
    BY <1>2 DEF CompletedIsSuccess
  <2>1. ReturnCode = 0 /\ ~oomKill
    BY <1>3, Merged DEF RecordExit, Details
  <2>2. parent = "done" /\ code = 0
    BY <1>2, <2>1 DEF ReturnCode, SIGKILL
  <2>3. statusToExitCode(initStatus) = 0 /\ initStatus = Exited(0)
    BY <2>2, ExitCodeType DEF CInv, Reporting, Types, StatusType, FatalSignals
  <2>4. statusToExitCode(appDied) = 0
    BY <1>2, <2>3 DEF CInv, Reporting, Exited
  <2>5. appDied = Exited(0)
    BY <2>4, ExitCodeType DEF CInv, Types, StatusType, FatalSignals
  <2> QED BY <2>1, <2>5 DEF Details
<1> QED BY <1>1, <1>4, <1>5, <1>6

\* When an exit has been recorded, nothing of that launch can happen any more.
LEMMA RecordedIsOver == CInv /\ Details /\ recorded => ~Next
  BY DEF Details, Next, Parent, Clone, SetupCgroup, SendStart, Abort, WaitChild, Child,
         ReadStart, SetupNamespaces, InstallHandlers, Fork, SetAppPid, WaitPid, Record, Return,
         Signal, forwardSignal, Exec, AppEnds, OrphanEnds, KillContainer, KillRuntime,
         Alive

LEMMA NextIInv == IInv /\ [LaunchesNext]_allVars => IInv'
<1> SUFFICES ASSUME IInv, [LaunchesNext]_allVars PROVE IInv'
  OBVIOUS
<1>1. CASE Next /\ UNCHANGED axisVars
  <2>1. CInv'
    BY <1>1, ContainerStep DEF IInv
  <2>2. ~recorded /\ UNCHANGED axisVars
    BY <1>1, RecordedIsOver DEF IInv
  <2> QED BY <2>1, <2>2 DEF IInv, Details, SignalRecorded, CompletedIsSuccess, axisVars
<1>2. CASE RecordExit
  BY <1>2, RecordStep
<1>3. CASE Relaunch
  BY <1>3, RelaunchStep
<1>4. CASE OomKill
  BY <1>4, OomStep
<1>5. CASE UNCHANGED allVars
  <2>1. CInv'
    BY <1>5, ContainerRests DEF IInv, allVars
  <2> QED BY <1>5, <2>1 DEF IInv, Details, SignalRecorded, CompletedIsSuccess, allVars, axisVars,
               vars, parentVars, initVars, appVars
<1> QED BY <1>1, <1>2, <1>3, <1>4, <1>5 DEF LaunchesNext

LEMMA Invariance == LaunchesSpec => []IInv
  BY InitIInv, NextIInv, PTL DEF LaunchesSpec

(***************************************************************************)
(* The theorems.                                                           *)
(***************************************************************************)
\* Every variable of Container keeps its type, launch after launch; every
\* exit code fits a byte.
THEOREM TypeCorrect == LaunchesSpec => []TypeOK
<1>1. IInv => TypeOK
  BY TypeParts DEF IInv, CInv
<1> QED BY <1>1, Invariance, PTL

\* The start pipe of Container.cpp: a command exists only once axis-runtime has
\* tried to move init into its cgroup and has noticed no failure.
THEOREM CommandWaits == LaunchesSpec => []AppWaitsForCgroup
<1>1. IInv => AppWaitsForCgroup
  BY DEF IInv, CInv
<1> QED BY <1>1, Invariance, PTL

\* runInit and main: the code axis-runtime returns is that of the command.
THEOREM ExitCodeCorrect == LaunchesSpec => []ExitCodeIsApp
<1>1. IInv => ExitCodeIsApp
  <2> SUFFICES ASSUME IInv, parent = "done", app = "gone", initStatus.how = "exited"
               PROVE  code = statusToExitCode(appDied)
    BY DEF ExitCodeIsApp
  <2>1. code = statusToExitCode(initStatus) /\ initStatus = Exited(statusToExitCode(appDied))
    BY DEF IInv, CInv, Reporting
  <2> QED BY <2>1 DEF statusToExitCode, Exited
<1> QED BY <1>1, Invariance, PTL

\* runInit, main and exit_details_from_code: a signal that ended the command
\* is what status.json records.
THEOREM SignalsTruthful == LaunchesSpec => []SignalRecorded
<1>1. IInv => SignalRecorded
  BY DEF IInv
<1> QED BY <1>1, Invariance, PTL

\* "completed" is recorded only of a command that returned 0 and lost nothing
\* to the OOM killer.
THEOREM CompletedTruthful == LaunchesSpec => []CompletedIsSuccess
<1>1. IInv => CompletedIsSuccess
  BY DEF IInv
<1> QED BY <1>1, Invariance, PTL

=============================================================================
