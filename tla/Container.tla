----------------------------- MODULE Container ------------------------------
(***************************************************************************)
(* src/runtime/Container.cpp: axis-runtime (the parent), the process it    *)
(* clones into new namespaces (the child, which becomes the init of the    *)
(* container), the command init forks (the app), and the processes the     *)
(* app leaves behind, which the kernel hands to init.                      *)
(***************************************************************************)
EXTENDS Naturals, FiniteSets

CONSTANTS
  Codes,       \* exit statuses the app may choose
  Orphans,     \* processes the app may leave behind
  MaxSignals,  \* SIGTERMs and SIGINTs other processes send to init
  CgroupFails, \* whether setupCgroup may fail, or the kernel refuse its last write
  Kills        \* whether somebody kills the cgroup or axis-runtime

SIGKILL == 9
SIGTERM == 15

ASSUME ContainerAssumption ==
  /\ Codes \subseteq 0..255
  /\ MaxSignals \in Nat
  /\ CgroupFails \in BOOLEAN
  /\ Kills \in BOOLEAN

VARIABLES
  \* axis-runtime.
  parent,     \* its next step
  code,       \* what it has returned
  \* The child.
  init,       \* its next step
  initStatus, \* how it ended
  handlers,   \* whether forwardSignal is installed
  appPid,     \* whether the global appPid is set
  reaped,     \* what the last waitpid has returned: "none", "app", "other"
  waited,     \* the status the last waitpid has returned
  appStatus,  \* the local of runInit
  appExited,  \* the local of runInit
  \* The pipe.
  writers,    \* processes that hold its write end
  bytes,      \* bytes in it
  \* The kernel.
  cgroup,     \* what came of moving init there: "none" yet, "joined", "refused"
  pending,    \* whether init has a SIGTERM to handle
  signals,    \* SIGTERMs sent so far
  app,        \* "none", "forked", "running", "zombie", "gone"
  appDied,    \* how the app ended
  appTerm,    \* whether the app has been sent SIGTERM
  orphans,    \* what the app has left and still runs
  zombies     \* what the app has left, ended and not reaped

parentVars == <<parent, code>>
initVars == <<init, initStatus, handlers, appPid, reaped, waited, appStatus, appExited>>
pipeVars == <<writers, bytes>>
appVars == <<app, appDied, appTerm, orphans, zombies>>
sigVars == <<pending, signals>>
vars == <<parentVars, initVars, pipeVars, cgroup, sigVars, appVars>>

\* A wait status: how a process ended, and with which code or signal.
Exited(n) == [how |-> "exited", value |-> n]
Signaled(n) == [how |-> "signaled", value |-> n]
NoStatus == Exited(0)
Statuses == [how : {"exited", "signaled"}, value : 0..255]

statusToExitCodeRaw(s) == IF s.how = "exited" THEN 256 * s.value ELSE s.value

statusToExitCode(s) == IF s.how = "exited" THEN s.value ELSE 128 + s.value

Init ==
  /\ parent = "clone" /\ code = 0
  /\ init = "none" /\ initStatus = NoStatus
  /\ handlers = FALSE /\ appPid = FALSE
  /\ reaped = "none" /\ waited = NoStatus
  /\ appStatus = NoStatus /\ appExited = FALSE
  /\ writers = {"parent"} /\ bytes = 0
  /\ cgroup = "none"
  /\ pending = FALSE /\ signals = 0
  /\ app = "none" /\ appDied = NoStatus /\ appTerm = FALSE
  /\ orphans = {} /\ zombies = {}

(***************************************************************************)
(* main.  clone copies the descriptors, so the child holds both ends of    *)
(* the pipe; it closes the read end only.                                  *)
(***************************************************************************)
Clone ==
  /\ parent = "clone"
  /\ \/ parent' = "setup" /\ init' = "read" /\ writers' = writers \cup {"init"}
        /\ UNCHANGED code
     \/ parent' = "done" /\ code' = 1 /\ UNCHANGED <<init, writers>>
  /\ UNCHANGED <<initStatus, handlers, appPid, reaped, waited, appStatus, appExited>>
  /\ UNCHANGED <<bytes, cgroup, sigVars, appVars>>

SetupCgroupLater ==
  /\ parent = "setup"
  /\ parent' = "start"
  /\ UNCHANGED <<code, initVars, pipeVars, cgroup, sigVars, appVars>>

\* writeFile hands the pid to a buffer and does not look at fclose, which is
\* what writes it: the kernel may refuse the move without main noticing.  A
\* dead child is not moved anywhere.
SetupCgroup ==
  /\ parent = "setup"
  /\ \/ init # "ended" /\ parent' = "start" /\ cgroup' = "joined"
     \/ (init = "ended" \/ CgroupFails) /\ parent' = "start" /\ cgroup' = "refused"
     \/ CgroupFails /\ parent' = "abort" /\ UNCHANGED cgroup
  /\ UNCHANGED <<code, initVars, pipeVars, sigVars, appVars>>

\* The byte that lets the child go, then the end of the parent's write end.
\* The child holds the only read end: if it is dead, SIGPIPE kills the parent.
SendStart ==
  /\ parent = "start"
  /\ writers' = writers \ {"parent"}
  /\ \/ init # "ended" /\ bytes' = bytes + 1 /\ parent' = "wait"
     \/ init = "ended" /\ parent' = "killed" /\ UNCHANGED bytes
  /\ UNCHANGED <<code, initVars, cgroup, sigVars, appVars>>

Abort ==
  /\ parent = "abort"
  /\ writers' = writers \ {"parent"}
  /\ parent' = "abortWait"
  /\ UNCHANGED <<code, initVars, bytes, cgroup, sigVars, appVars>>

WaitChild ==
  /\ parent \in {"wait", "abortWait"}
  /\ init = "ended"
  /\ parent' = "done"
  /\ code' = IF parent = "wait" THEN statusToExitCode(initStatus) ELSE 1
  /\ UNCHANGED <<initVars, pipeVars, cgroup, sigVars, appVars>>

(***************************************************************************)
(* child: wait for the byte or for the end of file (which cannot come      *)
(* while the child itself holds a write end), set up the namespaces,       *)
(* become init.                                                            *)
(***************************************************************************)
End(n) ==
  /\ init' = "ended"
  /\ initStatus' = Exited(n)
  /\ writers' = writers \ {"init"}

ReadStart ==
  /\ init = "read"
  /\ bytes > 0 \/ writers = {}
  /\ IF bytes > 0
     THEN bytes' = bytes - 1 /\ init' = "namespaces" /\ UNCHANGED <<initStatus, writers>>
     ELSE End(1) /\ UNCHANGED bytes
  /\ UNCHANGED <<handlers, appPid, reaped, waited, appStatus, appExited>>
  /\ UNCHANGED <<parentVars, cgroup, sigVars, appVars>>

\* hostname, mounts, chroot, chdir, /proc: any of them may fail.
SetupNamespaces ==
  /\ init = "namespaces"
  /\ \/ init' = "handlers" /\ UNCHANGED <<initStatus, writers>>
     \/ End(1)
  /\ UNCHANGED <<handlers, appPid, reaped, waited, appStatus, appExited>>
  /\ UNCHANGED <<parentVars, bytes, cgroup, sigVars, appVars>>

(***************************************************************************)
(* runInit.                                                                *)
(***************************************************************************)
InstallHandlers ==
  /\ init = "handlers"
  /\ handlers' = TRUE
  /\ init' = "fork"
  /\ UNCHANGED <<initStatus, appPid, reaped, waited, appStatus, appExited>>
  /\ UNCHANGED <<parentVars, pipeVars, cgroup, sigVars, appVars>>

Fork ==
  /\ init = "fork"
  /\ \/ app' = "forked" /\ init' = "setAppPid" /\ UNCHANGED <<initStatus, writers>>
     \/ End(1) /\ UNCHANGED app
  /\ UNCHANGED <<handlers, appPid, reaped, waited, appStatus, appExited>>
  /\ UNCHANGED <<parentVars, bytes, cgroup, sigVars, appDied, appTerm, orphans, zombies>>

SetAppPid ==
  /\ init = "setAppPid"
  /\ appPid' = TRUE
  /\ init' = "waitpid"
  /\ UNCHANGED <<initStatus, handlers, reaped, waited, appStatus, appExited>>
  /\ UNCHANGED <<parentVars, pipeVars, cgroup, sigVars, appVars>>

WaitPidAppOnly ==
  /\ init = "waitpid"
  /\ app = "zombie"
  /\ app' = "gone"
  /\ reaped' = "app" /\ waited' = appDied
  /\ init' = "reaped"
  /\ UNCHANGED <<initStatus, handlers, appPid, appStatus, appExited, orphans, zombies>>
  /\ UNCHANGED <<parentVars, pipeVars, cgroup, sigVars, appDied, appTerm>>

\* waitpid(-1): one of the children that have ended.
WaitPid ==
  /\ init = "waitpid"
  /\ \/ /\ app = "zombie"
        /\ app' = "gone"
        /\ reaped' = "app" /\ waited' = appDied
        /\ UNCHANGED zombies
     \/ \E o \in zombies, s \in {Exited(0), Signaled(SIGKILL)} :
          /\ zombies' = zombies \ {o}
          /\ reaped' = "other" /\ waited' = s
          /\ UNCHANGED app
  /\ init' = "reaped"
  /\ UNCHANGED <<initStatus, handlers, appPid, appStatus, appExited, orphans>>
  /\ UNCHANGED <<parentVars, pipeVars, cgroup, sigVars, appDied, appTerm>>

RecordAnyChild ==
  /\ init = "reaped"
  /\ appStatus' = waited /\ appExited' = TRUE /\ appPid' = FALSE
  /\ init' = "waitpid"
  /\ reaped' = "none" /\ waited' = NoStatus
  /\ UNCHANGED <<initStatus, handlers, parentVars, pipeVars, cgroup, sigVars, appVars>>

Record ==
  /\ init = "reaped"
  /\ IF reaped = "app"
     THEN appStatus' = waited /\ appExited' = TRUE /\ appPid' = FALSE
     ELSE UNCHANGED <<appStatus, appExited, appPid>>
  /\ init' = "waitpid"
  /\ reaped' = "none" /\ waited' = NoStatus
  /\ UNCHANGED <<initStatus, handlers, parentVars, pipeVars, cgroup, sigVars, appVars>>

\* waitpid(-1) without children: ECHILD.
Return ==
  /\ init = "waitpid"
  /\ app = "gone" /\ orphans = {} /\ zombies = {}
  /\ End(IF appExited THEN statusToExitCode(appStatus) ELSE 1)
  /\ UNCHANGED <<handlers, appPid, reaped, waited, appStatus, appExited>>
  /\ UNCHANGED <<parentVars, bytes, cgroup, sigVars, appVars>>

(***************************************************************************)
(* Signals.  The init of a pid namespace ignores a signal it has no        *)
(* handler for; forwardSignal runs between any two steps of init, and an   *)
(* interrupted waitpid is called again.                                    *)
(***************************************************************************)
Alive == init \notin {"none", "ended"}

Signal ==
  /\ Alive
  /\ signals < MaxSignals
  /\ signals' = signals + 1
  /\ pending' = handlers
  /\ UNCHANGED <<parentVars, initVars, pipeVars, cgroup, appVars>>

\* Before execvp the app has the handlers of init, and no appPid of its own.
forwardSignal ==
  /\ Alive
  /\ pending
  /\ pending' = FALSE
  /\ appTerm' = (appTerm \/ (appPid /\ app = "running"))
  /\ UNCHANGED <<parentVars, initVars, pipeVars, cgroup, signals, app, appDied, orphans, zombies>>

(***************************************************************************)
(* The app.                                                                *)
(***************************************************************************)
Exec ==
  /\ Alive /\ app = "forked"
  /\ \/ app' = "running" /\ UNCHANGED appDied
     \/ app' = "zombie" /\ appDied' = Exited(127)
  /\ UNCHANGED <<parentVars, initVars, pipeVars, cgroup, sigVars, appTerm, orphans, zombies>>

\* What the app has started and not waited for outlives it.
AppEnds ==
  /\ Alive /\ app = "running"
  /\ app' = "zombie"
  /\ \/ \E n \in Codes : appDied' = Exited(n)
     \/ appTerm /\ appDied' = Signaled(SIGTERM)
  /\ \E left \in SUBSET Orphans : orphans' = left
  /\ UNCHANGED <<parentVars, initVars, pipeVars, cgroup, sigVars, appTerm, zombies>>

OrphanEnds(o) ==
  /\ Alive /\ o \in orphans
  /\ orphans' = orphans \ {o}
  /\ zombies' = zombies \cup {o}
  /\ UNCHANGED <<parentVars, initVars, pipeVars, cgroup, sigVars, app, appDied, appTerm>>

\* cgroup.kill, or a SIGKILL of init, takes the namespace with it.
KillContainer ==
  /\ Kills /\ Alive
  /\ init' = "ended" /\ initStatus' = Signaled(SIGKILL)
  /\ writers' = writers \ {"init"}
  /\ app' = IF app = "none" THEN "none" ELSE "gone"
  /\ orphans' = {} /\ zombies' = {}
  /\ UNCHANGED <<handlers, appPid, reaped, waited, appStatus, appExited>>
  /\ UNCHANGED <<parentVars, bytes, cgroup, sigVars, appDied, appTerm>>

\* A Ctrl-C or a SIGKILL of axis-runtime itself, which handles neither.
KillRuntime ==
  /\ Kills /\ parent \notin {"clone", "done", "killed"}
  /\ parent' = "killed"
  /\ writers' = writers \ {"parent"}
  /\ UNCHANGED <<code, initVars, bytes, cgroup, sigVars, appVars>>

Parent == Clone \/ SetupCgroup \/ SendStart \/ Abort \/ WaitChild
Child == ReadStart \/ SetupNamespaces \/ InstallHandlers \/ Fork \/ SetAppPid
         \/ WaitPid \/ Record \/ Return

Next == Parent \/ Child \/ Signal \/ forwardSignal \/ Exec \/ AppEnds
        \/ (\E o \in Orphans : OrphanEnds(o)) \/ KillContainer \/ KillRuntime

Spec == Init /\ [][Next]_vars

\* The scheduler runs axis-runtime, init and the app up to its exec; signals
\* are delivered.  Nothing makes the app end, nor what it leaves behind.
Fairness == WF_vars(Parent) /\ WF_vars(Child) /\ WF_vars(forwardSignal) /\ WF_vars(Exec)

FairSpec == Spec /\ Fairness

(***************************************************************************)
(* Properties.                                                             *)
(***************************************************************************)
\* Every variable keeps the kind of value the code gives it.
TypeOK ==
  /\ parent \in {"clone", "setup", "start", "abort", "wait", "abortWait", "done", "killed"}
  /\ code \in 0..255
  /\ init \in {"none", "read", "namespaces", "handlers", "fork", "setAppPid", "waitpid",
               "reaped", "ended"}
  /\ initStatus \in Statuses /\ waited \in Statuses
  /\ appStatus \in Statuses /\ appDied \in Statuses
  /\ handlers \in BOOLEAN /\ appPid \in BOOLEAN /\ appExited \in BOOLEAN
  /\ reaped \in {"none", "app", "other"}
  /\ writers \subseteq {"parent", "init"} /\ bytes \in 0..1
  /\ cgroup \in {"none", "joined", "refused"}
  /\ signals \in 0..MaxSignals /\ pending \in BOOLEAN
  /\ app \in {"none", "forked", "running", "zombie", "gone"}
  /\ appTerm \in BOOLEAN
  /\ orphans \subseteq Orphans /\ zombies \subseteq Orphans

\* The pipe between main and child: there is no command before axis-runtime
\* has tried to move init into the cgroup, and none after a setup whose failure
\* it has noticed, whoever kills whom in between.
AppWaitsForCgroup == app # "none" => cgroup # "none"

\* What axis-runtime returns for a command that ran to its end is the exit
\* code of that command, whatever its orphans return and in whatever order
\* init reaps them.
ExitCodeIsApp ==
  parent = "done" /\ app = "gone" /\ initStatus.how = "exited" =>
    code = statusToExitCode(appDied)

\* axis-runtime ends once the command has ended and left nothing that runs,
\* however many zombies init has to reap and however signals interrupt it.
RuntimeEnds ==
  app \in {"zombie", "gone"} /\ orphans = {} ~> parent \in {"done", "killed"}

(***************************************************************************)
(* What the documents say and the code does not do.                        *)
(***************************************************************************)
\* docs/Design.md:43, "C++ runtime setup failures should print a clear stderr
\* message and exit non-zero."
SetupFailureExits == parent = "abort" ~> parent = "done"

\* docs/Architecture.md:67, "Run a tiny PID 1 init path that forks the configured
\* app, forwards signals, and reaps child processes."
SignalForwarded == pending /\ app = "forked" ~> appTerm \/ app \notin {"forked", "running"}

=============================================================================
