------------------------------ MODULE Launches -------------------------------
(***************************************************************************)
(* The launches of one container, and what `axis run` records of each: the *)
(* exit code of axis-runtime and the counters of the cgroup, which all     *)
(* launches share, become the exit details of status.json.                 *)
(***************************************************************************)
EXTENDS Container, Integers

CONSTANT MaxLaunches  \* bound on the restarts

ASSUME LaunchesAssumption == MaxLaunches \in Nat \ {0}

VARIABLES
  launches,   \* launches so far, the current one included
  oomKill,    \* whether memory.events counts an oom_kill
  oomNow,     \* whether there was one in this launch (history, nobody reads it)
  recorded,   \* whether this launch has been recorded
  details     \* the exit details in status.json

axisVars == <<launches, oomKill, oomNow, recorded, details>>
allVars == <<vars, axisVars>>

NoDetails == [exit_signal |-> 0, exit_reason |-> "none"]

LaunchesInit ==
  /\ Init
  /\ launches = 1 /\ recorded = FALSE
  /\ oomKill = FALSE /\ oomNow = FALSE
  /\ details = NoDetails

\* Merged over the details of the launch before: exit_signal is only ever set.
exit_details_from_code(exit_code, oom, old) ==
  CASE oom -> [old EXCEPT !.exit_reason = "oom_killed"]
    [] ~oom /\ exit_code >= 128 ->
         [exit_reason |-> "signal", exit_signal |-> exit_code - 128]
    [] ~oom /\ exit_code = 0 -> [old EXCEPT !.exit_reason = "completed"]
    [] OTHER -> [old EXCEPT !.exit_reason = "error"]

\* What Popen.wait returns: a process killed by signal n gives -n.
ReturnCode == IF parent = "done" THEN code ELSE -SIGKILL

\* The output ends when axis-runtime and the container have both ended.
RecordExit ==
  /\ ~recorded
  /\ parent \in {"done", "killed"} /\ init = "ended"
  /\ recorded' = TRUE
  /\ details' = exit_details_from_code(ReturnCode, oomKill, details)
  /\ UNCHANGED <<vars, launches, oomKill, oomNow>>

\* RESTART always.  The cgroup and its counters stay.
Relaunch ==
  /\ recorded /\ launches < MaxLaunches
  /\ launches' = launches + 1 /\ recorded' = FALSE /\ oomNow' = FALSE
  /\ UNCHANGED <<oomKill, details>>
  /\ parent' = "clone" /\ code' = 0 /\ init' = "none" /\ initStatus' = NoStatus
  /\ handlers' = FALSE /\ appPid' = FALSE /\ reaped' = "none" /\ waited' = NoStatus
  /\ appStatus' = NoStatus /\ appExited' = FALSE /\ writers' = {"parent"} /\ bytes' = 0
  /\ cgroup' = "none" /\ pending' = FALSE /\ signals' = 0
  /\ app' = "none" /\ appDied' = NoStatus /\ appTerm' = FALSE
  /\ orphans' = {} /\ zombies' = {}

\* The kernel kills the command, something it has started, something it has
\* left behind, or init.
OomKill ==
  /\ Alive /\ cgroup = "joined"
  /\ oomKill' = TRUE /\ oomNow' = TRUE
  /\ \/ /\ app \in {"forked", "running"}
        /\ app' = "zombie" /\ appDied' = Signaled(SIGKILL)
        /\ orphans' \in SUBSET (IF app = "running" THEN Orphans ELSE {})
        /\ UNCHANGED <<parentVars, initVars, pipeVars, cgroup, sigVars, appTerm, zombies>>
     \/ app = "running" /\ UNCHANGED vars
     \/ \E o \in orphans : OrphanEnds(o)
     \/ KillContainer
  /\ UNCHANGED <<launches, recorded, details>>

LaunchesNext ==
  \/ Next /\ UNCHANGED axisVars
  \/ RecordExit \/ Relaunch \/ OomKill

LaunchesSpec == LaunchesInit /\ [][LaunchesNext]_allVars /\ Fairness

(***************************************************************************)
(* Properties.                                                             *)
(***************************************************************************)
\* A command that a signal has ended is recorded with that signal, or as
\* killed for memory, through the wait status, the exit code of init, the exit
\* code of axis-runtime and exit_details_from_code.
SignalRecorded ==
  recorded /\ parent = "done" /\ app = "gone" /\ initStatus.how = "exited"
  /\ appDied.how = "signaled" =>
    \/ details.exit_reason = "oom_killed"
    \/ details.exit_reason = "signal" /\ details.exit_signal = appDied.value

\* "completed" is recorded only of a command that returned 0 and lost nothing
\* to the OOM killer, however its orphans ended and whoever was killed.
CompletedIsSuccess ==
  recorded /\ details.exit_reason = "completed" => appDied = Exited(0) /\ ~oomNow

=============================================================================
