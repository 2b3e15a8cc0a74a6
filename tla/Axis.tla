-------------------------------- MODULE Axis --------------------------------
(***************************************************************************)
(* One container and every process that touches it: the `axis run` that    *)
(* owns it, any number of concurrent `axis stop`, `axis clean` and         *)
(* `axis reconcile`, the container process and the kernel.                 *)
(***************************************************************************)
EXTENDS RunLoop, Commands

Start(p) ==
  CASE p = Run          -> "create"
    [] p \in Stops      -> "stop"
    [] p \in Cleans     -> "clean"
    [] p \in Reconciles -> "rec"

Init ==
  /\ pc = [p \in Procs |-> Start(p)]
  /\ next = [p \in Procs |-> Start(p)]
  /\ pending = [p \in Procs |-> DefaultStatus]
  /\ targets = [p \in Procs |-> {}]
  /\ pidRead = [p \in Procs |-> 0]
  /\ victims = [p \in Procs |-> {}]
  /\ files = {}
  /\ status = DefaultStatus
  /\ pidFile = 0
  /\ network = {}
  /\ lock = Nobody
  /\ starts = 0
  /\ live = {} /\ cgroup = {} /\ term = {} /\ kill = {}
  /\ exits = 0
  /\ proxies = {} /\ ip = FALSE
  /\ seen = DefaultStatus
  /\ runtime = 0
  /\ listed = {}
  /\ netWritten = FALSE
  /\ outcome = "ok"

(***************************************************************************)
(* The container process and axis-runtime.  axis-runtime, which shares the *)
(* terminal with `axis run`, does not survive a Ctrl-C; the container it   *)
(* has not released yet then waits for ever on the pipe they share.        *)
(***************************************************************************)
KernelFrame == UNCHANGED <<ctlVars, dirVars, netVars, runVars, starts>>

JoinCgroup(i) ==
  /\ i \in live \ cgroup
  /\ outcome # "interrupt"
  /\ cgroup' = cgroup \cup {i}
  /\ KernelFrame /\ UNCHANGED <<live, term, kill, exits>>

Gone(i) ==
  /\ live' = live \ {i}
  /\ cgroup' = cgroup \ {i}
  /\ term' = term \ {i}
  /\ kill' = kill \ {i}

\* The command ends by itself: completed, failed, crashed, out of memory.
Exit(i) ==
  /\ i \in cgroup
  /\ exits < MaxExits
  /\ exits' = exits + 1
  /\ KernelFrame /\ Gone(i)

\* The command obeys a SIGTERM; it may as well ignore it.
TermExit(i) ==
  /\ i \in cgroup \cap term
  /\ KernelFrame /\ Gone(i) /\ UNCHANGED exits

KillExit(i) ==
  /\ i \in kill
  /\ KernelFrame /\ Gone(i) /\ UNCHANGED exits

Kernel == \E i \in live : JoinCgroup(i) \/ Exit(i) \/ TermExit(i) \/ KillExit(i)

Command ==
  \/ \E p \in Stops : StopCommand(p)
  \/ \E p \in Cleans : CleanCommand(p)
  \/ \E p \in Reconciles : ReconcileCommand(p)

Attached == RunStep \/ StreamLine \/ LineRaises \/ Fault \/ Interrupt \/ Crash

Final == RunOver \cup {"stopDone", "stopRaised", "cleanDone", "cleanRaised",
                       "recDone", "recRaised"}

Over(p) == pc[p] \in Final

Next == Attached \/ Command \/ Kernel

Spec == Init /\ [][Next]_vars

(***************************************************************************)
(* Fairness: the scheduler runs every process, axis-runtime finishes its   *)
(* setup and a SIGKILL is delivered.  Nothing makes a command exit by      *)
(* itself or obey a SIGTERM.                                               *)
(***************************************************************************)
Fairness ==
  /\ WF_vars(RunStep)
  /\ \A p \in Stops : WF_vars(StopCommand(p))
  /\ \A p \in Cleans : WF_vars(CleanCommand(p))
  /\ \A p \in Reconciles : WF_vars(ReconcileCommand(p))
  /\ WF_vars(\E i \in live : JoinCgroup(i))
  /\ WF_vars(\E i \in live : KillExit(i))

FairSpec == Spec /\ Fairness

(***************************************************************************)
(* The attached run has ended, however it ended, and axis-runtime has      *)
(* finished with the container it left, before anybody types a command;    *)
(* the next one is typed when the one before it is over, in any order.     *)
(***************************************************************************)
Midway(p) == pc[p] # Start(p) /\ ~Over(p)

Afterwards ==
  /\ pc[Run] \in RunOver /\ live \subseteq cgroup
  /\ Command
  /\ (\A p, q \in Procs \ {Run} : Midway(p) /\ Midway(q) => p = q)'

DetachedNext == Attached \/ Afterwards \/ Kernel

DetachedSpec == Init /\ [][DetachedNext]_vars

\* A command that has begun goes on; nobody has to type one.
FairDetachedSpec ==
  DetachedSpec /\ WF_vars((\E p \in Procs \ {Run} : Midway(p)) /\ Afterwards)

(***************************************************************************)
(* Properties.                                                             *)
(***************************************************************************)
Labels ==
  {"create", "created", "prepare", "journal", "loop", "starting", "launch", "report",
   "writePid", "markRunning", "allocIp", "netConfig", "journalNet", "proxy", "journalProxy",
   "publish", "stream", "exitRead", "markExited", "fail", "failKill", "failMark",
   "finally", "loopCheck", "bump", "intrMark", "commit", "netRead", "netKill",
   "netRelease", "procs", "wait", "force", "cleanStart", "cleanMark", "cleanNet",
   "cleanDeleted", "cleanScan", "cleanUnlink", "clean", "cleanUnknown",
   "stop", "stopStatus", "stopPid", "stopIdle", "stopMark", "stopExit",
   "rec", "recStatus", "recPid", "recFail", "recNet", "recProxies", "recWrite"}
  \cup Final

Proxies == Nat \X Ports

ControlOK ==
  /\ pc \in [Procs -> Labels]
  /\ next \in [Procs -> Labels]
  /\ pending \in [Procs -> Status]
  /\ targets \in [Procs -> SUBSET Proxies]
  /\ pidRead \in [Procs -> Nat]
  /\ victims \in [Procs -> SUBSET FileNames]

DirectoryOK ==
  /\ files \in SUBSET FileNames
  /\ status \in Status
  /\ pidFile \in Nat
  /\ network \in SUBSET Proxies
  /\ lock \in Procs \cup {Nobody}

KernelOK ==
  /\ starts \in Nat /\ exits \in Nat
  /\ live \in SUBSET Nat
  /\ cgroup \in SUBSET live /\ term \in SUBSET cgroup /\ kill \in SUBSET live
  /\ proxies \in SUBSET Proxies /\ ip \in BOOLEAN

LocalsOK ==
  /\ seen \in Status
  /\ runtime \in Nat
  /\ listed \in SUBSET Proxies
  /\ netWritten \in BOOLEAN
  /\ outcome \in {"ok", "error", "interrupt"}

\* Every variable keeps the kind of value the code gives it.
TypeOK == ControlOK /\ DirectoryOK /\ KernelOK /\ LocalsOK

\* At no time do two launches of one container run side by side, however a
\* restart, a failure and other commands are interleaved (run_container_loop
\* calls run_container_once again only after the wait for axis-runtime).
OneContainerProcess == \A i, j \in live : i = j

\* Launches and exits alternate: the processes `axis run` starts are the ones
\* of an abstract supervisor that has one at a time.
Supervised == INSTANCE Supervisor WITH launched <- starts, alive <- live
ImplementsSupervisor == Supervised!Spec

\* An `axis run` that has returned or raised without a Ctrl-C, after it had
\* been told the pid of its last launch, leaves no container process behind: it
\* is dead or has been sent SIGKILL, whatever step failed and whatever other
\* commands did to the directory meanwhile (the except clause of
\* run_container_once).
RunLeavesNoOrphan ==
  pc[Run] \in {"returned", "raised"} /\ outcome # "interrupt" /\ runtime # 0 =>
    live \subseteq kill

\* Once every command has finished, and none was a clean, the status file says
\* that the container is over: no late write of a stop or of the run brings
\* back "running", "starting" or "stopping".
AllOver == \A p \in Procs : Over(p)

QuiescentTerminal ==
  AllOver /\ starts > 0 => ReadStatus.state \in {"exited", "failed"}

\* A run that wrote network.json has given back the address and the proxies
\* when it ends, on every path through its finally clause.
NetworkReleased ==
  pc[Run] \in {"returned", "raised"} /\ netWritten => ~ip /\ proxies = {}

\* While a container is streamed, network.json names every proxy that is
\* alive, those of earlier launches included, so that a clean can kill them.
ProxiesListed == pc[Run] = "stream" => proxies \subseteq network

\* A run that raised after it had launched something has recorded "failed",
\* and that stays recorded, through a reconcile too, until somebody cleans it
\* or stops it: a stop writes "exited" over what it finds to be over.
FailureRecorded ==
  pc[Run] = "raised" /\ starts > 0 /\ (\A c \in Stops \cup Cleans : pc[c] = Start(c)) =>
    ReadStatus.state = "failed"

\* From the moment a stop has written its intent until it is done, the
\* restart loop launches nothing.  This and the next are about a container
\* that has not ended by itself: then the run may have read the status before.
StopMarked == \E p \in Stops : pc[p] \in {"procs", "wait", "force", "stopExit"}

NoRelaunchWhileStopping == [][StopMarked /\ exits = 0 => starts' = starts]_vars

\* A stop that has written its intent ends the container for good.
StopTakesEffect == \A p \in Stops : pc[p] = "procs" ~> [](live = {}) \/ exits > 0

\* No command waits for ever for container.lock or for a process.
CommandsReturn == \A p \in Procs \ {Run} : <>Over(p)

\* RESTART always: a container that exits while it is streamed is launched
\* again, unless a stop has said otherwise.
RestartsUnlessStopped ==
  \A n \in 1..MaxExits :
    pc[Run] = "stream" /\ starts = n /\ live = {} ~> starts = n + 1 \/ status.manual_stop

\* After the attached process died or returned, `axis clean` leaves nothing:
\* no directory, no process, and, when the run had got as far as writing
\* network.json, no proxy and no address.
CleanRecovers ==
  \A c \in Cleans :
    pc[c] = "cleanDone" /\ pc[Run] \in RunOver /\ starts > 0 =>
      files = {} /\ live \subseteq kill /\ (netWritten => ~ip /\ proxies = {})

\* A reconcile that may write, and finds a container whose run is over and
\* whose process is gone, ends with a status file that says so and without dead
\* proxies in network.json, whatever reconcile without permission runs besides.
ReconcileRepairs ==
  \A r \in Reconciles \ Unprivileged :
    pc[r] = "recStatus" /\ pc[Run] \in RunOver /\ live = {} ~>
      ReadStatus.state \notin {"starting", "running", "stopping"} /\ network \subseteq proxies

\* An interrupted run that returns 130 has removed the directory and has
\* killed the container, if axis-runtime had released it; and before it removes
\* the directory it has killed what the pid file names, if the pid of the last
\* launch was written before the Ctrl-C.
InterruptCleans ==
  outcome = "interrupt" =>
    /\ pc[Run] = "returned" => files = {} /\ cgroup \subseteq kill
    /\ pc[Run] = "cleanScan" /\ pidFile = starts => live \subseteq kill

=============================================================================
