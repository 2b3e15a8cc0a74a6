--------------------------- MODULE ContainerState ---------------------------
(***************************************************************************)
(* The shared state of one Axis container, and the file-backed operations  *)
(* of src/axis/state.py that every axis command performs on it: the status *)
(* file, its lock, its table of transitions, and the processes the kernel  *)
(* keeps for the container.                                                *)
(*                                                                         *)
(* An axis command is a Python process.  All of them share the directory   *)
(* .axis/containers/<id>/ and nothing else, so one action of these modules *)
(* is what a command does between two accesses of that directory or of the *)
(* process table.                                                          *)
(***************************************************************************)
EXTENDS Naturals, FiniteSets

CONSTANTS
  Run,            \* the attached `axis run` process
  Stops,          \* invocations of `axis stop`
  Cleans,         \* invocations of `axis clean`
  Reconciles,     \* invocations of `axis reconcile`
  Unprivileged,   \* those of them that may not write what root owns
  Nobody,         \* the holder of a free lock
  Ports,          \* PORT mappings of the Axisfile
  RestartAlways,  \* config.restart == "always"
  Faults,         \* steps of `axis run` that may raise
  Interrupts,     \* whether Ctrl-C may hit `axis run`
  Crashes,        \* whether `axis run` may be killed
  MaxExits        \* how often the command may exit on its own

FaultPoints ==
  {"prepare", "launch", "report", "allocIp", "netConfig", "proxy", "publish", "stream"}

Procs == {Run} \cup Stops \cup Cleans \cup Reconciles

\* The four kinds of process are told apart by their identity.
ASSUME ProcsAssumption ==
  /\ Run \notin Stops \cup Cleans \cup Reconciles
  /\ Stops \cap Cleans = {}
  /\ Stops \cap Reconciles = {}
  /\ Cleans \cap Reconciles = {}
  /\ Nobody \notin Procs
  /\ Unprivileged \subseteq Reconciles

ASSUME ConfigAssumption ==
  /\ RestartAlways \in BOOLEAN
  /\ Interrupts \in BOOLEAN
  /\ Crashes \in BOOLEAN
  /\ Faults \subseteq FaultPoints
  /\ MaxExits \in Nat

VARIABLES
  \* Control of each process.
  pc,         \* the step it performs next
  next,       \* where it continues after a shared sub-procedure
  pending,    \* the status payload it has computed and not written yet
  targets,    \* proxies it has read and is about to kill, or to keep
  pidRead,    \* the container pid it has read and signalled
  victims,    \* directory entries rmtree has listed and not unlinked yet
  \* The container directory.
  files,      \* the entries that exist
  status,     \* status.json, DefaultStatus when it does not exist
  pidFile,    \* pid, 0 when it does not exist
  network,    \* proxy_pids of network.json, {} when it does not exist
  lock,       \* holder of the flock on container.lock
  \* The kernel.  A container process is named by the number of its launch.
  starts,     \* launches so far
  live,       \* container processes that exist
  cgroup,     \* those of them released by axis-runtime into their cgroup
  term,       \* those of them that have received SIGTERM or SIGINT
  kill,       \* those of them that have received SIGKILL
  exits,      \* exits nobody asked for
  proxies,    \* live axis.proxy processes, <<launch, port>>
  ip,         \* whether the container holds an address of axis0
  \* Locals of `axis run`.
  seen,       \* the status it read last
  runtime,    \* the container whose pid axis-runtime has reported, 0 for None
  listed,     \* proxies start_port_proxies has started in this launch
  netWritten, \* network_written
  outcome     \* what the finally block resumes: "ok", "error", "interrupt"

ctlVars    == <<pc, next, pending, targets, pidRead, victims>>
dirVars    == <<files, status, pidFile, network, lock>>
procVars   == <<starts, live, cgroup, term, kill, exits>>
netVars    == <<proxies, ip>>
runVars    == <<seen, runtime, listed, netWritten, outcome>>
vars       == <<ctlVars, dirVars, procVars, netVars, runVars>>

(***************************************************************************)
(* The status file.                                                        *)
(***************************************************************************)
States ==
  {"created", "starting", "running", "stopping", "exited", "failed", "deleted"}

Terminal == {"exited", "failed", "deleted"}

AllowedTransitions ==
  [s \in States |->
     CASE s = "created"  -> {"starting", "running", "failed", "deleted"}
       [] s = "starting" -> {"running", "failed", "deleted"}
       [] s = "running"  -> {"stopping", "exited", "failed", "deleted"}
       [] s = "stopping" -> {"exited", "failed", "deleted"}
       [] s = "exited"   -> {"starting", "deleted"}
       [] s = "failed"   -> {"starting", "deleted"}
       [] s = "deleted"  -> {}]

\* The fields of status.json that some command reads back; pid, timestamps
\* and exit codes are only displayed.
Status ==
  [state : States, manual_stop : BOOLEAN, restart_count : Nat,
   exit_reason : {"none", "exit", "stopped", "stale_pid", "runtime_error"}]

DefaultStatusUnlisted ==
  [state |-> "stopped", manual_stop |-> FALSE, restart_count |-> 0,
   exit_reason |-> "none"]

DefaultStatus ==
  [state |-> "created", manual_stop |-> FALSE, restart_count |-> 0,
   exit_reason |-> "none"]

\* The entries of the container directory.  "other" stands for those no
\* command reads to decide anything: rootfs, Axisfile, logs.txt,
\* resources.json.
FileNames == {"runtime", "status", "pid", "network", "lock", "other"}

\* What a reader gets: the variables of a missing file hold what read_status
\* and read_pid return for it, see Unlink.
ReadStatus == status
ReadPid == pidFile

IsPidAlive(pid) == pid \in live

Goto(p, label) == pc' = [pc EXCEPT ![p] = label]

ValidExitedFinal(from, target) ==
  target = from \/ (from \notin Terminal /\ target \in AllowedTransitions[from])

Valid(from, target) == target = from \/ target \in AllowedTransitions[from]

(***************************************************************************)
(* write_status: read the file now, write the updated payload in a later   *)
(* step, no lock held in between.                                          *)
(***************************************************************************)
WriteBegin(p, payload, cont) ==
  /\ pending' = [pending EXCEPT ![p] = payload]
  /\ next' = [next EXCEPT ![p] = cont]
  /\ Goto(p, "commit")
  /\ UNCHANGED <<targets, victims, pidRead, dirVars, procVars, netVars>>

(***************************************************************************)
(* transition_state: open and lock container.lock (which recreates the     *)
(* directory), read, validate.  A valid transition keeps the lock until    *)
(* Commit; an invalid one raises and releases it.                          *)
(***************************************************************************)
TransitionBeginKeepsLock(p, payload, cont, err) ==
  /\ lock = Nobody
  /\ files' = files \cup {"lock"}
  /\ lock' = p
  /\ \/ /\ Valid(ReadStatus.state, payload.state)
        /\ pending' = [pending EXCEPT ![p] = payload]
        /\ next' = [next EXCEPT ![p] = cont]
        /\ Goto(p, "commit")
     \/ /\ ~Valid(ReadStatus.state, payload.state)
        /\ Goto(p, err)
        /\ UNCHANGED <<pending, next>>
  /\ UNCHANGED <<targets, victims, pidRead, status, pidFile, network, procVars, netVars>>

TransitionBegin(p, payload, cont, err) ==
  /\ lock = Nobody
  /\ files' = files \cup {"lock"}
  /\ \/ /\ Valid(ReadStatus.state, payload.state)
        /\ lock' = p
        /\ pending' = [pending EXCEPT ![p] = payload]
        /\ next' = [next EXCEPT ![p] = cont]
        /\ Goto(p, "commit")
     \/ /\ ~Valid(ReadStatus.state, payload.state)
        /\ Goto(p, err)
        /\ UNCHANGED <<lock, pending, next>>
  /\ UNCHANGED <<targets, victims, pidRead, status, pidFile, network, procVars, netVars>>

\* A command that dies or raises while holding the lock gives it up.
Release(p) == IF lock = p THEN Nobody ELSE lock

\* os.replace of the temporary file over status.json, then the unlock.
Commit(p) ==
  /\ pc[p] = "commit"
  /\ status' = pending[p]
  /\ files' = files \cup {"status"}
  /\ lock' = Release(p)
  /\ Goto(p, next[p])
  /\ pending' = [pending EXCEPT ![p] = DefaultStatus]
  /\ UNCHANGED <<next, targets, victims, pidRead, pidFile, network>>
  /\ UNCHANGED <<procVars, netVars, runVars>>

(***************************************************************************)
(* add_resource: a locked update of resources.json.  Only `axis run` adds  *)
(* resources and nothing reads them back, so what stays of it is the wait  *)
(* for the lock and the recreated directory.                               *)
(***************************************************************************)
AddResource(p, cont) ==
  /\ lock = Nobody
  /\ files' = files \cup {"lock", "other"}
  /\ Goto(p, cont)
  /\ UNCHANGED <<next, pending, targets, victims, pidRead, status, pidFile, network, lock>>
  /\ UNCHANGED <<procVars, netVars>>

(***************************************************************************)
(* A step of p that only reads.                                            *)
(***************************************************************************)
Look(p, label) ==
  /\ Goto(p, label)
  /\ UNCHANGED <<next, pending, targets, victims, pidRead, dirVars, procVars, netVars>>

=============================================================================
