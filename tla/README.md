# Axis: a verification project

Axis is a small Linux container runtime: a Python command, `axis`, that
prepares a root filesystem, launches a C++ helper, `axis-runtime`, gives the
container a network and supervises it. This directory holds TLA+ models of its
control, the TLC configurations that check them and proofs that TLAPS checks.
Paths below are relative to the repository (`src/axis/cli.py`) except where
they name a file of this directory.

## 1. Inventory of the system

| Component | Code | State it keeps | Operations |
|---|---|---|---|
| Container state files | `src/axis/state.py` | `.axis/containers/<id>/`: `status.json`, `pid`, `runtime.json`, `network.json`, `resources.json`, `container.lock`, `rootfs`, `logs.txt` | create, `read_status`, `write_status`, `transition_state` (under a flock, with a table of transitions), `add_resource`, `write_pid`, `read_pid`, `resolve_container`, `remove_container` |
| `axis run` | `src/axis/cli.py`, `runtime.py` | `runtime`, `network_written`, the pipe to axis-runtime, the exit details it merges into the status | create, prepare, write config, launch, wait, record, restart loop, failure and Ctrl-C paths |
| `axis stop`, `clean`, `reconcile` | `src/axis/cli.py` | locals only | act on a container another process may be running |
| `axis ps`, `inspect`, `logs`, `stats` | `src/axis/cli.py` | none | look containers up, read and print |
| Container network | `src/axis/network.py` | `.axis/networks/axis0.json`, `network-axis0.lock`, the bridge, veth pairs, iptables rules, `/etc/hosts` of the rootfs | `allocate_ip`, `release_ip`, `ensure_bridge`, `setup_network`, `cleanup_network` |
| Port proxy | `src/axis/proxy.py` | two sockets per connection, their buffers, one thread each | accept, connect, relay |
| axis-runtime | `src/runtime/Container.cpp` | pipe, cgroup, `appPid` | clone, cgroup, start byte, namespaces, init (fork, signals, reaping), exit code |
| Runtime configuration | `runtime.py`, `src/runtime/runtime_config.cpp` | `runtime.json` | write with `json.dumps`, read with a parser of its own |
| Axisfile and ports | `axisfile.py`, `ports.py`, `config.py` | the locals of the parser | parse line by line, apply the override of the command line |
| Image preparation | `image.py`, `process.py` | a docker container while it exports | pull, create, export, remove, copy |

**How they interact.** There is no daemon. Every `axis` command is a process of
its own, and the commands meet only in the files under `.axis/`, in two flocks
and in the kernel's tables (processes, cgroups, interfaces). `axis run` stays in
the foreground: it starts axis-runtime, reads the pid of the container's init
from a line it prints, and reads its output until end of file. axis-runtime and
the init it clones are joined by a pipe that holds the init back until its
cgroup is set up. What the user asks for travels from the Axisfile through
`runtime.json` to axis-runtime; how the container ended travels back through a
wait status, two exit codes and the cgroup's counters into `status.json`.

**What is hard.** All transitions take `container.lock`, but `write_status`
does not; checks of the pid, the cgroup and the files are made without any lock
and used later; a stop or a clean acts while the run goes on and restarts;
`rmtree` unlinks the very files and the lock the others use, and they recreate
them; a lookup lists directories that come and go; any step may raise, Ctrl-C
may hit any step and is not an `Exception`; the attached process may die and
leave everything to a later `clean` or `reconcile`; stops wait with timeouts for
commands that ignore SIGTERM. In the C++ part, the start pipe, signals between
fork and exec, and the reaping of orphans. In the proxy, two streams that end,
break and fill up independently, served by one thread. `PROJECT.json` lists
each hazard at its line.

**What makes it correct**, per component:

- state files: the status ends in a terminal state and records failures; a
  command acts on the one container it was asked for, and a clean that reports
  success has removed it;
- run, stop, clean, reconcile: one container process per run, none left behind,
  a restart after each exit unless someone said stop; a stop that ends the
  container for good and returns; a clean and a reconcile that recover from a
  dead run; exit details that say how the command really ended;
- network: addresses and interfaces that are unique, given back, and not
  declared exhausted too early;
- axis-runtime: a command that does not start before its cgroup is set up, that
  receives signals, and whose exit code is the one reported;
- proxy: a peer reads what the other has written, in order and without a gap;
  nothing is lost while both are there; threads end and clients are served;
- Axisfile and configuration: what the file says is what is parsed, and what is
  parsed is what axis-runtime reads.

## 2. Modules

```
ContainerState        files, lock, status table, processes; write_status,
   |                  transition_state, add_resource
Cleanup               cleanup_network_state, stop_container_processes,
   |        \         cleanup_container_state  (shared by the commands)
RunLoop    Commands   `axis run`          |  stop, clean, reconcile
   |        /
Axis                  all processes + kernel; Spec, FairSpec, DetachedSpec
   |         \        INSTANCE Supervisor   (abstract specification)
AxisClaims   AxisTypes -- AxisProofs -- DetachedProofs   (claims | proofs)
   |
MCAxis

Network  -- INSTANCE AddressPool (abstract) -- NetworkProofs, MCNetwork
Container  axis-runtime, one launch         -- MCContainer
   |
Launches   its launches, and what is recorded -- LaunchesProofs, MCLaunches
Proxy      the port proxy                   -- ProxyProofs, MCProxy
Axisfile   the parser
   |
RuntimeConfig   writer and reader of runtime.json -- ConfigProofs, MCRuntimeConfig
Registry   several containers, lookups      -- RegistryProofs, MCRegistry
```

### 2.1 ContainerState, Cleanup, RunLoop, Commands, Axis

One container and every process that touches it: the `axis run` that owns it
(`Run`) and sets `Stops`, `Cleans`, `Reconciles` of concurrent invocations.
`pc[p]` is the next step of process p; an action is what a command does between
two accesses of the directory or of the process table, so every interleaving the
file system allows is a behaviour. A procedure that several commands call
(`Commit`, `CleanupNetwork`) returns to `next[p]`.

| Model | Code |
|---|---|
| `files`, `status`, `pidFile`, `network`, `lock` | the container directory; a reader of a missing file gets the default the code returns, so the variable of a missing file holds that default |
| `status` | the fields of `status.json` that some command reads back: state, manual_stop, restart_count, exit_reason |
| `WriteBegin`, `Commit` | `write_status`: read and update in one step, `os.replace` in a later one |
| `TransitionBegin`, `Commit` | `transition_state`: lock, validate, and keep the lock until the replace |
| `live`, `cgroup`, `term`, `kill` | container processes by number of launch: existing, in their cgroup, sent SIGTERM or SIGINT, sent SIGKILL |
| `proxies`, `ip` | proxy processes that hold a port; whether the container has an address |
| `seen`, `runtime`, `listed`, `netWritten`, `outcome` | locals of `axis run`; `runtime` is the launch whose pid it has been told, 0 for `None`; `outcome` is what its `finally` resumes |
| `Launch`, `ReadReport` | `start_runtime`: the `Popen`, and the line with the pid, which is logged before it is read |
| `Fault` | a failpoint, a line that cannot be printed or logged, a failed `docker`, `ip`, `iptables`, `nsenter`, or a proxy that exits |
| `LineRaises` | `_tee_line`, when a clean removes the directory between its `mkdir` and its `open` |
| `Interrupt` | KeyboardInterrupt in `axis run`, SIGINT to the foreground group |
| `Crash` | the attached process dies |
| `JoinCgroup`, `Exit`, `TermExit`, `KillExit` | axis-runtime, the command, the kernel |

Modelling choices a reader should know:

- Time is abstract. A timeout may expire in any later state and a sleep ends in
  any later state.
- `write_json` replaces a file atomically. `write_pid` and
  `write_runtime_config` write in place; both are one step here.
- Opening a lock file and locking it is one step. Unlinking `container.lock`
  frees the path: whoever opens it next locks another file.
- `"other"` stands for entries that no command reads to decide anything
  (rootfs, Axisfile, logs, resources). An empty `files` is a directory that is
  gone. What `resources.json` says is not modelled, since nothing reads it back.
- Process identifiers are not reused.
- A line of output that is logged while a clean removes the directory may raise
  in `open`, between the `mkdir` and the file. The same gap in `write_json` and
  `container_lock` is left out: their `mkdir` and what follows are one step.
- `Unprivileged` are the reconciles of a user who may not write what root owns:
  `write_status` and `write_json` raise `PermissionError`, which reconcile
  reports and goes on (`cli.py:200`, `214`). Stops and cleans run as root.
- A container that axis-runtime has not released yet is the init of a pid
  namespace without handlers: it ignores SIGTERM and SIGINT, not SIGKILL. If
  axis-runtime dies first, by a Ctrl-C, it stays there.
- A second Ctrl-C during the cleanup after the first is not modelled.
- The removal of the cgroup directory and of resources that are named after the
  container and idempotent is left out of `cleanup_owned_resources`.

`Supervisor` is the abstract specification of the supervision: launches and ends
alternate. `Axis` implements it with `launched <- starts, alive <- live`.

### 2.2 Network, AddressPool

Several containers, each with its own `axis run`, and an `axis clean` for some of
them, share `axis0.json` under `network-axis0.lock`. Reading the allocations and
writing them back are separate steps of the critical section, and the process
may die between them. `SetupVeth` and `DeleteVeth` put the address on an
interface and take it off; `NamespaceGone` is the kernel deleting the interface
with the namespace of a dead container. `cleanup_network` does not look at what
`ip link delete` returns: `DeleteVeth` may leave the interface, and `stuck`,
which is history, remembers whose. `AddressPool` is the abstract
specification: every container holds at most one address, no two hold the same,
none holds the gateway, and an address that is held changes only by being given
back.

### 2.3 Container

`Container.cpp`: axis-runtime (`parent`), the child it clones (`init`), the
command it forks (`app`) and the processes the command leaves (`orphans`), with
the start pipe (`writers`, `bytes`), the handler flag, `appPid`, and wait
statuses. `forwardSignal` runs between any two steps of init. `cgroup`
says what came of moving init: not tried (or noticed to have failed), "joined",
or "refused" by the kernel without axis-runtime noticing, since `writeFile` does
not look at `fclose`. An orphan that ends is one of the `zombies` until init
reaps it. Bind mounts, chroot and the rest of the namespace setup are one step
that succeeds or fails.

### 2.4 Launches

`Launches` extends `Container` with what `axis run` makes of an end: `RecordExit`
composes `statusToExitCode`, the return code of `Popen.wait` and
`exit_details_from_code`, and merges the result over the details of the launch
before; `Relaunch` is a restart. The launches share one cgroup, so the `oom_kill`
counter (`oomKill`) is never reset, and `OomKill` may take the command, one of
its processes or init. `oomNow` is history: it says whether this very launch lost
something to the OOM killer, which nobody in the code can tell.

### 2.5 Proxy

`main` accepts and connects, a thread per connection relays, the peers write,
read, end a stream or reset it. A stream is a direction of a connection; a byte
is its stream and its place in it, so that a gap or a mix-up shows. `inbox` is
what the proxy's socket has received, `outbox` what the proxy has sent and the
peer has not read, `Capacity` of it at most. `recv` takes up to `BUFFER_SIZE`;
`sendall` on a socket that is full sends a part and raises, which ends the
connection (`SendRaises`). A close with something unread resets the connection,
so that what is on its way to that peer may be cut short (`Lost`); any other
close lets the kernel deliver. The start of a proxy, its port and its end belong
to `axis run` and are modelled there.

### 2.6 Axisfile, RuntimeConfig

`Axisfile` reads a sequence of lines, each an instruction and its value as the
code splits it. Repetition, order, defaults, the override of the command line
and every refusal are modelled; how a line is split into words is not.

`RuntimeConfig` writes the result as a sequence of tokens (strings with their
quotes, and symbols), in the order of `json.dumps`, and reads it the way
`runtime_config.cpp` does: the first string equal to the key, wherever it
stands, then the next colon, even one inside a string, then the value. An array
or an object is read up to the first bracket that closes; since Python writes
strings and commas (and colons) by turns, the place of each element follows from
its number (`Elements`). `Colons` and `Garbled` are the words with a colon and
those whose escapes the reader does not undo. A string that contains a quoted
key in its middle is left out. `Expected` says what the reader should find in
terms of the configuration alone; of the volumes with one destination it is the
last (`Mounts`), which the writer arrives at by setting a key of a dict again.

### 2.7 Registry

Several containers by id, some of one name: the runs that make them, with the
docker container of `prepare_rootfs`, and the commands that look one up. `dir` is
a container's directory as a lookup sees it: absent ("none"), without an entry,
without `runtime.json` ("made"), with an empty one ("torn": `write_text`
truncates first), complete ("ready"). A run that has launched may write again in
a directory a clean has emptied or removed, and makes it anew (`Rewrite`;
`late`, which is history, remembers it). A lookup tries the reference as an id,
then lists the directories and looks at and reads one at a time, so that
containers appear and vanish under it. Of what it finds it then makes a state
(`StateFromDir`, `Load`), which looks for `runtime.json` once more and does
without it if it is gone. `clean` goes on to look a second time, to mark the
status twice, which recreates the directory if it is gone (`CleanWrite`), and to
remove; the other commands read once more. A write of `clean` may raise when
another clean removes the directory while it writes; otherwise it goes on.
`bearers` is history: the containers the reference has denoted ever since the
command began. It is assumed that no name equals the id of another container.
The commands themselves do not die here; the death of a clean between two steps
leaves a directory that is "made" or "empty", as the failure of a run does.

## 3. Runs

The runs that pass. In all of them a process that has finished takes no step, so
the system may stop: `CHECK_DEADLOCK FALSE`. That nobody waits for ever is
checked as a property instead (`CommandsReturn`, `RuntimeEnds`, `ThreadsEnd`).

| Run | Instance | What it shows |
|---|---|---|
| `stops` | two stops, one port, one spontaneous exit, a command that need not obey SIGTERM, fairness | types; launches alternate with exits (`ImplementsSupervisor`); without a stop's intent an exit leads to a launch (`RestartsUnlessStopped`); when all is over the status is exited or failed (`QuiescentTerminal`), whichever of the three writers was last; for a container that has not ended by itself, no launch while a stop is at work (`NoRelaunchWhileStopping`) and an effect that is permanent (`StopTakesEffect`); every stop returns (`CommandsReturn`) |
| `clean_race` | one clean typed at any point of a restarting run, one spontaneous exit | `rmtree`, between any two unlinks, neither makes two containers nor leaves one behind (`OneContainerProcess`, `RunLeavesNoOrphan`) |
| `failures` | every fault, Ctrl-C and death anywhere, two ports, one spontaneous exit; afterwards one clean and two reconciles, one of which may not write, in any order | `FailureRecorded`, `NetworkReleased`, `ProxiesListed`, `InterruptCleans` of the run; `CleanRecovers`, `ReconcileRepairs` of the commands |
| `container` | two launches in one cgroup, exit codes 0, 3 and 143, two orphans, two signals, cgroup failures noticed and unnoticed, kills, the OOM killer, fairness | `AppWaitsForCgroup`, `ExitCodeIsApp`, `SignalRecorded`, `CompletedIsSuccess`, `RuntimeEnds` |
| `addresses` | three runs, one clean, two free addresses, faults (a deletion of a veth that fails included), crashes | `UniqueAddresses`, `UniqueInterfaces`, `NoFalseExhaustion`, `ImplementsPool` |
| `proxy` | two connections, one of which carries three bytes up and one down, each end of it may end or reset, fairness | `ReadsPrefix`, `NothingLost`, `EndDelivers`, `ThreadsEnd`, `ClientsServed` |
| `config` | every Axisfile of at most two lines out of 39 good and bad ones, FROM and CMD followed by any two good lines, and FROM between any good line and any bad one; three overrides (none, an empty one, a command) | `ParsedAsDeclared`, `RuntimeGetsConfig` |
| `registry` | two containers of one name whose runs may fail, die or write again after a clean, a second name nobody has, two cleans, one of which may be an inspect instead | `ActsOnTheOne`, `CleanReports` |

**Bounds.** `MaxExits` bounds the exits nobody asked for, and with them the
launches: one exit is enough for every race between an exit, a restart and
another command and for a leftover of one launch to meet the next.
Two stops are the least that race with each other and with the run. In
`failures` the commands begin once the run is over and axis-runtime has finished
with what it left, one at a time (`FairDetachedSpec`), and two reconciles let one
that may only report come before, after or without one that repairs; two ports
let a launch fail with one proxy started and one not. Commands that overlap a live run are
the matter of `stops`, `clean_race` and the claims of section 4. Three
containers and two free addresses make allocation contend, run out and recover.
Two launches are enough for the details of one to meet those of the next; 143 is
the code of a command that returns what a SIGTERM would give; two orphans let
init reap one before and one after the command. In `proxy`, `BufferSize` is 2
and `Capacity` 1, so that three bytes are more than one `recv` takes and more
than the peer's socket holds. Two containers are the least that share a name;
with two cleans a lookup meets a removal, and a removal another one.
`InterruptCleans` is about containers that had joined their cgroup, or whose pid
was in the pid file; section 6 has the others. `RunLeavesNoOrphan` is about runs
that were told the pid of their last launch, and `UniqueInterfaces` about veths
whose deletion did not fail; section 6 says what happens to the others.

`NoRelaunchWhileStopping` and `StopTakesEffect` say nothing once the container
has ended by itself: a run that has read the status before the stop wrote its
intent overwrites it (section 6), and the container comes back.

**Fairness.** In `Axis`, weak fairness of each process: the scheduler runs it,
and none of its waits depends on a race it could lose for ever (the lock is
granted by the kernel, and the timeouts are the process's own). Weak fairness of
axis-runtime releasing the container and of the delivery of a SIGKILL. No
fairness for a command that exits on its own or obeys SIGTERM, for faults,
Ctrl-C and death. In `failures` only a clean or reconcile that has begun goes
on; nobody has to type one. In `Container` and `Launches` the parent, init, the
handler and the exec are scheduled; neither the command nor a process it leaves
need ever end, and `RuntimeEnds` promises nothing while one of these runs. In `Proxy` main
and each thread are scheduled and a connection attempt returns; no peer need
connect, write, read, end or reset.

## 4. Runs that show a disagreement

Each checks one sentence of a document and TLC finds the behaviour of the code
that breaks it.

| Run | Sentence | What the code does |
|---|---|---|
| `claim_stop_prevents_restart` | `docs/SPECS.md:202`: a stop "prevents another restart" | a stop typed during the pause before a restart returns 0, and the launch resets `manual_stop` when it reaches running |
| `claim_reconcile_harmless` | `docs/Workflow.md:114`: "Marks stale running PIDs" | a reconcile during a healthy launch marks it failed; the run then fails its transition to running and kills it |
| `claim_setup_failure_exits` | `docs/Design.md:43`: setup failures "exit non-zero" | when the cgroup cannot be set up, axis-runtime waits for a child that waits on a pipe whose write end it inherited |
| `claim_signal_forwarded` | `docs/Architecture.md:67`: init "forwards signals" | a signal that init handles between its fork and `appPid = app` is dropped, and one it passes on before the exec meets the handler the child has inherited: the command starts and never receives it (`Container.cpp:188`) |

## 5. Proofs

| Theorem | Module | Statement |
|---|---|---|
| `TypeCorrect` | `AxisTypes` | `Spec => []TypeOK` |
| `OneAtATime`, `NoOrphan` | `AxisProofs` | `Spec => []OneContainerProcess`, `Spec => []RunLeavesNoOrphan` |
| `RunImplementsSupervisor` | `AxisProofs` | `Spec => ImplementsSupervisor` |
| `StopNotOvertakenByRestart` | `AxisProofs` | `StopsAlone` implies `Spec => NoRelaunchWhileStopping` |
| `TerminalWhenQuiet` | `AxisProofs` | `NobodyCleans` implies `Spec => []QuiescentTerminal` |
| `NetworkGivenBack`, `EveryProxyListed` | `DetachedProofs` | `DetachedSpec => []NetworkReleased`, `[]ProxiesListed` |
| `FailureIsRecorded`, `InterruptedRunCleans` | `DetachedProofs` | `DetachedSpec => []FailureRecorded`, `[]InterruptCleans` |
| `CleanLeavesNothing` | `DetachedProofs` | `DetachedSpec => []CleanRecovers` |
| `TypeCorrect`, `AddressesUnique`, `InterfacesUnique` | `NetworkProofs` | `Spec => []TypeOK`, `[]UniqueAddresses`, `[]UniqueInterfaces` |
| `NetworkImplementsPool`, `ExhaustionIsReal` | `NetworkProofs` | `Spec => ImplementsPool`, `Spec => NoFalseExhaustion` |
| `TypeCorrect`, `CommandWaits`, `ExitCodeCorrect` | `LaunchesProofs` | `LaunchesSpec => []TypeOK`, `[]AppWaitsForCgroup`, `[]ExitCodeIsApp` |
| `SignalsTruthful`, `CompletedTruthful` | `LaunchesProofs` | `LaunchesSpec => []SignalRecorded`, `[]CompletedIsSuccess` |
| `TypeCorrect`, `NothingIsLost`, `PrefixesRead`, `EndsDelivered` | `ProxyProofs` | `Spec => []TypeOK`, `[]NothingLost`, `[]ReadsPrefix`, `EndDelivers` |
| `TypeCorrect`, `ActsOnDenoted`, `CleanTruthful` | `RegistryProofs` | `Spec => []TypeOK`, `[]ActsOnTheOne`, `[]CleanReports` |
| `ParseIsDeclared`, `ConfigTypeCorrect`, `RuntimeReadsConfig` | `ConfigProofs` | `Spec => []ParsedAsDeclared`, `[]TypeOK`, `[]RuntimeGetsConfig` |

They hold for every number of stops, cleans, reconciles, ports, exits,
launches, orphans, containers, names, addresses, connections and bytes, and for
Axisfiles, commands, environments and volumes of any length, with or without
faults, Ctrl-C and crashes. Two
theorems of `AxisProofs` have a hypothesis on who else is there, `StopsAlone`
and `NobodyCleans`, for reasons given below; those of `DetachedProofs` are
about the commands that come after the run. The assumptions are named where the
constants are declared: `ProcsAssumption` (the kinds of process are distinct),
`ConfigAssumption`, `NetworkAssumption` (the gateway is an address of the
subnet; 0 is not), `ContainerAssumption` (exit codes are at most 255),
`LaunchesAssumption`, `ProxyAssumption` (both buffers hold something),
`RegistryAssumption` (finitely many containers; no name is an id),
`FilesAssumption` and `OverridesAssumption` (an Axisfile is a sequence, a command
a list; a variable and a volume are split in two; the ports of a mapping are
numbers) and `CgroupAssumption` (the name of the cgroup, a hexadecimal id, has
no characters the reader does not decode).

*Axis.* `OneContainerProcess` is not inductive: a launch adds a process, so one
must know that none is there. `IInv` in `AxisProofs` says so by the place the
run is at: between two launches, and when a launch is over in order, nothing
runs (`NothingRuns`); what runs otherwise is the last launch (`Alone`); on the
way out of a failure it is dead or has been sent SIGKILL, provided the run was
told its pid (`Doomed`), and the only pid a run is ever told is that of its last
launch (`Told`). The run
may be inside a shared procedure when it is at such a place, so the invariant
speaks of `Ahead`, where it will resume, and of where each procedure returns to
(`NetNext`). After a Ctrl-C the run only cleans (`CleansInterrupted`,
`Interrupted`), which is what excludes a second launch or a failure path then.
The steps of the other commands keep all of this because they change neither
the control of the run nor the set of processes, and never withdraw a SIGKILL.
The refinement follows: a launch finds `live = {}`, and the end of the only
process is the abstract end.

*A stop and the restart loop.* `Course` knows what each command is about to
write before it writes it, since a transition and a write are two steps:
`StopsWrite`, `ReconcilesWrite` and `RunWrites` tie the status in a process's
hands to where it goes next. `NotOvertaken` then follows the intent of the
first stop through the one launch there is as long as nothing has ended by
itself. Before the status is "running" no stop has got as far as its intent,
because none may pass from "created" or "starting" to "stopping", and nothing
has been signalled (`Unmarked`). From then on, if the container is dead or has
been signalled, or a stop is past its write, the status says manual_stop
(`Intended`); when the run has noticed the end, it has read that, and what it
writes says so too (`Stopped`); so the loop never comes to a second launch
(`LaunchedOnce`). `StopsAlone` (no clean, no reconcile) is needed. Both write
the status with the manual_stop they have read, so that one that has read it
before the stop undoes the intent, as the run itself does after an exit of its
own (section 6). The stops' own writes cannot, since both say manual_stop.

*The last word.* `QuiescentTerminal` compares writers that do not know of each
other. `LastWord` keeps, for a status "stopping", a stop that still has its
last write to make (`StopsEnd`), and for a run past its own last write, a
status that is terminal or "stopping" (`Settled`). A stop's late write is of
"exited", a reconcile's of "failed". `NobodyCleans` excludes what deletes the
directory, a clean and a Ctrl-C, and the death of the run before its last
write, after which the status is what it was: the repair of that is a
reconcile's or a clean's.

*After the run.* `DInv` in `DetachedProofs` is what is true at any point of a
run that nobody disturbs, and of any number of commands that come one at a time
when it is over. `Alternate` says so. `Directory` says when `runtime.json` and
the status are there, and that after the last unlink nothing comes back: for
every command, the step at which it may still write is one it reaches only with
the directory in place (`Resumes`, `CommandsConfigured`). `Network` compares
three things in each phase of the run: the proxies that are alive, those the
run remembers, and those `network.json` lists (`RunNetwork`); a proxy is
started before it is remembered, and remembered before it is listed, so that
there is a window for each where a failure must still find it. `Killed` carries
the SIGKILL of a clean from the scan of the cgroup, or the pid file, to its
end; `RunKills` does so for the clean of an interrupted run, in which the pid
file may name what has not joined the cgroup. `Recorded` keeps "failed" from the moment the run writes it until a stop
or a clean that has begun writes over it; a reconcile does not get past the
status, which is not running. A stop does write "exited" over "failed", which
is why `FailureRecorded` speaks of stops that have not begun. Any number of the
reconciles may be without the permission to write.

*Network.* `UniqueAddresses` speaks of the addresses runs work with. Its
inductive invariant says that whoever is inside the critical section holds the
lock and has read the file as it still is (`SnapshotCurrent`), so that writing
back a changed snapshot changes the file in one place; that the file gives no
address twice (`FileUnique`); and that a run works with the address the file
records for it (`Recorded`). Without the lock the file alone stays free of
duplicates, since each write is, but a lost update makes two runs use one
address. `UniqueInterfaces` adds `Carried`: an interface has the address the
file records for its container, and its run has not come to releasing it, unless
a deletion of it has failed (`stuck`).

*Launches.* The invariant of one launch, `CInv`, says what holds the init back:
it has not got past its read unless the byte was written, which happens after
the move into the cgroup was tried (`HeldBack`). Every status that says "signaled" names SIGTERM or
SIGKILL (`FatalSignals`), which is what the codes above 128 stand for.
`Reaping` ties what init knows of the command (`appPid`, `reaped`, `appStatus`,
`appExited`) to what became of it, so that the status of an orphan never takes
the place of the command's, and `Reporting` carries that status through the
exit codes of init and axis-runtime. `Details` adds, for the launches, that an
OOM kill of this launch is counted, and that what has been recorded is about
processes that have all ended: a recorded launch takes no more steps
(`RecordedIsOver`), so the record stays true.

*Proxy.* `Whole` is `NothingLost`: for a stream that is relayed, what was
written is what was read, followed by what is in the peer's socket, in the
thread's hands and in the proxy's socket. `Serving` says that a thread holds
data only in `send`, and of which stream; `Queue` that a connection is in the
backlog once, and that only main connects. `Intact` says that what a peer has
read and what is on its way to it are the beginning of what was written; it is
what is left of `Whole` once a connection is closed. `EndDelivers` follows from
`Whole` at the step that closes.

*Registry.* While a command searches, every container its reference has denoted
all along is either still ahead of it, in the listing, or among the matches
(`Searching`, `Matched`): a directory that was complete when the search began
and has not been removed since cannot be missing from a listing made later.
`BearersReady` and `RunDir` say what a container in `bearers` looks like on
disk, `Acting` and `Reported` carry the result to the commands. A directory that
a clean has emptied may come back under it, from its run or from another clean;
`Leftover` says in whose hands it then is, and `RunDir` that nobody writes
`runtime.json` a second time, so that no lookup finds it.

*Axisfile.* The parser is a loop, so its correctness is an invariant of the
loop rather than an induction. `PInv` in `ConfigProofs` says what the lines
read so far have made of each field, in place of all lines: a scalar is the
value of the last line of its instruction, a variable that of the last line
that sets it (`EnvRead`), a list has the values of the lines of its instruction
in their order, witnessed by an increasing function from its places to the
lines (`ListOrdered`). The proof takes a line by the kind of its instruction,
and rests on each field being the business of one instruction only
(`FieldsApart`). At the end all lines have been read, the override of the
command line has had its say, and `PInv` is `ParsedAsDeclared`.

*runtime.json.* The text is made and searched in one step each, by recursions
over lists of any length, so that `RuntimeGetsConfig` needs facts about data and
hardly an invariant: `RInv` adds to `PInv` that the text, once written, is that
of the configuration. The facts are proved by induction over numbers. `NatSubset`
is the rule: a set with 0 and the successor of each of its numbers has all of
them, because a number that is missing has a least one before it. With it,
`JoinedExists` and `MountedExists` show that the recursions of the writer have a
result; `RoundLaid` and `RoundFrom` say what a round of joining adds and keeps;
so every item stands where `At` says (`ItemLaid`), at regular distances when the
items have one length (`SeparatedEven`). An array or an object then has its
words at every second or fourth place and no bracket before its last token
(`ArrayLaid`, `DictLaid`, `Closed`), which is why the reader counts as many
elements as there are. `MembersShape` and `MemberPlaced` put the twelve members
into the text: before a key there are only other keys and tokens of values, and
by hypothesis no word of a value is a key, so that the first place of the key is
its own (`ValueFound`). `MountsWritten` follows the dict of mounts through the
volumes (`MountsTo`). `ParsedShape` provides, from what is parsed, that every
list is a list and every mount one the runtime accepts.

Only model-checked: everything under fairness, that is `StopTakesEffect`,
`CommandsReturn`, `RestartsUnlessStopped`, `ReconcileRepairs`, `RuntimeEnds`,
`ThreadsEnd` and `ClientsServed`. Liveness is beyond the prover.

## 6. Other deviations the models show

The models have these behaviours too, unless it says otherwise; no run is about
them, and they are recorded here.

- A stop whose intent is written after the container has exited by itself, and
  after the run has read the status, is undone: the run writes exited with the
  `manual_stop` it has read, and restarts the container under the stop
  (`cli.py:290`; `docs/SPECS.md:202`).
- A stop that finds the container starting and without a pid goes from starting
  to exited by `write_status`, past the table of transitions (`cli.py:142`;
  `docs/SPECS.md:130` says transitions should be validated). Between the launch
  and the write of the pid file it writes exited over a live container
  (`docs/Workflow.md:84`: `exited` "only after stop is verified").
- A stop whose container exits between its checks and its transition raises,
  since exited to stopping is not allowed (`cli.py:145`; `docs/SPECS.md:50` says
  it succeeds for exited containers).
- A reconcile that overlaps a restart writes back the `network.json` it has
  read, without the live proxies of the new launch (`cli.py:213`).
- After the clean of a running container, the run recreates the directory when
  it next takes the lock, writes a status or logs a line (`state.py:164`).
- Of two concurrent cleans the slower one raises when it finds the directory
  without `runtime.json`, or `network.json` gone (`cli.py:317`). If the directory
  goes later it recreates it by its next write of the status, removes it again
  and reports success too (`state.py:79`).
- A lookup by name, and `ps`, raise past `main` when they read a `runtime.json`
  another run is just writing, or one a clean has removed since they saw it
  (`state.py:129`).
- The directory of a run that failed before `runtime.json` was written is not a
  container for the lookup, and `clean` refuses it (`cli.py:233`).
- A clean by a name that equals the id of another container could act on that one
  with its second lookup, when the first match is removed in between. The model
  assumes that no name is an id.
- A failure between `allocate_ip` and the write of `network.json` keeps the
  address for good, and the proxies already started: the run's `finally` and a
  later clean both go by that file (`cli.py:309`). `docs/Workflow.md:130` gives as
  the purpose of the failpoints, of which `after-network-setup` lies right
  there, to "verify partial setup failures do not leak owned resources".
- A launch that fails before axis-runtime has reported its pid leaves the
  container running: `_tee_line` may raise, on a full disk, a closed terminal or
  the removal of the directory by a clean, and `runtime` is still `None`, so that
  nothing is killed (`runtime.py:69`, `cli.py:304`). `RunLeavesNoOrphan` excludes
  it.
- A kernel that refuses to move init into its cgroup is not noticed: `writeFile`
  checks what it puts in the buffer and not what `fclose` writes
  (`Container.cpp:45`, `152`), and the command starts outside its cgroup, where
  neither its limits nor the scan of a stop or a clean reach it.
  `AppWaitsForCgroup` therefore says only that the move was tried; `Axis` takes
  it for done (`JoinCgroup`).
- `cleanup_network` releases the address whatever `ip link delete` returns
  (`network.py:257`), so that another container may get the address of a veth
  that is still there.
- Init reaps every process the command has left before it returns
  (`Container.cpp:192`): one that does not end keeps axis-runtime, and `axis run`,
  from ending after the command, and from restarting it.
- `axis run --` gives an empty command that overrides CMD and is refused, even if
  the file has one (`axisfile.py:74`); `docs/SPECS.md:206` requires CMD "unless a
  CLI command override is provided", `docs/LLD.md:95` "unless `command_override`
  is not `None`". `ParsedAsDeclared` says nothing of an empty override.
- `clean_command` takes every `AxisError` of the lookup for an unknown container:
  for a name that two containers have it prints "Removed NAME", exits 0 and
  removes nothing (`cli.py:230`; `docs/SPECS.md:71`: "Duplicate names are rejected
  as ambiguous.").
- Of two first runs that find no bridge one fails to add it (`network.py:98`); in
  the models it is one of the faults.
- A command that exits before `setup_network` has entered its namespaces makes
  the run fail instead of restarting it (`cli.py:303`).
- A Ctrl-C between the launch and the write of the pid file, before the
  container is in its cgroup, returns 130 and leaves the container's init
  blocked (`cli.py:265`).
- `exit_signal` is only ever set, so that a launch that ends in order keeps the
  one of an earlier launch; and `oom_kill` counts since the cgroup was made, so
  that after one OOM kill every later launch is recorded as `oom_killed`
  (`cli.py:476`–`483`; `docs/SPECS.md:221`). A command that returns 128 or more
  is recorded as ended by a signal.
- A client that ends its stream and waits for the answer does not get it: at the
  end of one direction the proxy closes both sockets (`proxy.py:55`).
- A peer that reads slowly loses its connection: `sendall` on a non-blocking
  socket raises when the buffer is full (`proxy.py:59`).
- A variable or an argument that equals a key of `runtime.json`, such as
  `memory`, `cpu` or `name`, is taken for that key by axis-runtime when it stands
  before it, and words that are not ASCII arrive garbled
  (`runtime_config.cpp:85`; `docs/SPECS.md:186`).
- A clean that overlaps a restart of the same container releases the address the
  new launch has just been told to keep; another container may then get it while
  the veth still carries it. `UniqueAddresses` and `UniqueInterfaces` are
  therefore stated for containers nobody cleans while they run.

## 7. Not modelled

- What `ps`, `inspect`, `logs` and `stats` print, `logs -f`, timestamps, log
  lines and the `oom_killed` field: nothing decides by them.
- The bridge, the iptables rules and the name resolution files
  (`network.py:97`–`101`, `139`–`248`): the rules every run adds are the same,
  and `publish_port` is never called (`docs/Decisions.md:59`).
- What image preparation copies where, and what docker and tar do.
- How a line of an Axisfile is split into words, and strings of `runtime.json`
  that end in a quoted key.
- The class hierarchy of `errors.py`.
- Reuse of process identifiers, and a second Ctrl-C during the cleanup after the
  first.
- The death of a stop, a clean or a reconcile itself; in `Network` a clean may
  die.

## 8. Plan

Done: the core (`ContainerState` to `Axis`), `Network`, `Container`, `Launches`,
`Proxy`, `Axisfile`, `RuntimeConfig`, `Registry`, their runs, and the proofs of
section 5. Left, in this order:

1. Proofs: the safety half of the live properties, such as what a stop that
   has returned leaves behind; `QuiescentTerminal` with cleans and Ctrl-C, for
   which the deletion of the directory has to be followed through the status.
2. The cgroup: kill against fork, removal while members are left.
3. The iptables rules, matched by substring, added and removed by runs that
   overlap.
