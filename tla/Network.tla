------------------------------ MODULE Network -------------------------------
(***************************************************************************)
(* The addresses and veth pairs of src/axis/network.py.  Every `axis run`  *)
(* sets up the network of its own container and tears it down after each   *)
(* launch; every `axis clean` tears down the network of the container it   *)
(* removes.  They share .axis/networks/axis0.json and its lock.            *)
(***************************************************************************)
EXTENDS Naturals, FiniteSets

CONSTANTS
  Containers,  \* containers, each with its own `axis run`
  Cleaned,     \* those an `axis clean` is typed for
  Hosts,       \* the host addresses of SUBNET, as numbers
  Gateway,     \* GATEWAY
  Nobody,      \* the holder of a free lock
  Faults,      \* whether a command of setup_network or cleanup_network may fail
  Crashes      \* whether a process may be killed

None == 0

Runs == Containers \X {"run"}
Cleans == Cleaned \X {"clean"}
Procs == Runs \cup Cleans

ASSUME NetworkAssumption ==
  /\ Cleaned \subseteq Containers
  /\ Hosts \subseteq Nat \ {0}
  /\ Gateway \in Hosts
  /\ Nobody \notin Procs
  /\ Faults \in BOOLEAN
  /\ Crashes \in BOOLEAN

VARIABLES
  pc,           \* the next step of each process
  snapshot,     \* the allocations it has read
  address,      \* the address allocate_ip has returned to it
  allocations,  \* contents of axis0.json
  lock,         \* holder of the flock on network-axis0.lock
  iface,        \* the address on the veth of each container, None without veth
  recorded,     \* the containers that have a network.json
  stuck         \* those whose veth cleanup_network has failed to delete (history)

vars == <<pc, snapshot, address, allocations, lock, iface, recorded, stuck>>

NoAddresses == [c \in Containers |-> None]

Init ==
  /\ pc = [p \in Procs |-> "idle"]
  /\ snapshot = [p \in Procs |-> NoAddresses]
  /\ address = [p \in Procs |-> None]
  /\ allocations = NoAddresses
  /\ lock = Nobody
  /\ iface = NoAddresses
  /\ recorded = {}
  /\ stuck = {}

Goto(p, label) == pc' = [pc EXCEPT ![p] = label]

(***************************************************************************)
(* network_lock, and the read that opens each of its critical sections.    *)
(***************************************************************************)
UnlockedRead(p, from, to) ==
  /\ pc[p] = from
  /\ snapshot' = [snapshot EXCEPT ![p] = allocations]
  /\ Goto(p, to)
  /\ UNCHANGED <<address, allocations, lock, iface, recorded, stuck>>

LockedRead(p, from, to) ==
  /\ pc[p] = from
  /\ lock = Nobody
  /\ lock' = p
  /\ snapshot' = [snapshot EXCEPT ![p] = allocations]
  /\ Goto(p, to)
  /\ UNCHANGED <<address, allocations, iface, recorded, stuck>>

Unlock(p) == IF lock = p THEN Nobody ELSE lock

Forget(p) == snapshot' = [snapshot EXCEPT ![p] = NoAddresses]

(***************************************************************************)
(* allocate_ip: the address the container has already, or else the lowest  *)
(* one that is free, or else an exception.                                 *)
(***************************************************************************)
FreeWithGateway(held) == Hosts \ {held[c] : c \in Containers}

FreePastEnd(held) == {host + 1 : host \in Hosts} \ {held[c] : c \in Containers}

FreeIn(held) == Hosts \ ({Gateway} \cup {held[c] : c \in Containers})

AllocateIp(p) ==
  /\ pc[p] = "allocate"
  /\ \/ /\ snapshot[p][p[1]] # None
        /\ address' = [address EXCEPT ![p] = snapshot[p][p[1]]]
        /\ Goto(p, "veth")
        /\ UNCHANGED allocations
     \/ /\ snapshot[p][p[1]] = None
        /\ \E candidate \in FreeIn(snapshot[p]) :
             /\ \A other \in FreeIn(snapshot[p]) : candidate <= other
             /\ address' = [address EXCEPT ![p] = candidate]
             /\ allocations' = [snapshot[p] EXCEPT ![p[1]] = candidate]
        /\ Goto(p, "veth")
     \/ /\ snapshot[p][p[1]] = None
        /\ FreeIn(snapshot[p]) = {}
        /\ Goto(p, "exhausted")
        /\ UNCHANGED <<address, allocations>>
  /\ lock' = Unlock(p)
  /\ Forget(p)
  /\ UNCHANGED <<iface, recorded, stuck>>

(***************************************************************************)
(* release_ip.                                                             *)
(***************************************************************************)
ReleaseIp(p) ==
  /\ pc[p] = "release"
  /\ allocations' = [snapshot[p] EXCEPT ![p[1]] = None]
  /\ address' = [address EXCEPT ![p] = None]
  /\ lock' = Unlock(p)
  /\ Goto(p, IF p \in Runs THEN "idle" ELSE "over")
  /\ Forget(p)
  /\ UNCHANGED <<iface, recorded, stuck>>

(***************************************************************************)
(* setup_network after the allocation: the veth pair, its address, the     *)
(* routes and the rules; then run_container_once writes network.json.  Any *)
(* command may fail, and the run ends without giving anything back.        *)
(***************************************************************************)
SetupVeth(p) ==
  /\ pc[p] = "veth"
  /\ iface' = [iface EXCEPT ![p[1]] = address[p]]
  /\ stuck' = stuck \ {p[1]}
  /\ Goto(p, "record")
  /\ UNCHANGED <<snapshot, address, allocations, lock, recorded>>

Record(p) ==
  /\ pc[p] = "record"
  /\ recorded' = recorded \cup {p[1]}
  /\ Goto(p, "running")
  /\ UNCHANGED <<snapshot, address, allocations, lock, iface, stuck>>

SetupFails(p) ==
  /\ Faults
  /\ pc[p] \in {"veth", "record"}
  /\ Goto(p, "over")
  /\ address' = [address EXCEPT ![p] = None]
  /\ UNCHANGED <<snapshot, allocations, lock, iface, recorded, stuck>>

\* Some time after the container is dead the kernel deletes its namespace,
\* and the veth with it.
NamespaceGone(c) ==
  /\ iface[c] # None
  /\ pc[<<c, "run">>] \notin {"record", "running"}
  /\ iface' = [iface EXCEPT ![c] = None]
  /\ stuck' = stuck \ {c}
  /\ UNCHANGED <<pc, snapshot, address, allocations, lock, recorded>>

(***************************************************************************)
(* cleanup_network: delete the veth, then release the address.             *)
(***************************************************************************)
DeleteVethSkipped(p) ==
  /\ pc[p] = "delete"
  /\ Goto(p, "unlinked")
  /\ UNCHANGED <<snapshot, address, allocations, lock, iface, recorded, stuck>>

\* cleanup_network goes on whatever `ip link delete` returns.
DeleteVeth(p) ==
  /\ pc[p] = "delete"
  /\ \/ /\ iface' = [iface EXCEPT ![p[1]] = None]
        /\ stuck' = stuck \ {p[1]}
     \/ /\ Faults /\ iface[p[1]] # None
        /\ stuck' = stuck \cup {p[1]}
        /\ UNCHANGED iface
  /\ Goto(p, "unlinked")
  /\ UNCHANGED <<snapshot, address, allocations, lock, recorded>>

(***************************************************************************)
(* The processes.  A run sets up, streams, cleans up, and may start over.  *)
(***************************************************************************)
StreamEnds(p) ==
  /\ pc[p] = "running"
  /\ Goto(p, "delete")
  /\ UNCHANGED <<snapshot, address, allocations, lock, iface, recorded, stuck>>

Run(p) ==
  \/ LockedRead(p, "idle", "allocate")
  \/ AllocateIp(p) \/ SetupVeth(p) \/ Record(p) \/ SetupFails(p) \/ StreamEnds(p)
  \/ DeleteVeth(p)
  \/ LockedRead(p, "unlinked", "release")
  \/ ReleaseIp(p)

\* clean_command removes network.json with the directory.
CleanBegins(p) ==
  /\ pc[p] = "idle"
  /\ p[1] \in recorded
  /\ recorded' = recorded \ {p[1]}
  /\ Goto(p, "delete")
  /\ UNCHANGED <<snapshot, address, allocations, lock, iface, stuck>>

Clean(p) ==
  \/ CleanBegins(p) \/ DeleteVeth(p)
  \/ LockedRead(p, "unlinked", "release")
  \/ ReleaseIp(p)

\* The kernel unlocks what a dead process held.
Crash(p) ==
  /\ Crashes
  /\ pc[p] # "over"
  /\ lock' = Unlock(p)
  /\ Goto(p, "over")
  /\ Forget(p)
  /\ address' = [address EXCEPT ![p] = None]
  /\ UNCHANGED <<allocations, iface, recorded, stuck>>

Next ==
  \/ \E p \in Runs : Run(p)
  \/ \E p \in Cleans : Clean(p)
  \/ \E p \in Procs : Crash(p)
  \/ \E c \in Containers : NamespaceGone(c)

Spec == Init /\ [][Next]_vars

(***************************************************************************)
(* Properties.                                                             *)
(***************************************************************************)
Maps == [Containers -> Hosts \cup {None}]

Labels == {"idle", "allocate", "veth", "record", "running", "delete", "unlinked",
           "release", "exhausted", "over"}

\* Every variable keeps the kind of value the code gives it.
TypeOK ==
  /\ pc \in [Procs -> Labels]
  /\ snapshot \in [Procs -> Maps]
  /\ address \in [Procs -> Hosts \cup {None}]
  /\ allocations \in Maps
  /\ lock \in Procs \cup {Nobody}
  /\ iface \in Maps
  /\ recorded \in SUBSET Containers /\ stuck \in SUBSET Containers

\* No two runs work with the same address, whatever processes allocate,
\* release and die in between (allocate_ip and release_ip under network_lock),
\* as long as nobody cleans their containers while they run.
UniqueAddresses ==
  \A p, q \in Runs :
    p # q /\ {p[1], q[1]} \cap Cleaned = {} /\ address[p] = address[q] => address[p] = None

\* allocate_ip gives up only when every address but the gateway is allocated,
\* at that moment and not when it began.
NoFalseExhaustion ==
  [][\A p \in Runs : pc[p] # "exhausted" /\ pc'[p] = "exhausted"
                       => FreeIn(allocations) = {}]_vars

\* No two veth pairs carry the same address, as long as nobody cleans their
\* containers while they run and `ip link delete` has not failed on either: an
\* address is released only after the deletion of the veth that carries it,
\* whatever setup has failed or died in between.
UniqueInterfaces ==
  \A c, d \in Containers \ (Cleaned \cup stuck) :
    iface[c] = iface[d] /\ c # d => iface[c] = None

\* The file is an address pool.
Pool == INSTANCE AddressPool WITH held <- allocations
ImplementsPool == Pool!Spec

=============================================================================
