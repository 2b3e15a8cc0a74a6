---------------------------- MODULE NetworkProofs ---------------------------
(***************************************************************************)
(* For every set of containers, every subnet and any number of failures    *)
(* and crashes: the allocations of Network are an address pool.            *)
(***************************************************************************)
EXTENDS Network, TLAPS

(***************************************************************************)
(* The inductive invariant.  A process between the read and the write of   *)
(* its critical section holds the lock and what it has read is still what  *)
(* the file contains; without the second part a write could bring back an  *)
(* address another process had released.                                   *)
(***************************************************************************)
Critical == {"allocate", "release"}

SnapshotCurrent ==
  \A p \in Procs : pc[p] \in Critical => lock = p /\ snapshot[p] = allocations

\* The file never gives an address to two containers.
FileUnique ==
  \A c, d \in Containers : allocations[c] = allocations[d] /\ c # d => allocations[c] = None

\* What a run works with is what the file says of its container, unless a clean
\* has taken it away.
Recorded ==
  \A p \in Runs :
    p[1] \notin Cleaned /\ address[p] # None => allocations[p[1]] = address[p]

IInv == TypeOK /\ SnapshotCurrent /\ FileUnique /\ Recorded

\* The address on a veth is the one the file gives to its container, and a run
\* does not release that address before it has deleted the veth, or failed to.
CarriedBy(c) ==
  iface[c] # None /\ c \notin stuck =>
    allocations[c] = iface[c] /\ pc[<<c, "run">>] \notin {"unlinked", "release"}

Carried == \A c \in Containers \ Cleaned : CarriedBy(c)

(***************************************************************************)
(* The first component of a process is its container.                      *)
(***************************************************************************)
LEMMA ContainerOf ==
  ASSUME NEW p \in Procs
  PROVE  p[1] \in Containers
BY NetworkAssumption DEF Procs, Runs, Cleans

(***************************************************************************)
(* A process that chooses a free address keeps the allocations unique.     *)
(***************************************************************************)
LEMMA FreeStaysUnique ==
  ASSUME NEW held \in Maps, NEW c \in Containers, NEW a \in FreeIn(held),
         \A d, e \in Containers : held[d] = held[e] /\ d # e => held[d] = None
  PROVE  /\ [held EXCEPT ![c] = a] \in Maps
         /\ \A d, e \in Containers :
              [held EXCEPT ![c] = a][d] = [held EXCEPT ![c] = a][e] /\ d # e
                => [held EXCEPT ![c] = a][d] = None
<1>1. a \in Hosts /\ \A d \in Containers : held[d] # a
  BY DEF FreeIn
<1> QED
  BY <1>1 DEF Maps

(***************************************************************************)
(* The initial state.                                                      *)
(***************************************************************************)
LEMMA InitIInv == Init => IInv
<1> SUFFICES ASSUME Init PROVE IInv
  OBVIOUS
<1>1. TypeOK
  BY DEF Init, TypeOK, Maps, NoAddresses, Labels
<1>2. SnapshotCurrent
  BY DEF Init, SnapshotCurrent, Critical
<1>3. FileUnique /\ Recorded
  BY DEF Init, FileUnique, Recorded, NoAddresses, Procs
<1> QED
  BY <1>1, <1>2, <1>3 DEF IInv

(***************************************************************************)
(* Every step.                                                             *)
(***************************************************************************)
LEMMA StepIInv == IInv /\ [Next]_vars => IInv'
<1> SUFFICES ASSUME IInv, [Next]_vars PROVE IInv'
  OBVIOUS
<1> USE NetworkAssumption DEF IInv, TypeOK, SnapshotCurrent, Critical, FileUnique, Recorded,
                              Goto, Labels
<1>1. ASSUME NEW p \in Procs, NEW from, NEW to \in Critical, LockedRead(p, from, to)
      PROVE  IInv'
  BY <1>1 DEF LockedRead
<1>2. ASSUME NEW p \in Runs, AllocateIp(p)
      PROVE  IInv'
  <2>0. p \in Procs
    BY DEF Procs
  <2>1. p[1] \in Containers /\ lock = p /\ snapshot[p] = allocations
    BY <1>2, <2>0, ContainerOf DEF AllocateIp
  <2>2. /\ allocations' \in Maps
        /\ address' \in [Procs -> Hosts \cup {None}]
        /\ FileUnique'
    <3>1. CASE UNCHANGED allocations
      BY <1>2, <2>0, <2>1, <3>1 DEF AllocateIp, FreeIn, Maps
    <3>2. CASE allocations' # allocations
      <4>1. PICK a \in FreeIn(allocations) :
              /\ address' = [address EXCEPT ![p] = a]
              /\ allocations' = [allocations EXCEPT ![p[1]] = a]
        BY <1>2, <2>0, <2>1, <3>2 DEF AllocateIp
      <4>2. /\ [allocations EXCEPT ![p[1]] = a] \in Maps
            /\ \A d, e \in Containers :
                 [allocations EXCEPT ![p[1]] = a][d] = [allocations EXCEPT ![p[1]] = a][e]
                 /\ d # e => [allocations EXCEPT ![p[1]] = a][d] = None
        BY <2>1, FreeStaysUnique
      <4>3. a \in Hosts
        BY DEF FreeIn
      <4> QED
        BY <2>0, <4>1, <4>2, <4>3
    <3> QED
      BY <3>1, <3>2
  <2>3. /\ pc' \in [Procs -> Labels] /\ pc'[p] \notin Critical
        /\ \A q \in Procs \ {p} : pc'[q] = pc[q]
    BY <1>2, <2>0 DEF AllocateIp
  <2>4. snapshot' \in [Procs -> Maps]
    BY <1>2, <2>0 DEF AllocateIp, Forget, Maps, NoAddresses
  <2>5. lock' = Nobody
    BY <1>2, <2>1 DEF AllocateIp, Unlock
  <2>6. SnapshotCurrent'
    BY <2>1, <2>3
  <2>7. Recorded'
    <3> SUFFICES ASSUME NEW q \in Runs, q[1] \notin Cleaned, address'[q] # None
                 PROVE  allocations'[q[1]] = address'[q]
      OBVIOUS
    <3>1. CASE q = p
      BY <1>2, <2>0, <2>1, <3>1 DEF AllocateIp, Maps
    <3>2. CASE q # p
      <4>1. q[1] # p[1] /\ q[1] \in Containers /\ q \in Procs
        BY <3>2 DEF Runs, Procs
      <4>2. \/ UNCHANGED allocations
            \/ \E a : allocations' = [allocations EXCEPT ![p[1]] = a]
        BY <1>2, <2>1 DEF AllocateIp
      <4>3. \E a : address' = [address EXCEPT ![p] = a] \/ address' = address
        BY <1>2 DEF AllocateIp
      <4>4. allocations'[q[1]] = allocations[q[1]]
        BY <2>1, <4>1, <4>2 DEF Maps
      <4>5. address'[q] = address[q]
        BY <3>2, <4>1, <4>3
      <4> QED
        BY <4>4, <4>5
    <3> QED
      BY <3>1, <3>2
  <2> QED
    BY <1>2, <2>2, <2>3, <2>4, <2>5, <2>6, <2>7 DEF AllocateIp
<1>3. ASSUME NEW p \in Procs, ReleaseIp(p)
      PROVE  IInv'
  <2>1. p[1] \in Containers /\ lock = p /\ snapshot[p] = allocations
    BY <1>3, ContainerOf DEF ReleaseIp
  <2>2. allocations' = [allocations EXCEPT ![p[1]] = None]
    BY <1>3, <2>1 DEF ReleaseIp
  <2>3. /\ pc' \in [Procs -> Labels] /\ pc'[p] \notin Critical
        /\ \A q \in Procs \ {p} : pc'[q] = pc[q]
    BY <1>3 DEF ReleaseIp
  <2>4. snapshot' \in [Procs -> Maps]
    BY <1>3 DEF ReleaseIp, Forget, Maps, NoAddresses
  <2>5. lock' = Nobody
    BY <1>3, <2>1 DEF ReleaseIp, Unlock
  <2>6. allocations' \in Maps /\ FileUnique'
    BY <2>1, <2>2 DEF Maps
  <2>7. SnapshotCurrent'
    BY <2>1, <2>3
  <2>8. Recorded'
    <3> SUFFICES ASSUME NEW q \in Runs, q[1] \notin Cleaned, address'[q] # None
                 PROVE  allocations'[q[1]] = address'[q]
      OBVIOUS
    <3>1. q \in Procs /\ q # p /\ address'[q] = address[q]
      BY <1>3 DEF ReleaseIp, Procs
    <3>2. q[1] # p[1]
      BY <3>1 DEF Procs, Runs, Cleans
    <3> QED
      BY <2>1, <2>2, <3>1, <3>2 DEF Maps, Runs
  <2> QED
    BY <1>3, <2>3, <2>4, <2>5, <2>6, <2>7, <2>8 DEF ReleaseIp
<1>4. ASSUME NEW p \in Procs, SetupVeth(p)
      PROVE  IInv'
  BY <1>4, ContainerOf DEF SetupVeth, Maps
<1>5. ASSUME NEW p \in Procs, Record(p)
      PROVE  IInv'
  BY <1>5, ContainerOf DEF Record
<1>6. ASSUME NEW p \in Procs, SetupFails(p)
      PROVE  IInv'
  BY <1>6 DEF SetupFails
<1>7. ASSUME NEW p \in Procs, StreamEnds(p)
      PROVE  IInv'
  BY <1>7 DEF StreamEnds
<1>8. ASSUME NEW p \in Procs, DeleteVeth(p)
      PROVE  IInv'
  BY <1>8, ContainerOf DEF DeleteVeth, Maps
<1>9. ASSUME NEW p \in Procs, CleanBegins(p)
      PROVE  IInv'
  BY <1>9, ContainerOf DEF CleanBegins
<1>10. ASSUME NEW p \in Procs, Crash(p)
       PROVE  IInv'
  <2>1. snapshot' \in [Procs -> Maps]
    BY <1>10 DEF Crash, Forget, Maps, NoAddresses
  <2>2. /\ pc' \in [Procs -> Labels] /\ pc'[p] \notin Critical
        /\ \A q \in Procs \ {p} : pc'[q] = pc[q] /\ snapshot'[q] = snapshot[q]
    BY <1>10 DEF Crash, Forget
  <2>3. lock' = IF lock = p THEN Nobody ELSE lock
    BY <1>10 DEF Crash, Unlock
  <2>4. SnapshotCurrent'
    BY <1>10, <2>2, <2>3 DEF Crash
  <2> QED
    BY <1>10, <2>1, <2>2, <2>3, <2>4 DEF Crash
<1>11. ASSUME NEW c \in Containers, NamespaceGone(c)
       PROVE  IInv'
  BY <1>11 DEF NamespaceGone, Maps
<1>12. CASE UNCHANGED vars
  BY <1>12 DEF vars
<1>13. ASSUME NEW p \in Runs, Run(p)
       PROVE  IInv'
  BY <1>1, <1>2, <1>3, <1>4, <1>5, <1>6, <1>7, <1>8, <1>13 DEF Run, Procs
<1>14. ASSUME NEW p \in Cleans, Clean(p)
       PROVE  IInv'
  BY <1>1, <1>3, <1>8, <1>9, <1>14 DEF Clean, Procs
<1> QED
  BY <1>10, <1>11, <1>12, <1>13, <1>14 DEF Next

\* Every variable keeps the kind of value the code gives it.
THEOREM TypeCorrect == Spec => []TypeOK
<1>1. IInv => TypeOK
  BY DEF IInv
<1> QED
  BY InitIInv, StepIInv, <1>1, PTL DEF Spec

\* No two runs ever work with the same address (allocate_ip and release_ip
\* under network_lock), for any number of processes and crashes.
THEOREM AddressesUnique == Spec => []UniqueAddresses
<1>1. ASSUME IInv PROVE UniqueAddresses
  <2> SUFFICES ASSUME NEW p \in Runs, NEW q \in Runs, p # q, p[1] \notin Cleaned,
                      q[1] \notin Cleaned, address[p] = address[q], address[p] # None
               PROVE  FALSE
    BY DEF UniqueAddresses
  <2>1. p[1] \in Containers /\ q[1] \in Containers /\ p[1] # q[1]
    BY DEF Runs
  <2>2. allocations[p[1]] = address[p] /\ allocations[q[1]] = address[q]
    BY <1>1 DEF IInv, Recorded
  <2> QED
    BY <1>1, <2>1, <2>2 DEF IInv, FileUnique
<1> QED
  BY InitIInv, StepIInv, <1>1, PTL DEF Spec

(***************************************************************************)
(* Every step of the network code is a step of the pool, or leaves it      *)
(* alone.                                                                  *)
(***************************************************************************)
LEMMA StepPool == IInv /\ [Next]_vars => [Pool!Next]_allocations
<1> SUFFICES ASSUME IInv, Next, allocations' # allocations PROVE Pool!Next
  BY DEF vars
<1> USE NetworkAssumption
<1>1. ASSUME NEW p \in Procs, AllocateIp(p)
      PROVE  Pool!Next
  <2>1. p[1] \in Containers /\ snapshot[p] = allocations
    BY <1>1, ContainerOf DEF AllocateIp, IInv, SnapshotCurrent, Critical
  <2>2. PICK a \in FreeIn(allocations) :
          allocations[p[1]] = None /\ allocations' = [allocations EXCEPT ![p[1]] = a]
    BY <1>1, <2>1 DEF AllocateIp
  <2>3. a \in Hosts \ {Gateway} /\ \A d \in Containers : allocations[d] # a
    BY DEF FreeIn
  <2>4. Pool!Acquire(p[1], a)
    BY <2>2, <2>3 DEF Pool!Acquire, None, Pool!None
  <2> QED
    BY <2>1, <2>3, <2>4 DEF Pool!Next
<1>2. ASSUME NEW p \in Procs, ReleaseIp(p)
      PROVE  Pool!Next
  <2>1. p[1] \in Containers /\ snapshot[p] = allocations /\ allocations \in Maps
    BY <1>2, ContainerOf DEF ReleaseIp, IInv, SnapshotCurrent, Critical, TypeOK
  <2>2. allocations' = [allocations EXCEPT ![p[1]] = None]
    BY <1>2, <2>1 DEF ReleaseIp
  <2>3. allocations[p[1]] # None
    BY <2>1, <2>2 DEF Maps
  <2>4. Pool!GiveBack(p[1])
    BY <2>2, <2>3 DEF Pool!GiveBack, None, Pool!None
  <2> QED
    BY <2>1, <2>4 DEF Pool!Next
<1>3. ASSUME NEW p \in Runs, Run(p)
      PROVE  Pool!Next
  BY <1>1, <1>2, <1>3 DEF Run, Procs, LockedRead, SetupVeth, Record, SetupFails,
                          StreamEnds, DeleteVeth
<1>4. ASSUME NEW p \in Cleans, Clean(p)
      PROVE  Pool!Next
  BY <1>2, <1>4 DEF Clean, Procs, LockedRead, CleanBegins, DeleteVeth
<1> QED
  BY <1>3, <1>4 DEF Next, Crash, NamespaceGone

\* The allocations of axis0.json implement AddressPool: at most one address
\* for a container, never the gateway, and never a change of an address that
\* is held other than its release.
THEOREM NetworkImplementsPool == Spec => ImplementsPool
<1>1. Init => Pool!Init
  BY DEF Init, NoAddresses, None, Pool!Init, Pool!None
<1>2. IInv /\ [Next]_vars => [Pool!Next]_allocations
  BY StepPool
<1> QED
  BY InitIInv, StepIInv, <1>1, <1>2, PTL DEF Spec, ImplementsPool, Pool!Spec

\* allocate_ip gives up only when no address is free at that moment.
THEOREM ExhaustionIsReal == Spec => NoFalseExhaustion
<1>1. IInv /\ [Next]_vars
        => [\A p \in Runs : pc[p] # "exhausted" /\ pc'[p] = "exhausted"
                             => FreeIn(allocations) = {}]_vars
  <2> SUFFICES ASSUME IInv, Next, NEW p \in Runs, pc[p] # "exhausted", pc'[p] = "exhausted"
               PROVE  FreeIn(allocations) = {}
    OBVIOUS
  <2>1. p \in Procs /\ pc \in [Procs -> Labels]
    BY DEF Procs, IInv, TypeOK
  <2>2. AllocateIp(p)
    BY <2>1 DEF Next, Run, Clean, Goto, Procs, LockedRead, AllocateIp, SetupVeth, Record,
                SetupFails, StreamEnds, DeleteVeth, ReleaseIp, CleanBegins, Crash,
                NamespaceGone
  <2>3. snapshot[p] = allocations
    BY <2>1, <2>2 DEF AllocateIp, IInv, SnapshotCurrent, Critical
  <2> QED
    BY <2>1, <2>2, <2>3 DEF AllocateIp, Goto
<1> QED
  BY InitIInv, StepIInv, <1>1, PTL DEF Spec, NoFalseExhaustion

(***************************************************************************)
(* The veth pairs.  That no two carry the same address needs, beyond the   *)
(* invariant above, that none outlives the allocation of its address.      *)
(***************************************************************************)
LEMMA StepCarried == IInv /\ Carried /\ [Next]_vars => Carried'
<1> SUFFICES ASSUME IInv, Carried, [Next]_vars, NEW c \in Containers \ Cleaned
             PROVE  CarriedBy(c)'
  BY DEF Carried
<1> DEFINE run == <<c, "run">>
<1>0. /\ run \in Runs /\ run \in Procs /\ run[1] = c
      /\ pc \in [Procs -> Labels] /\ iface \in Maps /\ allocations \in Maps
      /\ \A p \in Procs : p[1] = c => p = run
  BY DEF Runs, Procs, Cleans, IInv, TypeOK
<1> HIDE DEF run
<1>1. /\ CarriedBy(c)
      /\ CarriedBy(c)' <=> (iface'[c] # None /\ c \notin stuck' => /\ allocations'[c] = iface'[c]
                                               /\ pc'[run] \notin {"unlinked", "release"})
      /\ CarriedBy(c) <=> (iface[c] # None /\ c \notin stuck => /\ allocations[c] = iface[c]
                                             /\ pc[run] \notin {"unlinked", "release"})
  BY DEF Carried, CarriedBy, run
<1>2. ASSUME UNCHANGED <<iface, allocations, stuck>>,
             pc'[run] \in {"unlinked", "release"} => pc[run] \in {"unlinked", "release"}
      PROVE  CarriedBy(c)'
  BY <1>1, <1>2
<1>3. ASSUME NEW p \in Procs, LockedRead(p, "idle", "allocate")
      PROVE  CarriedBy(c)'
  BY <1>0, <1>2, <1>3 DEF LockedRead, Goto
<1>4. ASSUME NEW p \in Procs, LockedRead(p, "unlinked", "release")
      PROVE  CarriedBy(c)'
  BY <1>0, <1>2, <1>4 DEF LockedRead, Goto
<1>5. ASSUME NEW p \in Procs, AllocateIp(p)
      PROVE  CarriedBy(c)'
  <2>1. p[1] \in Containers /\ snapshot[p] = allocations
    BY <1>5, ContainerOf DEF AllocateIp, IInv, SnapshotCurrent, Critical
  <2>2. /\ UNCHANGED <<iface, stuck>>
        /\ pc'[run] \in {"unlinked", "release"} => pc[run] \in {"unlinked", "release"}
    BY <1>0, <1>5 DEF AllocateIp, Goto
  <2>3. \/ UNCHANGED allocations
        \/ /\ allocations[p[1]] = None
           /\ \E a : allocations' = [allocations EXCEPT ![p[1]] = a]
    BY <1>5, <2>1 DEF AllocateIp
  <2> QED
    BY <1>0, <1>1, <2>1, <2>2, <2>3 DEF Maps
<1>6. ASSUME NEW p \in Procs, ReleaseIp(p)
      PROVE  CarriedBy(c)'
  <2>1. /\ p[1] \in Containers /\ pc[p] = "release" /\ UNCHANGED <<iface, stuck>>
        /\ allocations' = [allocations EXCEPT ![p[1]] = None]
    BY <1>6, ContainerOf DEF ReleaseIp, IInv, SnapshotCurrent, Critical
  <2>2. CASE p = run
    BY <1>1, <2>1, <2>2
  <2>3. CASE p # run
    <3>1. p[1] # c
      BY <1>0, <2>3
    <3>2. pc'[run] = pc[run]
      BY <1>0, <1>6, <2>3 DEF ReleaseIp, Goto
    <3> QED
      BY <1>0, <1>1, <2>1, <3>1, <3>2 DEF Maps
  <2> QED
    BY <2>2, <2>3
<1>7. ASSUME NEW p \in Procs, SetupVeth(p)
      PROVE  CarriedBy(c)'
  <2>1. /\ p[1] \in Containers /\ UNCHANGED allocations
        /\ iface' = [iface EXCEPT ![p[1]] = address[p]] /\ stuck' = stuck \ {p[1]}
        /\ pc' = [pc EXCEPT ![p] = "record"]
    BY <1>7, ContainerOf DEF SetupVeth, Goto
  <2>2. CASE p = run
    BY <1>0, <1>1, <2>1, <2>2 DEF IInv, Recorded, Maps
  <2>3. CASE p # run
    BY <1>0, <1>1, <2>1, <2>3 DEF Maps
  <2> QED
    BY <2>2, <2>3
<1>8. ASSUME NEW p \in Procs, DeleteVeth(p)
      PROVE  CarriedBy(c)'
  <2>1. /\ p[1] \in Containers /\ UNCHANGED allocations
        /\ \/ iface' = [iface EXCEPT ![p[1]] = None] /\ stuck' = stuck \ {p[1]}
           \/ UNCHANGED iface /\ stuck' = stuck \cup {p[1]}
        /\ pc' = [pc EXCEPT ![p] = "unlinked"]
    BY <1>8, ContainerOf DEF DeleteVeth, Goto
  <2> QED
    BY <1>0, <1>1, <2>1 DEF Maps
<1>9. ASSUME NEW p \in Procs,
             Record(p) \/ SetupFails(p) \/ StreamEnds(p) \/ CleanBegins(p) \/ Crash(p)
      PROVE  CarriedBy(c)'
  BY <1>0, <1>2, <1>9 DEF Record, SetupFails, StreamEnds, CleanBegins, Crash, Goto
<1>10. ASSUME NEW d \in Containers, NamespaceGone(d)
       PROVE  CarriedBy(c)'
  BY <1>0, <1>1, <1>10 DEF NamespaceGone, Maps
<1>11. ASSUME UNCHANGED vars
       PROVE  CarriedBy(c)'
  BY <1>2, <1>11 DEF vars
<1>12. ASSUME NEW p \in Runs, Run(p)
       PROVE  CarriedBy(c)'
  <2>1. p \in Procs
    BY DEF Procs
  <2> QED
    BY <2>1, <1>3, <1>4, <1>5, <1>6, <1>7, <1>8, <1>9, <1>12 DEF Run
<1>13. ASSUME NEW p \in Cleans, Clean(p)
       PROVE  CarriedBy(c)'
  <2>1. p \in Procs
    BY DEF Procs
  <2> QED
    BY <2>1, <1>4, <1>6, <1>8, <1>9, <1>13 DEF Clean
<1> QED
  BY <1>9, <1>10, <1>11, <1>12, <1>13 DEF Next

\* No two veth pairs carry the same address, for any number of containers,
\* crashes and failures of setup_network, but for the veths `ip link delete` has
\* failed on (cleanup_network deletes the veth, then releases the address).
THEOREM InterfacesUnique == Spec => []UniqueInterfaces
<1>1. Init => Carried
  BY DEF Init, Carried, CarriedBy, NoAddresses
<1>2. IInv /\ Carried => UniqueInterfaces
  BY DEF IInv, FileUnique, Carried, CarriedBy, UniqueInterfaces
<1> QED
  BY InitIInv, StepIInv, StepCarried, <1>1, <1>2, PTL DEF Spec

=============================================================================
