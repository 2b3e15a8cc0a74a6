---------------------------- MODULE AddressPool -----------------------------
(***************************************************************************)
(* What src/axis/network.py promises about addresses: every container      *)
(* holds at most one, no two containers hold the same, the gateway is      *)
(* nobody's, and an address that is held changes only by being released.   *)
(***************************************************************************)
EXTENDS Naturals

CONSTANTS
  Containers,  \* container ids
  Hosts,       \* the host addresses of the subnet, as numbers
  Gateway      \* the address of the bridge

VARIABLE held  \* the address of each container, None when it has none

None == 0

Init == held = [c \in Containers |-> None]

Acquire(c, a) ==
  /\ held[c] = None
  /\ a \in Hosts \ {Gateway}
  /\ \A d \in Containers : held[d] # a
  /\ held' = [held EXCEPT ![c] = a]

GiveBack(c) ==
  /\ held[c] # None
  /\ held' = [held EXCEPT ![c] = None]

Next == \E c \in Containers : GiveBack(c) \/ \E a \in Hosts : Acquire(c, a)

Spec == Init /\ [][Next]_held

=============================================================================
