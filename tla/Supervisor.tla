----------------------------- MODULE Supervisor -----------------------------
(***************************************************************************)
(* What the foreground supervision of src/axis/cli.py promises of the      *)
(* processes of one container: they are launched one at a time, each after *)
(* the one before it is gone.                                              *)
(***************************************************************************)
EXTENDS Naturals

VARIABLES
  launched,  \* how many have been launched
  alive      \* those that exist

supervisorVars == <<launched, alive>>

Init == launched = 0 /\ alive = {}

Launch ==
  /\ alive = {}
  /\ launched' = launched + 1
  /\ alive' = {launched'}

End ==
  /\ alive # {}
  /\ alive' = {}
  /\ UNCHANGED launched

Next == Launch \/ End

Spec == Init /\ [][Next]_supervisorVars

=============================================================================
