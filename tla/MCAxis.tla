------------------------------- MODULE MCAxis -------------------------------
(***************************************************************************)
(* The instances of Axis that TLC checks: the .cfg files give the          *)
(* processes, ports and faults; no definition is replaced.                 *)
(***************************************************************************)
EXTENDS AxisClaims
=============================================================================
