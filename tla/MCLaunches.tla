----------------------------- MODULE MCLaunches ------------------------------
(***************************************************************************)
(* The instances of Launches that TLC checks.                              *)
(***************************************************************************)
EXTENDS Launches
=============================================================================
