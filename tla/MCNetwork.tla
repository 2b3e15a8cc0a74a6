------------------------------ MODULE MCNetwork ------------------------------
(***************************************************************************)
(* The instance of Network that TLC checks.                                *)
(***************************************************************************)
EXTENDS Network
=============================================================================
