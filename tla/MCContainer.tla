----------------------------- MODULE MCContainer -----------------------------
(***************************************************************************)
(* The instances of Container that TLC checks.                             *)
(***************************************************************************)
EXTENDS Container
=============================================================================
