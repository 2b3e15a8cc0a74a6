----------------------------- MODULE MCRegistry ------------------------------
(***************************************************************************)
(* The instance of Registry that TLC checks: two containers of one name,   *)
(* and a name that no container has.                                       *)
(***************************************************************************)
EXTENDS Registry
CONSTANTS a, b, web, api
MCName == [r \in {a, b} |-> web]
=============================================================================
