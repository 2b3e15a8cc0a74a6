------------------------------ MODULE MCProxy -------------------------------
(***************************************************************************)
(* The instance of Proxy that TLC checks: on one connection the client     *)
(* writes more than a recv takes and more than a socket buffers, and the   *)
(* container answers once; the other connection competes for main.         *)
(***************************************************************************)
EXTENDS Proxy

Busy == CHOOSE k \in Conns : TRUE

MCMaxSent ==
  [s \in Streams |-> IF s[1] # Busy THEN 0 ELSE IF s[2] = "up" THEN 3 ELSE 1]

MCLeavers == {Busy} \X Dirs

=============================================================================
