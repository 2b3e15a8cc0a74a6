----------------------------- MODULE AxisClaims -----------------------------
(***************************************************************************)
(* What the documents under docs/ say of a container and its commands,     *)
(* where the code does otherwise.  Each formula is the sentence quoted     *)
(* above it; a run of its own shows the behaviour that breaks it.          *)
(***************************************************************************)
EXTENDS Axis

\* docs/SPECS.md:202, "`axis stop` or Ctrl-C marks manual stop and prevents
\* another restart": once a stop of a container that has been launched has
\* succeeded, nothing more is launched.
StopPreventsRestart ==
  [][(\E p \in Stops : pc[p] = "stopDone") /\ starts > 0 => starts' = starts]_vars

\* docs/Workflow.md:114, "Marks stale running PIDs as failed": with nothing but
\* a reconcile beside it, a run in which no step fails does not fail.
ReconcileHarmless == pc[Run] # "raised"

=============================================================================
