----------------------------- MODULE MCWorkflow -----------------------------
(* Two processes on one state directory, started up to MaxStarts times. *)
EXTENDS Workflow, TLC

CONSTANTS p1, p2

Processes == Permutations({p1, p2})
=============================================================================
