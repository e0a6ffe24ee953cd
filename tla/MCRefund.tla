------------------------------ MODULE MCRefund ------------------------------
(* A refund that needs an approval and one that does not. *)
EXTENDS Refund, TLC

CONSTANTS p1, p2

Processes == Permutations({p1, p2})
=============================================================================
