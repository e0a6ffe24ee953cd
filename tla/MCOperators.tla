---------------------------- MODULE MCOperators ----------------------------
(* Two requests at a time; one account, and a username without one. *)
EXTENDS Operators, TLC

CONSTANTS q1, q2, t1, t2

Alike == Permutations({q1, q2}) \cup Permutations({t1, t2})
=============================================================================
