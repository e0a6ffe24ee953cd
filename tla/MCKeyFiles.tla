----------------------------- MODULE MCKeyFiles -----------------------------
(* Four runs of keygen under one prefix. *)
EXTENDS KeyFiles, TLC

CONSTANTS k1, k2, k3, k4

Alike == Permutations(Runs)
=============================================================================
