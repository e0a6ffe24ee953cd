---------------------------- MODULE MCAuditChain ----------------------------
(***************************************************************************)
(* Instance of AuditChain: a root and a child, three events, two changes   *)
(* from outside.  Documents differ by their ids, so clients send one body, *)
(* and the other comes from outside.  One reading of the clock is enough:  *)
(* an odd one, which is not a whole number of microseconds; an even one    *)
(* makes the same rows.                                                    *)
(***************************************************************************)
EXTENDS AuditChain
LOCAL INSTANCE TLC

Interchangeable == Permutations(EnvIds)
=============================================================================
