----------------------------- MODULE MCGateway -----------------------------
(***************************************************************************)
(* A refund, which needs an approval, beside another call: the same refund *)
(* (a retry), a lookup, a call with a defect, or one that selects nothing  *)
(* the mapping can use.                                                    *)
(***************************************************************************)
EXTENDS Gateway, TLC

CONSTANTS c1, c2, ord1, ord2

ToolAction == [refund |-> "refunds.create", lookup |-> "orders.read"]
\* A string, an array with a repeated id, one with a wildcard, another value.
Selected == {ord1, <<ord2, ord1, ord2>>, <<ord1, Junk>>, None}
Refund == [tool |-> "refund", defect |-> None, value |-> ord1]
Lookup == [tool |-> "lookup", defect |-> None, value |-> <<ord2, ord1, ord2>>]
MCSent ==
    c1 :> {Refund} @@
    c2 :> ({Refund, Lookup}
            \cup {[Refund EXCEPT !.defect = d] : d \in Defects}
            \cup {[Lookup EXCEPT !.value = v] : v \in {<<ord1, Junk>>, None}})
MCApprovable == {[action |-> "refunds.create", value |-> ord1]}
=============================================================================
