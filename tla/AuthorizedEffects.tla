------------------------- MODULE AuthorizedEffects -------------------------
(***************************************************************************)
(* What the gateway promises: a tool has an effect only after an           *)
(* authorization that was committed for that very operation, once per      *)
(* authorization; and an operation that needs an operator's approval is    *)
(* authorized at most once per approval.                                   *)
(***************************************************************************)
EXTENDS Naturals, Sequences

CONSTANTS Ids, Operations, Guarded

VARIABLES
    unused,         \* approvals of each operation not yet spent
    allowed,        \* the operation that each authorization is for
    effects         \* the effects, in order

Init ==
    /\ unused = [op \in Operations |-> 0]
    /\ allowed = [id \in {} |-> Operations]
    /\ effects = << >>

Approve(op) ==
    /\ unused' = [unused EXCEPT ![op] = @ + 1]
    /\ UNCHANGED <<allowed, effects>>

Allow(id, op) ==
    /\ id \notin DOMAIN allowed
    /\ allowed' = [i \in DOMAIN allowed \cup {id} |-> IF i = id THEN op ELSE allowed[i]]
    /\ IF op \in Guarded
         THEN unused[op] > 0 /\ unused' = [unused EXCEPT ![op] = @ - 1]
         ELSE UNCHANGED unused
    /\ UNCHANGED effects

Effect(id) ==
    /\ id \in DOMAIN allowed
    /\ \A k \in 1..Len(effects) : effects[k].id # id
    /\ effects' = Append(effects, [id |-> id, op |-> allowed[id]])
    /\ UNCHANGED <<unused, allowed>>

Next ==
    \/ \E op \in Operations : Approve(op)
    \/ \E id \in Ids : Effect(id) \/ \E op \in Operations : Allow(id, op)

Spec == Init /\ [][Next]_<<unused, allowed, effects>>
=============================================================================
