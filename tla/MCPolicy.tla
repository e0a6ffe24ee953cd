------------------------------ MODULE MCPolicy ------------------------------
(* Two families of chains, told apart by what the drafts allow: one over    *)
(* every small choice of actions, data classes and scopes, and one over     *)
(* approval conditions: every threshold form, true, false, an opaque CEL    *)
(* expression and text that does not compile.                               *)
EXTENDS PolicyChain

CONSTANTS sa, sb, t1, t2, pay

Segs == {sa, sb}
MCIds == {<<x>> : x \in Segs} \cup {<<x, y>> : x \in Segs, y \in Segs}
           \cup {<<sa, sa, sa>>, <<sa, sb, sa>>, <<sb, sa, sb>>}
           \cup {<<sa, Star>>, <<Wild>>}
Patterns == {<<Star>>, <<sa>>, <<sa, sb>>, <<sa, Star>>, <<sb, Star>>, <<sa, sb, Star>>,
             <<Star, sa>>, <<Wild>>}

Nothing == [x \in {} |-> {}]
RootMaps == {[orders |-> {<<Star>>}], [orders |-> {<<sa, Star>>, <<sb>>}],
             [orders |-> {<<Wild>>}]}
ChildMaps == {[orders |-> {p}] : p \in Patterns} \cup
             {[orders |-> {<<sa, sb>>, <<sb>>}], [customers |-> {<<sa>>}]}
MCResourceMaps == RootMaps \cup ChildMaps \cup {Nothing}

Condition(op, root, name, n) == [op |-> op, root |-> root, name |-> name, n |-> n]
MCConditions ==
    {Condition(op, "refund", "amount", n) : op \in Above \cup Below, n \in {1, 2}}
    \cup {Condition(op, "", "", 0) : op \in {"true", "false", "cel", "malformed"}}
    \cup {Condition(">", "order", "amount", 1)}

\* An expression such as has(request.note): true of one argument object,
\* an error for the object without an amount.
MCCelValue(c, args) ==
    IF DOMAIN args = {} THEN "error" ELSE IF args.amount = 3 THEN "true" ELSE "false"

\* Amounts 0, 1/2, 1, ... 3 in halves, and an object without an amount.
MCArguments == {[amount |-> v] : v \in 0..6} \cup {[x \in {} |-> 0]}

Base == [id |-> 1, parent |-> Blank, version |-> "1",
         issuer |-> "support", recipient |-> "support",
         purpose |-> "refund", policy_version |-> "v1",
         allowed |-> {t1, t2}, denied |-> {}, data |-> {pay},
         resources |-> [orders |-> {<<Star>>}], approvals |-> {},
         max |-> 2, depth |-> 0, expand |-> FALSE, expires |-> 2]
Paid(approvals, depth) ==
    [Base EXCEPT !.allowed = {"pay"}, !.data = {}, !.resources = Nothing,
                 !.approvals = approvals, !.depth = depth]

Approvals(roles) == {[role |-> r, cond |-> c] : r \in roles, c \in MCConditions}
Always(role) == [role |-> role, cond |-> Condition("true", "", "", 0)]

MCRoots == {[Base EXCEPT !.resources = r, !.max = m] : r \in RootMaps, m \in {1, 2}}
           \cup {Paid({x}, 0) : x \in Approvals({"manager"})}

MCDrafts ==
    {[Base EXCEPT !.allowed = x, !.denied = y, !.data = z, !.resources = r,
                  !.depth = d, !.max = 2, !.expires = e] :
        x \in {{t1}, {t1, t2}}, y \in SUBSET {t1}, z \in SUBSET {pay},
        r \in ChildMaps, d \in 0..2, e \in 1..3}
    \cup {[Base EXCEPT !.depth = 1, !.expand = TRUE],
          [Base EXCEPT !.depth = 1, !.max = 1, !.issuer = "billing"],
          [Base EXCEPT !.depth = 1, !.max = 1]}
    \cup {Paid({x} \cup y, d) :
            x \in Approvals({"manager", "auditor"}),
            y \in {{}, {Always("auditor")}, {Always(Blank)}}, d \in {1, 2}}
=============================================================================
