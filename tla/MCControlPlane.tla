--------------------------- MODULE MCControlPlane ---------------------------
(***************************************************************************)
(* One run: a root for support, a child for billing, a grandchild, and     *)
(* drafts that are refused for different rules.                            *)
(***************************************************************************)
EXTENDS ControlPlane, TLC

CONSTANTS e1, e2, e3, o1, o2

MCCelValue(c, args) == "error"

Over(n) == [op |-> ">", root |-> "refund", name |-> "amount", n |-> n]
MCConditions == {Over(0), Over(1), Over(2)}
Manager(n) == [role |-> "refund_manager", cond |-> Over(n)]

Args(order, halves) ==
    [numbers |-> [amount |-> halves], order |-> order, extra |-> FALSE]
NoAmount == [numbers |-> [x \in {} |-> 0], order |-> <<o1>>, extra |-> FALSE]
Small == Args(<<o1>>, 2)
Big   == Args(<<o1>>, 6)
MCArguments == {Small, Big, NoAmount}

Root == [id |-> Blank, parent |-> Blank, version |-> Blank,
         issuer |-> "user", recipient |-> "support",
         purpose |-> "refund", policy_version |-> "v1",
         allowed |-> {"refunds.create"}, denied |-> {}, data |-> {"payment"},
         resources |-> [orders |-> {<<Star>>}], approvals |-> {Manager(1)},
         max |-> 2, depth |-> 0, expand |-> FALSE, expires |-> 2]
Child == [Root EXCEPT !.issuer = "support", !.recipient = "billing", !.depth = 1,
                      !.resources = [orders |-> {<<o1>>}]]
Wider == [Child EXCEPT !.approvals = {Manager(2)}, !.resources = [orders |-> {<<Star>>}]]
GrandChild == [Child EXCEPT !.issuer = "billing", !.depth = 2, !.expires = 1,
                            !.approvals = {Manager(0)}]

MCResourceMaps == {Root.resources, Child.resources}
MCRootDrafts == {Root, [Root EXCEPT !.max = 5]}

Order(o) == <<"orders", <<o>>>>
Ask(os, args) == [agent |-> "billing", tool |-> "refunds.create",
                  resources |-> {Order(o) : o \in os}, data |-> {"payment"},
                  args |-> args]
Request(o, args, op, expires) ==
    [action |-> "refunds.create", resource |-> Order(o), args |-> args,
     operator |-> op, role |-> IF op = Blank THEN "refund_manager" ELSE Blank,
     expires |-> expires]

\* Delegation: a chain of three, siblings and refused drafts.
DelegationDrafts == {[Child EXCEPT !.expires = 1], Wider, GrandChild}
DelegationActions == {Ask({o1}, Small), Ask({o2}, Small)}
DelegationApprovals == {Request(o1, Big, "mia", 1)}

\* Approval: one delegation; approvals by operators and, in the legacy mode, by
\* the service token; operations of the root and of the child, on one resource
\* and on two.
ApprovalRoots == {Root}
ApprovalDrafts == {Child}
BySupport(req) == [req EXCEPT !.agent = "support"]
ApprovalActions == {Ask({o1}, Big), BySupport(Ask({o1, o2}, Big))}
ApprovalAsks == {Request(o1, Big, "mia", 1), Request(o1, Big, Blank, 2),
                 Request(o2, Big, Blank, 2)}

Ids == Permutations(EnvIds)
=============================================================================
