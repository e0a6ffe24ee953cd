----------------------------- MODULE PolicyChain -----------------------------
(***************************************************************************)
(* What the policy engine promises, over chains of envelopes: `chain` is a *)
(* root and the children that Diff allowed one after the other, with no    *)
(* server around them.  Drafts are the constraints a client may propose    *)
(* for a child; id, parent and version are filled in as evaluateHandoff    *)
(* fills them (server/envelopes.go:172-180).                               *)
(***************************************************************************)
EXTENDS Policy

CONSTANTS
    Roots,          \* envelopes a chain may start with
    Drafts,         \* child envelopes without id, parent and depth
    MaxChain,       \* bound: envelopes in a chain
    Ids, Arguments, \* bounded requests: resource ids, and arguments
    Times           \* the times a request may be evaluated at

ASSUME ChainInputs ==
    /\ Roots \subseteq Envelope /\ Drafts \subseteq Envelope
    /\ \A r \in Roots : r.id = 1
    /\ MaxChain \in Nat \ {0} /\ 1..MaxChain + 1 \subseteq EnvIds
    /\ Ids \subseteq Scope
    /\ Times \subseteq Int
    /\ \A args \in Arguments : DOMAIN args \subseteq Names /\ args \in [DOMAIN args -> Int]
    /\ \A c \in Conditions, args \in Arguments :
          CelValue(c, args) \in {"true", "false", "error"}

VARIABLE chain

Last == chain[Len(chain)]

\* The root was validated when it was created, at time 0.
Init == \E r \in {x \in Roots : Validate(x, 0)} : chain = <<r>>

\* The child a client makes of draft d below envelope p.
Complete(d, p) ==
    [d EXCEPT !.id = Len(chain) + 1, !.parent = p.id, !.version = "1"]

Extend(d) ==
    /\ Len(chain) < MaxChain
    /\ Decision(Diff(Last, Complete(d, Last), 0)) = "ALLOW"
    /\ chain' = Append(chain, Complete(d, Last))

Next == \E d \in Drafts : Extend(d)

Spec == Init /\ [][Next]_chain

-----------------------------------------------------------------------------
(* The meaning of an envelope, independent of Diff: what it permits        *)
(* (server/actions.go:147-168) and which roles it may require.             *)

Permits(e, tool, cat, id, class, t) ==
    /\ tool \in e.allowed /\ tool \notin e.denied
    /\ ResourceAllowed(Scopes(e, cat), id)
    /\ class \in e.data
    /\ t < e.expires

\* The roles of the conditions that are not known to be false for args.
Obliged(e, args) ==
    {a.role : a \in {x \in e.approvals : Value(x.cond, args) # "false"}}

\* No envelope permits a request that some ancestor does not permit, however
\* many delegations lie between them (Diff, policy.go:64-102).
NoAuthorityGained ==
    \A j \in 1..Len(chain) : \A i \in 1..j - 1 :
        \A tool \in Tools, cat \in Categories, id \in Ids,
           class \in DataClasses, t \in Times :
            Permits(chain[j], tool, cat, id, class, t)
                => Permits(chain[i], tool, cat, id, class, t)

\* A request whose conditions evaluate under an envelope requires every role
\* that any ancestor's conditions do not rule out, an ancestor's evaluation
\* error included (preserves, conditions.go:84-102; RequiredRoles fails closed).
NoObligationLost ==
    \A j \in 1..Len(chain) : \A i \in 1..j - 1 : \A args \in Arguments :
        \/ ConditionError(chain[j].approvals, args)
        \/ Obliged(chain[i], args) \subseteq RequiredRoles(chain[j].approvals, args)

\* A holder can always pass on exactly what it has: the verbatim copy of an
\* envelope, one level deeper and issued by its recipient, is allowed while
\* depth remains.
VerbatimCopyIsAllowed ==
    Last.depth < Last.max =>
        Diff(Last, [Last EXCEPT !.id = Len(chain) + 1, !.parent = Last.id,
                                !.issuer = Last.recipient,
                                !.depth = Last.depth + 1], 0) = {}

\* Refusals are not gratuitous: RESOURCE_EXPANDED means that the draft covers
\* a concrete id its parent does not, and two thresholds on the same field in
\* the same direction are refused only if some amount meets the parent's alone;
\* and a verbatim copy is not refused at all (covers, policy.go:204-209).
RefusalsAreExact ==
    /\ VerbatimCopyIsAllowed
    /\ \A d \in Drafts :
           LET c == Complete(d, Last)
               v == Diff(Last, c, 0) IN
           /\ "RESOURCE_EXPANDED" \in v =>
                 \E cat \in Categories, id \in Ids :
                     /\ ResourceAllowed(Scopes(c, cat), id)
                     /\ ~ResourceAllowed(Scopes(Last, cat), id)
           /\ \A p \in Last.approvals, a \in c.approvals :
                 /\ p.cond.root = a.cond.root /\ p.cond.name = a.cond.name
                 /\ \/ {p.cond.op, a.cond.op} \subseteq Above
                    \/ {p.cond.op, a.cond.op} \subseteq Below
                 /\ ~Preserves(p.cond, a.cond)
                 => \E args \in Arguments :
                       Value(p.cond, args) = "true" /\ Value(a.cond, args) = "false"
=============================================================================
