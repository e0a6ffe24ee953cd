---------------------------- MODULE ControlPlane ----------------------------
(***************************************************************************)
(* The control API (internal/server) over its tables: envelopes are        *)
(* issued, delegated and revoked, exact operations are approved, and tool  *)
(* actions are authorised.  Each action of the specification is the one    *)
(* committed transaction of a handler; a handler that fails rolls back and *)
(* changes nothing.  store.Transaction takes one advisory lock, so the     *)
(* committed transactions are totally ordered.                             *)
(*                                                                         *)
(* Rows are numbered in commit order (the code gives them random ids).     *)
(* The document of an envelope is an envelope record of module Policy; its *)
(* run_id, parent_id and revoked_at columns are run, doc.parent, revoked.  *)
(***************************************************************************)
EXTENDS Policy, FiniteSets

CONSTANTS
    RunIds,
    ColonCategories,            \* the categories whose name contains ':'
    Arguments,                  \* argument objects: [numbers, order, extra]
    Operators, Managers,        \* accounts; those with role refund_manager
    RefundTool, OrderCategory, ManagerRole,
    AllowDemoApprovals,         \* the server flag --allow-demo-approvals
    MaxRootDepth,               \* 128: the deepest max_depth of a root
    MaxChain,                   \* 129: envelopes the walk of `active` visits
    MaxAmount,                  \* 2^53 - 1, in halves
    RootDrafts, ChildDrafts,    \* the documents clients send
    ApprovalRequests, ActionRequests,
    MaxClock, MaxHandoffs, MaxApprovals, MaxActions     \* bounds

VARIABLES
    clock,          \* time.Now(): a transaction reads it for its checks, and
                    \* again for the timestamp of its event
    runs,           \* runs
    envelopes,      \* id -> [doc, run, revoked]
    handoffs,       \* [run, parent, child, proposed, violations]
    approvals,      \* [envelope, action, resource, args, role, operator,
                    \*  expires, consumed]
    tool_actions,   \* [run, envelope, agent, tool, args, violations]
    violations,     \* the distinct [run, envelope, rule] rows
    audit_events    \* run -> its events in seq order

vars == <<clock, runs, envelopes, handoffs, approvals, tool_actions,
          violations, audit_events>>

Resource == Categories \X Scope

\* What a request to POST /v1/approvals and /v1/evaluate/action names beside
\* its envelope.
ApprovalRequest ==
    [action : Tools, resource : Resource, args : Arguments,
     operator : Operators \cup {Blank}, role : Roles \cup {Blank}, expires : Int]
ActionRequest ==
    [agent : Agents, tool : Tools, resources : SUBSET Resource,
     data : SUBSET DataClasses, args : Arguments]

ASSUME InputsAreDocuments ==
    /\ RootDrafts \subseteq Envelope /\ ChildDrafts \subseteq Envelope
    /\ ApprovalRequests \subseteq ApprovalRequest
    /\ ActionRequests \subseteq ActionRequest
ASSUME ArgumentsAreObjects ==
    \A args \in Arguments :
        /\ DOMAIN args.numbers \subseteq Names
        /\ args.numbers \in [DOMAIN args.numbers -> Int]
        /\ \A c \in Conditions :
              CelValue(c, args.numbers) \in {"true", "false", "error"}
ASSUME DepthBounds ==
    MaxRootDepth \in Nat /\ MaxChain \in Nat /\ MaxClock \in Nat /\ MaxActions \in Nat
ASSUME WalkReachesRoots == MaxRootDepth < MaxChain

-----------------------------------------------------------------------------
(* Reading the tables. *)

Saved == DOMAIN envelopes
Doc(id) == envelopes[id].doc
Parent(id) == Doc(id).parent
IsRoot(id) == Parent(id) = Blank

\* The envelopes that the walk from id along the parent references meets:
\* the least set that holds id and the parent of every child in it.
ParentClosed(S) == \A x \in S : ~IsRoot(x) => Parent(x) \in S
Ancestors(id) ==
    {a \in Saved : \A S \in SUBSET Saved : id \in S /\ ParentClosed(S) => a \in S}

\* What the walk checks of each envelope it meets: it is unrevoked, valid at
\* `now`, and a narrowing of its parent.
StillGood(a, now) ==
    /\ ~envelopes[a].revoked
    /\ Validate(Doc(a), now)
    /\ IF IsRoot(a) THEN Doc(a).depth = 0
       ELSE Diff(Doc(Parent(a)), Doc(a), now) = {}

\* Only the envelope itself is looked at.
Active_LeafOnly(id, now) == StillGood(id, now)

\* The walk gives up one envelope too early.
Active_ShortWalk(id, now) ==
    /\ Cardinality(Ancestors(id)) < MaxChain
    /\ \A a \in Ancestors(id) : StillGood(a, now)

\* The walk reaches a root within MaxChain envelopes, all of the same run.
Active(id, now) ==
    /\ Cardinality(Ancestors(id)) <= MaxChain
    /\ \E a \in Ancestors(id) : IsRoot(a)
    /\ \A a \in Ancestors(id) :
        envelopes[a].run = envelopes[id].run /\ StillGood(a, now)

-----------------------------------------------------------------------------
(* Writing them. *)

\* The columns id and run_id are exchanged.
Save_Swapped(id, run, doc) ==
    envelopes' = [x \in Saved \cup {run} |->
                    IF x = run THEN [doc |-> doc, run |-> id, revoked |-> FALSE]
                    ELSE envelopes[x]]

\* INSERT INTO envelopes.
Save(id, run, doc) ==
    envelopes' = [x \in Saved \cup {id} |->
                    IF x = id THEN [doc |-> doc, run |-> run, revoked |-> FALSE]
                    ELSE envelopes[x]]

\* The event is stamped with a second reading of the clock: time may have
\* passed since the handler took the `now` that its checks use.  (Its truncation
\* to microseconds is far below one unit of clock.)
appendAudit(run, event) ==
    /\ clock' \in clock..MaxClock
    /\ audit_events' = [audit_events EXCEPT ![run] = Append(@, event)]

\* The violations of the last decision replace those of the earlier ones.
recordViolations_LastOnly(run, id, codes) ==
    violations' = {v \in violations : v.envelope # id} \cup
                    {[run |-> run, envelope |-> id, rule |-> c] : c \in codes}

recordViolations(run, id, codes) ==
    violations' = violations \cup
                    {[run |-> run, envelope |-> id, rule |-> c] : c \in codes}

\* The defaults of an incomplete document.
WithVersion(doc) == IF doc.version = Blank THEN [doc EXCEPT !.version = "1"] ELSE doc

-----------------------------------------------------------------------------
(* The handlers. *)

Init ==
    /\ clock = 0
    /\ runs = {}
    /\ envelopes = [x \in {} |-> {}]
    /\ handoffs = << >> /\ approvals = << >> /\ tool_actions = << >>
    /\ violations = {}
    /\ audit_events = [r \in RunIds |-> << >>]

\* POST /v1/envelopes: a root for a new run.
Create(run, id, draft) ==
    LET v == [WithVersion(draft) EXCEPT !.id = id] IN
    /\ v.parent = Blank /\ v.depth = 0 /\ v.max <= MaxRootDepth
    /\ DOMAIN v.resources \cap ColonCategories = {}
    /\ Validate(v, clock)
    /\ run \notin runs
    /\ id \notin Saved
    /\ runs' = runs \cup {run}
    /\ Save(id, run, v)
    /\ appendAudit(run, [type |-> "envelope.created", timestamp |-> clock',
                         envelope |-> id])
    /\ UNCHANGED <<handoffs, approvals, tool_actions, violations>>

\* POST /v1/envelopes/{p}/delegate (persist) and /v1/evaluate/handoff.
EvaluateHandoff(p, id, draft, persist) ==
    LET child == [WithVersion(draft) EXCEPT
                    !.id = id, !.parent = IF @ = Blank THEN p ELSE @]
        run   == envelopes[p].run
        codes == Diff(Doc(p), child, clock)
                   \cup (IF Active(p, clock) THEN {} ELSE {"PARENT_INACTIVE"})
        saved == persist /\ codes = {} IN
    /\ Len(handoffs) < MaxHandoffs
    /\ IF saved THEN id \notin Saved /\ Save(id, run, child)
                ELSE UNCHANGED envelopes
    /\ handoffs' = Append(handoffs,
         [run |-> run, parent |-> p, child |-> IF saved THEN id ELSE Blank,
          proposed |-> id, violations |-> codes])
    /\ recordViolations(run, p, codes)
    /\ appendAudit(run, [type |-> "handoff.evaluated", timestamp |-> clock',
                         id |-> Len(handoffs) + 1, parent |-> p, envelope |-> id,
                         persisted |-> saved, violations |-> codes])
    /\ UNCHANGED <<runs, approvals, tool_actions>>

\* A repeated revocation is recorded again.
Revoke_Again(id) ==
    /\ envelopes' = [envelopes EXCEPT ![id].revoked = TRUE]
    /\ appendAudit(envelopes[id].run,
                   [type |-> "envelope.revoked", timestamp |-> clock', envelope |-> id])
    /\ UNCHANGED <<runs, handoffs, approvals, tool_actions, violations>>

\* POST /v1/envelopes/{id}/revoke: idempotent.
Revoke(id) ==
    /\ ~envelopes[id].revoked
    /\ envelopes' = [envelopes EXCEPT ![id].revoked = TRUE]
    /\ appendAudit(envelopes[id].run,
                   [type |-> "envelope.revoked", timestamp |-> clock', envelope |-> id])
    /\ UNCHANGED <<runs, handoffs, approvals, tool_actions, violations>>

\* An operator approves an exact refund: order_id and a positive integer
\* amount are the only arguments, and the resource is that order.
ExactRefund(req) ==
    /\ req.action = RefundTool
    /\ DOMAIN req.args.numbers = {"amount"} /\ ~req.args.extra
    /\ LET n == req.args.numbers["amount"] IN n > 0 /\ n <= MaxAmount /\ n % 2 = 0
    /\ req.args.order # Blank
    /\ req.resource = <<OrderCategory, req.args.order>>

Approves(row, e, req, role) ==
    /\ row.envelope = e /\ row.action = req.action /\ row.resource = req.resource
    /\ row.args = req.args /\ row.role = role

\* Only an approval still unused stands in the way of another.
AlreadyApproved_Unused(e, req, role) ==
    \E i \in 1..Len(approvals) :
        Approves(approvals[i], e, req, role) /\ ~approvals[i].consumed

\* An approval of the operation exists: consumed and expired ones count.
AlreadyApproved(e, req, role) ==
    \E i \in 1..Len(approvals) : Approves(approvals[i], e, req, role)

\* POST /v1/approvals: by a signed-in refund manager, or by the service token
\* in the legacy mode, which then asserts the approver's role.
Approve(e, req) ==
    LET byOperator == req.operator # Blank
        role == IF byOperator THEN ManagerRole ELSE req.role
        row == [envelope |-> e, action |-> req.action, resource |-> req.resource,
                args |-> req.args, role |-> role, operator |-> req.operator,
                expires |-> req.expires, consumed |-> FALSE] IN
    /\ Len(approvals) < MaxApprovals
    /\ IF byOperator
       THEN req.operator \in Managers /\ req.role = Blank /\ ExactRefund(req)
       ELSE AllowDemoApprovals /\ req.role # Blank
    /\ Active(e, clock)
    /\ req.expires > clock /\ req.expires <= Doc(e).expires
    /\ req.action \in Doc(e).allowed \ Doc(e).denied
    /\ ResourceAllowed(Scopes(Doc(e), req.resource[1]), req.resource[2])
    /\ \E a \in Doc(e).approvals : a.role = role
    /\ byOperator => ~AlreadyApproved(e, req, role)
    /\ approvals' = Append(approvals, row)
    /\ appendAudit(envelopes[e].run,
                   [type |-> "approval.created", timestamp |-> clock',
                    id |-> Len(approvals) + 1, envelope |-> e])
    /\ UNCHANGED <<runs, envelopes, handoffs, tool_actions, violations>>

\* The rules of an action that need no approval.
ActionViolations(e, req) ==
    LET doc == Doc(e)
        found == [ENVELOPE_INACTIVE |-> ~Active(e, clock),
                  AGENT_MISMATCH    |-> req.agent # doc.recipient,
                  ACTION_DENIED     |-> req.tool \notin doc.allowed \ doc.denied,
                  RESOURCE_DENIED   |->
                    \E r \in req.resources :
                        \/ r[1] \in ColonCategories
                        \/ ~ResourceAllowed(Scopes(doc, r[1]), r[2]),
                  RESOURCE_REQUIRED |-> req.resources = {},
                  DATA_DENIED       |-> ~(req.data \subseteq doc.data),
                  CONDITION_ERROR   |-> ConditionError(doc.approvals, req.args.numbers)]
    IN {code \in DOMAIN found : found[code]}

\* An approval of the same operation under another envelope counts.
Matching_AnyEnvelope(e, req, role, resource) ==
    {i \in 1..Len(approvals) :
        /\ approvals[i].action = req.tool
        /\ approvals[i].resource = resource
        /\ approvals[i].args = req.args
        /\ approvals[i].role = role
        /\ approvals[i].expires > clock
        /\ ~approvals[i].consumed}

\* A consumed approval counts again.
Matching_Reused(e, req, role, resource) ==
    {i \in 1..Len(approvals) :
        /\ approvals[i].envelope = e
        /\ approvals[i].action = req.tool
        /\ approvals[i].resource = resource
        /\ approvals[i].args = req.args
        /\ approvals[i].role = role
        /\ approvals[i].expires > clock}

\* The approvals that satisfy one required role on one resource.
Matching(e, req, role, resource) ==
    {i \in 1..Len(approvals) :
        /\ approvals[i].envelope = e
        /\ approvals[i].action = req.tool
        /\ approvals[i].resource = resource
        /\ approvals[i].args = req.args
        /\ approvals[i].role = role
        /\ approvals[i].expires > clock
        /\ ~approvals[i].consumed}

\* POST /v1/evaluate/action: one approval is taken for each required role and
\* resource, or the action is denied and none is.  Which of several matching
\* approvals is the oldest depends on when their transactions began, so any
\* may be taken.  The event's `decided`, the `now` of the decision, is not in the
\* code's event: there it is only the consumed_at of the approvals.
Action(e, req) ==
    LET run   == envelopes[e].run
        first == ActionViolations(e, req)
        needs == RequiredRoles(Doc(e).approvals, req.args.numbers) \X req.resources
        unmet == {n \in needs : Matching(e, req, n[1], n[2]) = {}}
        codes == IF first = {} /\ unmet # {} THEN {"APPROVAL_REQUIRED"} ELSE first IN
    /\ Len(tool_actions) < MaxActions
    /\ \E taken \in
            IF codes # {} THEN {{}}
            ELSE {{pick[n] : n \in needs} :
                    pick \in {f \in [needs -> 1..Len(approvals)] :
                        \A n \in needs : f[n] \in Matching(e, req, n[1], n[2])}} :
        /\ approvals' = [i \in 1..Len(approvals) |->
                            [approvals[i] EXCEPT !.consumed = @ \/ i \in taken]]
        /\ appendAudit(run, [type |-> "action.evaluated", timestamp |-> clock',
                             decided |-> clock, id |-> Len(tool_actions) + 1,
                             envelope |-> e, request |-> req,
                             violations |-> codes, consumed |-> taken])
    /\ tool_actions' = Append(tool_actions,
         [run |-> run, envelope |-> e, agent |-> req.agent, tool |-> req.tool,
          args |-> req.args, violations |-> codes])
    /\ recordViolations(run, e, codes)
    /\ UNCHANGED <<runs, envelopes, handoffs>>

Tick ==
    /\ clock < MaxClock
    /\ clock' = clock + 1
    /\ UNCHANGED <<runs, envelopes, handoffs, approvals, tool_actions,
                   violations, audit_events>>

Next ==
    \/ \E run \in RunIds, id \in EnvIds, d \in RootDrafts : Create(run, id, d)
    \/ \E p \in Saved, id \in EnvIds, d \in ChildDrafts, persist \in BOOLEAN :
          EvaluateHandoff(p, id, d, persist)
    \/ \E id \in Saved : Revoke(id)
    \/ \E e \in Saved, req \in ApprovalRequests : Approve(e, req)
    \/ \E e \in Saved, req \in ActionRequests : Action(e, req)
    \/ Tick

Spec == Init /\ [][Next]_vars

-----------------------------------------------------------------------------
(* Properties. *)

ActionRules == {"ENVELOPE_INACTIVE", "AGENT_MISMATCH", "ACTION_DENIED",
                "RESOURCE_DENIED", "RESOURCE_REQUIRED", "DATA_DENIED",
                "CONDITION_ERROR"}
Codes == DiffRules \cup ActionRules
           \cup {"INVALID_ENVELOPE", "PARENT_INACTIVE", "APPROVAL_REQUIRED"}

AuditEvent ==
    [type : {"envelope.created", "envelope.revoked"}, timestamp : 0..MaxClock,
     envelope : EnvIds]
    \cup [type : {"handoff.evaluated"}, timestamp : 0..MaxClock, id : Nat,
          parent : EnvIds, envelope : EnvIds, persisted : BOOLEAN,
          violations : SUBSET Codes]
    \cup [type : {"approval.created"}, timestamp : 0..MaxClock, id : Nat,
          envelope : EnvIds]
    \cup [type : {"action.evaluated"}, timestamp : 0..MaxClock,
          decided : 0..MaxClock, id : Nat, envelope : EnvIds,
          request : ActionRequest, violations : SUBSET Codes, consumed : SUBSET Nat]

HandoffRow == [run : runs, parent : Saved, child : Saved \cup {Blank},
               proposed : EnvIds, violations : SUBSET Codes]
ApprovalRow == [envelope : Saved, action : Tools, resource : Resource,
                args : Arguments, role : Roles \cup {ManagerRole},
                operator : Operators \cup {Blank}, expires : Int, consumed : BOOLEAN]
ActionRow == [run : runs, envelope : Saved, agent : Agents, tool : Tools,
              args : Arguments, violations : SUBSET Codes]
ViolationRow == [run : runs, envelope : Saved, rule : Codes]

\* Every variable holds rows of its table's type.
TypeOK ==
    /\ clock \in 0..MaxClock
    /\ runs \subseteq RunIds
    /\ Saved \subseteq EnvIds
    /\ envelopes \in [Saved -> [doc : Envelope, run : runs, revoked : BOOLEAN]]
    /\ handoffs \in Seq(HandoffRow)
    /\ approvals \in Seq(ApprovalRow)
    /\ tool_actions \in Seq(ActionRow)
    /\ violations \subseteq ViolationRow
    /\ audit_events \in [RunIds -> Seq(AuditEvent)]

Events(run) == {audit_events[run][k] : k \in 1..Len(audit_events[run])}
AllowedActions ==
    {ev \in UNION {Events(r) : r \in RunIds} :
        ev.type = "action.evaluated" /\ ev.violations = {}}

\* An allowed action was permitted, at the time it was decided, by every envelope
\* its own was delegated from, not only by the one it named (actions.go:141-168
\* looks at the leaf and at the liveness of the others).  The time recorded for
\* it may be later (audit.go:45), even after one of them expired.
GrantsAreCoveredByEveryAncestor ==
    \A ev \in AllowedActions : \A a \in Ancestors(ev.envelope) :
        /\ ev.decided < Doc(a).expires
        /\ ev.request.tool \in Doc(a).allowed \ Doc(a).denied
        /\ ev.request.data \subseteq Doc(a).data
        /\ ev.request.resources # {}
        /\ \A r \in ev.request.resources :
              ResourceAllowed(Scopes(Doc(a), r[1]), r[2])

\* For each role that any ancestor's conditions do not rule out for the
\* arguments, and each resource of the action, the action spent an approval
\* by that role of exactly this operation under its own envelope, unexpired when
\* the action was decided.
ObligationsOfEveryAncestorAreMet ==
    \A ev \in AllowedActions : \A a \in Ancestors(ev.envelope) :
        \A ap \in Doc(a).approvals :
            Value(ap.cond, ev.request.args.numbers) # "false" =>
                \A r \in ev.request.resources : \E i \in ev.consumed :
                    /\ approvals[i].role = ap.role
                    /\ approvals[i].envelope = ev.envelope
                    /\ approvals[i].action = ev.request.tool
                    /\ approvals[i].resource = r
                    /\ approvals[i].args = ev.request.args
                    /\ ev.decided < approvals[i].expires

\* An approval is consumed exactly when one allowed action, and no second one,
\* lists it; denied actions consume nothing (actions.go:200-208).
ApprovalSpentOnce ==
    /\ \A i \in 1..Len(approvals) :
        approvals[i].consumed <=> \E ev \in AllowedActions : i \in ev.consumed
    /\ \A ev1, ev2 \in AllowedActions : ev1 # ev2 => ev1.consumed \cap ev2.consumed = {}
    /\ \A r \in RunIds : \A ev \in Events(r) :
        ev.type = "action.evaluated" /\ ev.violations # {} => ev.consumed = {}

\* What an approval is for: an operation that somebody asks for, on one resource,
\* and the role that has to approve it.
Asked == {[action |-> req.action, args |-> req.args, resource |-> req.resource] :
             req \in ApprovalRequests}
         \cup UNION {{[action |-> req.tool, args |-> req.args, resource |-> r] :
                        r \in req.resources} : req \in ActionRequests}
Operation ==
    {[action |-> a.action, args |-> a.args, resource |-> a.resource,
      envelope |-> e, role |-> role] :
        a \in Asked, e \in EnvIds, role \in Roles \cup {ManagerRole}}

OpenApprovals(op) ==
    {i \in 1..Len(approvals) :
        Approves(approvals[i], op.envelope, op, op.role) /\ ~approvals[i].consumed}

\* The action of event ev needs an approval of op.
Needs(ev, op) ==
    /\ ev.envelope = op.envelope /\ ev.request.tool = op.action
    /\ ev.request.args = op.args /\ op.resource \in ev.request.resources
    /\ op.role \in RequiredRoles(Doc(ev.envelope).approvals, ev.request.args.numbers)

Unspent(op) == Cardinality(OpenApprovals(op))
Authorized(op) == {ev.id : ev \in {x \in AllowedActions : Needs(x, op)}}

\* What Gateway and Refund rely on, for one exact operation.
Promise(op) == INSTANCE AuthorizedEffects WITH
    Ids <- 1..MaxActions, Operations <- {op}, Guarded <- {op},
    unused <- [o \in {op} |-> Unspent(op)],
    allowed <- [id \in Authorized(op) |-> op],
    effects <- << >>

\* The control API keeps its part of the promise, for every exact operation at
\* once: each allowed action that needs an approval of it spends exactly one,
\* given for it and not spent before, and nothing else spends any: no action that
\* is denied, or that needs other approvals (action, actions.go:183-208).
ApprovalsKeepTheirPromise ==
    /\ \A op \in Operation : Promise(op)!Init
    /\ [][\A op \in Operation :
            UNCHANGED <<Unspent(op), Authorized(op)>> \/ Promise(op)!Next]_vars

\* An exact operation that an envelope subjects to an approval is allowed at most
\* once under it on the word of signed-in operators, however often it is
\* approved, retried or asked for (the duplicate check, actions.go:89-97); only
\* the service token of the legacy mode may approve it again.
OneExecutionPerApprovedOperation ==
    \A ev1, ev2 \in AllowedActions :
        /\ ev1.envelope = ev2.envelope
        /\ ev1.request.tool = ev2.request.tool
        /\ ev1.request.args = ev2.request.args
        /\ ev1.request.resources \cap ev2.request.resources # {}
        /\ RequiredRoles(Doc(ev1.envelope).approvals, ev1.request.args.numbers) # {}
        /\ \A i \in ev1.consumed \cup ev2.consumed : approvals[i].operator # Blank
        => ev1 = ev2

\* The events by which something is granted, and the envelope it is granted under.
Grants(ev) ==
    \/ ev.type \in {"action.evaluated", "handoff.evaluated"} /\ ev.violations = {}
    \/ ev.type = "approval.created"
Authority(ev) == IF ev.type = "handoff.evaluated" THEN ev.parent ELSE ev.envelope

\* In the audit order of a run, nothing is granted under an envelope after it
\* or an ancestor of it was revoked: no action, no child, no approval.
RevocationIsFinal ==
    \A run \in RunIds : \A k, m \in 1..Len(audit_events[run]) :
        LET before == audit_events[run][k]
            ev == audit_events[run][m] IN
        k < m /\ before.type = "envelope.revoked" /\ Grants(ev)
            => before.envelope \notin Ancestors(Authority(ev))

\* A child is never wider than any of its ancestors, in what it permits, for
\* how long, how deep it may be delegated, and what it requires; it belongs to
\* their run and lies deeper than each of them.
AuthorityNarrows ==
    \A id \in Saved : \A a \in Ancestors(id) :
        /\ Narrower(Doc(a), Doc(id))
        /\ envelopes[a].run = envelopes[id].run
        /\ a # id => Doc(a).depth < Doc(id).depth

\* The checks that `active` repeats on stored envelopes, its bound on the walk
\* included, never reject a delegation that was issued: an envelope is inactive
\* only because it or an ancestor was revoked or has expired.
ActiveExactlyWhenAlive ==
    \A id \in Saved :
        Active(id, clock) <=>
            \A a \in Ancestors(id) : ~envelopes[a].revoked /\ clock < Doc(a).expires

\* Every row has its audit event in the run it belongs to, in the same order,
\* and the log holds nothing else: a run's first event is the creation of its
\* only root, a parent is created before its child, and an envelope is recorded
\* as revoked once, if it is.
AuditMatchesTables ==
    \A run \in RunIds :
        LET log == audit_events[run]
            At(type) == {k \in 1..Len(log) : log[k].type = type}
            Created == At("envelope.created") \cup
                        {k \in At("handoff.evaluated") : log[k].persisted}
            Rows(table, r(_)) == {i \in 1..Len(table) : r(table[i]) = run}
            InOrder(type) == \A k, m \in At(type) : k < m => log[k].id < log[m].id IN
        /\ At("envelope.created") = IF run \in runs THEN {1} ELSE {}
        /\ {log[k].envelope : k \in Created} = {id \in Saved : envelopes[id].run = run}
        /\ \A k, m \in Created : k # m => log[k].envelope # log[m].envelope
        /\ \A k \in Created : ~IsRoot(log[k].envelope) =>
              \E m \in Created : m < k /\ log[m].envelope = Parent(log[k].envelope)
        /\ {log[k].envelope : k \in At("envelope.revoked")}
              = {id \in Saved : envelopes[id].run = run /\ envelopes[id].revoked}
        /\ \A k, m \in At("envelope.revoked") : k # m => log[k].envelope # log[m].envelope
        /\ {log[k].id : k \in At("action.evaluated")}
              = Rows(tool_actions, LAMBDA x : x.run)
        /\ {log[k].id : k \in At("handoff.evaluated")} = Rows(handoffs, LAMBDA x : x.run)
        /\ {log[k].id : k \in At("approval.created")}
              = Rows(approvals, LAMBDA x : envelopes[x.envelope].run)
        /\ InOrder("action.evaluated") /\ InOrder("handoff.evaluated")
        /\ InOrder("approval.created")

\* No step rewrites what was recorded: documents, decisions and events stay as
\* they are, a revocation and a consumption are never undone.
HistoryIsPermanent ==
    [][/\ runs \subseteq runs'
       /\ \A id \in Saved : /\ id \in DOMAIN envelopes'
                            /\ envelopes'[id].doc = Doc(id)
                            /\ envelopes[id].revoked => envelopes'[id].revoked
       /\ \A r \in RunIds : \A k \in 1..Len(audit_events[r]) :
            k \in 1..Len(audit_events'[r]) /\ audit_events'[r][k] = audit_events[r][k]
       /\ \A i \in 1..Len(approvals) :
            /\ i \in 1..Len(approvals')
            /\ approvals[i].consumed => approvals'[i].consumed
       /\ violations \subseteq violations']_vars
=============================================================================
