------------------------------- MODULE Refund -------------------------------
(***************************************************************************)
(* The whole of a refund: the durable workflow, an operator at the         *)
(* console, and the gateway with the control API behind it, of which only  *)
(* the promise AuthorizedEffects is used.  A refund of the workflow is not *)
(* performed in one step as in Workflow: it is authorized first, which     *)
(* spends an approval, and then has its effect, or gets lost in between.   *)
(* Envelopes that expire or are revoked only add refusals, which are lost  *)
(* requests here.                                                          *)
(*                                                                         *)
(* An operator named X_Deviation is a plausible wrong version of X, which  *)
(* nothing uses: some property fails when it takes the place of X.         *)
(***************************************************************************)
EXTENDS Workflow

CONSTANT Large      \* the amounts that need an approval (over 500)

ASSUME RefundConstants == Large \subseteq Amounts

VARIABLES
    unused, allowed, effects,   \* of AuthorizedEffects
    approved,       \* the operations that an approval was ever given for
    cleared         \* refund requests on their way to the tool -> authorization

gateway == <<unused, allowed, effects>>

\* A refund under the envelope of a stage.
Refunds == [envelope : Stages, args : Arguments]

Gateway == INSTANCE AuthorizedEffects WITH
    Ids <- Nat, Operations <- Refunds,
    Guarded <- {op \in Refunds : op.args.amount \in Large}

REFUND == EXECUTE(BILLING)
OperationOf(r) == [envelope |-> BILLING, args |-> r.args]

RefundInit ==
    /\ Init /\ Gateway!Init
    /\ approved = {} /\ cleared = [r \in {} |-> 0]

\* All but the operations that concern the refund.  What is lost is not
\* cleared any more, and its authorization stays.
Elsewhere ==
    /\ Next
    /\ performed' # performed =>
         performed'[Len(performed')].op \notin {APPROVE_BILLING, REFUND}
    /\ cleared' = [r \in DOMAIN cleared \cap inflight' |-> cleared[r]]
    /\ UNCHANGED <<gateway, approved>>

Approves(op) == Gateway!Approve(op) /\ approved' = approved \cup {op}

\* The envelopes of the workflow are for one order.
InScope_Deviation(args) == TRUE
InScope(args) == args.order = OrderId

Issued(s) == \E k \in 1..Len(performed) :
    performed[k].op = IF s = SUPPORT THEN CREATE_RUN ELSE DELEGATE(s)

\* An operator types in an amount and approves it under an envelope that may
\* refund, unless that has been approved before, be it spent or not.
Console(s, amount) ==
    LET op == [envelope |-> s, args |-> [order |-> OrderId, amount |-> amount]] IN
    /\ s # NOTIFICATION /\ Issued(s)
    /\ op \notin approved
    /\ Approves(op)
    /\ UNCHANGED <<vars, cleared>>

\* The approval that a workflow with the approve flag asks for.
ApproveBySelf(r) ==
    /\ r.op = APPROVE_BILLING
    /\ Approves(OperationOf(r))
    /\ Perform(r)
    /\ UNCHANGED cleared

\* The control API allows the call and spends an approval if it needs one.
Authorize(r) ==
    LET id == Cardinality(DOMAIN allowed) + 1 IN
    /\ r.op = REFUND /\ r \notin DOMAIN cleared
    /\ InScope(r.args)
    /\ Gateway!Allow(id, OperationOf(r))
    /\ cleared' = [q \in DOMAIN cleared \cup {r} |-> IF q = r THEN id ELSE cleared[q]]
    /\ UNCHANGED <<vars, approved>>

\* The tool refunds.
Pay(r) ==
    /\ r \in DOMAIN cleared
    /\ Gateway!Effect(cleared[r])
    /\ Perform(r)
    /\ cleared' = [q \in DOMAIN cleared \ {r} |-> cleared[q]]
    /\ UNCHANGED approved

RefundNext ==
    \/ Elsewhere
    \/ \E s \in Stages, amount \in Amounts : Console(s, amount)
    \/ \E r \in inflight : ApproveBySelf(r) \/ Authorize(r) \/ Pay(r)

RefundSpec == RefundInit /\ [][RefundNext]_<<vars, gateway, approved, cleared>>

-----------------------------------------------------------------------------
(* Properties. *)

\* The money moves at most once, for the order and amount the workflow was
\* started with, and if it is much, only after that very refund was approved
\* under the envelope of Billing: whatever a model proposes, whatever else is
\* approved, however processes crash and are started again, and although
\* answers get lost after an approval was spent.  No second approval is spent,
\* and the checkpoint explains the first one, as a receipt or as a call of
\* unknown outcome (begin and restore, Workflow.java:305-348; action,
\* actions.go:183-199; docs/portfolio.md:72 "consumes that approval once").
RefundOnceAsApproved ==
    /\ Cardinality(DOMAIN allowed) <= 1 /\ Len(effects) <= 1
    /\ DOMAIN allowed # {} =>
         disk # None /\ (disk.pending = REFUND \/ BILLING \in disk.receipts)
    /\ \A k \in 1..Len(effects) :
         LET op == effects[k].op IN
         /\ op.args = [order |-> OrderId, amount |-> disk.amount]
         /\ op.args.amount \in Large => op \in approved
=============================================================================
