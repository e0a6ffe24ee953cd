------------------------- MODULE ControlPlaneProofs -------------------------
(***************************************************************************)
(* The control plane keeps its promises for every number of runs,          *)
(* envelopes, approvals and actions, and every document a client sends.    *)
(*                                                                         *)
(* The argument has layers, each an inductive invariant that may use those *)
(* before it:                                                              *)
(*   DelegationInv  every stored envelope is a narrowing of its stored     *)
(*                  parent; AuthorityNarrows follows in each state         *)
(*   TypeOK         which needs the first for the documents of children    *)
(*   GrantInv       what each allowed action was checked against, in terms *)
(*                  of its own envelope; the statements about all its      *)
(*                  ancestors follow in each state from AuthorityNarrows   *)
(*   SpentInv       which event consumed each approval                     *)
(*   RevocationInv  recorded revocations are in force, so that a grant,    *)
(*                  which needs an active envelope, can only precede them  *)
(*   UniqueInv      operators approve an exact operation once, consumed    *)
(*                  or not; with SpentInv it executes once                 *)
(*   ChainInv       what each stored envelope was checked for; a chain is  *)
(*                  no longer than its depth, and that is bounded by the   *)
(*                  root's, so the walk of `active` reaches the root       *)
(* HistoryIsPermanent needs no invariant but the types: each step appends  *)
(* at most one event (Recorded) and rewrites nothing (Monotone).  That the *)
(* audit log matches the tables is AuditInv; with it and GrantInv, each    *)
(* step is one of AuthorizedEffects for every exact operation.             *)
(***************************************************************************)
EXTENDS ControlPlane, PolicyProofs, FiniteSetTheorems

-----------------------------------------------------------------------------
(* Delegations. *)

EnvelopesOK ==
    /\ clock \in 0..MaxClock
    /\ runs \subseteq RunIds
    /\ Saved \subseteq EnvIds
    /\ envelopes \in [Saved -> [doc : Envelope, run : runs, revoked : BOOLEAN]]

DelegationInv ==
    /\ EnvelopesOK
    /\ \A id \in Saved :
        /\ Doc(id).id = id
        /\ ~IsRoot(id) => /\ Parent(id) \in Saved
                          /\ Narrower(Doc(Parent(id)), Doc(id))
                          /\ Doc(id).depth = Doc(Parent(id)).depth + 1
                          /\ envelopes[Parent(id)].run = envelopes[id].run

\* The document a handoff completes.
Child(p, id, d) ==
    [WithVersion(d) EXCEPT !.id = id, !.parent = IF @ = Blank THEN p ELSE @]

\* What Create and EvaluateHandoff save is still an envelope.
LEMMA CompletedDocument ==
    ASSUME NEW d \in Envelope, NEW id \in EnvIds, NEW p \in EnvIds
    PROVE  /\ [WithVersion(d) EXCEPT !.id = id] \in Envelope
           /\ Child(p, id, d) \in Envelope
           /\ [WithVersion(d) EXCEPT !.id = id].id = id
           /\ Child(p, id, d).id = id
           /\ [WithVersion(d) EXCEPT !.id = id].parent = d.parent
<1>1. WithVersion(d) \in Envelope /\ WithVersion(d).parent = d.parent
  BY DEF WithVersion, Envelope
<1> DEFINE w == WithVersion(d)
           v == [w EXCEPT !.id = id]
<1> HIDE DEF w
<1>2. v \in Envelope /\ v.id = id /\ v.parent = w.parent
  BY <1>1 DEF Envelope, w
<1>3. [v EXCEPT !.parent = IF @ = Blank THEN p ELSE @] \in Envelope
  <2>1. (IF v.parent = Blank THEN p ELSE v.parent) \in EnvIds \cup {Blank}
    BY <1>2 DEF Envelope
  <2> HIDE DEF v
  <2> QED BY <1>2, <2>1 DEF Envelope
<1>4. [v EXCEPT !.parent = IF @ = Blank THEN p ELSE @].id = id
  BY <1>2 DEF Envelope
<1>5. Child(p, id, d) = [v EXCEPT !.parent = IF @ = Blank THEN p ELSE @]
  BY DEF Child, w
<1> QED BY <1>1, <1>2, <1>3, <1>4, <1>5 DEF w

\* The clock stays within its bound, also while a transaction runs.
LEMMA ClockAdvances ==
    ASSUME clock \in 0..MaxClock, [Next]_vars PROVE clock' \in 0..MaxClock
<1>1. ASSUME clock' \in clock..MaxClock PROVE clock' \in 0..MaxClock
  BY <1>1, DepthBounds
<1>2. ASSUME NEW run \in RunIds, NEW id \in EnvIds, NEW d \in RootDrafts, Create(run, id, d)
      PROVE  clock' \in 0..MaxClock
  BY <1>1, <1>2 DEF Create, appendAudit
<1>3. ASSUME NEW p \in Saved, NEW id \in EnvIds, NEW d \in ChildDrafts,
             NEW persist \in BOOLEAN, EvaluateHandoff(p, id, d, persist)
      PROVE  clock' \in 0..MaxClock
  BY <1>1, <1>3 DEF EvaluateHandoff, appendAudit
<1>4. ASSUME NEW id \in Saved, Revoke(id) PROVE clock' \in 0..MaxClock
  BY <1>1, <1>4 DEF Revoke, appendAudit
<1>5. ASSUME NEW e \in Saved, NEW req \in ApprovalRequests, Approve(e, req)
      PROVE  clock' \in 0..MaxClock
  BY <1>1, <1>5 DEF Approve, appendAudit
<1>6. ASSUME NEW e \in Saved, NEW req \in ActionRequests, Action(e, req)
      PROVE  clock' \in 0..MaxClock
  BY <1>1, <1>6 DEF Action, appendAudit
<1>7. CASE Tick
  BY <1>7, DepthBounds DEF Tick
<1>8. CASE UNCHANGED vars
  BY <1>8 DEF vars
<1> QED BY <1>2, <1>3, <1>4, <1>5, <1>6, <1>7, <1>8 DEF Next

\* One stored envelope more: the others, and what is said of them, stay.
LEMMA SaveKeeps ==
    ASSUME DelegationInv, NEW id \in EnvIds \ Saved, NEW run \in RunIds,
           NEW doc \in Envelope, doc.id = id, runs' = runs \cup {run},
           clock' \in 0..MaxClock, Save(id, run, doc),
           doc.parent # Blank =>
                /\ doc.parent \in Saved
                /\ Narrower(Doc(doc.parent), doc)
                /\ doc.depth = Doc(doc.parent).depth + 1
                /\ envelopes[doc.parent].run = run
    PROVE  DelegationInv'
<1>1. /\ Saved' = Saved \cup {id}
      /\ \A x \in Saved : envelopes'[x] = envelopes[x]
      /\ envelopes'[id] = [doc |-> doc, run |-> run, revoked |-> FALSE]
  BY DEF Save, Saved
<1>2. EnvelopesOK'
  <2>1. ASSUME NEW x \in Saved'
        PROVE  envelopes'[x] \in [doc : Envelope, run : runs', revoked : BOOLEAN]
    <3>1. CASE x \in Saved
      <4>1. envelopes[x] \in [doc : Envelope, run : runs, revoked : BOOLEAN]
        BY <3>1 DEF DelegationInv, EnvelopesOK
      <4> QED BY <1>1, <3>1, <4>1
    <3>2. CASE x = id
      <4>1. [doc |-> doc, run |-> run, revoked |-> FALSE]
              \in [doc : Envelope, run : runs', revoked : BOOLEAN]
        BY runs' = runs \cup {run}
      <4> QED BY <1>1, <3>2, <4>1
    <3> QED BY <1>1, <2>1, <3>1, <3>2
  <2>2. envelopes' \in [Saved' -> [doc : Envelope, run : runs', revoked : BOOLEAN]]
    BY <2>1, <1>1 DEF Save, Saved
  <2> QED BY <1>1, <2>2 DEF DelegationInv, EnvelopesOK
<1>3. ASSUME NEW x \in Saved'
      PROVE  /\ Doc(x)'.id = x
             /\ ~IsRoot(x)' => /\ Parent(x)' \in Saved'
                               /\ Narrower(Doc(Parent(x))', Doc(x)')
                               /\ Doc(x)'.depth = Doc(Parent(x))'.depth + 1
                               /\ envelopes'[Parent(x)'].run = envelopes'[x].run
  <2>1. CASE x \in Saved
    BY <1>1, <2>1 DEF DelegationInv, Doc, Parent, IsRoot
  <2>2. CASE x = id
    BY <1>1, <2>2 DEF Doc, Parent, IsRoot
  <2> QED BY <1>1, <2>1, <2>2
<1> QED BY <1>2, <1>3 DEF DelegationInv

\* Every stored envelope narrows its parent, in every reachable state (create
\* and evaluateHandoff, envelopes.go:94-224).
THEOREM DelegationInvariant == Spec => []DelegationInv
<1>1. Init => DelegationInv
  BY DepthBounds DEF Init, DelegationInv, EnvelopesOK, Saved
<1>2. DelegationInv /\ [Next]_vars => DelegationInv'
  <2> SUFFICES ASSUME DelegationInv, [Next]_vars PROVE DelegationInv'
    OBVIOUS
  <2>0. clock' \in 0..MaxClock
    BY ClockAdvances DEF DelegationInv, EnvelopesOK
  <2>1. CASE UNCHANGED <<runs, envelopes>>
    BY <2>0, <2>1 DEF DelegationInv, EnvelopesOK, Saved, Doc, Parent, IsRoot
  <2>2. ASSUME NEW run \in RunIds, NEW id \in EnvIds, NEW d \in RootDrafts,
               Create(run, id, d)
        PROVE  DelegationInv'
    <3> DEFINE v == [WithVersion(d) EXCEPT !.id = id]
    <3>1. d \in Envelope
      BY InputsAreDocuments
    <3>2. v \in Envelope /\ v.id = id /\ v.parent = Blank
      BY <2>2, <3>1, CompletedDocument DEF Create
    <3>3. id \notin Saved /\ runs' = runs \cup {run} /\ Save(id, run, v)
      BY <2>2 DEF Create
    <3> HIDE DEF v
    <3> QED BY <2>0, <3>2, <3>3, SaveKeeps
  <2>3. ASSUME NEW p \in Saved, NEW id \in EnvIds, NEW d \in ChildDrafts,
               NEW persist \in BOOLEAN, EvaluateHandoff(p, id, d, persist)
        PROVE  DelegationInv'
    <3> DEFINE child == Child(p, id, d)
               codes == Diff(Doc(p), child, clock)
                          \cup (IF Active(p, clock) THEN {} ELSE {"PARENT_INACTIVE"})
    <3>1. d \in Envelope /\ p \in EnvIds
      BY InputsAreDocuments DEF DelegationInv, EnvelopesOK
    <3>2. child \in Envelope /\ child.id = id
      BY <3>1, CompletedDocument
    <3>3. Doc(p) \in Envelope /\ Doc(p).id = p /\ envelopes[p].run \in runs
      BY DEF DelegationInv, EnvelopesOK, Doc
    <3>4. runs' = runs
      BY <2>3 DEF EvaluateHandoff
    <3>5. CASE persist /\ codes = {}
      <4>1. id \notin Saved /\ Save(id, envelopes[p].run, child)
        BY <2>3, <3>5 DEF EvaluateHandoff, Child
      <4>2. Diff(Doc(p), child, clock) = {}
        BY <3>5
      <4> HIDE DEF child, codes
      <4>3. Narrower(Doc(p), child) /\ child.parent = p
            /\ child.depth = Doc(p).depth + 1
        BY <3>2, <3>3, <4>2, DiffNarrows
      <4>4. envelopes[p].run \in RunIds /\ runs' = runs \cup {envelopes[p].run}
        BY <3>3, <3>4 DEF DelegationInv, EnvelopesOK
      <4> QED BY <2>0, <3>2, <3>4, <4>1, <4>3, <4>4, SaveKeeps
    <3>6. CASE ~(persist /\ codes = {})
      <4>1. UNCHANGED envelopes
        BY <2>3, <3>6 DEF EvaluateHandoff, Child
      <4> QED BY <2>1, <3>4, <4>1
    <3> QED BY <3>5, <3>6
  <2>4. ASSUME NEW id \in Saved, Revoke(id) PROVE DelegationInv'
    <3>1. runs' = runs /\ envelopes' = [envelopes EXCEPT ![id].revoked = TRUE]
      BY <2>4 DEF Revoke
    <3>2. /\ Saved' = Saved
          /\ \A x \in Saved : /\ envelopes'[x] \in [doc : Envelope, run : runs,
                                                    revoked : BOOLEAN]
                              /\ envelopes'[x].doc = envelopes[x].doc
                              /\ envelopes'[x].run = envelopes[x].run
      <4>1. Saved' = Saved
        BY <3>1 DEF Saved
      <4>2. ASSUME NEW x \in Saved
            PROVE  /\ envelopes'[x] \in [doc : Envelope, run : runs, revoked : BOOLEAN]
                   /\ envelopes'[x].doc = envelopes[x].doc
                   /\ envelopes'[x].run = envelopes[x].run
        <5>1. envelopes[x] \in [doc : Envelope, run : runs, revoked : BOOLEAN]
          BY DEF DelegationInv, EnvelopesOK
        <5>2. envelopes'[x] = IF x = id THEN [envelopes[x] EXCEPT !.revoked = TRUE]
                              ELSE envelopes[x]
          BY <3>1 DEF Saved
        <5> QED BY <5>1, <5>2
      <4> QED BY <4>1, <4>2
    <3>3. envelopes' \in [Saved -> [doc : Envelope, run : runs, revoked : BOOLEAN]]
      BY <3>1, <3>2 DEF Saved
    <3> QED BY <2>0, <3>1, <3>2, <3>3 DEF DelegationInv, EnvelopesOK, Doc, Parent, IsRoot
  <2>5. ASSUME NEW e \in Saved, NEW req \in ApprovalRequests, Approve(e, req)
        PROVE  DelegationInv'
    BY <2>1, <2>5 DEF Approve
  <2>6. ASSUME NEW e \in Saved, NEW req \in ActionRequests, Action(e, req)
        PROVE  DelegationInv'
    BY <2>1, <2>6 DEF Action
  <2>7. CASE Tick
    BY <2>1, <2>7 DEF Tick
  <2>8. CASE UNCHANGED vars
    BY <2>1, <2>8 DEF vars
  <2> QED BY <2>2, <2>3, <2>4, <2>5, <2>6, <2>7, <2>8 DEF Next
<1> QED BY <1>1, <1>2, PTL DEF Spec

\* Whatever holds of id and passes from a child to its parent holds of all its
\* ancestors.
LEMMA AncestorsWithin ==
    ASSUME NEW id \in Saved, NEW S \in SUBSET Saved, id \in S, ParentClosed(S)
    PROVE  Ancestors(id) \subseteq S
BY DEF Ancestors

LEMMA AncestorsNarrow == DelegationInv => AuthorityNarrows
<1> SUFFICES ASSUME DelegationInv, NEW id \in Saved
             PROVE  \A a \in Ancestors(id) :
                        /\ Narrower(Doc(a), Doc(id))
                        /\ envelopes[a].run = envelopes[id].run
                        /\ a # id => Doc(a).depth < Doc(id).depth
  BY DEF AuthorityNarrows
<1> DEFINE S == {a \in Saved : /\ Narrower(Doc(a), Doc(id))
                               /\ envelopes[a].run = envelopes[id].run
                               /\ a = id \/ Doc(a).depth < Doc(id).depth}
<1>1. \A x \in Saved : Doc(x) \in Envelope /\ Doc(x).depth \in Int
  BY DEF DelegationInv, EnvelopesOK, Doc, Envelope
<1>2. id \in S
  BY <1>1, NarrowerReflexive
<1>3. ParentClosed(S)
  <2> SUFFICES ASSUME NEW x \in S, ~IsRoot(x) PROVE Parent(x) \in S
    BY DEF ParentClosed
  <2>1. /\ Parent(x) \in Saved /\ Narrower(Doc(Parent(x)), Doc(x))
        /\ Doc(x).depth = Doc(Parent(x)).depth + 1
        /\ envelopes[Parent(x)].run = envelopes[x].run
    BY DEF DelegationInv
  <2>2. Narrower(Doc(Parent(x)), Doc(id))
    BY <1>1, <2>1, NarrowerTransitive
  <2>3. Doc(Parent(x)).depth < Doc(id).depth
    BY <1>1, <2>1
  <2> QED BY <2>1, <2>2, <2>3
<1> QED BY <1>2, <1>3, AncestorsWithin

\* A stored envelope is nowhere wider than any envelope it descends from, for
\* chains of any length and any documents (evaluateHandoff, envelopes.go:167-197).
THEOREM AuthorityNarrowsAlways == Spec => []AuthorityNarrows
BY DelegationInvariant, AncestorsNarrow, PTL

-----------------------------------------------------------------------------
(* Types. *)

LEMMA SeqGrows ==
    ASSUME NEW A, NEW B, A \subseteq B, NEW s \in Seq(A) PROVE s \in Seq(B)
OBVIOUS

\* Rows that refer to stored runs and envelopes stay valid when more are stored.
LEMMA RowsGrow ==
    ASSUME runs \subseteq runs', Saved \subseteq Saved'
    PROVE  /\ HandoffRow \subseteq HandoffRow' /\ ApprovalRow \subseteq ApprovalRow'
           /\ ActionRow \subseteq ActionRow' /\ ViolationRow \subseteq ViolationRow'
<1>1. HandoffRow \subseteq HandoffRow'
  BY DEF HandoffRow
<1>2. ApprovalRow \subseteq ApprovalRow'
  BY DEF ApprovalRow
<1>3. ActionRow \subseteq ActionRow'
  BY DEF ActionRow
<1>4. ViolationRow \subseteq ViolationRow'
  BY DEF ViolationRow
<1> QED BY <1>1, <1>2, <1>3, <1>4

LEMMA TablesGrow ==
    ASSUME TypeOK, runs \subseteq runs', Saved \subseteq Saved'
    PROVE  /\ handoffs \in Seq(HandoffRow') /\ approvals \in Seq(ApprovalRow')
           /\ tool_actions \in Seq(ActionRow') /\ violations \subseteq ViolationRow'
BY RowsGrow, SeqGrows DEF TypeOK

\* What stamps an event is a reading of the clock.
LEMMA Stamped ==
    ASSUME TypeOK, NEW run, NEW ev, appendAudit(run, ev) PROVE clock' \in 0..MaxClock
BY DepthBounds DEF appendAudit, TypeOK

\* One event more in one run.
LEMMA AuditGrows ==
    ASSUME audit_events \in [RunIds -> Seq(AuditEvent)], NEW run \in RunIds,
           NEW ev \in AuditEvent, appendAudit(run, ev)
    PROVE  audit_events' \in [RunIds -> Seq(AuditEvent)]
BY DEF appendAudit

LEMMA ViolationsGrow ==
    ASSUME TypeOK, NEW run \in runs', NEW id \in Saved', NEW codes \in SUBSET Codes,
           runs \subseteq runs', Saved \subseteq Saved', recordViolations(run, id, codes)
    PROVE  violations' \subseteq ViolationRow'
<1>1. violations \subseteq ViolationRow'
  BY TablesGrow
<1> QED BY <1>1 DEF recordViolations, ViolationRow

\* The approvals that an action needs, and those it takes: one for each.
Required(e, req) ==
    RequiredRoles(Doc(e).approvals, req.args.numbers) \X req.resources
TakesOneEach(taken, e, req) ==
    \E f : /\ taken = {f[n] : n \in Required(e, req)}
          /\ \A n \in Required(e, req) : f[n] \in Matching(e, req, n[1], n[2])

\* The row and the event of an action, and how its approvals were found.
LEMMA ActionStep ==
    ASSUME TypeOK, NEW e \in Saved, NEW req \in ActionRequests, Action(e, req)
    PROVE  \E codes \in SUBSET Codes, taken \in SUBSET (1..Len(approvals)) :
             /\ approvals' = [i \in 1..Len(approvals) |->
                                [approvals[i] EXCEPT !.consumed = @ \/ i \in taken]]
             /\ appendAudit(envelopes[e].run,
                  [type |-> "action.evaluated", timestamp |-> clock',
                   decided |-> clock, id |-> Len(tool_actions) + 1, envelope |-> e,
                   request |-> req, violations |-> codes, consumed |-> taken])
             /\ tool_actions' = Append(tool_actions,
                  [run |-> envelopes[e].run, envelope |-> e, agent |-> req.agent,
                   tool |-> req.tool, args |-> req.args, violations |-> codes])
             /\ recordViolations(envelopes[e].run, e, codes)
             /\ UNCHANGED <<runs, envelopes, handoffs>>
             /\ codes # {} => taken = {}
             /\ codes = {} =>
                  /\ ActionViolations(e, req) = {}
                  /\ \A role \in RequiredRoles(Doc(e).approvals, req.args.numbers),
                        r \in req.resources :
                        \E i \in taken : i \in Matching(e, req, role, r)
                  /\ TakesOneEach(taken, e, req)
             /\ \A i \in taken : ~approvals[i].consumed
<1> DEFINE first == ActionViolations(e, req)
           needs == RequiredRoles(Doc(e).approvals, req.args.numbers) \X req.resources
           unmet == {n \in needs : Matching(e, req, n[1], n[2]) = {}}
           codes == IF first = {} /\ unmet # {} THEN {"APPROVAL_REQUIRED"} ELSE first
           picks == {f \in [needs -> 1..Len(approvals)] :
                        \A n \in needs : f[n] \in Matching(e, req, n[1], n[2])}
<1>1. first \subseteq ActionRules
  <2> DEFINE found ==
              [ENVELOPE_INACTIVE |-> ~Active(e, clock),
               AGENT_MISMATCH    |-> req.agent # Doc(e).recipient,
               ACTION_DENIED     |-> req.tool \notin Doc(e).allowed \ Doc(e).denied,
               RESOURCE_DENIED   |->
                 \E r \in req.resources :
                     \/ r[1] \in ColonCategories
                     \/ ~ResourceAllowed(Scopes(Doc(e), r[1]), r[2]),
               RESOURCE_REQUIRED |-> req.resources = {},
               DATA_DENIED       |-> ~(req.data \subseteq Doc(e).data),
               CONDITION_ERROR   |-> ConditionError(Doc(e).approvals, req.args.numbers)]
  <2>1. DOMAIN found = ActionRules
    BY DEF ActionRules
  <2>2. first = {code \in DOMAIN found : found[code]}
    BY DEF ActionViolations
  <2> HIDE DEF found, first
  <2> QED BY <2>1, <2>2
<1>2. codes \in SUBSET Codes
  BY <1>1 DEF Codes
<1>3. PICK taken \in (IF codes # {} THEN {{}} ELSE {{f[n] : n \in needs} : f \in picks}) :
             /\ approvals' = [i \in 1..Len(approvals) |->
                                [approvals[i] EXCEPT !.consumed = @ \/ i \in taken]]
             /\ appendAudit(envelopes[e].run,
                  [type |-> "action.evaluated", timestamp |-> clock',
                   decided |-> clock, id |-> Len(tool_actions) + 1, envelope |-> e,
                   request |-> req, violations |-> codes, consumed |-> taken])
  BY DEF Action
<1>4. /\ tool_actions' = Append(tool_actions,
             [run |-> envelopes[e].run, envelope |-> e, agent |-> req.agent,
              tool |-> req.tool, args |-> req.args, violations |-> codes])
      /\ recordViolations(envelopes[e].run, e, codes)
      /\ UNCHANGED <<runs, envelopes, handoffs>>
  BY DEF Action
<1>5. codes = {} => ActionViolations(e, req) = {}
  BY {"APPROVAL_REQUIRED"} # {}
<1> HIDE DEF first, unmet, codes
<1>6. codes # {} => taken = {}
  BY <1>3
<1>7. ASSUME codes = {}
      PROVE  /\ taken \subseteq 1..Len(approvals)
             /\ \A role \in RequiredRoles(Doc(e).approvals, req.args.numbers),
                   r \in req.resources :
                   \E i \in taken : i \in Matching(e, req, role, r)
             /\ TakesOneEach(taken, e, req)
             /\ \A i \in taken : ~approvals[i].consumed
  <2>1. PICK f \in picks : taken = {f[n] : n \in needs}
    BY <1>3, <1>7
  <2>2. \A n \in needs : f[n] \in taken /\ f[n] \in Matching(e, req, n[1], n[2])
    BY <2>1
  <2>3. ASSUME NEW role \in RequiredRoles(Doc(e).approvals, req.args.numbers),
               NEW r \in req.resources
        PROVE  \E i \in taken : i \in Matching(e, req, role, r)
    <3>1. <<role, r>> \in needs
      OBVIOUS
    <3> HIDE DEF needs
    <3>2. f[<<role, r>>] \in Matching(e, req, role, r)
      BY <2>2, <3>1
    <3> QED BY <2>2, <3>1, <3>2
  <2>4. ASSUME NEW i \in taken PROVE i \in 1..Len(approvals) /\ ~approvals[i].consumed
    <3> HIDE DEF needs
    <3>1. PICK n \in needs : i = f[n]
      BY <2>1
    <3> QED BY <2>2, <3>1 DEF Matching
  <2>5. TakesOneEach(taken, e, req)
    <3>1. needs = Required(e, req)
      BY DEF Required
    <3> HIDE DEF needs
    <3> QED BY <2>1, <2>2, <3>1 DEF TakesOneEach
  <2> QED BY <2>3, <2>4, <2>5
<1>8. taken \subseteq 1..Len(approvals) /\ \A i \in taken : ~approvals[i].consumed
  BY <1>6, <1>7
<1> HIDE DEF needs, picks
<1> QED BY <1>2, <1>3, <1>4, <1>5, <1>6, <1>7, <1>8

\* Every table holds rows of its type in every reachable state.
THEOREM TypeCorrect == Spec => []TypeOK
<1>1. Init => TypeOK
  BY DepthBounds DEF Init, TypeOK, Saved
<1>2. TypeOK /\ DelegationInv /\ DelegationInv' /\ [Next]_vars => TypeOK'
  <2> SUFFICES ASSUME TypeOK, DelegationInv, DelegationInv', [Next]_vars
               PROVE  TypeOK'
    OBVIOUS
  <2>0. (/\ clock \in 0..MaxClock
         /\ runs \subseteq RunIds
         /\ Saved \subseteq EnvIds
         /\ envelopes \in [Saved -> [doc : Envelope, run : runs, revoked : BOOLEAN]])'
    BY DEF DelegationInv, EnvelopesOK
  <2>1. ASSUME NEW run \in RunIds, NEW id \in EnvIds, NEW d \in RootDrafts,
               Create(run, id, d)
        PROVE  TypeOK'
    <3>1. runs \subseteq runs' /\ Saved \subseteq Saved'
      BY <2>1 DEF Create, Save, Saved
    <3>2. UNCHANGED <<handoffs, approvals, tool_actions, violations>>
      BY <2>1 DEF Create
    <3>3. audit_events' \in [RunIds -> Seq(AuditEvent)]
      <4> DEFINE ev == [type |-> "envelope.created", timestamp |-> clock',
                        envelope |-> id]
      <4>1. ev \in AuditEvent
        BY <2>0 DEF AuditEvent
      <4>2. appendAudit(run, ev)
        BY <2>1 DEF Create
      <4> HIDE DEF ev
      <4> QED BY <4>1, <4>2, AuditGrows DEF TypeOK
    <3> QED BY <2>0, <3>1, <3>2, <3>3, TablesGrow DEF TypeOK
  <2>2. ASSUME NEW p \in Saved, NEW id \in EnvIds, NEW d \in ChildDrafts,
               NEW persist \in BOOLEAN, EvaluateHandoff(p, id, d, persist)
        PROVE  TypeOK'
    <3> DEFINE child == [WithVersion(d) EXCEPT
                           !.id = id, !.parent = IF @ = Blank THEN p ELSE @]
               run == envelopes[p].run
               codes == Diff(Doc(p), child, clock)
                          \cup (IF Active(p, clock) THEN {} ELSE {"PARENT_INACTIVE"})
               saved == persist /\ codes = {}
               row == [run |-> run, parent |-> p,
                       child |-> IF saved THEN id ELSE Blank,
                       proposed |-> id, violations |-> codes]
               ev == [type |-> "handoff.evaluated", timestamp |-> clock',
                      id |-> Len(handoffs) + 1, parent |-> p, envelope |-> id,
                      persisted |-> saved, violations |-> codes]
    <3>1. codes \in SUBSET Codes /\ run \in runs /\ p \in EnvIds /\ run \in RunIds
      <4>1. codes \in SUBSET Codes
        BY DiffCodes DEF Codes
      <4> QED BY <4>1 DEF TypeOK
    <3>2. runs' = runs /\ Saved \subseteq Saved' /\ (saved => id \in Saved')
      BY <2>2 DEF EvaluateHandoff, Save, Saved
    <3>3. /\ handoffs' = Append(handoffs, row)
          /\ recordViolations(run, p, codes)
          /\ appendAudit(run, ev)
          /\ UNCHANGED <<approvals, tool_actions>>
      BY <2>2 DEF EvaluateHandoff
    <3>4. saved \in BOOLEAN
      OBVIOUS
    <3> HIDE DEF child, codes, run, saved
    <3>5. row \in HandoffRow'
      BY <3>1, <3>2 DEF HandoffRow
    <3>6. handoffs' \in Seq(HandoffRow')
      BY <3>2, <3>3, <3>5, TablesGrow DEF row
    <3>7. violations' \subseteq ViolationRow'
      BY <3>1, <3>2, <3>3, ViolationsGrow
    <3>8. audit_events' \in [RunIds -> Seq(AuditEvent)]
      <4>1. Len(handoffs) + 1 \in Nat
        BY DEF TypeOK
      <4>2. ev \in AuditEvent
        BY <2>0, <3>1, <3>4, <4>1 DEF AuditEvent
      <4> HIDE DEF ev
      <4> QED BY <3>1, <3>3, <4>2, AuditGrows DEF TypeOK
    <3> QED BY <2>0, <3>2, <3>3, <3>6, <3>7, <3>8, TablesGrow DEF TypeOK
  <2>3. ASSUME NEW id \in Saved, Revoke(id) PROVE TypeOK'
    <3>1. runs' = runs /\ Saved' = Saved
      BY <2>3 DEF Revoke, Saved
    <3>2. UNCHANGED <<handoffs, approvals, tool_actions, violations>>
      BY <2>3 DEF Revoke
    <3>3. audit_events' \in [RunIds -> Seq(AuditEvent)]
      <4> DEFINE ev == [type |-> "envelope.revoked", timestamp |-> clock',
                        envelope |-> id]
      <4>1. ev \in AuditEvent /\ envelopes[id].run \in RunIds
        BY <2>0 DEF TypeOK, AuditEvent
      <4>2. appendAudit(envelopes[id].run, ev)
        BY <2>3 DEF Revoke
      <4> HIDE DEF ev
      <4> QED BY <4>1, <4>2, AuditGrows DEF TypeOK
    <3> QED BY <2>0, <3>1, <3>2, <3>3, TablesGrow DEF TypeOK
  <2>4. ASSUME NEW e \in Saved, NEW req \in ApprovalRequests, Approve(e, req)
        PROVE  TypeOK'
    <3> DEFINE role == IF req.operator # Blank THEN ManagerRole ELSE req.role
               row == [envelope |-> e, action |-> req.action,
                       resource |-> req.resource, args |-> req.args, role |-> role,
                       operator |-> req.operator, expires |-> req.expires,
                       consumed |-> FALSE]
               ev == [type |-> "approval.created", timestamp |-> clock',
                      id |-> Len(approvals) + 1, envelope |-> e]
    <3>1. runs' = runs /\ Saved' = Saved
      BY <2>4 DEF Approve, Saved
    <3>2. UNCHANGED <<handoffs, tool_actions, violations>>
      BY <2>4 DEF Approve
    <3>3. role \in Roles \cup {ManagerRole}
      BY <2>4, InputsAreDocuments DEF Approve, ApprovalRequest
    <3>4. approvals' = Append(approvals, row) /\ appendAudit(envelopes[e].run, ev)
      BY <2>4 DEF Approve
    <3> HIDE DEF role
    <3>5. row \in ApprovalRow'
      BY <3>1, <3>3, InputsAreDocuments DEF ApprovalRow, ApprovalRequest
    <3>6. approvals' \in Seq(ApprovalRow')
      BY <3>1, <3>4, <3>5, TablesGrow DEF row
    <3>7. audit_events' \in [RunIds -> Seq(AuditEvent)]
      <4>1. ev \in AuditEvent /\ envelopes[e].run \in RunIds
        BY <2>0 DEF TypeOK, AuditEvent
      <4> HIDE DEF ev
      <4> QED BY <3>4, <4>1, AuditGrows DEF TypeOK
    <3> QED BY <2>0, <3>1, <3>2, <3>6, <3>7, TablesGrow DEF TypeOK
  <2>5. ASSUME NEW e \in Saved, NEW req \in ActionRequests, Action(e, req)
        PROVE  TypeOK'
    <3>1. PICK codes \in SUBSET Codes, taken \in SUBSET (1..Len(approvals)) :
             /\ approvals' = [i \in 1..Len(approvals) |->
                                [approvals[i] EXCEPT !.consumed = @ \/ i \in taken]]
             /\ appendAudit(envelopes[e].run,
                  [type |-> "action.evaluated", timestamp |-> clock',
                   decided |-> clock, id |-> Len(tool_actions) + 1, envelope |-> e,
                   request |-> req, violations |-> codes, consumed |-> taken])
             /\ tool_actions' = Append(tool_actions,
                  [run |-> envelopes[e].run, envelope |-> e, agent |-> req.agent,
                   tool |-> req.tool, args |-> req.args, violations |-> codes])
             /\ recordViolations(envelopes[e].run, e, codes)
             /\ UNCHANGED <<runs, envelopes, handoffs>>
      BY <2>5, ActionStep
    <3>2. runs' = runs /\ Saved' = Saved
      BY <3>1 DEF Saved
    <3>3. /\ e \in EnvIds /\ envelopes[e].run \in runs /\ envelopes[e].run \in RunIds
          /\ req \in ActionRequest /\ clock \in 0..MaxClock
      BY InputsAreDocuments DEF TypeOK
    <3>4. approvals' \in Seq(ApprovalRow')
      <4>1. \A i \in 1..Len(approvals) : approvals[i] \in ApprovalRow
        BY DEF TypeOK
      <4>2. ASSUME NEW i \in 1..Len(approvals)
            PROVE  [approvals[i] EXCEPT !.consumed = @ \/ i \in taken] \in ApprovalRow'
        BY <3>2, <4>1 DEF ApprovalRow
      <4>3. Len(approvals) \in Nat
        BY DEF TypeOK
      <4>4. approvals' = [i \in 1..Len(approvals) |->
                             [approvals[i] EXCEPT !.consumed = @ \/ i \in taken]]
        BY <3>1
      <4> QED BY <4>2, <4>3, <4>4
    <3>5. tool_actions' \in Seq(ActionRow')
      <4>1. [run |-> envelopes[e].run, envelope |-> e, agent |-> req.agent,
             tool |-> req.tool, args |-> req.args, violations |-> codes] \in ActionRow'
        BY <3>2, <3>3 DEF ActionRow, ActionRequest
      <4> QED BY <3>1, <3>2, <4>1, TablesGrow
    <3>6. violations' \subseteq ViolationRow'
      BY <3>1, <3>2, <3>3, ViolationsGrow
    <3>7. audit_events' \in [RunIds -> Seq(AuditEvent)]
      <4> DEFINE ev == [type |-> "action.evaluated", timestamp |-> clock',
                        decided |-> clock, id |-> Len(tool_actions) + 1, envelope |-> e,
                        request |-> req, violations |-> codes, consumed |-> taken]
      <4>1. Len(tool_actions) + 1 \in Nat /\ taken \in SUBSET Nat
        BY DEF TypeOK
      <4>2. ev \in AuditEvent
        BY <2>0, <3>3, <4>1 DEF AuditEvent
      <4> HIDE DEF ev
      <4> QED BY <3>1, <3>3, <4>2, AuditGrows DEF ev, TypeOK
    <3> QED BY <2>0, <3>1, <3>2, <3>4, <3>5, <3>6, <3>7, TablesGrow DEF TypeOK
  <2>6. CASE Tick
    <3>1. runs' = runs /\ Saved' = Saved
      BY <2>6 DEF Tick, Saved
    <3> QED BY <2>0, <2>6, <3>1, TablesGrow DEF Tick, TypeOK
  <2>7. CASE UNCHANGED vars
    <3>1. runs' = runs /\ Saved' = Saved
      BY <2>7 DEF vars, Saved
    <3> QED BY <2>0, <2>7, <3>1, TablesGrow DEF vars, TypeOK
  <2> QED BY <2>1, <2>2, <2>3, <2>4, <2>5, <2>6, <2>7 DEF Next
<1> QED BY <1>1, <1>2, DelegationInvariant, PTL DEF Spec

-----------------------------------------------------------------------------
(* Grants. *)

\* What an allowed action was checked against, in terms of its own envelope.
Granted(ev) ==
    LET doc == Doc(ev.envelope) IN
    /\ ev.envelope \in Saved /\ ev.request \in ActionRequest /\ ev.decided \in Int
    /\ ev.decided < doc.expires
    /\ ev.request.tool \in doc.allowed \ doc.denied
    /\ ev.request.data \subseteq doc.data
    /\ ev.request.resources # {}
    /\ \A r \in ev.request.resources : ResourceAllowed(Scopes(doc, r[1]), r[2])
    /\ ~ConditionError(doc.approvals, ev.request.args.numbers)
    /\ \A role \in RequiredRoles(doc.approvals, ev.request.args.numbers),
          r \in ev.request.resources :
          \E i \in ev.consumed :
            /\ i \in 1..Len(approvals)
            /\ approvals[i].role = role
            /\ approvals[i].envelope = ev.envelope
            /\ approvals[i].action = ev.request.tool
            /\ approvals[i].resource = r
            /\ approvals[i].args = ev.request.args
            /\ ev.decided < approvals[i].expires

GrantInv == \A ev \in AllowedActions : Granted(ev)

\* What no step changes: stored documents, and all of an approval but whether
\* it is consumed.
Stable ==
    /\ Saved \subseteq Saved'
    /\ \A x \in Saved : envelopes'[x].doc = envelopes[x].doc
    /\ \A i \in 1..Len(approvals) :
        /\ i \in 1..Len(approvals')
        /\ \E b \in BOOLEAN : approvals'[i] = [approvals[i] EXCEPT !.consumed = b]

LEMMA UnchangedIsStable ==
    ASSUME TypeOK, Saved \subseteq Saved', approvals' = approvals,
           \A x \in Saved : envelopes'[x].doc = envelopes[x].doc
    PROVE  Stable
<1>1. ASSUME NEW i \in 1..Len(approvals)
      PROVE  \E b \in BOOLEAN : approvals'[i] = [approvals[i] EXCEPT !.consumed = b]
  <2>1. approvals[i] \in ApprovalRow
    BY DEF TypeOK
  <2>2. approvals[i] = [approvals[i] EXCEPT !.consumed = approvals[i].consumed]
    BY <2>1 DEF ApprovalRow
  <2>3. approvals[i].consumed \in BOOLEAN
    BY <2>1 DEF ApprovalRow
  <2> QED BY <2>2, <2>3
<1> QED BY <1>1 DEF Stable

LEMMA StepsAreStable == TypeOK /\ [Next]_vars => Stable
<1> SUFFICES ASSUME TypeOK, [Next]_vars PROVE Stable
  OBVIOUS
<1>1. ASSUME NEW run \in RunIds, NEW id \in EnvIds, NEW d \in RootDrafts,
             Create(run, id, d)
      PROVE  Stable
  BY <1>1, UnchangedIsStable DEF Create, Save, Saved
<1>2. ASSUME NEW p \in Saved, NEW id \in EnvIds, NEW d \in ChildDrafts,
             NEW persist \in BOOLEAN, EvaluateHandoff(p, id, d, persist)
      PROVE  Stable
  <2> DEFINE child == [WithVersion(d) EXCEPT
                         !.id = id, !.parent = IF @ = Blank THEN p ELSE @]
             run == envelopes[p].run
  <2>1. approvals' = approvals
        /\ (envelopes' = envelopes \/ (id \notin Saved /\ Save(id, run, child)))
    BY <1>2 DEF EvaluateHandoff
  <2> HIDE DEF child, run
  <2>2. CASE envelopes' = envelopes
    BY <2>1, <2>2, UnchangedIsStable DEF Saved
  <2>3. CASE id \notin Saved /\ Save(id, run, child)
    BY <2>1, <2>3, UnchangedIsStable DEF Save, Saved
  <2> QED BY <2>1, <2>2, <2>3
<1>3. ASSUME NEW id \in Saved, Revoke(id) PROVE Stable
  <2>1. envelopes' = [envelopes EXCEPT ![id].revoked = TRUE] /\ approvals' = approvals
    BY <1>3 DEF Revoke
  <2>2. ASSUME NEW x \in Saved PROVE envelopes'[x].doc = envelopes[x].doc
    <3>1. envelopes[x] \in [doc : Envelope, run : runs, revoked : BOOLEAN]
      BY DEF TypeOK
    <3>2. envelopes'[x] = IF x = id THEN [envelopes[x] EXCEPT !.revoked = TRUE]
                          ELSE envelopes[x]
      BY <2>1 DEF Saved
    <3> QED BY <3>1, <3>2
  <2>3. Saved' = Saved
    BY <2>1 DEF Saved
  <2> QED BY <2>1, <2>2, <2>3, UnchangedIsStable
<1>4. ASSUME NEW e \in Saved, NEW req \in ApprovalRequests, Approve(e, req)
      PROVE  Stable
  <2> DEFINE row == [envelope |-> e, action |-> req.action,
                     resource |-> req.resource, args |-> req.args,
                     role |-> IF req.operator # Blank THEN ManagerRole ELSE req.role,
                     operator |-> req.operator, expires |-> req.expires,
                     consumed |-> FALSE]
  <2>1. envelopes' = envelopes /\ approvals' = Append(approvals, row)
    BY <1>4 DEF Approve
  <2> HIDE DEF row
  <2>2. ASSUME NEW i \in 1..Len(approvals)
        PROVE  /\ i \in 1..Len(approvals')
               /\ \E b \in BOOLEAN : approvals'[i] = [approvals[i] EXCEPT !.consumed = b]
    <3>1. approvals[i] \in ApprovalRow /\ approvals'[i] = approvals[i]
          /\ i \in 1..Len(approvals')
      BY <2>1 DEF TypeOK
    <3>2. approvals[i] = [approvals[i] EXCEPT !.consumed = approvals[i].consumed]
          /\ approvals[i].consumed \in BOOLEAN
      BY <3>1 DEF ApprovalRow
    <3> QED BY <3>1, <3>2
  <2> QED BY <2>1, <2>2 DEF Stable, Saved
<1>5. ASSUME NEW e \in Saved, NEW req \in ActionRequests, Action(e, req)
      PROVE  Stable
  <2>1. PICK taken \in SUBSET (1..Len(approvals)) :
           /\ approvals' = [i \in 1..Len(approvals) |->
                              [approvals[i] EXCEPT !.consumed = @ \/ i \in taken]]
           /\ envelopes' = envelopes
    BY <1>5, ActionStep
  <2>2. Len(approvals) \in Nat /\ Len(approvals') = Len(approvals)
    BY <2>1 DEF TypeOK
  <2>3. ASSUME NEW i \in 1..Len(approvals)
        PROVE  \E b \in BOOLEAN : approvals'[i] = [approvals[i] EXCEPT !.consumed = b]
    <3>1. (approvals[i].consumed \/ i \in taken) \in BOOLEAN
      OBVIOUS
    <3> QED BY <2>1, <3>1
  <2> QED BY <2>1, <2>2, <2>3 DEF Stable, Saved
<1>6. CASE Tick
  BY <1>6, UnchangedIsStable DEF Tick, Saved
<1>7. CASE UNCHANGED vars
  BY <1>7, UnchangedIsStable DEF vars, Saved
<1> QED BY <1>1, <1>2, <1>3, <1>4, <1>5, <1>6, <1>7 DEF Next

LEMMA GrantedStays ==
    ASSUME TypeOK, Stable, NEW ev, Granted(ev) PROVE Granted(ev)'
<1>1. ev.envelope \in Saved' /\ Doc(ev.envelope)' = Doc(ev.envelope)
  BY DEF Granted, Stable, Doc
<1>2. ASSUME NEW i \in 1..Len(approvals)
      PROVE  /\ i \in 1..Len(approvals')
             /\ approvals'[i].role = approvals[i].role
             /\ approvals'[i].envelope = approvals[i].envelope
             /\ approvals'[i].action = approvals[i].action
             /\ approvals'[i].resource = approvals[i].resource
             /\ approvals'[i].args = approvals[i].args
             /\ approvals'[i].expires = approvals[i].expires
  <2>1. approvals[i] \in ApprovalRow
    BY DEF TypeOK
  <2> QED BY <2>1 DEF Stable, ApprovalRow
<1> QED BY <1>1, <1>2 DEF Granted

\* The allowed actions after an event is appended.
LEMMA EventsGrow ==
    ASSUME audit_events \in [RunIds -> Seq(AuditEvent)], NEW run \in RunIds,
           NEW ev \in AuditEvent, appendAudit(run, ev)
    PROVE  \A r \in RunIds :
             Events(r)' = IF r = run THEN Events(r) \cup {ev} ELSE Events(r)
<1> SUFFICES ASSUME NEW r \in RunIds
             PROVE  Events(r)' = IF r = run THEN Events(r) \cup {ev} ELSE Events(r)
  OBVIOUS
<1>1. CASE r # run
  BY <1>1 DEF appendAudit, Events
<1>2. CASE r = run
  <2>1. /\ audit_events[r] \in Seq(AuditEvent)
        /\ audit_events'[r] = Append(audit_events[r], ev)
    BY <1>2 DEF appendAudit
  <2>2. /\ Len(audit_events'[r]) = Len(audit_events[r]) + 1
        /\ \A k \in 1..Len(audit_events[r]) : audit_events'[r][k] = audit_events[r][k]
        /\ audit_events'[r][Len(audit_events[r]) + 1] = ev
        /\ Len(audit_events[r]) \in Nat
    BY <2>1
  <2> QED BY <1>2, <2>2 DEF Events
<1> QED BY <1>1, <1>2

\* ... so the allowed actions gain at most that event.
LEMMA AllowedGrows ==
    ASSUME audit_events \in [RunIds -> Seq(AuditEvent)], NEW run \in RunIds,
           NEW ev \in AuditEvent, appendAudit(run, ev)
    PROVE  \A x : x \in AllowedActions' <=>
                    \/ x \in AllowedActions
                    \/ x = ev /\ ev.type = "action.evaluated" /\ ev.violations = {}
BY EventsGrow DEF AllowedActions

LEMMA AllowedSame ==
    ASSUME audit_events' = audit_events PROVE AllowedActions' = AllowedActions
BY DEF AllowedActions, Events

LEMMA SelfAncestor ==
    ASSUME NEW id \in Saved PROVE id \in Ancestors(id)
BY DEF Ancestors

\* The rules that an action without violations passed.
LEMMA NoViolations ==
    ASSUME DelegationInv, NEW e \in Saved, NEW req, ActionViolations(e, req) = {}
    PROVE  /\ Active(e, clock)
           /\ clock < Doc(e).expires
           /\ req.tool \in Doc(e).allowed \ Doc(e).denied
           /\ req.data \subseteq Doc(e).data
           /\ req.resources # {}
           /\ \A r \in req.resources : ResourceAllowed(Scopes(Doc(e), r[1]), r[2])
           /\ ~ConditionError(Doc(e).approvals, req.args.numbers)
<1> DEFINE found ==
              [ENVELOPE_INACTIVE |-> ~Active(e, clock),
               AGENT_MISMATCH    |-> req.agent # Doc(e).recipient,
               ACTION_DENIED     |-> req.tool \notin Doc(e).allowed \ Doc(e).denied,
               RESOURCE_DENIED   |->
                 \E r \in req.resources :
                     \/ r[1] \in ColonCategories
                     \/ ~ResourceAllowed(Scopes(Doc(e), r[1]), r[2]),
               RESOURCE_REQUIRED |-> req.resources = {},
               DATA_DENIED       |-> ~(req.data \subseteq Doc(e).data),
               CONDITION_ERROR   |-> ConditionError(Doc(e).approvals, req.args.numbers)]
<1>1. {code \in DOMAIN found : found[code]} = {}
  BY DEF ActionViolations
<1>2. DOMAIN found = ActionRules
  BY DEF ActionRules
<1>3. /\ ~found.ENVELOPE_INACTIVE /\ ~found.ACTION_DENIED /\ ~found.RESOURCE_DENIED
      /\ ~found.RESOURCE_REQUIRED /\ ~found.DATA_DENIED /\ ~found.CONDITION_ERROR
  <2> HIDE DEF found
  <2> QED BY <1>1, <1>2 DEF ActionRules
<1>4. Active(e, clock)
  BY <1>3
<1>5. Doc(e).expires > clock
  BY <1>4, SelfAncestor DEF Active, StillGood, Validate, ValidateExpiration
<1>6. Doc(e).expires \in Int /\ clock \in Int
  BY DEF DelegationInv, EnvelopesOK, Doc, Envelope
<1> QED BY <1>3, <1>4, <1>5, <1>6

\* Each allowed action stays accounted for by its own envelope and by the
\* approvals it took (action, actions.go:123-228).
LEMMA GrantInvariant == Spec => []GrantInv
<1>1. Init => GrantInv
  BY DEF Init, GrantInv, AllowedActions, Events
<1>2. TypeOK /\ DelegationInv /\ GrantInv /\ [Next]_vars => GrantInv'
  <2> SUFFICES ASSUME TypeOK, DelegationInv, GrantInv, [Next]_vars PROVE GrantInv'
    OBVIOUS
  <2>0. \A ev \in AllowedActions : Granted(ev)'
    BY StepsAreStable, GrantedStays DEF GrantInv
  <2>c. clock' \in 0..MaxClock
    BY ClockAdvances DEF TypeOK
  <2>1. ASSUME NEW run \in RunIds, NEW ev \in AuditEvent,
               ev.type # "action.evaluated", appendAudit(run, ev)
        PROVE  GrantInv'
    BY <2>0, <2>1, AllowedGrows DEF TypeOK, GrantInv
  <2>2. ASSUME NEW run \in RunIds, NEW id \in EnvIds, NEW d \in RootDrafts,
               Create(run, id, d)
        PROVE  GrantInv'
    <3> DEFINE ev == [type |-> "envelope.created", timestamp |-> clock', envelope |-> id]
    <3>1. ev \in AuditEvent /\ ev.type # "action.evaluated" /\ appendAudit(run, ev)
      BY <2>2, <2>c DEF Create, AuditEvent, TypeOK
    <3> HIDE DEF ev
    <3> QED BY <2>1, <3>1
  <2>3. ASSUME NEW p \in Saved, NEW id \in EnvIds, NEW d \in ChildDrafts,
               NEW persist \in BOOLEAN, EvaluateHandoff(p, id, d, persist)
        PROVE  GrantInv'
    <3> DEFINE child == [WithVersion(d) EXCEPT
                           !.id = id, !.parent = IF @ = Blank THEN p ELSE @]
               codes == Diff(Doc(p), child, clock)
                          \cup (IF Active(p, clock) THEN {} ELSE {"PARENT_INACTIVE"})
               saved == persist /\ codes = {}
               ev == [type |-> "handoff.evaluated", timestamp |-> clock',
                      id |-> Len(handoffs) + 1, parent |-> p, envelope |-> id,
                      persisted |-> saved, violations |-> codes]
    <3>1. appendAudit(envelopes[p].run, ev)
      BY <2>3 DEF EvaluateHandoff
    <3>2. codes \in SUBSET Codes /\ saved \in BOOLEAN
      BY DiffCodes DEF Codes
    <3> HIDE DEF codes, saved
    <3>3. ev \in AuditEvent /\ ev.type # "action.evaluated" /\ envelopes[p].run \in RunIds
      <4>1. Len(handoffs) + 1 \in Nat /\ p \in EnvIds
        BY DEF TypeOK
      <4> QED BY <2>c, <3>2, <4>1 DEF AuditEvent, TypeOK
    <3> HIDE DEF ev
    <3> QED BY <2>1, <3>1, <3>3
  <2>4. ASSUME NEW id \in Saved, Revoke(id) PROVE GrantInv'
    <3> DEFINE ev == [type |-> "envelope.revoked", timestamp |-> clock', envelope |-> id]
    <3>1. ev \in AuditEvent /\ ev.type # "action.evaluated"
          /\ appendAudit(envelopes[id].run, ev) /\ envelopes[id].run \in RunIds
      BY <2>4, <2>c DEF Revoke, AuditEvent, TypeOK
    <3> HIDE DEF ev
    <3> QED BY <2>1, <3>1
  <2>5. ASSUME NEW e \in Saved, NEW req \in ApprovalRequests, Approve(e, req)
        PROVE  GrantInv'
    <3> DEFINE ev == [type |-> "approval.created", timestamp |-> clock',
                      id |-> Len(approvals) + 1, envelope |-> e]
    <3>1. appendAudit(envelopes[e].run, ev)
      BY <2>5 DEF Approve
    <3>2. ev \in AuditEvent /\ ev.type # "action.evaluated" /\ envelopes[e].run \in RunIds
      <4>1. Len(approvals) + 1 \in Nat
        BY DEF TypeOK
      <4> QED BY <2>c, <4>1 DEF AuditEvent, TypeOK
    <3> HIDE DEF ev
    <3> QED BY <2>1, <3>1, <3>2
  <2>6. ASSUME NEW e \in Saved, NEW req \in ActionRequests, Action(e, req)
        PROVE  GrantInv'
    <3>1. PICK codes \in SUBSET Codes, taken \in SUBSET (1..Len(approvals)) :
             /\ approvals' = [i \in 1..Len(approvals) |->
                                [approvals[i] EXCEPT !.consumed = @ \/ i \in taken]]
             /\ appendAudit(envelopes[e].run,
                  [type |-> "action.evaluated", timestamp |-> clock',
                   decided |-> clock, id |-> Len(tool_actions) + 1, envelope |-> e,
                   request |-> req, violations |-> codes, consumed |-> taken])
             /\ UNCHANGED <<runs, envelopes, handoffs>>
             /\ codes = {} =>
                  /\ ActionViolations(e, req) = {}
                  /\ \A role \in RequiredRoles(Doc(e).approvals, req.args.numbers),
                        r \in req.resources :
                        \E i \in taken : i \in Matching(e, req, role, r)
                  /\ TakesOneEach(taken, e, req)
      BY <2>6, ActionStep
    <3>0. PICK ev : ev = [type |-> "action.evaluated", timestamp |-> clock',
                          decided |-> clock, id |-> Len(tool_actions) + 1, envelope |-> e,
                          request |-> req, violations |-> codes, consumed |-> taken]
      OBVIOUS
    <3>2. ev \in AuditEvent /\ envelopes[e].run \in RunIds
      <4>1. /\ Len(tool_actions) + 1 \in Nat /\ taken \in SUBSET Nat
            /\ req \in ActionRequest /\ e \in EnvIds
        BY InputsAreDocuments DEF TypeOK
      <4> QED BY <2>c, <3>0, <4>1 DEF AuditEvent, TypeOK
    <3>3. ASSUME codes = {} PROVE Granted(ev)
      <4>1. ActionViolations(e, req) = {}
        BY <3>1, <3>3
      <4>2. /\ clock < Doc(e).expires
            /\ req.tool \in Doc(e).allowed \ Doc(e).denied
            /\ req.data \subseteq Doc(e).data
            /\ req.resources # {}
            /\ \A r \in req.resources : ResourceAllowed(Scopes(Doc(e), r[1]), r[2])
            /\ ~ConditionError(Doc(e).approvals, req.args.numbers)
        BY <4>1, NoViolations
      <4>3. /\ ev.envelope = e /\ ev.request = req /\ ev.decided = clock
            /\ ev.consumed = taken
            /\ req \in ActionRequest /\ clock \in Int
        BY <3>0, InputsAreDocuments DEF TypeOK
      <4>4. ASSUME NEW role \in RequiredRoles(Doc(e).approvals, req.args.numbers),
                   NEW r \in req.resources
            PROVE  \E i \in taken :
                    /\ i \in 1..Len(approvals)
                    /\ approvals[i].role = role /\ approvals[i].envelope = e
                    /\ approvals[i].action = req.tool /\ approvals[i].resource = r
                    /\ approvals[i].args = req.args /\ clock < approvals[i].expires
        <5>1. PICK i \in taken : i \in Matching(e, req, role, r)
          BY <3>1, <3>3
        <5>2. approvals[i] \in ApprovalRow /\ clock \in Int
          BY <5>1 DEF Matching, TypeOK
        <5>3. approvals[i].expires \in Int
          BY <5>2 DEF ApprovalRow
        <5> QED BY <5>1, <5>2, <5>3 DEF Matching
      <4> QED BY <4>2, <4>3, <4>4 DEF Granted
    <3>4. codes = {} => Granted(ev)'
      BY <3>3, StepsAreStable, GrantedStays
    <3>5. ev.violations = codes /\ appendAudit(envelopes[e].run, ev)
      BY <3>0, <3>1
    <3> QED BY <2>0, <3>2, <3>4, <3>5, AllowedGrows DEF TypeOK, GrantInv
  <2>7. CASE Tick
    BY <2>0, <2>7, AllowedSame DEF Tick, GrantInv
  <2>8. CASE UNCHANGED vars
    BY <2>0, <2>8, AllowedSame DEF vars, GrantInv
  <2> QED BY <2>2, <2>3, <2>4, <2>5, <2>6, <2>7, <2>8 DEF Next
<1> QED BY <1>1, <1>2, DelegationInvariant, TypeCorrect, PTL DEF Spec

\* An envelope and its ancestor, as the statements about ancestors use them.
LEMMA AncestorFacts ==
    ASSUME DelegationInv, NEW id \in Saved, NEW a \in Ancestors(id)
    PROVE  a \in Saved /\ Doc(a) \in Envelope /\ Doc(id) \in Envelope
           /\ Narrower(Doc(a), Doc(id))
<1>1. a \in Saved
  BY DEF Ancestors
<1>2. Doc(a) \in Envelope /\ Doc(id) \in Envelope
  BY <1>1 DEF DelegationInv, EnvelopesOK, Doc
<1> QED BY <1>1, <1>2, AncestorsNarrow DEF AuthorityNarrows

\* Every allowed action lies within the authority of every envelope above the
\* one it named, at the time it was allowed (actions.go:141-168).
THEOREM GrantsCovered == Spec => []GrantsAreCoveredByEveryAncestor
<1>1. DelegationInv /\ GrantInv => GrantsAreCoveredByEveryAncestor
  <2> SUFFICES ASSUME DelegationInv, GrantInv, NEW ev \in AllowedActions,
                      NEW a \in Ancestors(ev.envelope)
               PROVE  /\ ev.decided < Doc(a).expires
                      /\ ev.request.tool \in Doc(a).allowed \ Doc(a).denied
                      /\ ev.request.data \subseteq Doc(a).data
                      /\ ev.request.resources # {}
                      /\ \A r \in ev.request.resources :
                            ResourceAllowed(Scopes(Doc(a), r[1]), r[2])
    BY DEF GrantsAreCoveredByEveryAncestor
  <2>1. Granted(ev) /\ ev.envelope \in Saved
    BY DEF GrantInv, Granted
  <2>2. /\ Doc(a) \in Envelope /\ Doc(ev.envelope) \in Envelope
        /\ Narrower(Doc(a), Doc(ev.envelope))
    BY <2>1, AncestorFacts
  <2>3. ev.decided < Doc(a).expires
    <3>1. Doc(a).expires \in Int /\ Doc(ev.envelope).expires \in Int
      BY <2>2 DEF Envelope
    <3> QED BY <2>1, <2>2, <3>1 DEF Granted, Narrower
  <2>4. ASSUME NEW r \in ev.request.resources
        PROVE  ResourceAllowed(Scopes(Doc(a), r[1]), r[2])
    <3>1. r[2] \in Scope
      BY <2>1 DEF Granted, ActionRequest, Resource
    <3>2. ResourceAllowed(Scopes(Doc(ev.envelope), r[1]), r[2])
      BY <2>1 DEF Granted
    <3> QED BY <2>2, <3>1, <3>2, NarrowerAllowsLess
  <2> QED BY <2>1, <2>2, <2>3, <2>4 DEF Granted, Narrower
<1> QED BY <1>1, DelegationInvariant, GrantInvariant, PTL

\* Every allowed action spent, for each role any ancestor may demand and each
\* resource, an approval of exactly that operation (actions.go:179-208).
THEOREM ObligationsMet == Spec => []ObligationsOfEveryAncestorAreMet
<1>1. DelegationInv /\ GrantInv => ObligationsOfEveryAncestorAreMet
  <2> SUFFICES ASSUME DelegationInv, GrantInv, NEW ev \in AllowedActions,
                      NEW a \in Ancestors(ev.envelope), NEW ap \in Doc(a).approvals,
                      Value(ap.cond, ev.request.args.numbers) # "false",
                      NEW r \in ev.request.resources
               PROVE  \E i \in ev.consumed :
                        /\ approvals[i].role = ap.role
                        /\ approvals[i].envelope = ev.envelope
                        /\ approvals[i].action = ev.request.tool
                        /\ approvals[i].resource = r
                        /\ approvals[i].args = ev.request.args
                        /\ ev.decided < approvals[i].expires
    BY DEF ObligationsOfEveryAncestorAreMet
  <2>1. Granted(ev) /\ ev.envelope \in Saved
    BY DEF GrantInv, Granted
  <2>2. /\ Doc(a) \in Envelope /\ Doc(ev.envelope) \in Envelope
        /\ Narrower(Doc(a), Doc(ev.envelope))
    BY <2>1, AncestorFacts
  <2>3. ev.request.args \in Arguments
        /\ ~ConditionError(Doc(ev.envelope).approvals, ev.request.args.numbers)
    BY <2>1 DEF Granted, ActionRequest
  <2> DEFINE numbers == ev.request.args.numbers
  <2>4. /\ DOMAIN numbers \subseteq Names /\ numbers \in [DOMAIN numbers -> Int]
        /\ \A x \in Conditions : CelValue(x, numbers) \in {"true", "false", "error"}
    BY <2>3, ArgumentsAreObjects
  <2>5. ap.role \in RequiredRoles(Doc(ev.envelope).approvals, numbers)
    <3> HIDE DEF numbers
    <3> QED BY <2>2, <2>3, <2>4, NarrowerRequiresMore DEF numbers
  <2> QED BY <2>1, <2>5 DEF Granted
<1> QED BY <1>1, DelegationInvariant, GrantInvariant, PTL

-----------------------------------------------------------------------------
(* Approvals. *)

\* ApprovalSpentOnce and what makes it inductive: no event lists an approval
\* that does not exist yet.
SpentInv ==
    /\ ApprovalSpentOnce
    /\ \A ev \in AllowedActions : ev.consumed \subseteq 1..Len(approvals)

\* A step that evaluates no action and consumes nothing, but may create approvals.
LEMMA NothingSpent ==
    ASSUME SpentInv, Len(approvals) \in Nat, Len(approvals') \in Nat,
           Len(approvals) <= Len(approvals'),
           \A i \in 1..Len(approvals') :
              IF i <= Len(approvals)
              THEN approvals'[i].consumed = approvals[i].consumed
              ELSE approvals'[i].consumed = FALSE,
           \A r \in RunIds : \A x \in Events(r)' :
              x \in Events(r) \/ x.type # "action.evaluated",
           AllowedActions' = AllowedActions
    PROVE  SpentInv'
<1>1. \A ev \in AllowedActions : ev.consumed \subseteq 1..Len(approvals)
  BY DEF SpentInv
<1>2. \A i \in 1..Len(approvals) :
        approvals[i].consumed <=> \E ev \in AllowedActions : i \in ev.consumed
  BY DEF SpentInv, ApprovalSpentOnce
<1>3. ASSUME NEW i \in 1..Len(approvals')
      PROVE  approvals'[i].consumed <=> \E ev \in AllowedActions' : i \in ev.consumed
  <2>1. CASE i <= Len(approvals)
    BY <1>2, <2>1
  <2>2. CASE ~(i <= Len(approvals))
    <3>1. approvals'[i].consumed = FALSE
      BY <2>2
    <3>2. i \notin 1..Len(approvals)
      BY <2>2
    <3> QED BY <1>1, <3>1, <3>2
  <2> QED BY <2>1, <2>2
<1>4. \A ev1, ev2 \in AllowedActions' : ev1 # ev2 => ev1.consumed \cap ev2.consumed = {}
  BY DEF SpentInv, ApprovalSpentOnce
<1>5. \A r \in RunIds : \A ev \in Events(r)' :
        ev.type = "action.evaluated" /\ ev.violations # {} => ev.consumed = {}
  BY DEF SpentInv, ApprovalSpentOnce
<1>6. \A ev \in AllowedActions' : ev.consumed \subseteq 1..Len(approvals')
  BY <1>1
<1> QED BY <1>3, <1>4, <1>5, <1>6 DEF SpentInv, ApprovalSpentOnce

\* A step that evaluates one action and takes unconsumed approvals for it.
LEMMA ActionSpends ==
    ASSUME TypeOK, SpentInv, NEW run \in RunIds, NEW ev \in AuditEvent,
           appendAudit(run, ev), ev.type = "action.evaluated",
           NEW taken \in SUBSET (1..Len(approvals)), ev.consumed = taken,
           ev.violations # {} => taken = {},
           \A i \in taken : ~approvals[i].consumed,
           approvals' = [i \in 1..Len(approvals) |->
                           [approvals[i] EXCEPT !.consumed = @ \/ i \in taken]]
    PROVE  SpentInv'
<1>1. \A x : x \in AllowedActions' <=>
               x \in AllowedActions \/ (x = ev /\ ev.violations = {})
  BY AllowedGrows DEF TypeOK
<1>2. /\ Len(approvals') = Len(approvals)
      /\ \A i \in 1..Len(approvals) :
            approvals'[i].consumed <=> approvals[i].consumed \/ i \in taken
  <2>1. Len(approvals) \in Nat /\ \A i \in 1..Len(approvals) : approvals[i] \in ApprovalRow
    BY DEF TypeOK
  <2>2. DOMAIN approvals' = 1..Len(approvals)
    OBVIOUS
  <2>3. Len(approvals') = Len(approvals)
    BY <2>1, <2>2
  <2>4. ASSUME NEW i \in 1..Len(approvals)
        PROVE  approvals'[i].consumed <=> approvals[i].consumed \/ i \in taken
    <3>1. "consumed" \in DOMAIN approvals[i]
      BY <2>1 DEF ApprovalRow
    <3>2. approvals'[i] = [approvals[i] EXCEPT !.consumed = @ \/ i \in taken]
      OBVIOUS
    <3> QED BY <3>1, <3>2, Zenon
  <2> QED BY <2>3, <2>4
<1>3. \A i \in 1..Len(approvals) :
        approvals[i].consumed <=> \E x \in AllowedActions : i \in x.consumed
  BY DEF SpentInv, ApprovalSpentOnce
<1>4. \A x \in AllowedActions : x.consumed \subseteq 1..Len(approvals)
  BY DEF SpentInv
<1>5. \A x \in AllowedActions : x.consumed \cap taken = {}
  BY <1>3, <1>4
<1>6. \A i \in 1..Len(approvals') :
        approvals'[i].consumed <=> \E x \in AllowedActions' : i \in x.consumed
  <2>1. CASE ev.violations = {}
    BY <1>1, <1>2, <1>3, <2>1
  <2>2. CASE ev.violations # {}
    BY <1>1, <1>2, <1>3, <2>2
  <2> QED BY <2>1, <2>2
<1>7. ASSUME NEW x \in AllowedActions', NEW y \in AllowedActions', x # y
      PROVE  x.consumed \cap y.consumed = {}
  <2>1. x \in AllowedActions /\ y \in AllowedActions => x.consumed \cap y.consumed = {}
    BY <1>7 DEF SpentInv, ApprovalSpentOnce
  <2> QED BY <1>1, <1>5, <1>7, <2>1
<1>8. ASSUME NEW r \in RunIds, NEW x \in Events(r)',
             x.type = "action.evaluated", x.violations # {}
      PROVE  x.consumed = {}
  <2>1. x \in Events(r) \/ x = ev
    BY EventsGrow DEF TypeOK
  <2>2. x \in Events(r) => x.consumed = {}
    BY <1>8 DEF SpentInv, ApprovalSpentOnce
  <2> QED BY <1>8, <2>1, <2>2
<1>9. \A x \in AllowedActions' : x.consumed \subseteq 1..Len(approvals')
  BY <1>1, <1>2, <1>4
<1> QED BY <1>6, <1>7, <1>8, <1>9 DEF SpentInv, ApprovalSpentOnce

\* An approval is consumed by exactly one allowed action; a denied action
\* consumes none (actions.go:183-208).
THEOREM SpentOnce == Spec => []ApprovalSpentOnce
<1>1. Init => SpentInv
  BY DEF Init, SpentInv, ApprovalSpentOnce, AllowedActions, Events
<1>2. TypeOK /\ SpentInv /\ [Next]_vars => SpentInv'
  <2> SUFFICES ASSUME TypeOK, SpentInv, [Next]_vars PROVE SpentInv'
    OBVIOUS
  <2>0. Len(approvals) \in Nat
    BY DEF TypeOK
  <2>c. clock' \in 0..MaxClock
    BY ClockAdvances DEF TypeOK
  <2>1. ASSUME NEW run \in RunIds, NEW ev \in AuditEvent,
               ev.type # "action.evaluated", appendAudit(run, ev), approvals' = approvals
        PROVE  SpentInv'
    <3>1. AllowedActions' = AllowedActions
      BY <2>1, AllowedGrows DEF TypeOK
    <3>2. \A r \in RunIds : \A x \in Events(r)' :
            x \in Events(r) \/ x.type # "action.evaluated"
      BY <2>1, EventsGrow DEF TypeOK
    <3> QED BY <2>0, <2>1, <3>1, <3>2, NothingSpent
  <2>2. ASSUME NEW run \in RunIds, NEW id \in EnvIds, NEW d \in RootDrafts,
               Create(run, id, d)
        PROVE  SpentInv'
    <3> DEFINE ev == [type |-> "envelope.created", timestamp |-> clock', envelope |-> id]
    <3>1. /\ ev \in AuditEvent /\ ev.type # "action.evaluated" /\ appendAudit(run, ev)
          /\ approvals' = approvals
      BY <2>2, <2>c DEF Create, AuditEvent, TypeOK
    <3> HIDE DEF ev
    <3> QED BY <2>1, <3>1
  <2>3. ASSUME NEW p \in Saved, NEW id \in EnvIds, NEW d \in ChildDrafts,
               NEW persist \in BOOLEAN, EvaluateHandoff(p, id, d, persist)
        PROVE  SpentInv'
    <3> DEFINE child == [WithVersion(d) EXCEPT
                           !.id = id, !.parent = IF @ = Blank THEN p ELSE @]
               codes == Diff(Doc(p), child, clock)
                          \cup (IF Active(p, clock) THEN {} ELSE {"PARENT_INACTIVE"})
               saved == persist /\ codes = {}
               ev == [type |-> "handoff.evaluated", timestamp |-> clock',
                      id |-> Len(handoffs) + 1, parent |-> p, envelope |-> id,
                      persisted |-> saved, violations |-> codes]
    <3>1. appendAudit(envelopes[p].run, ev) /\ approvals' = approvals
      BY <2>3 DEF EvaluateHandoff
    <3>2. codes \in SUBSET Codes /\ saved \in BOOLEAN
      BY DiffCodes DEF Codes
    <3> HIDE DEF codes, saved
    <3>3. ev \in AuditEvent /\ ev.type # "action.evaluated" /\ envelopes[p].run \in RunIds
      <4>1. Len(handoffs) + 1 \in Nat /\ p \in EnvIds
        BY DEF TypeOK
      <4> QED BY <2>c, <3>2, <4>1 DEF AuditEvent, TypeOK
    <3> HIDE DEF ev
    <3> QED BY <2>1, <3>1, <3>3
  <2>4. ASSUME NEW id \in Saved, Revoke(id) PROVE SpentInv'
    <3> DEFINE ev == [type |-> "envelope.revoked", timestamp |-> clock', envelope |-> id]
    <3>1. /\ ev \in AuditEvent /\ ev.type # "action.evaluated"
          /\ appendAudit(envelopes[id].run, ev) /\ envelopes[id].run \in RunIds
          /\ approvals' = approvals
      BY <2>4, <2>c DEF Revoke, AuditEvent, TypeOK
    <3> HIDE DEF ev
    <3> QED BY <2>1, <3>1
  <2>5. ASSUME NEW e \in Saved, NEW req \in ApprovalRequests, Approve(e, req)
        PROVE  SpentInv'
    <3>1. PICK row, ev :
            /\ row.consumed = FALSE /\ approvals' = Append(approvals, row)
            /\ ev = [type |-> "approval.created", timestamp |-> clock',
                     id |-> Len(approvals) + 1, envelope |-> e]
            /\ appendAudit(envelopes[e].run, ev)
      BY <2>5 DEF Approve
    <3>2. ev \in AuditEvent /\ ev.type # "action.evaluated" /\ envelopes[e].run \in RunIds
      <4>1. Len(approvals) + 1 \in Nat
        BY DEF TypeOK
      <4> QED BY <2>c, <3>1, <4>1 DEF AuditEvent, TypeOK
    <3>3. /\ Len(approvals') = Len(approvals) + 1
          /\ \A i \in 1..Len(approvals) : approvals'[i] = approvals[i]
          /\ approvals'[Len(approvals) + 1] = row
      BY <3>1 DEF TypeOK
    <3>4. \A i \in 1..Len(approvals') :
              IF i <= Len(approvals)
              THEN approvals'[i].consumed = approvals[i].consumed
              ELSE approvals'[i].consumed = FALSE
      BY <2>0, <3>1, <3>3
    <3>5. AllowedActions' = AllowedActions
      <4>1. appendAudit(envelopes[e].run, ev)
        BY <3>1
      <4>2. \A x : x \in AllowedActions' <=> x \in AllowedActions
        BY <4>1, <3>2, AllowedGrows DEF TypeOK
      <4> QED BY <4>2
    <3>6. \A r \in RunIds : \A x \in Events(r)' :
            x \in Events(r) \/ x.type # "action.evaluated"
      BY <3>1, <3>2, EventsGrow DEF TypeOK
    <3>7. Len(approvals') \in Nat /\ Len(approvals) <= Len(approvals')
      BY <2>0, <3>3
    <3> QED BY <2>0, <3>4, <3>5, <3>6, <3>7, NothingSpent
  <2>6. ASSUME NEW e \in Saved, NEW req \in ActionRequests, Action(e, req)
        PROVE  SpentInv'
    <3>1. PICK codes \in SUBSET Codes, taken \in SUBSET (1..Len(approvals)) :
             /\ approvals' = [i \in 1..Len(approvals) |->
                                [approvals[i] EXCEPT !.consumed = @ \/ i \in taken]]
             /\ appendAudit(envelopes[e].run,
                  [type |-> "action.evaluated", timestamp |-> clock',
                   decided |-> clock, id |-> Len(tool_actions) + 1, envelope |-> e,
                   request |-> req, violations |-> codes, consumed |-> taken])
             /\ codes # {} => taken = {}
             /\ \A i \in taken : ~approvals[i].consumed
      BY <2>6, ActionStep
    <3>2. PICK ev : ev = [type |-> "action.evaluated", timestamp |-> clock',
                          decided |-> clock, id |-> Len(tool_actions) + 1, envelope |-> e,
                          request |-> req, violations |-> codes, consumed |-> taken]
      OBVIOUS
    <3>3. ev \in AuditEvent /\ envelopes[e].run \in RunIds
      <4>1. /\ Len(tool_actions) + 1 \in Nat /\ taken \in SUBSET Nat
            /\ req \in ActionRequest /\ e \in EnvIds
        BY InputsAreDocuments DEF TypeOK
      <4> QED BY <2>c, <3>2, <4>1 DEF AuditEvent, TypeOK
    <3>4. /\ ev.type = "action.evaluated" /\ ev.consumed = taken
          /\ ev.violations = codes /\ appendAudit(envelopes[e].run, ev)
      BY <3>1, <3>2
    <3>5. PICK run \in RunIds : appendAudit(run, ev)
      BY <3>3, <3>4
    <3>6. ev.violations # {} => taken = {}
      BY <3>1, <3>4
    <3>7. /\ \A i \in taken : ~approvals[i].consumed
          /\ approvals' = [i \in 1..Len(approvals) |->
                             [approvals[i] EXCEPT !.consumed = @ \/ i \in taken]]
      BY <3>1
    <3>8. ev.type = "action.evaluated" /\ ev.consumed = taken /\ ev \in AuditEvent
      BY <3>3, <3>4
    <3> QED BY <3>5, <3>6, <3>7, <3>8, ActionSpends
  <2>7. CASE audit_events' = audit_events /\ approvals' = approvals
    <3>1. AllowedActions' = AllowedActions /\ \A r \in RunIds : Events(r)' = Events(r)
      BY <2>7, AllowedSame DEF Events
    <3>2. \A i \in 1..Len(approvals') :
            IF i <= Len(approvals)
            THEN approvals'[i].consumed = approvals[i].consumed
            ELSE approvals'[i].consumed = FALSE
      BY <2>0, <2>7
    <3>3. Len(approvals') \in Nat /\ Len(approvals) <= Len(approvals')
      BY <2>0, <2>7
    <3>4. \A r \in RunIds : \A x \in Events(r)' :
            x \in Events(r) \/ x.type # "action.evaluated"
      BY <3>1
    <3> QED BY <2>0, <3>1, <3>2, <3>3, <3>4, NothingSpent
  <2>8. Tick => audit_events' = audit_events /\ approvals' = approvals
    BY DEF Tick
  <2>9. UNCHANGED vars => audit_events' = audit_events /\ approvals' = approvals
    BY DEF vars
  <2> QED BY <2>2, <2>3, <2>4, <2>5, <2>6, <2>7, <2>8, <2>9 DEF Next
<1>3. SpentInv => ApprovalSpentOnce
  BY DEF SpentInv
<1> QED BY <1>1, <1>2, <1>3, TypeCorrect, PTL DEF Spec

-----------------------------------------------------------------------------
(* What a step may record. *)

\* A grant needs an envelope that is active; a revocation is there at once.
Justified(ev) ==
    /\ Grants(ev) => Authority(ev) \in Saved /\ Active(Authority(ev), clock)
    /\ ev.type = "envelope.revoked" =>
            ev.envelope \in Saved /\ envelopes'[ev.envelope].revoked

\* What a step leaves as it is, or changes in one direction only.
Monotone ==
    /\ runs \subseteq runs' /\ violations \subseteq violations'
    /\ Saved \subseteq Saved'
    /\ \A x \in Saved : envelopes[x].revoked => envelopes'[x].revoked
    /\ \A i \in 1..Len(approvals) :
        /\ i \in 1..Len(approvals')
        /\ approvals[i].consumed => approvals'[i].consumed

Recorded ==
    \/ audit_events' = audit_events
    \/ \E run \in RunIds, ev \in AuditEvent : appendAudit(run, ev) /\ Justified(ev)

LEMMA CreateRecords ==
    ASSUME TypeOK, NEW run \in RunIds, NEW id \in EnvIds, NEW d \in RootDrafts,
           Create(run, id, d)
    PROVE  Monotone /\ Recorded
<1> DEFINE ev == [type |-> "envelope.created", timestamp |-> clock', envelope |-> id]
<1>0. clock' \in 0..MaxClock
  BY Stamped DEF Create
<1>1. ev \in AuditEvent /\ appendAudit(run, ev)
  BY <1>0 DEF Create, AuditEvent, TypeOK
<1>2. Justified(ev)
  BY DEF Justified, Grants
<1>3. Monotone
  BY DEF Create, Save, Saved, Monotone
<1> HIDE DEF ev
<1> QED BY <1>1, <1>2, <1>3 DEF Recorded

LEMMA HandoffRecords ==
    ASSUME TypeOK, NEW p \in Saved, NEW id \in EnvIds, NEW d \in ChildDrafts,
           NEW persist \in BOOLEAN, EvaluateHandoff(p, id, d, persist)
    PROVE  Monotone /\ Recorded
<1> DEFINE child == [WithVersion(d) EXCEPT
                       !.id = id, !.parent = IF @ = Blank THEN p ELSE @]
           codes == Diff(Doc(p), child, clock)
                      \cup (IF Active(p, clock) THEN {} ELSE {"PARENT_INACTIVE"})
           saved == persist /\ codes = {}
           ev == [type |-> "handoff.evaluated", timestamp |-> clock',
                  id |-> Len(handoffs) + 1, parent |-> p, envelope |-> id,
                  persisted |-> saved, violations |-> codes]
<1>1. /\ appendAudit(envelopes[p].run, ev)
      /\ IF saved THEN id \notin Saved /\ Save(id, envelopes[p].run, child)
                  ELSE UNCHANGED envelopes
      /\ recordViolations(envelopes[p].run, p, codes)
      /\ UNCHANGED <<runs, approvals, tool_actions>>
  BY DEF EvaluateHandoff
<1>2. codes \in SUBSET Codes /\ saved \in BOOLEAN
  BY DiffCodes DEF Codes
<1>3. codes = {} => Active(p, clock)
  OBVIOUS
<1> HIDE DEF codes, child
<1>4. Monotone
  BY <1>1 DEF Save, Saved, Monotone, recordViolations
<1> HIDE DEF saved
<1>5. ev \in AuditEvent /\ envelopes[p].run \in RunIds
  <2>1. Len(handoffs) + 1 \in Nat /\ p \in EnvIds
    BY DEF TypeOK
  <2>2. clock' \in 0..MaxClock
    BY <1>1, Stamped
  <2> QED BY <1>2, <2>1, <2>2 DEF AuditEvent, TypeOK
<1>6. Justified(ev)
  BY <1>3 DEF Justified, Grants, Authority
<1> HIDE DEF ev
<1> QED BY <1>1, <1>4, <1>5, <1>6 DEF Recorded

LEMMA RevokeRecords ==
    ASSUME TypeOK, NEW id \in Saved, Revoke(id)
    PROVE  Monotone /\ Recorded
<1> DEFINE ev == [type |-> "envelope.revoked", timestamp |-> clock', envelope |-> id]
<1>1. /\ envelopes' = [envelopes EXCEPT ![id].revoked = TRUE]
      /\ appendAudit(envelopes[id].run, ev)
      /\ UNCHANGED <<runs, handoffs, approvals, tool_actions, violations>>
  BY DEF Revoke
<1>2. ev \in AuditEvent /\ envelopes[id].run \in RunIds
  <2>1. clock' \in 0..MaxClock
    BY <1>1, Stamped
  <2> QED BY <2>1 DEF AuditEvent, TypeOK
<1>3. ASSUME NEW x \in Saved
      PROVE  envelopes'[x].revoked <=> envelopes[x].revoked \/ x = id
  <2>1. envelopes[x] \in [doc : Envelope, run : runs, revoked : BOOLEAN]
    BY DEF TypeOK
  <2>2. envelopes'[x] = IF x = id THEN [envelopes[x] EXCEPT !.revoked = TRUE]
                        ELSE envelopes[x]
    BY <1>1 DEF Saved
  <2> QED BY <2>1, <2>2
<1>4. Monotone
  <2>1. Saved' = Saved
    BY <1>1 DEF Saved
  <2> QED BY <1>1, <1>3, <2>1 DEF Monotone
<1>5. Justified(ev)
  BY <1>3 DEF Justified, Grants
<1> HIDE DEF ev
<1> QED BY <1>1, <1>2, <1>4, <1>5 DEF Recorded

LEMMA ApproveRecords ==
    ASSUME TypeOK, NEW e \in Saved, NEW req \in ApprovalRequests, Approve(e, req)
    PROVE  Monotone /\ Recorded
<1> DEFINE ev == [type |-> "approval.created", timestamp |-> clock',
                  id |-> Len(approvals) + 1, envelope |-> e]
<1>1. PICK row :
        /\ approvals' = Append(approvals, row)
        /\ appendAudit(envelopes[e].run, ev)
        /\ Active(e, clock)
        /\ UNCHANGED <<runs, envelopes, handoffs, tool_actions, violations>>
  BY DEF Approve
<1>2. ev \in AuditEvent /\ envelopes[e].run \in RunIds
  <2>1. Len(approvals) + 1 \in Nat
    BY DEF TypeOK
  <2>2. clock' \in 0..MaxClock
    BY <1>1, Stamped
  <2> QED BY <2>1, <2>2 DEF AuditEvent, TypeOK
<1>3. Monotone
  BY <1>1 DEF Monotone, Saved, TypeOK
<1>4. Justified(ev)
  BY <1>1 DEF Justified, Grants, Authority
<1> HIDE DEF ev
<1> QED BY <1>1, <1>2, <1>3, <1>4 DEF Recorded

LEMMA ActionRecords ==
    ASSUME TypeOK, DelegationInv, NEW e \in Saved, NEW req \in ActionRequests,
           Action(e, req)
    PROVE  Monotone /\ Recorded
<1>1. PICK codes \in SUBSET Codes, taken \in SUBSET (1..Len(approvals)) :
         /\ approvals' = [i \in 1..Len(approvals) |->
                            [approvals[i] EXCEPT !.consumed = @ \/ i \in taken]]
         /\ appendAudit(envelopes[e].run,
              [type |-> "action.evaluated", timestamp |-> clock',
               decided |-> clock, id |-> Len(tool_actions) + 1, envelope |-> e,
               request |-> req, violations |-> codes, consumed |-> taken])
         /\ recordViolations(envelopes[e].run, e, codes)
         /\ UNCHANGED <<runs, envelopes, handoffs>>
         /\ codes = {} => ActionViolations(e, req) = {}
  BY ActionStep
<1> DEFINE ev == [type |-> "action.evaluated", timestamp |-> clock',
                  decided |-> clock, id |-> Len(tool_actions) + 1, envelope |-> e,
                  request |-> req, violations |-> codes, consumed |-> taken]
<1>2. ev \in AuditEvent /\ envelopes[e].run \in RunIds
  <2>1. /\ Len(tool_actions) + 1 \in Nat /\ taken \in SUBSET Nat
        /\ req \in ActionRequest /\ e \in EnvIds
    BY InputsAreDocuments DEF TypeOK
  <2>2. clock' \in 0..MaxClock
    BY <1>1, Stamped
  <2> QED BY <2>1, <2>2 DEF AuditEvent, TypeOK
<1>3. codes = {} => Active(e, clock)
  BY <1>1, NoViolations
<1>4. Justified(ev)
  BY <1>3 DEF Justified, Grants, Authority
<1>5. /\ Len(approvals') = Len(approvals) /\ Len(approvals) \in Nat
      /\ \A i \in 1..Len(approvals) : approvals[i].consumed => approvals'[i].consumed
  <2>1. Len(approvals) \in Nat /\ \A i \in 1..Len(approvals) : approvals[i] \in ApprovalRow
    BY DEF TypeOK
  <2>2. Len(approvals') = Len(approvals)
    BY <1>1, <2>1
  <2>3. ASSUME NEW i \in 1..Len(approvals), approvals[i].consumed
        PROVE  approvals'[i].consumed
    <3>1. "consumed" \in DOMAIN approvals[i]
      BY <2>1 DEF ApprovalRow
    <3>2. approvals'[i] = [approvals[i] EXCEPT !.consumed = @ \/ i \in taken]
      BY <1>1
    <3> QED BY <2>3, <3>1, <3>2, Zenon
  <2> QED BY <2>1, <2>2, <2>3
<1>6. Monotone
  BY <1>1, <1>5 DEF Monotone, Saved, recordViolations
<1> HIDE DEF ev
<1> QED BY <1>1, <1>2, <1>4, <1>6 DEF Recorded, ev

\* Each step records at most one event, and nothing recorded is taken back.
LEMMA StepsRecord == TypeOK /\ DelegationInv /\ [Next]_vars => Monotone /\ Recorded
<1> SUFFICES ASSUME TypeOK, DelegationInv, [Next]_vars PROVE Monotone /\ Recorded
  OBVIOUS
<1>1. ASSUME UNCHANGED <<runs, envelopes, approvals, violations, audit_events>>
      PROVE  Monotone /\ Recorded
  BY <1>1 DEF Monotone, Recorded, Saved
<1>2. Tick => Monotone /\ Recorded
  BY <1>1 DEF Tick
<1>3. UNCHANGED vars => Monotone /\ Recorded
  BY <1>1 DEF vars
<1> QED BY <1>2, <1>3, CreateRecords, HandoffRecords, RevokeRecords, ApproveRecords,
           ActionRecords DEF Next

\* The log of a run after an event is appended, position by position.
LEMMA LogGrows ==
    ASSUME TypeOK, NEW run \in RunIds, NEW ev, appendAudit(run, ev), NEW r \in RunIds
    PROVE  /\ Len(audit_events[r]) \in Nat /\ Len(audit_events'[r]) \in Nat
           /\ Len(audit_events[r]) <= Len(audit_events'[r])
           /\ \A k \in 1..Len(audit_events[r]) : audit_events'[r][k] = audit_events[r][k]
           /\ \A k \in 1..Len(audit_events'[r]) :
                \/ k \in 1..Len(audit_events[r])
                \/ /\ k = Len(audit_events'[r]) /\ audit_events'[r][k] = ev
                   /\ r = run /\ k = Len(audit_events[r]) + 1
<1>1. audit_events[r] \in Seq(AuditEvent)
  BY DEF TypeOK
<1>2. audit_events'[r] = IF r = run THEN Append(audit_events[r], ev) ELSE audit_events[r]
  BY DEF appendAudit, TypeOK
<1> HIDE DEF TypeOK
<1>3. CASE r = run
  <2>1. audit_events'[r] = Append(audit_events[r], ev)
    BY <1>2, <1>3
  <2> QED BY <1>1, <1>3, <2>1
<1>4. CASE r # run
  BY <1>1, <1>2, <1>4
<1> QED BY <1>3, <1>4

\* Nothing that was recorded is ever rewritten: documents, decisions and events
\* stay, a revocation and a consumption are not undone (envelopes.go:234-269,
\* audit.go:35-75).
THEOREM HistoryStays == Spec => HistoryIsPermanent
<1> DEFINE Kept ==
       /\ runs \subseteq runs'
       /\ \A id \in Saved : /\ id \in DOMAIN envelopes'
                            /\ envelopes'[id].doc = Doc(id)
                            /\ envelopes[id].revoked => envelopes'[id].revoked
       /\ \A r \in RunIds : \A k \in 1..Len(audit_events[r]) :
            k \in 1..Len(audit_events'[r]) /\ audit_events'[r][k] = audit_events[r][k]
       /\ \A i \in 1..Len(approvals) :
            /\ i \in 1..Len(approvals')
            /\ approvals[i].consumed => approvals'[i].consumed
       /\ violations \subseteq violations'
<1>1. TypeOK /\ DelegationInv /\ [Next]_vars => [Kept]_vars
  <2> SUFFICES ASSUME TypeOK, DelegationInv, [Next]_vars PROVE Kept
    OBVIOUS
  <2>1. Monotone /\ Recorded /\ Stable
    BY StepsRecord, StepsAreStable
  <2>2. ASSUME NEW r \in RunIds, NEW k \in 1..Len(audit_events[r])
        PROVE  k \in 1..Len(audit_events'[r]) /\ audit_events'[r][k] = audit_events[r][k]
    <3>1. CASE audit_events' = audit_events
      BY <3>1
    <3>2. ASSUME NEW run \in RunIds, NEW ev \in AuditEvent, appendAudit(run, ev)
          PROVE  k \in 1..Len(audit_events'[r]) /\ audit_events'[r][k] = audit_events[r][k]
      BY <3>2, LogGrows
    <3> QED BY <2>1, <3>1, <3>2 DEF Recorded
  <2> QED BY <2>1, <2>2 DEF Monotone, Stable, Doc, Saved
<1>2. HistoryIsPermanent <=> [][Kept]_vars
  BY DEF HistoryIsPermanent
<1> QED BY <1>1, <1>2, TypeCorrect, DelegationInvariant, PTL DEF Spec

-----------------------------------------------------------------------------
(* Revocation. *)

\* Envelopes that are issued later are nobody's ancestors.
LEMMA AncestorsStay ==
    ASSUME DelegationInv, Stable, NEW id \in Saved
    PROVE  Ancestors(id)' = Ancestors(id)
<1>1. /\ Saved \subseteq Saved' /\ ParentClosed(Saved)
      /\ \A x \in Saved : Parent(x)' = Parent(x) /\ (IsRoot(x)' <=> IsRoot(x))
  BY DEF Stable, DelegationInv, ParentClosed, Parent, IsRoot, Doc
<1>2. ASSUME NEW S \in SUBSET Saved
      PROVE  ParentClosed(S)' <=> ParentClosed(S)
  BY <1>1 DEF ParentClosed
<1>3. ASSUME NEW a, a \in Ancestors(id) PROVE a \in Ancestors(id)'
  <2>1. a \in Saved'
    BY <1>1, <1>3 DEF Ancestors
  <2>2. ASSUME NEW S \in SUBSET Saved', id \in S, ParentClosed(S)' PROVE a \in S
    <3>1. ParentClosed(S \cap Saved)
      BY <1>1, <2>2 DEF ParentClosed
    <3> QED BY <1>3, <2>2, <3>1 DEF Ancestors
  <2> QED BY <2>1, <2>2 DEF Ancestors
<1>4. ASSUME NEW a, a \in Ancestors(id)' PROVE a \in Ancestors(id)
  <2>1. ParentClosed(Saved)'  => a \in Saved'
    BY <1>4 DEF Ancestors
  <2>2. \A S \in SUBSET Saved' : id \in S /\ ParentClosed(S)' => a \in S
    BY <1>4 DEF Ancestors
  <2>3. \A S \in SUBSET Saved : id \in S /\ ParentClosed(S) => a \in S
    BY <1>1, <1>2, <2>2
  <2>4. a \in Saved
    BY <1>1, <2>3
  <2> QED BY <2>3, <2>4 DEF Ancestors
<1> QED BY <1>3, <1>4

\* RevocationIsFinal and what makes it inductive: a recorded revocation is one
\* of a stored envelope and has not been undone, and what a grant was made under
\* is stored.
RevocationInv ==
    /\ RevocationIsFinal
    /\ \A run \in RunIds : \A k \in 1..Len(audit_events[run]) :
        LET ev == audit_events[run][k] IN
        /\ Grants(ev) => Authority(ev) \in Saved
        /\ ev.type = "envelope.revoked" =>
                ev.envelope \in Saved /\ envelopes[ev.envelope].revoked

\* Nothing that was granted under an envelope is older than its revocation: it
\* and all of its ancestors were unrevoked then (active, envelopes.go:298-329).
THEOREM RevocationFinal == Spec => []RevocationIsFinal
<1>1. Init => RevocationInv
  BY DEF Init, RevocationInv, RevocationIsFinal
<1>2. TypeOK /\ DelegationInv /\ RevocationInv /\ [Next]_vars => RevocationInv'
  <2> SUFFICES ASSUME TypeOK, DelegationInv, RevocationInv, [Next]_vars
               PROVE  RevocationInv'
    OBVIOUS
  <2>1. Monotone /\ Recorded /\ Stable
    BY StepsRecord, StepsAreStable
  <2>2. \A x \in Saved : /\ x \in Saved' /\ Ancestors(x)' = Ancestors(x)
                         /\ envelopes[x].revoked => envelopes'[x].revoked
    BY <2>1, AncestorsStay DEF Monotone
  <2>3. CASE audit_events' = audit_events
    BY <2>2, <2>3 DEF RevocationInv, RevocationIsFinal, Grants, Authority
  <2>4. ASSUME NEW run \in RunIds, NEW new \in AuditEvent,
               appendAudit(run, new), Justified(new)
        PROVE  RevocationInv'
    <3>1. ASSUME NEW r \in RunIds, NEW k \in 1..Len(audit_events'[r])
          PROVE  /\ Grants(audit_events'[r][k]) => Authority(audit_events'[r][k]) \in Saved'
                 /\ audit_events'[r][k].type = "envelope.revoked" =>
                        /\ audit_events'[r][k].envelope \in Saved'
                        /\ envelopes'[audit_events'[r][k].envelope].revoked
      <4>1. CASE audit_events'[r][k] = new
        BY <2>2, <2>4, <4>1 DEF Justified
      <4>2. CASE k \in 1..Len(audit_events[r]) /\ audit_events'[r][k] = audit_events[r][k]
        BY <2>2, <4>2 DEF RevocationInv
      <4> QED BY <2>4, <4>1, <4>2, LogGrows
    <3>2. ASSUME NEW r \in RunIds, NEW k \in 1..Len(audit_events'[r]),
                 NEW m \in 1..Len(audit_events'[r]), k < m,
                 NEW before, before = audit_events'[r][k],
                 NEW ev, ev = audit_events'[r][m],
                 before.type = "envelope.revoked", Grants(ev)
          PROVE  before.envelope \notin Ancestors(Authority(ev))'
      <4>1. k \in 1..Len(audit_events[r]) /\ before = audit_events[r][k]
        BY <2>4, <3>2, LogGrows
      <4>2. before.envelope \in Saved /\ envelopes[before.envelope].revoked
        BY <3>2, <4>1 DEF RevocationInv
      <4>3. CASE ev = new
        <5>1. Authority(ev) \in Saved /\ Active(Authority(ev), clock)
          BY <2>4, <3>2, <4>3 DEF Justified
        <5>2. before.envelope \notin Ancestors(Authority(ev))
          BY <4>2, <5>1 DEF Active, StillGood
        <5> QED BY <2>2, <5>1, <5>2
      <4>4. CASE m \in 1..Len(audit_events[r]) /\ ev = audit_events[r][m]
        <5>1. Authority(ev) \in Saved /\ before.envelope \notin Ancestors(Authority(ev))
          BY <3>2, <4>1, <4>4 DEF RevocationInv, RevocationIsFinal
        <5> QED BY <2>2, <5>1
      <4> QED BY <2>4, <3>2, <4>3, <4>4, LogGrows
    <3>3. RevocationIsFinal'
      BY <3>2 DEF RevocationIsFinal
    <3> QED BY <3>1, <3>3 DEF RevocationInv, Grants, Authority
  <2> QED BY <2>1, <2>3, <2>4 DEF Recorded
<1>3. RevocationInv => RevocationIsFinal
  BY DEF RevocationInv
<1> QED BY <1>1, <1>2, <1>3, TypeCorrect, DelegationInvariant, PTL DEF Spec

-----------------------------------------------------------------------------
(* Executions. *)

SameOperation(a, b) ==
    /\ a.envelope = b.envelope /\ a.action = b.action /\ a.resource = b.resource
    /\ a.args = b.args /\ a.role = b.role

\* An operator approves nothing that has been approved before.
UniqueInv ==
    \A i, j \in 1..Len(approvals) :
        i < j /\ approvals[j].operator # Blank => ~SameOperation(approvals[i], approvals[j])

\* No step but the first approval of an operation adds an approval.
LEMMA UniqueApprovals == Spec => []UniqueInv
<1>1. Init => UniqueInv
  BY DEF Init, UniqueInv
<1>2. TypeOK /\ UniqueInv /\ [Next]_vars => UniqueInv'
  <2> SUFFICES ASSUME TypeOK, UniqueInv, [Next]_vars PROVE UniqueInv'
    OBVIOUS
  <2>0. Len(approvals) \in Nat /\ \A i \in 1..Len(approvals) : approvals[i] \in ApprovalRow
    BY DEF TypeOK
  <2>1. CASE approvals' = approvals
    BY <2>1 DEF UniqueInv
  <2>2. ASSUME NEW e \in Saved, NEW req \in ApprovalRequests, Approve(e, req)
        PROVE  UniqueInv'
    <3> DEFINE role == IF req.operator # Blank THEN ManagerRole ELSE req.role
               row == [envelope |-> e, action |-> req.action, resource |-> req.resource,
                       args |-> req.args, role |-> role, operator |-> req.operator,
                       expires |-> req.expires, consumed |-> FALSE]
    <3>1. /\ approvals' = Append(approvals, row)
          /\ req.operator # Blank => ~AlreadyApproved(e, req, role)
      BY <2>2 DEF Approve
    <3>2. ASSUME NEW i \in 1..Len(approvals), req.operator # Blank
          PROVE  ~SameOperation(approvals[i], row)
      BY <3>1, <3>2 DEF AlreadyApproved, Approves, SameOperation
    <3>3. row.operator = req.operator
      OBVIOUS
    <3> HIDE DEF row, role
    <3>4. /\ Len(approvals') = Len(approvals) + 1
          /\ \A i \in 1..Len(approvals) : approvals'[i] = approvals[i]
          /\ approvals'[Len(approvals) + 1] = row
      BY <3>1 DEF TypeOK
    <3>5. ASSUME NEW i \in 1..Len(approvals'), NEW j \in 1..Len(approvals'), i < j,
                 approvals'[j].operator # Blank
          PROVE  ~SameOperation(approvals'[i], approvals'[j])
      <4>1. i \in 1..Len(approvals)
        BY <2>0, <3>4, <3>5
      <4>2. CASE j \in 1..Len(approvals)
        BY <3>4, <3>5, <4>1, <4>2 DEF UniqueInv
      <4>3. CASE j = Len(approvals) + 1
        BY <3>2, <3>3, <3>4, <3>5, <4>1, <4>3
      <4> QED BY <2>0, <3>4, <4>2, <4>3
    <3> QED BY <3>5 DEF UniqueInv, SameOperation
  <2>3. ASSUME NEW e \in Saved, NEW req \in ActionRequests, Action(e, req)
        PROVE  UniqueInv'
    <3>1. PICK taken \in SUBSET (1..Len(approvals)) :
             approvals' = [i \in 1..Len(approvals) |->
                              [approvals[i] EXCEPT !.consumed = @ \/ i \in taken]]
      BY <2>3, ActionStep
    <3>2. Len(approvals') = Len(approvals)
      BY <2>0, <3>1
    <3>3. ASSUME NEW i \in 1..Len(approvals)
          PROVE  /\ SameOperation(approvals'[i], approvals[i])
                 /\ approvals'[i].operator = approvals[i].operator
      BY <2>0, <3>1 DEF SameOperation, ApprovalRow
    <3> QED BY <3>2, <3>3 DEF UniqueInv, SameOperation
  <2>4. Tick \/ UNCHANGED vars => approvals' = approvals
    BY DEF Tick, vars
  <2>5. ASSUME NEW run \in RunIds, NEW id \in EnvIds, NEW d \in RootDrafts,
               Create(run, id, d)
        PROVE  approvals' = approvals
    BY <2>5 DEF Create
  <2>6. ASSUME NEW p \in Saved, NEW id \in EnvIds, NEW d \in ChildDrafts,
               NEW persist \in BOOLEAN, EvaluateHandoff(p, id, d, persist)
        PROVE  approvals' = approvals
    BY <2>6 DEF EvaluateHandoff
  <2>7. ASSUME NEW id \in Saved, Revoke(id) PROVE approvals' = approvals
    BY <2>7 DEF Revoke
  <2> QED BY <2>1, <2>2, <2>3, <2>4, <2>5, <2>6, <2>7 DEF Next
<1> QED BY <1>1, <1>2, TypeCorrect, PTL DEF Spec

\* What operators approved is executed at most once: a second execution would have
\* spent another approval of the same operation, which no operator can have given
\* (the duplicate check, actions.go:89-97).
THEOREM OneExecution == Spec => []OneExecutionPerApprovedOperation
<1>1. ASSUME GrantInv, ApprovalSpentOnce, UniqueInv
      PROVE  OneExecutionPerApprovedOperation
  <2> SUFFICES ASSUME NEW ev1 \in AllowedActions, NEW ev2 \in AllowedActions,
                      ev1.envelope = ev2.envelope,
                      ev1.request.tool = ev2.request.tool,
                      ev1.request.args = ev2.request.args,
                      NEW r \in ev1.request.resources \cap ev2.request.resources,
                      NEW role \in RequiredRoles(Doc(ev1.envelope).approvals,
                                                ev1.request.args.numbers),
                      \A i \in ev1.consumed \cup ev2.consumed : approvals[i].operator # Blank,
                      ev1 # ev2
               PROVE  FALSE
    BY DEF OneExecutionPerApprovedOperation
  <2>1. Granted(ev1) /\ Granted(ev2)
    BY <1>1 DEF GrantInv
  <2>2. PICK i \in ev1.consumed : 
            /\ i \in 1..Len(approvals) /\ approvals[i].role = role
            /\ approvals[i].envelope = ev1.envelope
            /\ approvals[i].action = ev1.request.tool
            /\ approvals[i].resource = r /\ approvals[i].args = ev1.request.args
    BY <2>1 DEF Granted
  <2>3. PICK j \in ev2.consumed : 
            /\ j \in 1..Len(approvals) /\ approvals[j].role = role
            /\ approvals[j].envelope = ev1.envelope
            /\ approvals[j].action = ev1.request.tool
            /\ approvals[j].resource = r /\ approvals[j].args = ev1.request.args
    BY <2>1 DEF Granted
  <2>4. i # j
    BY <1>1 DEF ApprovalSpentOnce
  <2>5. SameOperation(approvals[i], approvals[j]) /\ SameOperation(approvals[j], approvals[i])
    BY <2>2, <2>3 DEF SameOperation
  <2>6. approvals[i].operator # Blank /\ approvals[j].operator # Blank
    OBVIOUS
  <2>7. i < j \/ j < i
    BY <2>2, <2>3, <2>4
  <2> QED BY <1>1, <2>2, <2>3, <2>5, <2>6, <2>7 DEF UniqueInv
<1> QED BY <1>1, GrantInvariant, SpentOnce, UniqueApprovals, PTL

-----------------------------------------------------------------------------
(* Chains. *)

\* The ancestors of an envelope are itself and those of its parent, which is
\* one level above it.
LinkedToParents ==
    \A id \in Saved :
        /\ IsRoot(id) => Ancestors(id) = {id}
        /\ ~IsRoot(id) => \E p \in Saved :
              /\ p = Parent(id) /\ Doc(id).depth = Doc(p).depth + 1
              /\ Ancestors(id) = {id} \cup Ancestors(p)

LEMMA AncestorsFollowParents == DelegationInv => LinkedToParents
<1> SUFFICES ASSUME DelegationInv, NEW id \in Saved
             PROVE  /\ IsRoot(id) => Ancestors(id) = {id}
                    /\ ~IsRoot(id) => Ancestors(id) = {id} \cup Ancestors(Parent(id))
  BY DEF LinkedToParents, DelegationInv
<1>1. id \in Ancestors(id)
  BY SelfAncestor
<1>2. ASSUME IsRoot(id) PROVE Ancestors(id) = {id}
  <2>1. ParentClosed({id})
    BY <1>2 DEF ParentClosed
  <2> QED BY <1>1, <2>1, AncestorsWithin
<1>3. ASSUME ~IsRoot(id) PROVE Ancestors(id) = {id} \cup Ancestors(Parent(id))
  <2> DEFINE p == Parent(id)
  <2>1. p \in Saved /\ p \in Ancestors(p)
    BY <1>3, SelfAncestor DEF DelegationInv
  <2> HIDE DEF p
  <2>2. \A q \in Saved : Ancestors(q) \subseteq Saved
    BY DEF Ancestors
  <2>3. ASSUME NEW x \in Ancestors(p), ~IsRoot(x) PROVE Parent(x) \in Ancestors(p)
    <3>1. x \in Saved /\ Parent(x) \in Saved
      BY <2>1, <2>2, <2>3 DEF DelegationInv
    <3>2. ASSUME NEW S \in SUBSET Saved, p \in S, ParentClosed(S) PROVE Parent(x) \in S
      BY <2>3, <3>2 DEF Ancestors, ParentClosed
    <3> QED BY <3>1, <3>2 DEF Ancestors
  <2>4. ParentClosed({id} \cup Ancestors(p))
    BY <2>1, <2>3 DEF ParentClosed, p
  <2>5. Ancestors(id) \subseteq {id} \cup Ancestors(p)
    BY <2>1, <2>2, <2>4, AncestorsWithin
  <2>6. ASSUME NEW a \in Ancestors(p) PROVE a \in Ancestors(id)
    <3>1. ASSUME NEW S \in SUBSET Saved, id \in S, ParentClosed(S) PROVE a \in S
      <4>1. p \in S
        BY <1>3, <3>1 DEF ParentClosed, p
      <4> QED BY <2>6, <3>1, <4>1 DEF Ancestors
    <3> QED BY <2>1, <2>2, <3>1 DEF Ancestors
  <2> QED BY <1>1, <2>5, <2>6 DEF p
<1> QED BY <1>2, <1>3

\* What an envelope had to satisfy when it was issued, without the time.
Issued(id) ==
    /\ \E t \in Int : Validate(Doc(id), t)
    /\ Doc(id).max <= MaxRootDepth
    /\ IsRoot(id) => Doc(id).depth = 0
    /\ ~IsRoot(id) => \A code \in DOMAIN Breaches(Doc(Parent(id)), Doc(id)) :
                         ~Breaches(Doc(Parent(id)), Doc(id))[code]

\* Each chain ends in a root and is no longer than its depth says.
ChainInv ==
    \A id \in Saved :
        /\ Issued(id)
        /\ IsFiniteSet(Ancestors(id)) /\ Cardinality(Ancestors(id)) <= Doc(id).depth + 1
        /\ \E a \in Ancestors(id) : IsRoot(a)

LEMMA ChainKeeps ==
    ASSUME DelegationInv, DelegationInv', ChainInv, Stable, NEW id,
           Saved' \subseteq Saved \cup {id}, id \notin Saved /\ id \in Saved' => Issued(id)'
    PROVE  ChainInv'
<1>1. /\ Saved \subseteq Saved'
      /\ \A x \in Saved : Ancestors(x)' = Ancestors(x) /\ Doc(x)' = Doc(x)
  BY AncestorsStay DEF Stable, Doc
<1>2. ASSUME NEW x \in Saved PROVE (IsRoot(x)' <=> IsRoot(x)) /\ (Issued(x)' <=> Issued(x))
  BY <1>1 DEF DelegationInv, Issued, IsRoot, Parent
<1>3. ASSUME NEW x \in Saved
      PROVE  /\ Issued(x)'
             /\ IsFiniteSet(Ancestors(x)')
             /\ Cardinality(Ancestors(x)') <= Doc(x)'.depth + 1
             /\ \E a \in Ancestors(x)' : IsRoot(a)'
  <2>1. Ancestors(x) \subseteq Saved
    BY DEF Ancestors
  <2> QED BY <1>1, <1>2, <2>1 DEF ChainInv
<1>4. ASSUME id \notin Saved, id \in Saved'
      PROVE  /\ Issued(id)'
             /\ IsFiniteSet(Ancestors(id)')
             /\ Cardinality(Ancestors(id)') <= Doc(id)'.depth + 1
             /\ \E a \in Ancestors(id)' : IsRoot(a)'
  <2>1. Issued(id)' /\ Doc(id)' \in Envelope
    BY <1>4 DEF DelegationInv, EnvelopesOK, Doc
  <2>3. CASE IsRoot(id)'
    <3>0. LinkedToParents'
      BY AncestorsFollowParents, PTL
    <3>1. Ancestors(id)' = {id} /\ Doc(id)'.depth = 0
      BY <1>4, <2>1, <2>3, <3>0 DEF LinkedToParents, Issued
    <3>2. IsFiniteSet({id}) /\ Cardinality({id}) = 1
      BY FS_Singleton
    <3> QED BY <2>1, <2>3, <3>1, <3>2
  <2>4. CASE ~IsRoot(id)'
    <3>0. PICK p : p = Parent(id)'
      OBVIOUS
    <3>1. /\ p \in Saved' /\ Doc(id)'.depth = Doc(p)'.depth + 1
          /\ Ancestors(id)' = {id} \cup Ancestors(p)'
      <4>1. LinkedToParents'
        BY AncestorsFollowParents, PTL
      <4> QED BY <1>4, <2>4, <3>0, <4>1 DEF LinkedToParents
    <3>3. p # id
      <4>1. Doc(id)'.depth \in Int
        BY <2>1 DEF Envelope
      <4> QED BY <3>1, <4>1
    <3>4. p \in Saved /\ Ancestors(p)' = Ancestors(p) /\ Doc(p)' = Doc(p)
      BY <1>1, <3>1, <3>3
    <3>5. /\ IsFiniteSet(Ancestors(p)) /\ Cardinality(Ancestors(p)) <= Doc(p).depth + 1
          /\ \E a \in Ancestors(p) : IsRoot(a)
      BY <3>4 DEF ChainInv
    <3>6. id \notin Ancestors(p) /\ Ancestors(p) \subseteq Saved
      BY <1>4 DEF Ancestors
    <3>7. /\ IsFiniteSet(Ancestors(p) \cup {id})
          /\ Cardinality(Ancestors(p) \cup {id}) = Cardinality(Ancestors(p)) + 1
          /\ Cardinality(Ancestors(p)) \in Nat
      BY <3>5, <3>6, FS_AddElement, FS_CardinalityType
    <3>8. Doc(p).depth \in Int
      BY <3>4 DEF DelegationInv, EnvelopesOK, Doc, Envelope
    <3>9. Ancestors(id)' = Ancestors(p) \cup {id}
      BY <3>1, <3>4
    <3>10. \E a \in Ancestors(id)' : IsRoot(a)'
      BY <1>2, <3>5, <3>6, <3>9
    <3>11. Cardinality(Ancestors(id)') <= Doc(id)'.depth + 1
      <4>1. Cardinality(Ancestors(id)') = Cardinality(Ancestors(p)) + 1
        BY <3>7, <3>9
      <4>2. Doc(id)'.depth = Doc(p).depth + 1
        BY <3>1, <3>4
      <4>3. Cardinality(Ancestors(p)) <= Doc(p).depth + 1
        BY <3>5
      <4> QED BY <4>1, <4>2, <4>3, <3>7, <3>8, SMT
    <3> QED BY <2>1, <3>7, <3>9, <3>10, <3>11
  <2> QED BY <2>3, <2>4
<1> QED BY <1>3, <1>4 DEF ChainInv

\* Each handler that stores an envelope has checked it (envelopes.go:105-122 for
\* roots, policy.Diff for children), so every chain is bounded by MaxRootDepth.
LEMMA ChainInvariant == Spec => []ChainInv
<1>1. Init => ChainInv
  BY DEF Init, ChainInv, Saved
<1>2. TypeOK /\ DelegationInv /\ DelegationInv' /\ ChainInv /\ [Next]_vars => ChainInv'
  <2> SUFFICES ASSUME TypeOK, DelegationInv, DelegationInv', ChainInv, [Next]_vars
               PROVE  ChainInv'
    OBVIOUS
  <2>1. Stable
    BY StepsAreStable
  <2>2. clock \in Int
    BY DepthBounds DEF TypeOK
  <2>3. CASE Saved' = Saved
    BY <2>1, <2>3, ChainKeeps
  <2>4. ASSUME NEW run \in RunIds, NEW id \in EnvIds, NEW d \in RootDrafts,
               Create(run, id, d)
        PROVE  ChainInv'
    <3> DEFINE v == [WithVersion(d) EXCEPT !.id = id]
    <3>1. /\ v.parent = Blank /\ v.depth = 0 /\ v.max <= MaxRootDepth
          /\ Validate(v, clock) /\ Save(id, run, v)
      BY <2>4 DEF Create
    <3> HIDE DEF v
    <3>2. Saved' = Saved \cup {id} /\ envelopes'[id].doc = v
      BY <3>1 DEF Save, Saved
    <3>3. Issued(id)'
      BY <2>2, <3>1, <3>2 DEF Issued, Doc, IsRoot, Parent
    <3> QED BY <2>1, <3>2, <3>3, ChainKeeps
  <2>5. ASSUME NEW p \in Saved, NEW id \in EnvIds, NEW d \in ChildDrafts,
               NEW persist \in BOOLEAN, EvaluateHandoff(p, id, d, persist)
        PROVE  ChainInv'
    <3> DEFINE child == Child(p, id, d)
               codes == Diff(Doc(p), child, clock)
                          \cup (IF Active(p, clock) THEN {} ELSE {"PARENT_INACTIVE"})
    <3>1. \/ envelopes' = envelopes
          \/ codes = {} /\ id \notin Saved /\ Save(id, envelopes[p].run, child)
      BY <2>5 DEF EvaluateHandoff, Child
    <3>2. codes = {} => Diff(Doc(p), child, clock) = {}
      OBVIOUS
    <3>3. child \in Envelope /\ Doc(p) \in Envelope /\ Doc(p).id = p
      BY InputsAreDocuments, CompletedDocument DEF DelegationInv, EnvelopesOK, Doc
    <3> HIDE DEF child, codes
    <3>4. CASE envelopes' = envelopes
      BY <2>3, <3>4 DEF Saved
    <3>5. CASE codes = {} /\ id \notin Saved /\ Save(id, envelopes[p].run, child)
      <4>1. /\ Saved' = Saved \cup {id} /\ envelopes'[id].doc = child
            /\ envelopes'[p] = envelopes[p]
        BY <3>5 DEF Save, Saved
      <4>2. /\ Validate(child, clock) /\ child.parent = p /\ child.max <= Doc(p).max
            /\ \A code \in DOMAIN Breaches(Doc(p), child) : ~Breaches(Doc(p), child)[code]
        BY <3>2, <3>3, <3>5, DiffAllows, DiffNarrows DEF Narrower
      <4>3. child.max <= MaxRootDepth
        <5>1. Doc(p).max <= MaxRootDepth
          BY DEF ChainInv, Issued
        <5>2. child.max \in Int /\ Doc(p).max \in Int
          BY <3>3 DEF Envelope
        <5> QED BY <4>2, <5>1, <5>2, DepthBounds
      <4>4. p # Blank
        BY BlankIsNoId DEF DelegationInv, EnvelopesOK
      <4>5. Issued(id)'
        BY <2>2, <4>1, <4>2, <4>3, <4>4 DEF Issued, Doc, IsRoot, Parent
      <4> QED BY <2>1, <4>1, <4>5, ChainKeeps
    <3> QED BY <3>1, <3>4, <3>5
  <2>6. ASSUME NEW id \in Saved, Revoke(id) PROVE ChainInv'
    BY <2>3, <2>6 DEF Revoke, Saved
  <2>7. ASSUME NEW e \in Saved, NEW req \in ApprovalRequests, Approve(e, req)
        PROVE  ChainInv'
    BY <2>3, <2>7 DEF Approve, Saved
  <2>8. ASSUME NEW e \in Saved, NEW req \in ActionRequests, Action(e, req)
        PROVE  ChainInv'
    BY <2>3, <2>8, ActionStep DEF Saved
  <2>9. CASE Tick
    BY <2>3, <2>9 DEF Tick, Saved
  <2>10. CASE UNCHANGED vars
    BY <2>3, <2>10 DEF vars, Saved
  <2> QED BY <2>4, <2>5, <2>6, <2>7, <2>8, <2>9, <2>10 DEF Next
<1> QED BY <1>1, <1>2, TypeCorrect, DelegationInvariant, PTL DEF Spec

\* An unexpired envelope stays as valid as it was when it was issued.
LEMMA ValidUntilExpiry ==
    ASSUME NEW e, NEW t, NEW now, Validate(e, t), e.expires > now
    PROVE  Validate(e, now)
BY DEF Validate, ValidateExpiration

\* `active` turns down no stored envelope but for a revocation or an expiry in
\* its chain, however deep the chain (active, envelopes.go:298-329): what it
\* checks again held when each envelope was issued and stays true, and its bound
\* on the walk is not met.
THEOREM ActiveWhenAlive == Spec => []ActiveExactlyWhenAlive
<1>1. TypeOK /\ DelegationInv /\ ChainInv => ActiveExactlyWhenAlive
  <2> SUFFICES ASSUME TypeOK, DelegationInv, ChainInv, NEW id \in Saved
               PROVE  Active(id, clock) <=>
                        \A a \in Ancestors(id) :
                            ~envelopes[a].revoked /\ clock < Doc(a).expires
    BY DEF ActiveExactlyWhenAlive
  <2>1. \A x \in Saved : /\ Doc(x) \in Envelope
                         /\ {Doc(x).expires, Doc(x).max, Doc(x).depth} \subseteq Int
    BY DEF DelegationInv, EnvelopesOK, Doc, Envelope
  <2>2. clock \in Int /\ Ancestors(id) \subseteq Saved
    BY DepthBounds DEF TypeOK, Ancestors
  <2>3. ASSUME Active(id, clock), NEW a \in Ancestors(id)
        PROVE  ~envelopes[a].revoked /\ clock < Doc(a).expires
    <3>1. ~envelopes[a].revoked /\ Doc(a).expires > clock
      BY <2>3 DEF Active, StillGood, Validate, ValidateExpiration
    <3> QED BY <2>1, <2>2, <3>1
  <2>4. ASSUME \A a \in Ancestors(id) : ~envelopes[a].revoked /\ clock < Doc(a).expires
        PROVE  Active(id, clock)
    <3>1. Cardinality(Ancestors(id)) <= MaxChain
      <4>1. /\ IsFiniteSet(Ancestors(id)) /\ Cardinality(Ancestors(id)) <= Doc(id).depth + 1
            /\ Doc(id).max <= MaxRootDepth /\ Doc(id).depth <= Doc(id).max
        BY DEF ChainInv, Issued, Validate
      <4>2. Cardinality(Ancestors(id)) \in Nat
        BY <4>1, FS_CardinalityType
      <4> QED BY <2>1, <4>1, <4>2, WalkReachesRoots, DepthBounds
    <3>2. \E a \in Ancestors(id) : IsRoot(a)
      BY DEF ChainInv
    <3>3. ASSUME NEW a \in Ancestors(id) PROVE Validate(Doc(a), clock)
      <4>1. PICK t \in Int : Validate(Doc(a), t)
        BY <2>2 DEF ChainInv, Issued
      <4>2. Doc(a).expires > clock
        BY <2>1, <2>2, <2>4
      <4> QED BY <4>1, <4>2, ValidUntilExpiry
    <3>4. ASSUME NEW a \in Ancestors(id)
          PROVE  envelopes[a].run = envelopes[id].run /\ StillGood(a, clock)
      <4>1. envelopes[a].run = envelopes[id].run
        BY AncestorsNarrow DEF AuthorityNarrows
      <4>2. CASE IsRoot(a)
        BY <2>2, <2>4, <3>3, <4>1, <4>2 DEF StillGood, ChainInv, Issued
      <4>3. CASE ~IsRoot(a)
        <5>1. Parent(a) \in Ancestors(id)
          <6>1. Parent(a) \in Saved
            BY <2>2, <4>3 DEF DelegationInv
          <6> QED BY <4>3, <6>1 DEF Ancestors, ParentClosed
        <5>2. Validate(Doc(Parent(a)), clock) /\ Validate(Doc(a), clock)
          BY <3>3, <5>1
        <5>3. \A code \in DOMAIN Breaches(Doc(Parent(a)), Doc(a)) :
                 ~Breaches(Doc(Parent(a)), Doc(a))[code]
          BY <2>2, <4>3 DEF ChainInv, Issued
        <5>4. Diff(Doc(Parent(a)), Doc(a), clock) = {}
          BY <5>2, <5>3 DEF Diff
        <5> QED BY <2>4, <3>3, <4>1, <4>3, <5>4 DEF StillGood
      <4> QED BY <4>2, <4>3
    <3> QED BY <3>1, <3>2, <3>4 DEF Active
  <2> QED BY <2>3, <2>4
<1> QED BY <1>1, TypeCorrect, DelegationInvariant, ChainInvariant, PTL

-----------------------------------------------------------------------------
(* The audit log and the tables. *)

\* The events by which an envelope is stored.
Issues(ev) ==
    \/ ev.type = "envelope.created"
    \/ ev.type = "handoff.evaluated" /\ ev.persisted

\* The run of each row of a table, and the table with one more row if the event
\* is of the table's type.
ActionRuns == [i \in 1..Len(tool_actions) |-> tool_actions[i].run]
HandoffRuns == [i \in 1..Len(handoffs) |-> handoffs[i].run]
ApprovalRuns == [i \in 1..Len(approvals) |-> envelopes[approvals[i].envelope].run]
WithRow(rows, n, run) == [i \in 1..n + 1 |-> IF i = n + 1 THEN run ELSE rows[i]]

\* The events of one type number the rows of its table, run by run, in order.
Mirrors(type, rows) ==
    /\ \A run \in RunIds : \A k \in 1..Len(audit_events[run]) :
         LET ev == audit_events[run][k] IN
         ev.type = type =>
            /\ ev.id \in DOMAIN rows /\ rows[ev.id] = run
            /\ \A m \in 1..Len(audit_events[run]) :
                 k < m /\ audit_events[run][m].type = type
                    => ev.id < audit_events[run][m].id
    /\ \A i \in DOMAIN rows :
         /\ rows[i] \in RunIds
         /\ \E k \in 1..Len(audit_events[rows[i]]) :
              audit_events[rows[i]][k].type = type /\ audit_events[rows[i]][k].id = i

\* Every stored envelope was issued in its run, once and after its parent, and
\* a run begins with the creation of its root.
IssuedOnce(run, k, id) ==
    /\ id \in Saved /\ envelopes[id].run = run
    /\ IsRoot(id) \/ \E m \in 1..k - 1 :
          Issues(audit_events[run][m]) /\ audit_events[run][m].envelope = Parent(id)
    /\ \A m \in 1..Len(audit_events[run]) :
          m # k /\ Issues(audit_events[run][m]) => audit_events[run][m].envelope # id

IssuedInv ==
    /\ \A run \in RunIds : \A k \in 1..Len(audit_events[run]) :
         LET ev == audit_events[run][k] IN
         /\ run \in runs
         /\ ev.type = "envelope.created" <=> k = 1
         /\ Issues(ev) => IssuedOnce(run, k, ev.envelope)
    /\ \A run \in runs : Len(audit_events[run]) > 0
    /\ \A id \in Saved : \E k \in 1..Len(audit_events[envelopes[id].run]) :
         LET ev == audit_events[envelopes[id].run][k] IN
         Issues(ev) /\ ev.envelope = id

\* Exactly the revoked envelopes are recorded as revoked, each once.
RevokedInv ==
    /\ \A run \in RunIds : \A k \in 1..Len(audit_events[run]) :
         LET ev == audit_events[run][k] IN
         ev.type = "envelope.revoked" =>
            /\ ev.envelope \in Saved
            /\ envelopes[ev.envelope].run = run /\ envelopes[ev.envelope].revoked
            /\ \A m \in 1..Len(audit_events[run]) :
                 m # k /\ audit_events[run][m].type = "envelope.revoked"
                    => audit_events[run][m].envelope # ev.envelope
    /\ \A id \in Saved : envelopes[id].revoked =>
         \E k \in 1..Len(audit_events[envelopes[id].run]) :
           LET ev == audit_events[envelopes[id].run][k] IN
           ev.type = "envelope.revoked" /\ ev.envelope = id

AuditInv ==
    /\ IssuedInv /\ RevokedInv
    /\ Mirrors("action.evaluated", ActionRuns)
    /\ Mirrors("handoff.evaluated", HandoffRuns)
    /\ Mirrors("approval.created", ApprovalRuns)

\* What the handler that appends ev to the log of run does to the envelopes.
Enveloped(run, ev) ==
    /\ runs' = IF ev.type = "envelope.created" THEN runs \cup {run} ELSE runs
    /\ run \in runs <=> ev.type # "envelope.created"
    /\ Saved' = IF Issues(ev) THEN Saved \cup {ev.envelope} ELSE Saved
    /\ Issues(ev) =>
         /\ ev.envelope \notin Saved
         /\ envelopes'[ev.envelope].run = run /\ ~envelopes'[ev.envelope].revoked
         /\ IF ev.type = "envelope.created" THEN IsRoot(ev.envelope)'
            ELSE /\ Parent(ev.envelope)' \in Saved
                 /\ envelopes[Parent(ev.envelope)'].run = run
    /\ \A x \in Saved :
         /\ envelopes'[x].doc = envelopes[x].doc /\ envelopes'[x].run = envelopes[x].run
         /\ envelopes'[x].revoked <=> envelopes[x].revoked
                \/ (ev.type = "envelope.revoked" /\ ev.envelope = x)
    /\ ev.type = "envelope.revoked" =>
         /\ ev.envelope \in Saved /\ envelopes[ev.envelope].run = run
         /\ ~envelopes[ev.envelope].revoked

\* And what it does to the rows.
Rowed(type, rows, n, next, run, ev) ==
    IF ev.type = type THEN ev.id = n + 1 /\ next = WithRow(rows, n, run)
    ELSE next = rows

Filed(run, ev) ==
    /\ appendAudit(run, ev) /\ Enveloped(run, ev)
    /\ Rowed("action.evaluated", ActionRuns, Len(tool_actions), ActionRuns', run, ev)
    /\ Rowed("handoff.evaluated", HandoffRuns, Len(handoffs), HandoffRuns', run, ev)
    /\ Rowed("approval.created", ApprovalRuns, Len(approvals), ApprovalRuns', run, ev)

\* A row more, position by position.
LEMMA MirrorsRow ==
    ASSUME TypeOK, NEW type, NEW n \in Nat, NEW rows, DOMAIN rows = 1..n,
           Mirrors(type, rows), NEW run \in RunIds, NEW ev, appendAudit(run, ev),
           NEW next, Rowed(type, rows, n, next, run, ev)
    PROVE  Mirrors(type, next)'
<1>n. /\ DOMAIN next = IF ev.type = type THEN 1..n + 1 ELSE 1..n
      /\ \A i \in 1..n : next[i] = rows[i]
      /\ ev.type = type => next[n + 1] = run /\ ev.id = n + 1
  BY DEF Rowed, WithRow
<1>g. ASSUME NEW r \in RunIds
      PROVE  /\ Len(audit_events[r]) \in Nat /\ Len(audit_events'[r]) \in Nat
             /\ Len(audit_events[r]) <= Len(audit_events'[r])
             /\ \A k \in 1..Len(audit_events[r]) :
                    audit_events'[r][k] = audit_events[r][k]
             /\ \A k \in 1..Len(audit_events'[r]) :
                  \/ k \in 1..Len(audit_events[r])
                  \/ /\ k = Len(audit_events'[r]) /\ audit_events'[r][k] = ev
                     /\ r = run /\ k = Len(audit_events[r]) + 1
  BY LogGrows
<1>1. ASSUME NEW r \in RunIds, NEW k \in 1..Len(audit_events'[r]),
             audit_events'[r][k].type = type
      PROVE  /\ audit_events'[r][k].id \in DOMAIN next
             /\ next[audit_events'[r][k].id] = r
             /\ \A m \in 1..Len(audit_events'[r]) :
                  k < m /\ audit_events'[r][m].type = type
                     => audit_events'[r][k].id < audit_events'[r][m].id
  <2>1. CASE k \in 1..Len(audit_events[r])
    <3>1. /\ audit_events[r][k].id \in 1..n /\ rows[audit_events[r][k].id] = r
          /\ \A m \in 1..Len(audit_events[r]) :
                  k < m /\ audit_events[r][m].type = type
                     => audit_events[r][k].id < audit_events[r][m].id
          /\ audit_events'[r][k] = audit_events[r][k]
      <4>1. audit_events'[r][k] = audit_events[r][k]
        BY <1>g, <2>1
      <4>2. audit_events[r][k].type = type
        BY <1>1, <4>1
      <4> QED BY <2>1, <4>1, <4>2 DEF Mirrors
    <3>2. audit_events'[r][k].id \in DOMAIN next /\ next[audit_events'[r][k].id] = r
      BY <1>n, <3>1
    <3>3. ASSUME NEW m \in 1..Len(audit_events'[r]), k < m,
                 audit_events'[r][m].type = type
          PROVE  audit_events'[r][k].id < audit_events'[r][m].id
      <4>1. CASE m \in 1..Len(audit_events[r])
        BY <1>g, <3>1, <3>3, <4>1
      <4>2. CASE m \notin 1..Len(audit_events[r])
        BY <1>g, <1>n, <3>1, <3>3, <4>2
      <4> QED BY <4>1, <4>2
    <3> QED BY <3>2, <3>3
  <2>2. CASE k \notin 1..Len(audit_events[r])
    BY <1>1, <1>g, <1>n, <2>2
  <2> QED BY <2>1, <2>2
<1>2. ASSUME NEW i \in DOMAIN next
      PROVE  /\ next[i] \in RunIds
             /\ \E k \in 1..Len(audit_events'[next[i]]) :
                  /\ audit_events'[next[i]][k].type = type
                  /\ audit_events'[next[i]][k].id = i
  <2>1. CASE i \in 1..n
    <3>1. /\ rows[i] \in RunIds /\ next[i] = rows[i]
          /\ \E k \in 1..Len(audit_events[rows[i]]) :
              audit_events[rows[i]][k].type = type /\ audit_events[rows[i]][k].id = i
      BY <1>n, <2>1 DEF Mirrors
    <3>2. PICK k \in 1..Len(audit_events[rows[i]]) :
              audit_events[rows[i]][k].type = type /\ audit_events[rows[i]][k].id = i
      BY <3>1
    <3>3. k \in 1..Len(audit_events'[rows[i]])
          /\ audit_events'[rows[i]][k] = audit_events[rows[i]][k]
      BY <1>g, <3>1
    <3> QED BY <3>1, <3>2, <3>3
  <2>2. CASE i \notin 1..n
    <3>1. i = n + 1 /\ ev.type = type /\ next[i] = run /\ ev.id = i
      BY <1>n, <2>2
    <3>2. audit_events'[run] = Append(audit_events[run], ev)
          /\ audit_events[run] \in Seq(AuditEvent)
      BY DEF appendAudit, TypeOK
    <3>3. Len(audit_events[run]) + 1 \in 1..Len(audit_events'[run])
          /\ audit_events'[run][Len(audit_events[run]) + 1] = ev
      BY <3>2
    <3> QED BY <3>1, <3>3
  <2> QED BY <2>1, <2>2
<1> QED BY <1>1, <1>2 DEF Mirrors

\* One event more, and its envelope: what was issued stays issued once.
LEMMA IssuedKept ==
    ASSUME TypeOK, IssuedInv, NEW run \in RunIds, NEW ev, appendAudit(run, ev),
           Enveloped(run, ev)
    PROVE  IssuedInv'
<1>g. ASSUME NEW r \in RunIds
      PROVE  /\ Len(audit_events[r]) \in Nat /\ Len(audit_events'[r]) \in Nat
             /\ Len(audit_events[r]) <= Len(audit_events'[r])
             /\ \A k \in 1..Len(audit_events[r]) :
                    audit_events'[r][k] = audit_events[r][k]
             /\ \A k \in 1..Len(audit_events'[r]) :
                  \/ k \in 1..Len(audit_events[r])
                  \/ /\ k = Len(audit_events'[r]) /\ audit_events'[r][k] = ev
                     /\ r = run /\ k = Len(audit_events[r]) + 1
  BY LogGrows
<1>l. PICK n \in Nat : /\ n = Len(audit_events[run]) /\ Len(audit_events'[run]) = n + 1
                       /\ audit_events'[run][n + 1] = ev
  <2>1. audit_events'[run] = Append(audit_events[run], ev)
        /\ audit_events[run] \in Seq(AuditEvent)
    BY DEF appendAudit, TypeOK
  <2> QED BY <2>1
<1>e. /\ runs \subseteq runs' /\ run \in runs' /\ Saved \subseteq Saved'
      /\ \A x \in Saved : /\ envelopes'[x].run = envelopes[x].run
                          /\ Parent(x)' = Parent(x) /\ (IsRoot(x)' <=> IsRoot(x))
  BY DEF Enveloped, Parent, IsRoot, Doc
<1>1. ASSUME NEW r \in RunIds, NEW k \in 1..Len(audit_events[r])
      PROVE  /\ r \in runs
             /\ audit_events[r][k].type = "envelope.created" <=> k = 1
             /\ Issues(audit_events[r][k])
                    => IssuedOnce(r, k, audit_events[r][k].envelope)
  BY <1>1 DEF IssuedInv
<1>2. /\ \A x \in runs : Len(audit_events[x]) > 0
      /\ \A id \in Saved : /\ envelopes[id].run \in RunIds
                           /\ \E k \in 1..Len(audit_events[envelopes[id].run]) :
                                /\ Issues(audit_events[envelopes[id].run][k])
                                /\ audit_events[envelopes[id].run][k].envelope = id
  BY DEF IssuedInv, TypeOK
<1>3. ASSUME NEW r \in RunIds, NEW k \in 1..Len(audit_events'[r])
      PROVE  /\ r \in runs'
             /\ audit_events'[r][k].type = "envelope.created" <=> k = 1
             /\ Issues(audit_events'[r][k])
                    => \E id : id = audit_events'[r][k].envelope /\ IssuedOnce(r, k, id)'
  <2>1. CASE k \in 1..Len(audit_events[r])
    <3>1. PICK x : x = audit_events[r][k]
      OBVIOUS
    <3>2. audit_events'[r][k] = x /\ r \in runs' /\ (x.type = "envelope.created" <=> k = 1)
      BY <1>e, <1>g, <1>1, <2>1, <3>1
    <3>3. ASSUME Issues(x) PROVE \E id : id = x.envelope /\ IssuedOnce(r, k, id)'
      <4>0. PICK id : id = x.envelope
        OBVIOUS
      <4>1. /\ id \in Saved /\ envelopes[id].run = r
            /\ \/ IsRoot(id)
               \/ \E m \in 1..k - 1 : /\ Issues(audit_events[r][m])
                                      /\ audit_events[r][m].envelope = Parent(id)
            /\ \A m \in 1..Len(audit_events[r]) :
                   m # k /\ Issues(audit_events[r][m])
                       => audit_events[r][m].envelope # id
        BY <1>1, <2>1, <3>1, <3>3, <4>0 DEF IssuedOnce
      <4>2. Issues(ev) => ev.envelope # id
        BY <4>1 DEF Enveloped
      <4>3. \A m \in 1..k - 1 : audit_events'[r][m] = audit_events[r][m]
        BY <1>g, <2>1
      <4>4. \A m \in 1..Len(audit_events'[r]) :
                m # k /\ Issues(audit_events'[r][m])
                    => audit_events'[r][m].envelope # id
        BY <1>g, <4>1, <4>2
      <4>5. id \in Saved' /\ envelopes'[id].run = r
        BY <1>e, <4>1
      <4>6. \/ IsRoot(id)'
            \/ \E m \in 1..k - 1 : /\ Issues(audit_events'[r][m])
                                   /\ audit_events'[r][m].envelope = Parent(id)'
        BY <1>e, <4>1, <4>3
      <4>7. IssuedOnce(r, k, id)'
        BY <4>4, <4>5, <4>6 DEF IssuedOnce, Issues
      <4> QED BY <4>0, <4>7
    <3> QED BY <3>2, <3>3
  <2>2. CASE k \notin 1..Len(audit_events[r])
    <3>1. r = run /\ k = n + 1 /\ audit_events'[r][k] = ev
      BY <1>g, <1>l, <2>2
    <3>2. ev.type = "envelope.created" <=> k = 1
      <4>1. run \in runs <=> n > 0
        BY <1>1, <1>2, <1>l
      <4> QED BY <1>l, <3>1, <4>1 DEF Enveloped
    <3>3. ASSUME Issues(ev) PROVE \E id : id = ev.envelope /\ IssuedOnce(r, k, id)'
      <4>0. PICK id : id = ev.envelope
        OBVIOUS
      <4>1. id \in Saved' /\ id \notin Saved /\ envelopes'[id].run = r
        BY <3>1, <3>3, <4>0 DEF Enveloped
      <4>2. ASSUME ev.type # "envelope.created"
            PROVE  \E m \in 1..k - 1 : /\ Issues(audit_events'[r][m])
                                       /\ audit_events'[r][m].envelope
                                            = Parent(id)'
        <5>1. PICK p : p = Parent(id)'
          OBVIOUS
        <5>2. p \in Saved /\ envelopes[p].run = run
          BY <3>3, <4>0, <4>2, <5>1 DEF Enveloped
        <5>3. PICK m \in 1..Len(audit_events[run]) :
                Issues(audit_events[run][m]) /\ audit_events[run][m].envelope = p
          BY <1>2, <5>2
        <5>4. m \in 1..k - 1 /\ audit_events'[run][m] = audit_events[run][m]
          BY <1>g, <1>l, <3>1
        <5> QED BY <3>1, <5>1, <5>3, <5>4
      <4>3. ev.type = "envelope.created" => IsRoot(id)'
        BY <3>3, <4>0 DEF Enveloped
      <4>4. ASSUME NEW m \in 1..Len(audit_events'[r]), m # k, Issues(audit_events'[r][m])
            PROVE  audit_events'[r][m].envelope # id
        <5>1. m \in 1..Len(audit_events[r]) /\ audit_events'[r][m] = audit_events[r][m]
          BY <1>g, <1>l, <3>1, <4>4
        <5>2. audit_events[r][m].envelope \in Saved
          BY <1>1, <4>4, <5>1 DEF IssuedOnce
        <5> QED BY <4>1, <5>1, <5>2
      <4>5. IssuedOnce(r, k, id)'
        BY <4>1, <4>2, <4>3, <4>4 DEF IssuedOnce, Issues
      <4> QED BY <4>0, <4>5
    <3>4. r \in runs'
      BY <1>e, <3>1
    <3> QED BY <3>1, <3>2, <3>3, <3>4
  <2> QED BY <2>1, <2>2
<1>4. ASSUME NEW x \in runs' PROVE Len(audit_events'[x]) > 0
  <2>1. CASE x \in runs
    BY <1>2, <1>g, <2>1 DEF TypeOK
  <2>2. CASE x \notin runs
    BY <1>l, <2>2 DEF Enveloped
  <2> QED BY <2>1, <2>2
<1>5. ASSUME NEW id \in Saved'
      PROVE  \E k \in 1..Len(audit_events'[envelopes'[id].run]) :
                /\ Issues(audit_events'[envelopes'[id].run][k])
                /\ audit_events'[envelopes'[id].run][k].envelope = id
  <2>1. CASE id \in Saved
    <3>1. PICK r \in RunIds : r = envelopes[id].run
      BY <1>2, <2>1
    <3>2. PICK k \in 1..Len(audit_events[r]) :
            Issues(audit_events[r][k]) /\ audit_events[r][k].envelope = id
      BY <1>2, <2>1, <3>1
    <3>3. k \in 1..Len(audit_events'[r]) /\ audit_events'[r][k] = audit_events[r][k]
      BY <1>g
    <3> QED BY <1>e, <2>1, <3>1, <3>2, <3>3
  <2>2. CASE id \notin Saved
    <3>1. Issues(ev) /\ id = ev.envelope /\ envelopes'[id].run = run
      BY <2>2 DEF Enveloped
    <3>2. n + 1 \in 1..Len(audit_events'[run])
      BY <1>l
    <3> QED BY <1>l, <3>1, <3>2
  <2> QED BY <2>1, <2>2
<1> QED BY <1>3, <1>4, <1>5 DEF IssuedInv, IssuedOnce, Issues

\* The same of revocations.
LEMMA RevokedKept ==
    ASSUME TypeOK, RevokedInv, NEW run \in RunIds, NEW ev, appendAudit(run, ev),
           Enveloped(run, ev)
    PROVE  RevokedInv'
<1>g. ASSUME NEW r \in RunIds
      PROVE  /\ Len(audit_events[r]) \in Nat /\ Len(audit_events'[r]) \in Nat
             /\ Len(audit_events[r]) <= Len(audit_events'[r])
             /\ \A k \in 1..Len(audit_events[r]) :
                    audit_events'[r][k] = audit_events[r][k]
             /\ \A k \in 1..Len(audit_events'[r]) :
                  \/ k \in 1..Len(audit_events[r])
                  \/ /\ k = Len(audit_events'[r]) /\ audit_events'[r][k] = ev
                     /\ r = run /\ k = Len(audit_events[r]) + 1
  BY LogGrows
<1>l. PICK n \in Nat : /\ n = Len(audit_events[run]) /\ Len(audit_events'[run]) = n + 1
                       /\ audit_events'[run][n + 1] = ev
  <2>1. audit_events'[run] = Append(audit_events[run], ev)
        /\ audit_events[run] \in Seq(AuditEvent)
    BY DEF appendAudit, TypeOK
  <2> QED BY <2>1
<1>e. /\ Saved \subseteq Saved'
      /\ \A x \in Saved :
           /\ envelopes'[x].run = envelopes[x].run /\ envelopes[x].run \in RunIds
           /\ envelopes'[x].revoked <=> envelopes[x].revoked
                \/ (ev.type = "envelope.revoked" /\ ev.envelope = x)
      /\ \A x \in Saved' \ Saved : ~envelopes'[x].revoked
      /\ ev.type = "envelope.revoked" =>
           /\ ev.envelope \in Saved /\ envelopes[ev.envelope].run = run
           /\ ~envelopes[ev.envelope].revoked
  BY DEF Enveloped, TypeOK
<1>1. ASSUME NEW r \in RunIds, NEW k \in 1..Len(audit_events[r]),
             audit_events[r][k].type = "envelope.revoked"
      PROVE  /\ audit_events[r][k].envelope \in Saved
             /\ envelopes[audit_events[r][k].envelope].run = r
             /\ envelopes[audit_events[r][k].envelope].revoked
             /\ \A m \in 1..Len(audit_events[r]) :
                  m # k /\ audit_events[r][m].type = "envelope.revoked"
                    => audit_events[r][m].envelope # audit_events[r][k].envelope
  BY <1>1 DEF RevokedInv
<1>3. ASSUME NEW r \in RunIds, NEW k \in 1..Len(audit_events'[r]),
             audit_events'[r][k].type = "envelope.revoked"
      PROVE  /\ audit_events'[r][k].envelope \in Saved'
             /\ envelopes'[audit_events'[r][k].envelope].run = r
             /\ envelopes'[audit_events'[r][k].envelope].revoked
             /\ \A m \in 1..Len(audit_events'[r]) :
                  m # k /\ audit_events'[r][m].type = "envelope.revoked"
                    => audit_events'[r][m].envelope # audit_events'[r][k].envelope
  <2>1. CASE k \in 1..Len(audit_events[r])
    <3>1. audit_events'[r][k] = audit_events[r][k]
      BY <1>g, <2>1
    <3>2. /\ audit_events[r][k].envelope \in Saved
          /\ envelopes[audit_events[r][k].envelope].run = r
          /\ envelopes[audit_events[r][k].envelope].revoked
          /\ \A m \in 1..Len(audit_events[r]) :
                  m # k /\ audit_events[r][m].type = "envelope.revoked"
                    => audit_events[r][m].envelope # audit_events[r][k].envelope
      BY <1>1, <1>3, <2>1, <3>1
    <3>3. PICK id : id = audit_events[r][k].envelope /\ id = audit_events'[r][k].envelope
      BY <3>1
    <3>4. ev.type = "envelope.revoked" => ev.envelope # id
      BY <1>e, <3>2, <3>3
    <3>5. \A m \in 1..Len(audit_events'[r]) :
             m # k /\ audit_events'[r][m].type = "envelope.revoked"
                => audit_events'[r][m].envelope # id
      BY <1>g, <3>2, <3>3, <3>4
    <3>6. id \in Saved' /\ envelopes'[id].run = r /\ envelopes'[id].revoked
      BY <1>e, <3>2, <3>3
    <3> QED BY <3>3, <3>5, <3>6
  <2>2. CASE k \notin 1..Len(audit_events[r])
    <3>1. r = run /\ k = n + 1 /\ audit_events'[r][k] = ev
      BY <1>g, <1>l, <2>2
    <3>2. ASSUME NEW m \in 1..Len(audit_events'[r]), m # k,
                 audit_events'[r][m].type = "envelope.revoked"
          PROVE  audit_events'[r][m].envelope # ev.envelope
      <4>1. m \in 1..Len(audit_events[r]) /\ audit_events'[r][m] = audit_events[r][m]
        BY <1>g, <1>l, <3>1, <3>2
      <4>2. envelopes[audit_events[r][m].envelope].revoked
        BY <1>1, <3>2, <4>1
      <4> QED BY <1>e, <1>3, <3>1, <4>1, <4>2
    <3> QED BY <1>3, <1>e, <3>1, <3>2
  <2> QED BY <2>1, <2>2
<1>5. ASSUME NEW id \in Saved', envelopes'[id].revoked
      PROVE  \E k \in 1..Len(audit_events'[envelopes'[id].run]) :
                /\ audit_events'[envelopes'[id].run][k].type = "envelope.revoked"
                /\ audit_events'[envelopes'[id].run][k].envelope = id
  <2>0. id \in Saved
    BY <1>e, <1>5
  <2>1. CASE envelopes[id].revoked
    <3>1. PICK r \in RunIds : r = envelopes[id].run
      BY <1>e, <2>0
    <3>2. PICK k \in 1..Len(audit_events[r]) :
            audit_events[r][k].type = "envelope.revoked" /\ audit_events[r][k].envelope = id
      BY <2>0, <2>1, <3>1 DEF RevokedInv
    <3>3. k \in 1..Len(audit_events'[r]) /\ audit_events'[r][k] = audit_events[r][k]
      BY <1>g
    <3> QED BY <1>e, <2>0, <3>1, <3>2, <3>3
  <2>2. CASE ~envelopes[id].revoked
    <3>1. ev.type = "envelope.revoked" /\ id = ev.envelope /\ envelopes'[id].run = run
      BY <1>5, <1>e, <2>0, <2>2
    <3>2. n + 1 \in 1..Len(audit_events'[run])
      BY <1>l
    <3> QED BY <1>l, <3>1, <3>2
  <2> QED BY <2>1, <2>2
<1> QED BY <1>3, <1>5 DEF RevokedInv

\* Each handler's event and row keep the log and the tables together.
LEMMA FiledKeeps ==
    ASSUME TypeOK, AuditInv, NEW run \in RunIds, NEW ev, Filed(run, ev)
    PROVE  AuditInv'
<1>1. IssuedInv' /\ RevokedInv'
  BY IssuedKept, RevokedKept DEF AuditInv, Filed
<1>2. /\ Len(tool_actions) \in Nat /\ DOMAIN ActionRuns = 1..Len(tool_actions)
      /\ Len(handoffs) \in Nat /\ DOMAIN HandoffRuns = 1..Len(handoffs)
      /\ Len(approvals) \in Nat /\ DOMAIN ApprovalRuns = 1..Len(approvals)
  BY DEF TypeOK, ActionRuns, HandoffRuns, ApprovalRuns
<1>3. ASSUME NEW type, NEW n \in Nat, NEW rows, DOMAIN rows = 1..n,
             Mirrors(type, rows), NEW next, Rowed(type, rows, n, next, run, ev)
      PROVE  Mirrors(type, next)'
  BY <1>3, MirrorsRow DEF Filed
<1>4. Mirrors("action.evaluated", ActionRuns)'
  <2>1. PICK rows : rows = ActionRuns
    OBVIOUS
  <2>2. PICK next : next = ActionRuns'
    OBVIOUS
  <2>3. Mirrors("action.evaluated", rows)
    BY <2>1 DEF AuditInv
  <2>4. Rowed("action.evaluated", rows, Len(tool_actions), next, run, ev)
    BY <2>1, <2>2 DEF Filed
  <2>5. Mirrors("action.evaluated", next)'
    BY <1>2, <1>3, <2>1, <2>3, <2>4
  <2> QED BY <2>2, <2>5 DEF Mirrors
<1>5. Mirrors("handoff.evaluated", HandoffRuns)'
  <2>1. PICK rows : rows = HandoffRuns
    OBVIOUS
  <2>2. PICK next : next = HandoffRuns'
    OBVIOUS
  <2>3. Mirrors("handoff.evaluated", rows)
    BY <2>1 DEF AuditInv
  <2>4. Rowed("handoff.evaluated", rows, Len(handoffs), next, run, ev)
    BY <2>1, <2>2 DEF Filed
  <2>5. Mirrors("handoff.evaluated", next)'
    BY <1>2, <1>3, <2>1, <2>3, <2>4
  <2> QED BY <2>2, <2>5 DEF Mirrors
<1>6. Mirrors("approval.created", ApprovalRuns)'
  <2>1. PICK rows : rows = ApprovalRuns
    OBVIOUS
  <2>2. PICK next : next = ApprovalRuns'
    OBVIOUS
  <2>3. Mirrors("approval.created", rows)
    BY <2>1 DEF AuditInv
  <2>4. Rowed("approval.created", rows, Len(approvals), next, run, ev)
    BY <2>1, <2>2 DEF Filed
  <2>5. Mirrors("approval.created", next)'
    BY <1>2, <1>3, <2>1, <2>3, <2>4
  <2> QED BY <2>2, <2>5 DEF Mirrors
<1> QED BY <1>1, <1>4, <1>5, <1>6 DEF AuditInv

\* Approvals stay in the run of their envelope.
LEMMA ApprovalRunsStay ==
    ASSUME TypeOK, NEW n \in Nat, n = Len(approvals), n <= Len(approvals'),
           Len(approvals') \in Nat,
           \A i \in 1..n : approvals'[i].envelope = approvals[i].envelope,
           \A x \in Saved : envelopes'[x].run = envelopes[x].run
    PROVE  /\ DOMAIN ApprovalRuns' = 1..Len(approvals')
           /\ \A i \in 1..n : ApprovalRuns'[i] = ApprovalRuns[i]
<1>1. ASSUME NEW i \in 1..n PROVE ApprovalRuns'[i] = ApprovalRuns[i]
  <2>1. approvals[i].envelope \in Saved /\ i \in 1..Len(approvals')
    <3>1. approvals \in Seq(ApprovalRow) /\ i \in 1..Len(approvals)
      BY DEF TypeOK
    <3>2. approvals[i] \in ApprovalRow
      BY <3>1
    <3> QED BY <3>2 DEF ApprovalRow
  <2>2. ApprovalRuns[i] = envelopes[approvals[i].envelope].run
    BY DEF ApprovalRuns
  <2>3. ApprovalRuns'[i] = envelopes'[approvals'[i].envelope].run
    BY <2>1 DEF ApprovalRuns
  <2> QED BY <2>1, <2>2, <2>3
<1> QED BY <1>1 DEF ApprovalRuns

\* And if none is added, their runs are the same.
LEMMA ApprovalRunsSame ==
    ASSUME TypeOK, Len(approvals') = Len(approvals),
           \A i \in 1..Len(approvals) : approvals'[i].envelope = approvals[i].envelope,
           \A x \in Saved : envelopes'[x].run = envelopes[x].run
    PROVE  ApprovalRuns' = ApprovalRuns
<1>1. PICK n \in Nat : n = Len(approvals)
  BY DEF TypeOK
<1>2. /\ DOMAIN ApprovalRuns' = 1..n
      /\ \A i \in 1..n : ApprovalRuns'[i] = ApprovalRuns[i]
  BY <1>1, ApprovalRunsStay
<1>3. /\ ApprovalRuns = [i \in 1..n |-> ApprovalRuns[i]]
      /\ ApprovalRuns' = [i \in 1..n |-> ApprovalRuns'[i]]
  BY <1>1, <1>2 DEF ApprovalRuns
<1> QED BY <1>2, <1>3

\* Each handler appends one event and writes what it says: Create,
LEMMA CreateFiles ==
    ASSUME TypeOK, NEW run \in RunIds, NEW id \in EnvIds, NEW d \in RootDrafts,
           Create(run, id, d)
    PROVE  \E ev : Filed(run, ev)
<1> DEFINE v == [WithVersion(d) EXCEPT !.id = id]
<1>1. PICK ev : ev = [type |-> "envelope.created", timestamp |-> clock', envelope |-> id]
  OBVIOUS
<1>2. /\ v.parent = Blank /\ run \notin runs /\ id \notin Saved
      /\ runs' = runs \cup {run} /\ Save(id, run, v) /\ appendAudit(run, ev)
      /\ UNCHANGED <<handoffs, approvals, tool_actions>>
  BY <1>1 DEF Create
<1>3. ev.type = "envelope.created" /\ ev.envelope = id
  BY <1>1
<1> HIDE DEF v
<1>4. /\ Saved' = Saved \cup {id} /\ envelopes'[id].doc = v /\ envelopes'[id].run = run
      /\ ~envelopes'[id].revoked
      /\ \A x \in Saved : envelopes'[x] = envelopes[x]
  BY <1>2 DEF Save, Saved
<1>5. Enveloped(run, ev)
  BY <1>2, <1>3, <1>4 DEF Enveloped, Issues, IsRoot, Parent, Doc
<1>6. ApprovalRuns' = ApprovalRuns
  BY <1>2, <1>4, ApprovalRunsSame
<1>7. ActionRuns' = ActionRuns /\ HandoffRuns' = HandoffRuns
  BY <1>2 DEF ActionRuns, HandoffRuns
<1> QED BY <1>2, <1>3, <1>5, <1>6, <1>7 DEF Filed, Rowed

\* delegate and evaluate handoff,
LEMMA HandoffFiles ==
    ASSUME TypeOK, DelegationInv, NEW p \in Saved, NEW id \in EnvIds,
           NEW d \in ChildDrafts, NEW persist \in BOOLEAN,
           EvaluateHandoff(p, id, d, persist)
    PROVE  \E run \in RunIds : \E ev : Filed(run, ev)
<1> DEFINE child == Child(p, id, d)
           codes == Diff(Doc(p), child, clock)
                      \cup (IF Active(p, clock) THEN {} ELSE {"PARENT_INACTIVE"})
           saved == persist /\ codes = {}
           row == [run |-> envelopes[p].run, parent |-> p,
                   child |-> IF saved THEN id ELSE Blank,
                   proposed |-> id, violations |-> codes]
<1>1. PICK ev : ev = [type |-> "handoff.evaluated", timestamp |-> clock',
                      id |-> Len(handoffs) + 1, parent |-> p, envelope |-> id,
                      persisted |-> saved, violations |-> codes]
  OBVIOUS
<1>2. /\ appendAudit(envelopes[p].run, ev)
      /\ IF saved THEN id \notin Saved /\ Save(id, envelopes[p].run, child)
                  ELSE UNCHANGED envelopes
      /\ handoffs' = Append(handoffs, row)
      /\ UNCHANGED <<runs, approvals, tool_actions>>
  BY <1>1 DEF EvaluateHandoff, Child
<1>3. /\ ev.type = "handoff.evaluated" /\ ev.envelope = id
      /\ ev.id = Len(handoffs) + 1 /\ (ev.persisted <=> saved)
  BY <1>1
<1>4. row.run = envelopes[p].run
  OBVIOUS
<1>5. saved => child.parent = p
  <2>1. Doc(p) \in Envelope /\ Doc(p).id = p /\ d \in Envelope /\ p \in EnvIds
    BY InputsAreDocuments DEF DelegationInv, EnvelopesOK, Doc
  <2>2. child \in Envelope
    BY <2>1, CompletedDocument
  <2>3. saved => Diff(Doc(p), child, clock) = {}
    OBVIOUS
  <2> HIDE DEF child, saved, codes
  <2> QED BY <2>1, <2>2, <2>3, DiffNarrows
<1> HIDE DEF child, codes, saved, row
<1>6. PICK run \in RunIds : run = envelopes[p].run /\ run \in runs
  BY DEF TypeOK
<1>7. /\ Saved' = IF saved THEN Saved \cup {id} ELSE Saved
      /\ saved => /\ id \notin Saved /\ envelopes'[id].doc = child
                  /\ envelopes'[id].run = run /\ ~envelopes'[id].revoked
      /\ \A x \in Saved : envelopes'[x] = envelopes[x]
  BY <1>2, <1>6 DEF Save, Saved
<1>8. Enveloped(run, ev)
  BY <1>2, <1>3, <1>5, <1>6, <1>7 DEF Enveloped, Issues, Parent, Doc
<1>9. ApprovalRuns' = ApprovalRuns
  BY <1>2, <1>7, ApprovalRunsSame
<1>10. ActionRuns' = ActionRuns
  BY <1>2 DEF ActionRuns
<1>11. HandoffRuns' = WithRow(HandoffRuns, Len(handoffs), run)
  <2>1. handoffs \in Seq(HandoffRow)
    BY DEF TypeOK
  <2>2. /\ Len(handoffs) \in Nat /\ Len(handoffs') = Len(handoffs) + 1
        /\ handoffs'[Len(handoffs) + 1] = row
        /\ \A i \in 1..Len(handoffs) : handoffs'[i] = handoffs[i]
    BY <1>2, <2>1
  <2> QED BY <1>4, <1>6, <2>2 DEF HandoffRuns, WithRow
<1>12. appendAudit(run, ev)
  BY <1>2, <1>6
<1>13. Filed(run, ev)
  BY <1>3, <1>8, <1>9, <1>10, <1>11, <1>12 DEF Filed, Rowed
<1> QED BY <1>13

\* revoke,
LEMMA RevokeFiles ==
    ASSUME TypeOK, NEW id \in Saved, Revoke(id)
    PROVE  \E run \in RunIds : \E ev : Filed(run, ev)
<1>1. PICK ev : ev = [type |-> "envelope.revoked", timestamp |-> clock', envelope |-> id]
  OBVIOUS
<1>2. PICK run \in RunIds : run = envelopes[id].run /\ run \in runs
  BY DEF TypeOK
<1>3. /\ ~envelopes[id].revoked /\ envelopes' = [envelopes EXCEPT ![id].revoked = TRUE]
      /\ appendAudit(run, ev)
      /\ UNCHANGED <<runs, handoffs, approvals, tool_actions>>
  BY <1>1, <1>2 DEF Revoke
<1>4. ev.type = "envelope.revoked" /\ ev.envelope = id
  BY <1>1
<1>5. ASSUME NEW x \in Saved
      PROVE  /\ envelopes'[x].doc = envelopes[x].doc /\ envelopes'[x].run = envelopes[x].run
             /\ envelopes'[x].revoked <=> envelopes[x].revoked \/ x = id
  <2>1. envelopes[x] \in [doc : Envelope, run : runs, revoked : BOOLEAN]
    BY DEF TypeOK
  <2>2. envelopes'[x] = IF x = id THEN [envelopes[x] EXCEPT !.revoked = TRUE]
                        ELSE envelopes[x]
    BY <1>3 DEF Saved
  <2> QED BY <2>1, <2>2
<1>6. Saved' = Saved
  BY <1>3 DEF Saved
<1>7. Enveloped(run, ev)
  BY <1>2, <1>3, <1>4, <1>5, <1>6 DEF Enveloped, Issues
<1>8. ApprovalRuns' = ApprovalRuns
  BY <1>3, <1>5, ApprovalRunsSame
<1>9. ActionRuns' = ActionRuns /\ HandoffRuns' = HandoffRuns
  BY <1>3 DEF ActionRuns, HandoffRuns
<1>10. Filed(run, ev)
  BY <1>3, <1>4, <1>7, <1>8, <1>9 DEF Filed, Rowed
<1> QED BY <1>10

\* approve,
LEMMA ApproveFiles ==
    ASSUME TypeOK, NEW e \in Saved, NEW req \in ApprovalRequests, Approve(e, req)
    PROVE  \E run \in RunIds : \E ev : Filed(run, ev)
<1> DEFINE row == [envelope |-> e, action |-> req.action, resource |-> req.resource,
                   args |-> req.args,
                   role |-> IF req.operator # Blank THEN ManagerRole ELSE req.role,
                   operator |-> req.operator, expires |-> req.expires,
                   consumed |-> FALSE]
<1>1. PICK ev : ev = [type |-> "approval.created", timestamp |-> clock',
                      id |-> Len(approvals) + 1, envelope |-> e]
  OBVIOUS
<1>2. PICK run \in RunIds : run = envelopes[e].run /\ run \in runs
  BY DEF TypeOK
<1>3. /\ approvals' = Append(approvals, row) /\ appendAudit(run, ev)
      /\ UNCHANGED <<runs, envelopes, handoffs, tool_actions>>
  BY <1>1, <1>2 DEF Approve
<1>4. ev.type = "approval.created" /\ ev.id = Len(approvals) + 1 /\ row.envelope = e
  BY <1>1
<1> HIDE DEF row
<1>5. Saved' = Saved
  BY <1>3 DEF Saved
<1>6. Enveloped(run, ev)
  BY <1>2, <1>3, <1>4, <1>5 DEF Enveloped, Issues
<1>7. PICK n \in Nat : n = Len(approvals)
  BY DEF TypeOK
<1>8. /\ Len(approvals') = n + 1 /\ approvals'[n + 1] = row
      /\ \A i \in 1..n : approvals'[i] = approvals[i]
  <2>1. approvals \in Seq(ApprovalRow)
    BY DEF TypeOK
  <2> QED BY <1>3, <1>7, <2>1
<1>9. /\ DOMAIN ApprovalRuns' = 1..n + 1
      /\ \A i \in 1..n : ApprovalRuns'[i] = ApprovalRuns[i]
  <2>1. n <= Len(approvals') /\ Len(approvals') \in Nat
    BY <1>8
  <2> QED BY <1>3, <1>7, <1>8, <2>1, ApprovalRunsStay
<1>10. ApprovalRuns'[n + 1] = run
  BY <1>2, <1>3, <1>4, <1>8 DEF ApprovalRuns
<1>11. ApprovalRuns' = WithRow(ApprovalRuns, n, run)
  <2>1. ApprovalRuns' = [i \in 1..n + 1 |-> ApprovalRuns'[i]]
    BY <1>8 DEF ApprovalRuns
  <2> QED BY <1>9, <1>10, <2>1 DEF WithRow
<1>12. ActionRuns' = ActionRuns /\ HandoffRuns' = HandoffRuns
  BY <1>3 DEF ActionRuns, HandoffRuns
<1>13. Filed(run, ev)
  BY <1>3, <1>4, <1>6, <1>7, <1>11, <1>12 DEF Filed, Rowed
<1> QED BY <1>13

\* and evaluate action.
LEMMA ActionFiles ==
    ASSUME TypeOK, NEW e \in Saved, NEW req \in ActionRequests, Action(e, req)
    PROVE  \E run \in RunIds : \E ev : Filed(run, ev)
<1>1. PICK codes \in SUBSET Codes, taken \in SUBSET (1..Len(approvals)) :
         /\ approvals' = [i \in 1..Len(approvals) |->
                            [approvals[i] EXCEPT !.consumed = @ \/ i \in taken]]
         /\ appendAudit(envelopes[e].run,
              [type |-> "action.evaluated", timestamp |-> clock',
               decided |-> clock, id |-> Len(tool_actions) + 1, envelope |-> e,
               request |-> req, violations |-> codes, consumed |-> taken])
         /\ tool_actions' = Append(tool_actions,
              [run |-> envelopes[e].run, envelope |-> e, agent |-> req.agent,
               tool |-> req.tool, args |-> req.args, violations |-> codes])
         /\ UNCHANGED <<runs, envelopes, handoffs>>
  BY ActionStep
<1>2. PICK ev : ev = [type |-> "action.evaluated", timestamp |-> clock',
                      decided |-> clock, id |-> Len(tool_actions) + 1, envelope |-> e,
                      request |-> req, violations |-> codes, consumed |-> taken]
  OBVIOUS
<1>3. PICK row : row = [run |-> envelopes[e].run, envelope |-> e, agent |-> req.agent,
                        tool |-> req.tool, args |-> req.args, violations |-> codes]
  OBVIOUS
<1>4. PICK run \in RunIds : run = envelopes[e].run /\ run \in runs
  BY DEF TypeOK
<1>5. /\ ev.type = "action.evaluated" /\ ev.id = Len(tool_actions) + 1
      /\ row.run = run /\ appendAudit(run, ev) /\ tool_actions' = Append(tool_actions, row)
  BY <1>1, <1>2, <1>3, <1>4
<1>6. Saved' = Saved
  BY <1>1 DEF Saved
<1>7. Enveloped(run, ev)
  BY <1>1, <1>4, <1>5, <1>6 DEF Enveloped, Issues
<1>8. /\ Len(approvals') = Len(approvals)
      /\ \A i \in 1..Len(approvals) : approvals'[i].envelope = approvals[i].envelope
  <2>1. Len(approvals) \in Nat /\ \A i \in 1..Len(approvals) : approvals[i] \in ApprovalRow
    BY DEF TypeOK
  <2>2. Len(approvals') = Len(approvals)
    BY <1>1, <2>1
  <2>3. ASSUME NEW i \in 1..Len(approvals)
        PROVE  approvals'[i].envelope = approvals[i].envelope
    <3>1. "envelope" \in DOMAIN approvals[i]
      BY <2>1 DEF ApprovalRow
    <3>2. approvals'[i] = [approvals[i] EXCEPT !.consumed = @ \/ i \in taken]
      BY <1>1
    <3> QED BY <3>1, <3>2
  <2> QED BY <2>2, <2>3
<1>9. ApprovalRuns' = ApprovalRuns
  BY <1>1, <1>8, ApprovalRunsSame
<1>10. ActionRuns' = WithRow(ActionRuns, Len(tool_actions), run)
  <2>1. tool_actions \in Seq(ActionRow)
    BY DEF TypeOK
  <2>2. /\ Len(tool_actions) \in Nat /\ Len(tool_actions') = Len(tool_actions) + 1
        /\ tool_actions'[Len(tool_actions) + 1] = row
        /\ \A i \in 1..Len(tool_actions) : tool_actions'[i] = tool_actions[i]
    BY <1>5, <2>1
  <2> QED BY <1>5, <2>2 DEF ActionRuns, WithRow
<1>11. HandoffRuns' = HandoffRuns
  BY <1>1 DEF HandoffRuns
<1>12. Filed(run, ev)
  BY <1>5, <1>7, <1>9, <1>10, <1>11 DEF Filed, Rowed
<1> QED BY <1>12

\* AuditInv is inductive.
LEMMA AuditStep == TypeOK /\ DelegationInv /\ AuditInv /\ [Next]_vars => AuditInv'
<1> SUFFICES ASSUME TypeOK, DelegationInv, AuditInv, [Next]_vars PROVE AuditInv'
  OBVIOUS
<1>1. ASSUME NEW run \in RunIds, NEW ev, Filed(run, ev) PROVE AuditInv'
  BY <1>1, FiledKeeps
<1>2. ASSUME UNCHANGED <<runs, envelopes, handoffs, approvals, tool_actions, audit_events>>
      PROVE  AuditInv'
  <2>1. IssuedInv'
    BY <1>2 DEF AuditInv, IssuedInv, IssuedOnce, Saved, Parent, IsRoot, Doc
  <2>2. RevokedInv'
    BY <1>2 DEF AuditInv, RevokedInv, Saved
  <2>3. Mirrors("action.evaluated", ActionRuns)'
    BY <1>2 DEF AuditInv, Mirrors, ActionRuns
  <2>4. Mirrors("handoff.evaluated", HandoffRuns)'
    BY <1>2 DEF AuditInv, Mirrors, HandoffRuns
  <2>5. Mirrors("approval.created", ApprovalRuns)'
    <3>1. ApprovalRuns' = ApprovalRuns
      BY <1>2 DEF ApprovalRuns
    <3>2. Mirrors("approval.created", ApprovalRuns)
      BY DEF AuditInv
    <3> QED BY <1>2, <3>1, <3>2 DEF Mirrors
  <2> QED BY <2>1, <2>2, <2>3, <2>4, <2>5 DEF AuditInv
<1>3. ASSUME NEW run \in RunIds, NEW id \in EnvIds, NEW d \in RootDrafts,
             Create(run, id, d)
      PROVE  AuditInv'
  BY <1>1, <1>3, CreateFiles
<1>4. ASSUME NEW p \in Saved, NEW id \in EnvIds, NEW d \in ChildDrafts,
             NEW persist \in BOOLEAN, EvaluateHandoff(p, id, d, persist)
      PROVE  AuditInv'
  BY <1>1, <1>4, HandoffFiles
<1>5. ASSUME NEW id \in Saved, Revoke(id) PROVE AuditInv'
  BY <1>1, <1>5, RevokeFiles
<1>6. ASSUME NEW e \in Saved, NEW req \in ApprovalRequests, Approve(e, req)
      PROVE  AuditInv'
  BY <1>1, <1>6, ApproveFiles
<1>7. ASSUME NEW e \in Saved, NEW req \in ActionRequests, Action(e, req)
      PROVE  AuditInv'
  BY <1>1, <1>7, ActionFiles
<1>8. Tick => AuditInv'
  BY <1>2 DEF Tick
<1>9. UNCHANGED vars => AuditInv'
  BY <1>2 DEF vars
<1> QED BY <1>3, <1>4, <1>5, <1>6, <1>7, <1>8, <1>9 DEF Next

\* The tables and the log of a run tell the same story.
LEMMA AuditTellsTables == TypeOK /\ AuditInv => AuditMatchesTables
<1> SUFFICES ASSUME TypeOK, AuditInv, NEW run \in RunIds
             PROVE  LET log == audit_events[run]
                        At(type) == {k \in 1..Len(log) : log[k].type = type}
                        Stored == At("envelope.created") \cup
                                    {k \in At("handoff.evaluated") : log[k].persisted}
                        Rows(table, r(_)) == {i \in 1..Len(table) : r(table[i]) = run}
                        Ordered(type) ==
                          \A k, m \in At(type) : k < m => log[k].id < log[m].id IN
                    /\ At("envelope.created") = IF run \in runs THEN {1} ELSE {}
                    /\ {log[k].envelope : k \in Stored}
                          = {id \in Saved : envelopes[id].run = run}
                    /\ \A k, m \in Stored : k # m => log[k].envelope # log[m].envelope
                    /\ \A k \in Stored : ~IsRoot(log[k].envelope) =>
                          \E m \in Stored :
                            m < k /\ log[m].envelope = Parent(log[k].envelope)
                    /\ {log[k].envelope : k \in At("envelope.revoked")}
                          = {id \in Saved : envelopes[id].run = run /\ envelopes[id].revoked}
                    /\ \A k, m \in At("envelope.revoked") :
                          k # m => log[k].envelope # log[m].envelope
                    /\ {log[k].id : k \in At("action.evaluated")}
                          = Rows(tool_actions, LAMBDA x : x.run)
                    /\ {log[k].id : k \in At("handoff.evaluated")}
                          = Rows(handoffs, LAMBDA x : x.run)
                    /\ {log[k].id : k \in At("approval.created")}
                          = Rows(approvals, LAMBDA x : envelopes[x.envelope].run)
                    /\ Ordered("action.evaluated") /\ Ordered("handoff.evaluated")
                    /\ Ordered("approval.created")
  BY DEF AuditMatchesTables
<1> DEFINE log == audit_events[run]
           At(type) == {k \in 1..Len(log) : log[k].type = type}
           Stored == At("envelope.created") \cup
                       {k \in At("handoff.evaluated") : log[k].persisted}
<1>l. log \in Seq(AuditEvent) /\ Len(log) \in Nat
  BY DEF TypeOK
<1>s. Stored = {k \in 1..Len(log) : Issues(log[k])}
  BY DEF Issues
<1>1. At("envelope.created") = IF run \in runs THEN {1} ELSE {}
  <2>1. /\ \A k \in 1..Len(log) : run \in runs /\ (log[k].type = "envelope.created" <=> k = 1)
        /\ run \in runs => Len(log) > 0
    BY DEF AuditInv, IssuedInv
  <2> HIDE DEF log
  <2> QED BY <1>l, <2>1
<1>2. \A k \in Stored : /\ log[k].envelope \in Saved /\ envelopes[log[k].envelope].run = run
                        /\ IsRoot(log[k].envelope) \/ \E m \in 1..k - 1 :
                             /\ Issues(log[m]) /\ log[m].envelope = Parent(log[k].envelope)
                        /\ \A m \in 1..Len(log) :
                             m # k /\ Issues(log[m]) => log[m].envelope # log[k].envelope
  BY <1>s DEF AuditInv, IssuedInv, IssuedOnce
<1>3. \A id \in Saved : envelopes[id].run = run => \E k \in Stored : log[k].envelope = id
  BY <1>s DEF AuditInv, IssuedInv
<1>4. /\ {log[k].envelope : k \in Stored} = {id \in Saved : envelopes[id].run = run}
      /\ \A k, m \in Stored : k # m => log[k].envelope # log[m].envelope
      /\ \A k \in Stored : ~IsRoot(log[k].envelope) =>
            \E m \in Stored : m < k /\ log[m].envelope = Parent(log[k].envelope)
  <2> HIDE DEF log, Stored
  <2>1. \A k \in Stored : k \in 1..Len(log) /\ k \in Int /\ Issues(log[k])
    BY <1>s, <1>l
  <2>2. ASSUME NEW k \in Stored, ~IsRoot(log[k].envelope)
        PROVE  \E m \in Stored : m < k /\ log[m].envelope = Parent(log[k].envelope)
    <3>1. PICK m \in 1..k - 1 : Issues(log[m]) /\ log[m].envelope = Parent(log[k].envelope)
      BY <1>2, <2>2
    <3> QED BY <1>l, <1>s, <2>1, <3>1
  <2> QED BY <1>2, <1>3, <2>1, <2>2
<1>5. /\ {log[k].envelope : k \in At("envelope.revoked")}
            = {id \in Saved : envelopes[id].run = run /\ envelopes[id].revoked}
      /\ \A k, m \in At("envelope.revoked") : k # m => log[k].envelope # log[m].envelope
  <2>1. \A k \in At("envelope.revoked") :
           /\ log[k].envelope \in Saved
           /\ envelopes[log[k].envelope].run = run /\ envelopes[log[k].envelope].revoked
           /\ \A m \in At("envelope.revoked") : m # k => log[m].envelope # log[k].envelope
    BY DEF AuditInv, RevokedInv
  <2>2. \A id \in Saved : envelopes[id].run = run /\ envelopes[id].revoked =>
           \E k \in At("envelope.revoked") : log[k].envelope = id
    BY DEF AuditInv, RevokedInv
  <2> HIDE DEF log, At
  <2> QED BY <2>1, <2>2
<1>6. ASSUME NEW type, NEW rows, Mirrors(type, rows)
      PROVE  /\ {log[k].id : k \in At(type)} = {i \in DOMAIN rows : rows[i] = run}
             /\ \A k, m \in At(type) : k < m => log[k].id < log[m].id
  <2>1. \A k \in At(type) : /\ log[k].id \in DOMAIN rows /\ rows[log[k].id] = run
                            /\ \A m \in At(type) : k < m => log[k].id < log[m].id
    BY <1>6 DEF Mirrors
  <2>2. \A i \in DOMAIN rows : rows[i] = run => \E k \in At(type) : log[k].id = i
    BY <1>6 DEF Mirrors
  <2> HIDE DEF log, At
  <2> QED BY <2>1, <2>2
<1>7. /\ {log[k].id : k \in At("action.evaluated")}
            = {i \in 1..Len(tool_actions) : tool_actions[i].run = run}
      /\ \A k, m \in At("action.evaluated") : k < m => log[k].id < log[m].id
  <2>1. PICK rows : rows = ActionRuns
    OBVIOUS
  <2>2. Mirrors("action.evaluated", rows)
    BY <2>1 DEF AuditInv
  <2>3. {i \in DOMAIN rows : rows[i] = run}
           = {i \in 1..Len(tool_actions) : tool_actions[i].run = run}
    BY <2>1 DEF ActionRuns
  <2> HIDE DEF log, At
  <2> QED BY <1>6, <2>2, <2>3
<1>8. /\ {log[k].id : k \in At("handoff.evaluated")}
            = {i \in 1..Len(handoffs) : handoffs[i].run = run}
      /\ \A k, m \in At("handoff.evaluated") : k < m => log[k].id < log[m].id
  <2>1. PICK rows : rows = HandoffRuns
    OBVIOUS
  <2>2. Mirrors("handoff.evaluated", rows)
    BY <2>1 DEF AuditInv
  <2>3. {i \in DOMAIN rows : rows[i] = run}
           = {i \in 1..Len(handoffs) : handoffs[i].run = run}
    BY <2>1 DEF HandoffRuns
  <2> HIDE DEF log, At
  <2> QED BY <1>6, <2>2, <2>3
<1>9. /\ {log[k].id : k \in At("approval.created")}
            = {i \in 1..Len(approvals) : envelopes[approvals[i].envelope].run = run}
      /\ \A k, m \in At("approval.created") : k < m => log[k].id < log[m].id
  <2>1. PICK rows : rows = ApprovalRuns
    OBVIOUS
  <2>2. Mirrors("approval.created", rows)
    BY <2>1 DEF AuditInv
  <2>3. {i \in DOMAIN rows : rows[i] = run}
           = {i \in 1..Len(approvals) : envelopes[approvals[i].envelope].run = run}
    BY <2>1 DEF ApprovalRuns
  <2> HIDE DEF log, At
  <2> QED BY <1>6, <2>2, <2>3
<1> QED BY <1>1, <1>4, <1>5, <1>7, <1>8, <1>9

LEMMA AuditInvariant == Spec => []AuditInv
<1>1. Init => AuditInv
  BY DEF Init, AuditInv, IssuedInv, RevokedInv, Mirrors, Saved,
         ActionRuns, HandoffRuns, ApprovalRuns
<1> QED BY <1>1, AuditStep, TypeCorrect, DelegationInvariant, PTL DEF Spec

\* Every row has its audit event, in its run and in the order of its table, and
\* no event is without its row (audit.go:35-75; appendAudit is called in the
\* transaction of each handler).
THEOREM AuditMatches == Spec => []AuditMatchesTables
BY AuditInvariant, AuditTellsTables, TypeCorrect, PTL

-----------------------------------------------------------------------------
(* The promise that approvals make to the gateway, operation by operation. *)

\* What a step may do to one operation: nothing, approve it once more, or spend
\* one approval of it for an action that was not authorized before.
PromiseStep(op) ==
    \/ OpenApprovals(op)' = OpenApprovals(op) /\ Authorized(op)' = Authorized(op)
    \/ \E i : /\ i \notin OpenApprovals(op)
              /\ OpenApprovals(op)' = OpenApprovals(op) \cup {i}
              /\ Authorized(op)' = Authorized(op)
    \/ \E i \in OpenApprovals(op), id \in 1..MaxActions :
          /\ OpenApprovals(op)' = OpenApprovals(op) \ {i}
          /\ id \notin Authorized(op) /\ Authorized(op)' = Authorized(op) \cup {id}

LEMMA OpenIsFinite ==
    ASSUME TypeOK, NEW op PROVE IsFiniteSet(OpenApprovals(op))
<1>1. IsFiniteSet(1..Len(approvals)) /\ OpenApprovals(op) \subseteq 1..Len(approvals)
  BY FS_Interval DEF TypeOK, OpenApprovals
<1> QED BY <1>1, FS_Subset

\* Each of them is a step of the promise, or none.
LEMMA PromiseStepKeeps ==
    ASSUME TypeOK, NEW op \in Operation, PromiseStep(op)
    PROVE  UNCHANGED <<Unspent(op), Authorized(op)>> \/ Promise(op)!Next
<1>0. IsFiniteSet(OpenApprovals(op)) /\ Cardinality(OpenApprovals(op)) \in Nat
  BY OpenIsFinite, FS_CardinalityType
<1>1. CASE OpenApprovals(op)' = OpenApprovals(op) /\ Authorized(op)' = Authorized(op)
  BY <1>1 DEF Unspent
<1>2. ASSUME NEW i, i \notin OpenApprovals(op), Authorized(op)' = Authorized(op),
             OpenApprovals(op)' = OpenApprovals(op) \cup {i}
      PROVE  Promise(op)!Next
  <2>1. Unspent(op)' = Unspent(op) + 1
    BY <1>0, <1>2, FS_AddElement DEF Unspent
  <2>2. Promise(op)!Approve(op)
    BY <1>2, <2>1 DEF Promise!Approve
  <2> QED BY <2>2 DEF Promise!Next
<1>3. ASSUME NEW i \in OpenApprovals(op), NEW id \in 1..MaxActions,
             OpenApprovals(op)' = OpenApprovals(op) \ {i},
             id \notin Authorized(op), Authorized(op)' = Authorized(op) \cup {id}
      PROVE  Promise(op)!Next
  <2>1. Unspent(op)' = Unspent(op) - 1 /\ Unspent(op) \in Nat
    BY <1>0, <1>3, FS_RemoveElement DEF Unspent
  <2>2. Unspent(op) > 0
    BY <1>0, FS_EmptySet, <1>3 DEF Unspent
  <2>3. Promise(op)!Allow(id, op)
    BY <1>3, <2>1, <2>2 DEF Promise!Allow
  <2> QED BY <2>3 DEF Promise!Next
<1> QED BY <1>1, <1>2, <1>3 DEF PromiseStep

\* What an action of the log needs is settled by its envelope's document.
LEMMA NeedsStay ==
    ASSUME TypeOK, Stable, GrantInv, NEW ev \in AllowedActions, NEW op
    PROVE  Needs(ev, op)' <=> Needs(ev, op)
<1>1. ev.envelope \in Saved
  BY DEF GrantInv, Granted
<1>2. Doc(ev.envelope)' = Doc(ev.envelope)
  BY <1>1 DEF Stable, Doc
<1> QED BY <1>2 DEF Needs

LEMMA AuthorizedStays ==
    ASSUME TypeOK, Stable, GrantInv, NEW op, AllowedActions' = AllowedActions
    PROVE  Authorized(op)' = Authorized(op)
BY NeedsStay DEF Authorized

\* A step that records no action authorizes nothing.
LEMMA NoActionAllowed ==
    ASSUME TypeOK, NEW run \in RunIds, NEW ev \in AuditEvent,
           appendAudit(run, ev), ev.type # "action.evaluated"
    PROVE  AllowedActions' = AllowedActions
BY AllowedGrows DEF TypeOK

LEMMA ApproveOpens ==
    ASSUME TypeOK, Stable, GrantInv, NEW op,
           NEW e \in Saved, NEW req \in ApprovalRequests, Approve(e, req)
    PROVE  PromiseStep(op)
<1>1. PICK row, ev :
        /\ row.consumed = FALSE /\ approvals' = Append(approvals, row)
        /\ ev = [type |-> "approval.created", timestamp |-> clock',
                 id |-> Len(approvals) + 1, envelope |-> e]
        /\ appendAudit(envelopes[e].run, ev)
  BY DEF Approve
<1>2. ev \in AuditEvent /\ ev.type # "action.evaluated" /\ envelopes[e].run \in RunIds
  <2>1. Len(approvals) + 1 \in Nat
    BY DEF TypeOK
  <2>2. clock' \in 0..MaxClock
    BY <1>1, Stamped
  <2> QED BY <1>1, <2>1, <2>2 DEF AuditEvent, TypeOK
<1>3. AllowedActions' = AllowedActions
  BY <1>1, <1>2, NoActionAllowed
<1>4. Authorized(op)' = Authorized(op)
  BY <1>3, AuthorizedStays
<1>5. PICK n \in Nat : n = Len(approvals)
  BY DEF TypeOK
<1>6. /\ Len(approvals') = n + 1 /\ approvals'[n + 1] = row
      /\ \A i \in 1..n : approvals'[i] = approvals[i]
  <2>1. approvals \in Seq(ApprovalRow)
    BY DEF TypeOK
  <2> QED BY <1>1, <1>5, <2>1
<1>7. n + 1 \notin OpenApprovals(op)
  BY <1>5 DEF OpenApprovals
<1>8. OpenApprovals(op)' = OpenApprovals(op)
        \/ OpenApprovals(op)' = OpenApprovals(op) \cup {n + 1}
  BY <1>5, <1>6 DEF OpenApprovals, Approves
<1> QED BY <1>4, <1>7, <1>8 DEF PromiseStep

\* After an action the approvals that it took are spent.
LEMMA ActionCloses ==
    ASSUME TypeOK, NEW op, NEW taken \in SUBSET (1..Len(approvals)),
           approvals' = [i \in 1..Len(approvals) |->
                           [approvals[i] EXCEPT !.consumed = @ \/ i \in taken]]
    PROVE  OpenApprovals(op)' = OpenApprovals(op) \ taken
<1>1. Len(approvals) \in Nat /\ \A i \in 1..Len(approvals) : approvals[i] \in ApprovalRow
  BY DEF TypeOK
<1>2. Len(approvals') = Len(approvals)
  BY <1>1
<1>3. ASSUME NEW i \in 1..Len(approvals)
      PROVE  /\ approvals'[i].consumed <=> approvals[i].consumed \/ i \in taken
             /\ approvals'[i].envelope = approvals[i].envelope
             /\ approvals'[i].action = approvals[i].action
             /\ approvals'[i].resource = approvals[i].resource
             /\ approvals'[i].args = approvals[i].args
             /\ approvals'[i].role = approvals[i].role
  <2>1. approvals[i] \in ApprovalRow
    BY <1>1
  <2>2. approvals'[i] = [approvals[i] EXCEPT !.consumed = @ \/ i \in taken]
    OBVIOUS
  <2>3. "consumed" \in DOMAIN approvals[i]
    BY <2>1 DEF ApprovalRow
  <2>4. approvals'[i].consumed <=> approvals[i].consumed \/ i \in taken
    BY <2>2, <2>3, Zenon
  <2>5. /\ approvals'[i].envelope = approvals[i].envelope
        /\ approvals'[i].action = approvals[i].action
        /\ approvals'[i].resource = approvals[i].resource
        /\ approvals'[i].args = approvals[i].args
        /\ approvals'[i].role = approvals[i].role
    BY <2>1, <2>2 DEF ApprovalRow
  <2> QED BY <2>4, <2>5
<1>4. ASSUME NEW i PROVE i \in OpenApprovals(op)' <=> i \in OpenApprovals(op) \ taken
  BY <1>2, <1>3 DEF OpenApprovals, Approves
<1> QED BY <1>4

\* An action takes exactly one approval of the operations it needs approved, and
\* none of any other.
LEMMA TakesWhatItNeeds ==
    ASSUME NEW e, NEW req, NEW op, NEW taken, TakesOneEach(taken, e, req)
    PROVE  LET needed == /\ e = op.envelope /\ req.tool = op.action
                         /\ req.args = op.args
                         /\ <<op.role, op.resource>> \in Required(e, req) IN
           /\ needed => \E i \in OpenApprovals(op) :
                           OpenApprovals(op) \ taken = OpenApprovals(op) \ {i}
           /\ ~needed => OpenApprovals(op) \ taken = OpenApprovals(op)
<1>1. PICK f : /\ taken = {f[n] : n \in Required(e, req)}
               /\ \A n \in Required(e, req) : f[n] \in Matching(e, req, n[1], n[2])
  BY DEF TakesOneEach
<1>2. ASSUME NEW n \in Required(e, req), f[n] \in OpenApprovals(op)
      PROVE  /\ n = <<op.role, op.resource>> /\ e = op.envelope
             /\ req.tool = op.action /\ req.args = op.args
  <2>1. n = <<n[1], n[2]>>
    BY DEF Required
  <2>2. f[n] \in Matching(e, req, n[1], n[2])
    BY <1>1
  <2> QED BY <1>2, <2>1, <2>2 DEF Matching, OpenApprovals, Approves
<1>3. ASSUME e = op.envelope, req.tool = op.action, req.args = op.args,
             <<op.role, op.resource>> \in Required(e, req)
      PROVE  \E i \in OpenApprovals(op) :
                OpenApprovals(op) \ taken = OpenApprovals(op) \ {i}
  <2>1. PICK n : n = <<op.role, op.resource>>
    OBVIOUS
  <2>2. n \in Required(e, req) /\ n[1] = op.role /\ n[2] = op.resource
    BY <1>3, <2>1
  <2>3. f[n] \in Matching(e, req, op.role, op.resource)
    BY <1>1, <2>2
  <2>4. f[n] \in OpenApprovals(op)
    BY <1>3, <2>3 DEF Matching, OpenApprovals, Approves
  <2>5. ASSUME NEW i \in OpenApprovals(op) PROVE i \in taken <=> i = f[n]
    BY <1>1, <1>2, <2>1, <2>2
  <2> QED BY <2>4, <2>5
<1>4. ASSUME NEW i \in OpenApprovals(op) \cap taken
      PROVE  /\ e = op.envelope /\ req.tool = op.action /\ req.args = op.args
             /\ <<op.role, op.resource>> \in Required(e, req)
  BY <1>1, <1>2
<1> QED BY <1>3, <1>4

\* The number of an action that is recorded next is new.
LEMMA NextActionIsNew ==
    ASSUME TypeOK, AuditInv, NEW op
    PROVE  Len(tool_actions) + 1 \notin Authorized(op)
<1>1. ASSUME NEW ev \in AllowedActions PROVE ev.id \in 1..Len(tool_actions)
  <2>1. PICK r \in RunIds : ev \in Events(r)
    BY DEF AllowedActions
  <2>2. PICK k \in 1..Len(audit_events[r]) : ev = audit_events[r][k]
    BY <2>1 DEF Events
  <2>3. ev.type = "action.evaluated"
    BY DEF AllowedActions
  <2>4. ev.id \in DOMAIN ActionRuns
    BY <2>2, <2>3 DEF AuditInv, Mirrors
  <2> QED BY <2>4 DEF ActionRuns
<1>2. Len(tool_actions) \in Nat
  BY DEF TypeOK
<1> QED BY <1>1, <1>2 DEF Authorized

LEMMA ActionSpendsOne ==
    ASSUME TypeOK, Stable, GrantInv, AuditInv, NEW op \in Operation,
           NEW e \in Saved, NEW req \in ActionRequests, Action(e, req)
    PROVE  PromiseStep(op)
<1>1. PICK codes \in SUBSET Codes, taken \in SUBSET (1..Len(approvals)) :
         /\ approvals' = [i \in 1..Len(approvals) |->
                            [approvals[i] EXCEPT !.consumed = @ \/ i \in taken]]
         /\ appendAudit(envelopes[e].run,
              [type |-> "action.evaluated", timestamp |-> clock',
               decided |-> clock, id |-> Len(tool_actions) + 1, envelope |-> e,
               request |-> req, violations |-> codes, consumed |-> taken])
         /\ UNCHANGED <<runs, envelopes, handoffs>>
         /\ codes # {} => taken = {}
         /\ codes = {} => TakesOneEach(taken, e, req)
  BY ActionStep
<1>2. PICK ev : ev = [type |-> "action.evaluated", timestamp |-> clock',
                      decided |-> clock, id |-> Len(tool_actions) + 1, envelope |-> e,
                      request |-> req, violations |-> codes, consumed |-> taken]
  OBVIOUS
<1>3. ev \in AuditEvent /\ envelopes[e].run \in RunIds
  <2>1. /\ Len(tool_actions) + 1 \in Nat /\ taken \in SUBSET Nat
        /\ req \in ActionRequest /\ e \in EnvIds
    BY InputsAreDocuments DEF TypeOK
  <2>2. clock' \in 0..MaxClock
    BY <1>1, Stamped
  <2> QED BY <1>2, <2>1, <2>2 DEF AuditEvent, TypeOK
<1>4. /\ ev.type = "action.evaluated" /\ ev.id = Len(tool_actions) + 1
      /\ ev.envelope = e /\ ev.request = req /\ ev.violations = codes
      /\ appendAudit(envelopes[e].run, ev)
  BY <1>1, <1>2
<1>5. \A x : x \in AllowedActions' <=> x \in AllowedActions \/ (x = ev /\ codes = {})
  BY <1>3, <1>4, AllowedGrows DEF TypeOK
<1>6. OpenApprovals(op)' = OpenApprovals(op) \ taken
  BY <1>1, ActionCloses
<1>7. CASE codes # {}
  <2>1. AllowedActions' = AllowedActions
    BY <1>5, <1>7
  <2>2. Authorized(op)' = Authorized(op)
    BY <2>1, AuthorizedStays
  <2>3. OpenApprovals(op)' = OpenApprovals(op)
    BY <1>1, <1>6, <1>7
  <2> QED BY <2>2, <2>3 DEF PromiseStep
<1>8. CASE codes = {}
  <2> DEFINE needed == /\ e = op.envelope /\ req.tool = op.action /\ req.args = op.args
                       /\ <<op.role, op.resource>> \in Required(e, req)
  <2>1. Needs(ev, op)' <=> needed
    <3>1. Doc(e)' = Doc(e)
      BY <1>1 DEF Doc
    <3>2. <<op.role, op.resource>> \in Required(e, req) <=>
            /\ op.role \in RequiredRoles(Doc(e).approvals, req.args.numbers)
            /\ op.resource \in req.resources
      BY DEF Required
    <3> QED BY <1>4, <3>1, <3>2 DEF Needs
  <2>2. \A x \in AllowedActions : Needs(x, op)' <=> Needs(x, op)
    BY NeedsStay
  <2>3. /\ needed => Authorized(op)' = Authorized(op) \cup {Len(tool_actions) + 1}
        /\ ~needed => Authorized(op)' = Authorized(op)
    <3> HIDE DEF needed
    <3>1. {x \in AllowedActions : Needs(x, op)}' =
             {x \in AllowedActions : Needs(x, op)} \cup (IF needed THEN {ev} ELSE {})
      BY <1>5, <1>8, <2>1, <2>2
    <3> QED BY <1>4, <3>1 DEF Authorized
  <2>4. TakesOneEach(taken, e, req)
    BY <1>1, <1>8
  <2>5. /\ needed => \E i \in OpenApprovals(op) :
                        OpenApprovals(op) \ taken = OpenApprovals(op) \ {i}
        /\ ~needed => OpenApprovals(op) \ taken = OpenApprovals(op)
    BY <2>4, TakesWhatItNeeds
  <2>6. Len(tool_actions) + 1 \in 1..MaxActions
    <3>1. Len(tool_actions) < MaxActions
      BY DEF Action
    <3>2. Len(tool_actions) \in Nat /\ MaxActions \in Nat
      BY DepthBounds DEF TypeOK
    <3> QED BY <3>1, <3>2
  <2> HIDE DEF needed
  <2>7. CASE needed
    BY <1>6, <2>3, <2>5, <2>6, <2>7, NextActionIsNew DEF PromiseStep
  <2>8. CASE ~needed
    BY <1>6, <2>3, <2>5, <2>8 DEF PromiseStep
  <2> QED BY <2>7, <2>8
<1> QED BY <1>7, <1>8

\* Every other step leaves the approvals and the actions alone.
LEMMA QuietStep ==
    ASSUME TypeOK, Stable, GrantInv, NEW op, approvals' = approvals,
           AllowedActions' = AllowedActions
    PROVE  PromiseStep(op)
<1>1. OpenApprovals(op)' = OpenApprovals(op)
  BY DEF OpenApprovals
<1> QED BY <1>1, AuthorizedStays DEF PromiseStep

LEMMA QuietSteps ==
    ASSUME TypeOK, [Next]_vars,
           ~\E e \in Saved, req \in ApprovalRequests : Approve(e, req),
           ~\E e \in Saved, req \in ActionRequests : Action(e, req)
    PROVE  approvals' = approvals /\ AllowedActions' = AllowedActions
<1>0. clock' \in 0..MaxClock
  BY ClockAdvances DEF TypeOK
<1>1. ASSUME NEW run \in RunIds, NEW id \in EnvIds, NEW d \in RootDrafts,
             Create(run, id, d)
      PROVE  approvals' = approvals /\ AllowedActions' = AllowedActions
  <2>1. PICK ev : ev = [type |-> "envelope.created", timestamp |-> clock', envelope |-> id]
    OBVIOUS
  <2>2. approvals' = approvals /\ appendAudit(run, ev)
    BY <1>1, <2>1 DEF Create
  <2>3. ev \in AuditEvent /\ ev.type # "action.evaluated"
    BY <1>0, <2>1 DEF AuditEvent, TypeOK
  <2> QED BY <2>2, <2>3, NoActionAllowed
<1>2. ASSUME NEW p \in Saved, NEW id \in EnvIds, NEW d \in ChildDrafts,
             NEW persist \in BOOLEAN, EvaluateHandoff(p, id, d, persist)
      PROVE  approvals' = approvals /\ AllowedActions' = AllowedActions
  <2> DEFINE codes == Diff(Doc(p), Child(p, id, d), clock)
                        \cup (IF Active(p, clock) THEN {} ELSE {"PARENT_INACTIVE"})
             saved == persist /\ codes = {}
             ev == [type |-> "handoff.evaluated", timestamp |-> clock',
                    id |-> Len(handoffs) + 1, parent |-> p, envelope |-> id,
                    persisted |-> saved, violations |-> codes]
  <2>1. appendAudit(envelopes[p].run, ev) /\ approvals' = approvals
    BY <1>2 DEF EvaluateHandoff, Child
  <2>2. codes \in SUBSET Codes /\ saved \in BOOLEAN
    BY DiffCodes DEF Codes
  <2> HIDE DEF codes, saved
  <2>3. ev \in AuditEvent /\ ev.type # "action.evaluated" /\ envelopes[p].run \in RunIds
    <3>1. Len(handoffs) + 1 \in Nat /\ p \in EnvIds
      BY DEF TypeOK
    <3> QED BY <1>0, <2>2, <3>1 DEF AuditEvent, TypeOK
  <2> HIDE DEF ev
  <2> QED BY <2>1, <2>3, NoActionAllowed
<1>3. ASSUME NEW id \in Saved, Revoke(id)
      PROVE  approvals' = approvals /\ AllowedActions' = AllowedActions
  <2>1. PICK ev : ev = [type |-> "envelope.revoked", timestamp |-> clock', envelope |-> id]
    OBVIOUS
  <2>2. approvals' = approvals /\ appendAudit(envelopes[id].run, ev)
    BY <1>3, <2>1 DEF Revoke
  <2>3. ev \in AuditEvent /\ ev.type # "action.evaluated" /\ envelopes[id].run \in RunIds
    BY <1>0, <2>1 DEF AuditEvent, TypeOK
  <2> QED BY <2>2, <2>3, NoActionAllowed
<1>4. Tick => approvals' = approvals /\ AllowedActions' = AllowedActions
  BY AllowedSame DEF Tick
<1>5. UNCHANGED vars => approvals' = approvals /\ AllowedActions' = AllowedActions
  BY AllowedSame DEF vars
<1> QED BY <1>1, <1>2, <1>3, <1>4, <1>5 DEF Next

LEMMA PromiseSteps ==
    ASSUME TypeOK, GrantInv, AuditInv, [Next]_vars, NEW op \in Operation
    PROVE  UNCHANGED <<Unspent(op), Authorized(op)>> \/ Promise(op)!Next
<1>1. Stable
  BY StepsAreStable
<1>2. PromiseStep(op)
  <2>1. CASE \E e \in Saved, req \in ApprovalRequests : Approve(e, req)
    BY <1>1, <2>1, ApproveOpens
  <2>2. CASE \E e \in Saved, req \in ActionRequests : Action(e, req)
    BY <1>1, <2>2, ActionSpendsOne
  <2>3. CASE /\ ~\E e \in Saved, req \in ApprovalRequests : Approve(e, req)
             /\ ~\E e \in Saved, req \in ActionRequests : Action(e, req)
    BY <1>1, <2>3, QuietSteps, QuietStep
  <2> QED BY <2>1, <2>2, <2>3
<1> QED BY <1>2, PromiseStepKeeps

\* At first there is neither an approval nor an action.
LEMMA PromiseStarts ==
    ASSUME Init, NEW op \in Operation PROVE Promise(op)!Init
<1>1. OpenApprovals(op) = {} /\ Authorized(op) = {}
  BY DEF Init, OpenApprovals, Authorized, AllowedActions, Events
<1>2. Unspent(op) = 0
  BY <1>1, FS_EmptySet DEF Unspent
<1> QED BY <1>1, <1>2 DEF Promise!Init

\* Each exact operation that needs an approval is authorized once per approval
\* given for it, whoever asks and however often: the control API refines what
\* the gateway and the refund service rely on (actions.go:183-208).
THEOREM ApprovalsPromised == Spec => ApprovalsKeepTheirPromise
<1>1. Init => \A op \in Operation : Promise(op)!Init
  BY PromiseStarts
<1>2. TypeOK /\ GrantInv /\ AuditInv /\ [Next]_vars =>
        [\A op \in Operation :
            UNCHANGED <<Unspent(op), Authorized(op)>> \/ Promise(op)!Next]_vars
  BY PromiseSteps
<1> QED BY <1>1, <1>2, TypeCorrect, GrantInvariant, AuditInvariant, PTL
        DEF Spec, ApprovalsKeepTheirPromise

\* The same, as the abstract specification of each operation.
THEOREM PromiseOfEachOperation ==
    ASSUME NEW op \in Operation PROVE Spec => Promise(op)!Spec
<1>1. Init => Promise(op)!Init
  BY PromiseStarts
<1>2. TypeOK /\ GrantInv /\ AuditInv /\ [Next]_vars =>
        [Promise(op)!Next]_<<[o \in {op} |-> Unspent(op)],
                             [id \in Authorized(op) |-> op], << >>>>
  <2> SUFFICES ASSUME TypeOK, GrantInv, AuditInv, [Next]_vars,
                      UNCHANGED <<Unspent(op), Authorized(op)>>
               PROVE  UNCHANGED <<[o \in {op} |-> Unspent(op)],
                                  [id \in Authorized(op) |-> op], << >>>>
    BY PromiseSteps
  <2> QED OBVIOUS
<1> QED BY <1>1, <1>2, TypeCorrect, GrantInvariant, AuditInvariant, PTL
        DEF Spec, Promise!Spec
=============================================================================
