---------------------------- MODULE PolicyProofs ----------------------------
(***************************************************************************)
(* What the policy engine guarantees for every envelope: Diff allows only  *)
(* narrower children, narrowing composes along chains of any length, and a *)
(* narrower envelope permits less and requires more.                       *)
(***************************************************************************)
EXTENDS Policy, TLAPS

-----------------------------------------------------------------------------
(* Resource scopes. *)

\* A scope covers what the scopes it covers cover (covers, policy.go:204-209).
LEMMA CoversTransitive ==
    ASSUME NEW p \in Scope, NEW c \in Scope, NEW x \in Scope,
           Covers(p, c), Covers(c, x)
    PROVE  Covers(p, x)
<1>1. CASE p = <<Star>> \/ p = c \/ c = x
  BY <1>1 DEF Covers
<1>2. CASE UnderPrefix(p, c) /\ c = <<Star>>
  BY <1>2 DEF UnderPrefix, Scope
<1>3. CASE UnderPrefix(p, c) /\ UnderPrefix(c, x)
  <2>1. Len(x) >= Len(p) /\ Len(p) \in Nat /\ Len(c) \in Nat /\ Len(x) \in Nat
    BY <1>3 DEF UnderPrefix, Scope
  <2>2. ASSUME NEW i \in 1..Len(p) - 1 PROVE x[i] = p[i]
    BY <1>3, <2>1, <2>2 DEF UnderPrefix
  <2> QED BY <1>3, <2>1, <2>2 DEF UnderPrefix, Covers
<1> QED BY <1>1, <1>2, <1>3 DEF Covers

\* A concrete resource allowed by scopes that are covered one by one is allowed
\* by the covering scopes (resourceAllowed, actions.go:237-247).
LEMMA CoveredScopesAllowLess ==
    ASSUME NEW P \in SUBSET Scope, NEW C \in SUBSET Scope, NEW id \in Scope,
           \A s \in C : \E t \in P : Covers(t, s),
           ResourceAllowed(C, id)
    PROVE  ResourceAllowed(P, id)
BY CoversTransitive DEF ResourceAllowed

\* The scopes an envelope lists for a category are scopes, none if it lists none.
LEMMA ScopesType ==
    ASSUME NEW e \in Envelope, NEW cat
    PROVE  Scopes(e, cat) \in SUBSET Scope
<1>1. e.resources \in [DOMAIN e.resources -> SUBSET Scope]
  BY ResourcesAreScopeLists DEF Envelope
<1> QED BY <1>1 DEF Scopes

-----------------------------------------------------------------------------
(* Approval conditions. *)

\* preserves is transitive, so an approval survives any number of delegations
\* (conditions.go:84-102).
LEMMA PreservesTransitive ==
    ASSUME NEW p \in Conditions, NEW c \in Conditions, NEW g \in Conditions,
           Preserves(p, c), Preserves(c, g)
    PROVE  Preserves(p, g)
BY ConditionTypes DEF Preserves, Above, Below

\* Where p is not known to be false, a condition that preserves it is true or
\* cannot be evaluated, and then the server denies (conditions.go:61-64).
LEMMA PreservesSound ==
    ASSUME NEW p \in Conditions, NEW c \in Conditions,
           NEW args, DOMAIN args \subseteq Names, args \in [DOMAIN args -> Int],
           CelValue(c, args) \in {"true", "false", "error"},
           Preserves(p, c), Value(p, args) # "false", Value(c, args) # "error"
    PROVE  Value(c, args) = "true"
<1>0. Value(c, args) \in {"true", "false", "error"}
  BY DEF Value
<1>1. CASE p = c
  BY <1>0, <1>1
<1>2. CASE c.op = "true"
  BY <1>2 DEF Value
<1>3. CASE p.op = "false"
  BY <1>3 DEF Value
<1>4. CASE /\ p.name = c.name /\ p.op \in Above /\ c.op \in Above
           /\ c.n < p.n \/ (c.n = p.n /\ (p.op = ">" \/ c.op = ">="))
  <2>1. c.name \in DOMAIN args /\ args[c.name] \in Int
    BY <1>4, ConditionTypes DEF Value, Above, Below
  <2> QED BY <1>4, <2>1, ConditionTypes DEF Value, Above, Below, Compare
<1>5. CASE /\ p.name = c.name /\ p.op \in Below /\ c.op \in Below
           /\ c.n > p.n \/ (c.n = p.n /\ (p.op = "<" \/ c.op = "<="))
  <2>1. c.name \in DOMAIN args /\ args[c.name] \in Int
    BY <1>5, ConditionTypes DEF Value, Above, Below
  <2> QED BY <1>5, <2>1, ConditionTypes DEF Value, Above, Below, Compare
<1> QED BY <1>1, <1>2, <1>3, <1>4, <1>5 DEF Preserves

-----------------------------------------------------------------------------
(* Narrowing. *)

\* Every rule has its code.
LEMMA BreachCodes ==
    ASSUME NEW p, NEW c PROVE DOMAIN Breaches(p, c) = DiffRules
BY DEF Breaches, DiffRules

\* A decision lists codes.
LEMMA DiffCodes ==
    ASSUME NEW p, NEW c, NEW now
    PROVE  Diff(p, c, now) \subseteq DiffRules \cup {"INVALID_ENVELOPE"}
<1> DEFINE b == Breaches(p, c)
<1>1. Diff(p, c, now) = {"INVALID_ENVELOPE"}
        \/ Diff(p, c, now) = {code \in DOMAIN b : b[code]}
  BY DEF Diff
<1>2. DOMAIN b = DiffRules
  BY BreachCodes
<1> HIDE DEF b
<1> QED BY <1>1, <1>2

\* Every rule of Diff holds of a child it allows.
LEMMA DiffAllows ==
    ASSUME NEW p \in Envelope, NEW c \in Envelope, NEW now, Diff(p, c, now) = {}
    PROVE  /\ Validate(p, now) /\ Validate(c, now)
           /\ \A code \in DOMAIN Breaches(p, c) : ~Breaches(p, c)[code]
<1>1. Validate(p, now) /\ Validate(c, now)
  BY {"INVALID_ENVELOPE"} # {} DEF Diff
<1>2. {code \in DOMAIN Breaches(p, c) : Breaches(p, c)[code]} = {}
  BY <1>1 DEF Diff
<1> QED BY <1>1, <1>2

\* A child that Diff allows names its parent, lies one level below it and is
\* nowhere wider (policy.go:49-119).
THEOREM DiffNarrows ==
    ASSUME NEW p \in Envelope, NEW c \in Envelope, NEW now, Diff(p, c, now) = {}
    PROVE  /\ Narrower(p, c)
           /\ c.parent = p.id /\ c.id # p.id /\ c.depth = p.depth + 1
           /\ Validate(p, now) /\ Validate(c, now)
<1> DEFINE broken == Breaches(p, c)
<1>1. /\ ~broken.PARENT_MISMATCH /\ ~broken.ID_REUSED /\ ~broken.EXPIRY_EXPANDED
      /\ ~broken.DEPTH_EXPANDED /\ ~broken.DEPTH_INVALID /\ ~broken.ACTION_EXPANDED
      /\ ~broken.DENIAL_REMOVED /\ ~broken.DATA_EXPANDED
      /\ ~broken.RESOURCE_EXPANDED /\ ~broken.APPROVAL_WEAKENED
  <2> HIDE DEF broken
  <2>1. \A code \in DOMAIN broken : ~broken[code]
    BY DiffAllows DEF broken
  <2>2. DOMAIN broken = DiffRules
    BY BreachCodes DEF broken
  <2> QED BY <2>1, <2>2 DEF DiffRules
<1>2. p.expires \in Int /\ c.expires \in Int /\ p.max \in Int /\ c.max \in Int
      /\ p.depth \in Int /\ c.depth \in Int
  BY DEF Envelope
<1>3. c.expires <= p.expires /\ c.max <= p.max /\ c.depth = p.depth + 1
  <2>1. /\ broken.EXPIRY_EXPANDED = (c.expires > p.expires)
        /\ broken.DEPTH_EXPANDED = (c.max > p.max)
        /\ broken.DEPTH_INVALID = (c.depth = 0 \/ c.depth - 1 # p.depth)
    BY DEF Breaches, ResourceExpanded, ApprovalWeakened
  <2>2. ~(c.expires > p.expires) /\ ~(c.max > p.max)
        /\ ~(c.depth = 0 \/ c.depth - 1 # p.depth)
    BY <1>1, <2>1, Zenon
  <2> QED BY <1>2, <2>2
<1>4. /\ c.allowed \subseteq p.allowed /\ p.denied \subseteq c.denied
      /\ c.data \subseteq p.data /\ c.parent = p.id /\ c.id # p.id
  BY <1>1 DEF Breaches, ResourceExpanded, ApprovalWeakened
<1>5. \A cat \in DOMAIN c.resources : \A s \in c.resources[cat] :
          \E t \in Scopes(p, cat) : Covers(t, s)
  BY <1>1 DEF Breaches, ResourceExpanded, ApprovalWeakened
<1>6. \A a \in p.approvals : \E b \in c.approvals :
          a.role = b.role /\ Preserves(a.cond, b.cond)
  BY <1>1 DEF Breaches, ResourceExpanded, ApprovalWeakened
<1> QED BY <1>3, <1>4, <1>5, <1>6, DiffAllows DEF Narrower

\* An envelope is not wider than itself.
LEMMA NarrowerReflexive ==
    ASSUME NEW e \in Envelope PROVE Narrower(e, e)
<1>1. e.expires \in Int /\ e.max \in Int
  BY DEF Envelope
<1> QED BY <1>1 DEF Narrower, Scopes, Covers, Preserves

\* Narrowing composes.
THEOREM NarrowerTransitive ==
    ASSUME NEW p \in Envelope, NEW c \in Envelope, NEW g \in Envelope,
           Narrower(p, c), Narrower(c, g)
    PROVE  Narrower(p, g)
<1>1. /\ g.expires <= p.expires /\ g.max <= p.max
      /\ g.allowed \subseteq p.allowed /\ p.denied \subseteq g.denied
      /\ g.data \subseteq p.data
  <2>1. {p.expires, c.expires, g.expires, p.max, c.max, g.max} \subseteq Int
    BY DEF Envelope
  <2> QED BY <2>1 DEF Narrower
<1>2. ASSUME NEW cat \in DOMAIN g.resources, NEW s \in g.resources[cat]
      PROVE  \E t \in Scopes(p, cat) : Covers(t, s)
  <2>1. PICK m \in Scopes(c, cat) : Covers(m, s)
    BY <1>2 DEF Narrower
  <2>2. cat \in DOMAIN c.resources /\ m \in c.resources[cat]
    BY <2>1 DEF Scopes
  <2>3. PICK t \in Scopes(p, cat) : Covers(t, m)
    BY <2>2 DEF Narrower
  <2>4. s \in Scopes(g, cat)
    BY <1>2 DEF Scopes
  <2>5. t \in Scope /\ m \in Scope /\ s \in Scope
    BY <2>1, <2>3, <2>4, ScopesType
  <2> QED BY <2>1, <2>3, <2>5, CoversTransitive
<1>3. ASSUME NEW a \in p.approvals
      PROVE  \E d \in g.approvals : a.role = d.role /\ Preserves(a.cond, d.cond)
  <2>1. PICK b \in c.approvals : a.role = b.role /\ Preserves(a.cond, b.cond)
    BY <1>3 DEF Narrower
  <2>2. PICK d \in g.approvals : b.role = d.role /\ Preserves(b.cond, d.cond)
    BY <2>1 DEF Narrower
  <2>3. a.cond \in Conditions /\ b.cond \in Conditions /\ d.cond \in Conditions
    BY <1>3, <2>1, <2>2 DEF Envelope, Approval
  <2> QED BY <2>1, <2>2, <2>3, PreservesTransitive
<1> QED BY <1>1, <1>2, <1>3 DEF Narrower

\* What a narrower envelope allows of a category, the wider one allows.
LEMMA NarrowerAllowsLess ==
    ASSUME NEW p \in Envelope, NEW c \in Envelope, Narrower(p, c),
           NEW cat, NEW id \in Scope, ResourceAllowed(Scopes(c, cat), id)
    PROVE  ResourceAllowed(Scopes(p, cat), id)
<1>1. \A s \in Scopes(c, cat) : \E t \in Scopes(p, cat) : Covers(t, s)
  BY DEF Narrower, Scopes
<1> QED BY <1>1, ScopesType, CoveredScopesAllowLess

\* What a wider envelope may require, a narrower one that evaluates requires.
LEMMA NarrowerRequiresMore ==
    ASSUME NEW p \in Envelope, NEW c \in Envelope, Narrower(p, c),
           NEW args, DOMAIN args \subseteq Names, args \in [DOMAIN args -> Int],
           \A x \in Conditions : CelValue(x, args) \in {"true", "false", "error"},
           ~ConditionError(c.approvals, args),
           NEW a \in p.approvals, Value(a.cond, args) # "false"
    PROVE  a.role \in RequiredRoles(c.approvals, args)
<1>1. PICK b \in c.approvals : a.role = b.role /\ Preserves(a.cond, b.cond)
  BY DEF Narrower
<1>2. a.cond \in Conditions /\ b.cond \in Conditions
  BY <1>1 DEF Envelope, Approval
<1>3. Value(b.cond, args) # "error"
  BY <1>1 DEF ConditionError
<1>4. Value(b.cond, args) = "true"
  BY <1>1, <1>2, <1>3, PreservesSound
<1> QED BY <1>1, <1>4 DEF RequiredRoles
-----------------------------------------------------------------------------
(* Refusals are not gratuitous. *)

\* The verbatim copy of an envelope.
Copy(e, id) ==
    [e EXCEPT !.id = id, !.parent = e.id, !.issuer = e.recipient,
              !.depth = e.depth + 1]

\* An envelope that is valid and has depth left can be passed on as it is, one
\* level deeper and issued by its recipient, under an id of its own
\* (policy.go:39-121).
THEOREM CopiesAreAllowed ==
    ASSUME NEW e \in Envelope, NEW id \in EnvIds, id # e.id, NEW now \in Int,
           Validate(e, now), e.depth < e.max
    PROVE  Diff(e, Copy(e, id), now) = {}
<1>1. PICK c : c = Copy(e, id)
  OBVIOUS
<1>2. /\ c.id = id /\ c.parent = e.id /\ c.issuer = e.recipient /\ c.depth = e.depth + 1
      /\ c.version = e.version /\ c.recipient = e.recipient /\ c.purpose = e.purpose
      /\ c.policy_version = e.policy_version /\ c.allowed = e.allowed
      /\ c.denied = e.denied /\ c.data = e.data /\ c.resources = e.resources
      /\ c.approvals = e.approvals /\ c.max = e.max /\ c.expand = e.expand
      /\ c.expires = e.expires
  BY <1>1 DEF Copy, Envelope
<1>3. e.depth \in Int /\ e.max \in Int /\ e.expires \in Int /\ id # Blank
  BY BlankIsNoId DEF Envelope
<1>4. Validate(c, now)
  BY <1>2, <1>3 DEF Validate, ValidateStructure, ValidateExpiration
<1>5. ~ResourceExpanded(e, c)
  BY <1>2 DEF ResourceExpanded, Scopes, Covers
<1>6. ~ApprovalWeakened(e, c)
  BY <1>2 DEF ApprovalWeakened, Preserves
<1>7. ASSUME NEW code \in DiffRules PROVE ~Breaches(e, c)[code]
  <2>1. /\ ~(c.parent # e.id) /\ ~(c.id = e.id) /\ ~(c.issuer # e.recipient)
        /\ ~(c.purpose # e.purpose) /\ ~(c.policy_version # e.policy_version)
        /\ ~(c.expires > e.expires) /\ ~(c.max > e.max)
        /\ ~(c.depth = 0 \/ c.depth - 1 # e.depth)
        /\ c.allowed \subseteq e.allowed /\ e.denied \subseteq c.denied
        /\ c.data \subseteq e.data
    BY <1>2, <1>3 DEF Validate
  <2> DEFINE b == Breaches(e, c)
  <2>2. /\ ~b.PARENT_MISMATCH /\ ~b.ID_REUSED /\ ~b.ISSUER_MISMATCH
        /\ ~b.PURPOSE_CHANGED /\ ~b.POLICY_VERSION_CHANGED
    BY <2>1 DEF Breaches
  <2>3. ~b.EXPIRY_EXPANDED /\ ~b.DEPTH_EXPANDED /\ ~b.DEPTH_INVALID
    BY <2>1, Zenon DEF Breaches
  <2>4. ~b.ACTION_EXPANDED /\ ~b.DENIAL_REMOVED /\ ~b.DATA_EXPANDED
    BY <2>1 DEF Breaches
  <2>5. ~b.RESOURCE_EXPANDED /\ ~b.APPROVAL_WEAKENED
    BY <1>5, <1>6 DEF Breaches
  <2> HIDE DEF b
  <2>6. ~b[code]
    BY <1>7, <2>2, <2>3, <2>4, <2>5 DEF DiffRules
  <2> QED BY <2>6 DEF b
<1>8. Diff(e, c, now) = {code \in DOMAIN Breaches(e, c) : Breaches(e, c)[code]}
  BY <1>4 DEF Diff
<1> QED BY <1>1, <1>7, <1>8, BreachCodes

\* Of a length.
LEMMA OneOrMore == \A n \in Nat : n > 0 => n = 1 \/ n > 1
OBVIOUS

\* A scope that no scope of the parent covers (RESOURCE_EXPANDED) does allow a
\* resource that the parent does not: the scope itself if it is concrete, and
\* otherwise one below it with a segment x the parent never names
\* (covers and resourceAllowed, policy.go:204-209, actions.go:237-247).
THEOREM ScopeRefusalsAreExact ==
    ASSUME NEW P \in SUBSET Scope, NEW s \in Scope, ValidScope(s),
           \A t \in P : ~Covers(t, s),
           NEW x \in Segments \ {Star, Wild},
           \A t \in P : \A i \in 1..Len(t) : t[i] # x
    PROVE  \E id \in Scope : ResourceAllowed({s}, id) /\ ~ResourceAllowed(P, id)
<1>1. Len(s) \in Nat /\ Len(s) > 0 /\ \A i \in 1..Len(s) : s[i] \in Segments \cup {Star, Wild}
  BY DEF Scope, ValidScope
<1>2. CASE s[Len(s)] # Star
  <2>1. ConcreteId(s)
    BY <1>1, <1>2 DEF ConcreteId, ValidScope
  <2>2. ResourceAllowed({s}, s) /\ ~ResourceAllowed(P, s)
    BY <2>1 DEF ResourceAllowed, Covers
  <2> QED BY <2>2
<1>3. CASE s[Len(s)] = Star
  <2> DEFINE id == [i \in 1..Len(s) |-> IF i = Len(s) THEN x ELSE s[i]]
  <2>1. id \in Scope /\ Len(id) = Len(s)
    BY <1>1 DEF Scope
  <2>2. /\ id[Len(s)] = x /\ \A i \in 1..Len(s) - 1 : id[i] = s[i]
    BY <1>1
  <2> HIDE DEF id
  <2>3. ConcreteId(id)
    <3>1. id # << >>
      BY <1>1, <2>1
    <3>2. \A i \in 1..Len(id) : id[i] \notin {Star, Wild}
      BY <1>1, <2>1, <2>2 DEF ValidScope
    <3> QED BY <3>1, <3>2 DEF ConcreteId
  <2>4. Covers(s, id)
    <3>1. CASE Len(s) = 1
      BY <1>3, <3>1 DEF Covers, Scope
    <3>2. CASE Len(s) > 1
      BY <1>1, <1>3, <2>1, <2>2, <3>2 DEF Covers, UnderPrefix
    <3>3. Len(s) = 1 \/ Len(s) > 1
      BY <1>1, OneOrMore
    <3> QED BY <3>1, <3>2, <3>3
  <2>5. ASSUME NEW t \in P PROVE ~Covers(t, id)
    <3>1. t # <<Star>>
      BY DEF Covers
    <3>2. t # id
      BY <1>1, <2>1, <2>2
    <3>3. ASSUME UnderPrefix(t, id) PROVE FALSE
      <4>1. Len(t) \in Nat
        BY DEF Scope
      <4>2. UnderPrefix(t, s)
        BY <1>1, <2>1, <2>2, <3>3, <4>1 DEF UnderPrefix
      <4> QED BY <4>2 DEF Covers
    <3> QED BY <3>1, <3>2, <3>3 DEF Covers
  <2> QED BY <2>1, <2>3, <2>4, <2>5 DEF ResourceAllowed
<1> QED BY <1>2, <1>3

\* Two thresholds on one field in one direction are told apart by an amount,
\* in halves, whenever the second is not accepted in the place of the first
\* (preserves, conditions.go:84-102).
THEOREM ThresholdRefusalsAreExact ==
    ASSUME NEW p \in Conditions, NEW c \in Conditions,
           p.root = c.root, p.name = c.name,
           {p.op, c.op} \subseteq Above \/ {p.op, c.op} \subseteq Below,
           ~Preserves(p, c)
    PROVE  \E v \in Int : /\ Compare(p.op, v, 2 * p.n)
                          /\ ~Compare(c.op, v, 2 * c.n)
<1>1. p.n \in Int /\ c.n \in Int
  BY ConditionTypes
<1>2. CASE {p.op, c.op} \subseteq Above
  <2>1. /\ p.op \in {">", ">="} /\ c.op \in {">", ">="}
        /\ ~(c.n < p.n \/ (c.n = p.n /\ (p.op = ">" \/ c.op = ">=")))
    BY <1>2 DEF Preserves, Above
  <2>2. CASE c.n > p.n
    <3>1. 2 * p.n + 1 \in Int /\ 2 * p.n + 1 > 2 * p.n /\ ~(2 * p.n + 1 >= 2 * c.n)
      BY <1>1, <2>2
    <3>2. Compare(p.op, 2 * p.n + 1, 2 * p.n) /\ ~Compare(c.op, 2 * p.n + 1, 2 * c.n)
      BY <1>1, <2>1, <3>1 DEF Compare
    <3> QED BY <3>1, <3>2
  <2>3. CASE c.n = p.n /\ p.op = ">=" /\ c.op = ">"
    <3>1. 2 * p.n \in Int /\ Compare(p.op, 2 * p.n, 2 * p.n) /\ ~Compare(c.op, 2 * p.n, 2 * c.n)
      BY <1>1, <2>3 DEF Compare
    <3> QED BY <3>1
  <2> QED BY <1>1, <2>1, <2>2, <2>3
<1>3. CASE {p.op, c.op} \subseteq Below
  <2>1. /\ p.op \in {"<", "<="} /\ c.op \in {"<", "<="}
        /\ ~(c.n > p.n \/ (c.n = p.n /\ (p.op = "<" \/ c.op = "<=")))
    BY <1>3 DEF Preserves, Below
  <2>2. CASE c.n < p.n
    <3>1. 2 * p.n - 1 \in Int /\ 2 * p.n - 1 < 2 * p.n /\ ~(2 * p.n - 1 <= 2 * c.n)
      BY <1>1, <2>2
    <3>2. Compare(p.op, 2 * p.n - 1, 2 * p.n) /\ ~Compare(c.op, 2 * p.n - 1, 2 * c.n)
      BY <1>1, <2>1, <3>1 DEF Compare
    <3> QED BY <3>1, <3>2
  <2>3. CASE c.n = p.n /\ p.op = "<=" /\ c.op = "<"
    <3>1. 2 * p.n \in Int /\ Compare(p.op, 2 * p.n, 2 * p.n) /\ ~Compare(c.op, 2 * p.n, 2 * c.n)
      BY <1>1, <2>3 DEF Compare
    <3> QED BY <3>1
  <2> QED BY <1>1, <2>1, <2>2, <2>3
<1> QED BY <1>2, <1>3
=============================================================================
