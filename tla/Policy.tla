------------------------------- MODULE Policy -------------------------------
(***************************************************************************)
(* The policy engine: internal/policy/policy.go and conditions.go, and the *)
(* envelope checks it calls.  Pure operators, no state.                    *)
(*                                                                         *)
(* An envelope is a record                                                 *)
(*   id, parent        identifiers; parent = Blank for a root              *)
(*   version, issuer, recipient, purpose, policy_version                   *)
(*   allowed, denied, data    sets of identifiers                          *)
(*   resources         a function from categories to sets of scopes        *)
(*   approvals         a set of [role, cond]                               *)
(*   max, depth, expand       the delegation block                         *)
(*   expires           a time                                              *)
(*                                                                         *)
(* A scope or resource id is the sequence of its '/'-separated segments.   *)
(* Star is the segment "*"; Wild is any other segment that holds one of    *)
(* the characters * ? [ ] or the surrounding blanks the code rejects.      *)
(*                                                                         *)
(* An operator named X_Deviation is a plausible wrong version of X, which  *)
(* nothing uses: some property fails when it takes the place of X.         *)
(***************************************************************************)
EXTENDS Integers, Sequences

CONSTANTS
    Blank,              \* a field left empty (or holding only blanks)
    Star,               \* the scope segment "*"
    Wild,               \* an identifier or segment the code calls a wildcard
    CelValue(_, _),     \* value of any other CEL expression: see Value
    EnvIds, Agents, Texts, Tools, DataClasses, Roles,
    Categories, Segments, ResourceMaps,     \* what the fields range over
    Names, Conditions

Scope == Seq(Segments \cup {Star, Wild})
Approval == [role : Roles \cup {Blank}, cond : Conditions]
Envelope ==
    [id : EnvIds \cup {Blank}, parent : EnvIds \cup {Blank},
     version : Texts \cup {Blank, "1"},
     issuer : Agents \cup {Blank}, recipient : Agents \cup {Blank},
     purpose : Texts \cup {Blank}, policy_version : Texts \cup {Blank},
     allowed : SUBSET (Tools \cup {Wild}), denied : SUBSET (Tools \cup {Wild}),
     data : SUBSET (DataClasses \cup {Wild}), resources : ResourceMaps,
     approvals : SUBSET Approval,
     max : Int, depth : Int, expand : BOOLEAN, expires : Int]

ASSUME BlankIsNoId == Blank \notin EnvIds
ASSUME ResourcesAreScopeLists ==
    \A m \in ResourceMaps :
        DOMAIN m \subseteq Categories /\ m \in [DOMAIN m -> SUBSET Scope]
ASSUME ConditionTypes ==
    Conditions \subseteq [op : STRING, root : STRING, name : Names, n : Int]

-----------------------------------------------------------------------------
(* Resource scopes. *)

ValidScope(s) ==
    /\ s # << >>
    /\ \A i \in 1..Len(s) : s[i] # Wild
    /\ \A i \in 1..Len(s) - 1 : s[i] # Star

\* strings.HasSuffix(p, "/*") and strings.HasPrefix(c, p without "*").
UnderPrefix(p, c) ==
    /\ Len(p) > 1
    /\ p[Len(p)] = Star
    /\ Len(c) >= Len(p)
    /\ \A i \in 1..Len(p) - 1 : c[i] = p[i]

\* The list membership alone is forgotten.
Covers_PrefixOnly(p, c) == p = <<Star>> \/ UnderPrefix(p, c)

Covers(p, c) == p = <<Star>> \/ p = c \/ UnderPrefix(p, c)

\* A category the envelope does not name is unrestricted.
Scopes_AbsentIsAll(e, cat) ==
    IF cat \in DOMAIN e.resources THEN e.resources[cat] ELSE {<<Star>>}

\* A scope list of a category the envelope does not name is nil.
Scopes(e, cat) == IF cat \in DOMAIN e.resources THEN e.resources[cat] ELSE {}

ConcreteId(id) == id # << >> /\ \A i \in 1..Len(id) : id[i] \notin {Star, Wild}

ResourceAllowed(scopes, id) ==
    ConcreteId(id) /\ \E s \in scopes : Covers(s, id)

-----------------------------------------------------------------------------
(* Approval conditions.  A condition is [op, root, name, n]: "true",       *)
(* "false", a comparison of root.name with the integer literal n, "cel"    *)
(* for every other boolean expression (n tells them apart), "malformed"    *)
(* for text that does not compile to a boolean.  Arguments are a function  *)
(* from the names whose value is a number to that number in halves, so     *)
(* that a double strictly between two integer literals is represented.     *)
(* Every root is the same argument object (actions.go:179).                *)

Above == {">", ">="}
Below == {"<", "<="}

Compare(op, v, n) ==
    \/ op = ">"  /\ v > n
    \/ op = ">=" /\ v >= n
    \/ op = "<"  /\ v < n
    \/ op = "<=" /\ v <= n

Compiles(c) == c.op # "malformed"

Value(c, args) ==
    IF c.op \in {"true", "false"} THEN c.op
    ELSE IF c.op = "cel" THEN CelValue(c, args)
    ELSE IF c.op \in Above \cup Below /\ c.name \in DOMAIN args
    THEN IF Compare(c.op, args[c.name], 2 * c.n) THEN "true" ELSE "false"
    ELSE "error"

\* One condition that fails makes the whole call fail.
ConditionError(approvals, args) ==
    \E a \in approvals : a.role = Blank \/ Value(a.cond, args) = "error"

RequiredRoles(approvals, args) ==
    {a.role : a \in {x \in approvals : Value(x.cond, args) = "true"}}

\* The strictness of the bounds is not compared.
Preserves_AnyBound(p, c) ==
    \/ p = c
    \/ c.op = "true"
    \/ p.op = "false"
    \/ /\ p.root = c.root /\ p.name = c.name
       /\ \/ {p.op, c.op} \subseteq Above /\ c.n <= p.n
          \/ {p.op, c.op} \subseteq Below /\ c.n >= p.n

\* Proves p => c by form alone.
Preserves(p, c) ==
    \/ p = c
    \/ c.op = "true"
    \/ p.op = "false"
    \/ /\ p.root = c.root /\ p.name = c.name
       /\ \/ /\ p.op \in Above /\ c.op \in Above
             /\ c.n < p.n \/ (c.n = p.n /\ (p.op = ">" \/ c.op = ">="))
          \/ /\ p.op \in Below /\ c.op \in Below
             /\ c.n > p.n \/ (c.n = p.n /\ (p.op = "<" \/ c.op = "<="))

-----------------------------------------------------------------------------
(* Validate and Diff. *)

ValidateStructure(e) ==
    Blank \notin {e.id, e.issuer, e.recipient, e.purpose, e.policy_version}

\* Off by one.
ValidateExpiration_Inclusive(e, now) == e.expires >= now

ValidateExpiration(e, now) == e.expires > now

Validate(e, now) ==
    /\ ValidateStructure(e)
    /\ ValidateExpiration(e, now)
    /\ e.version = "1"
    /\ 0 <= e.max /\ 0 <= e.depth /\ e.depth <= e.max
    /\ ~e.expand
    /\ {Blank, Wild, Star} \cap (e.allowed \cup e.denied \cup e.data) = {}
    /\ {Blank, Wild, Star} \cap DOMAIN e.resources = {}
    /\ \A cat \in DOMAIN e.resources : \A s \in e.resources[cat] : ValidScope(s)
    /\ \A a \in e.approvals : a.role # Blank /\ Compiles(a.cond)

DiffRules ==
    {"PARENT_MISMATCH", "ID_REUSED", "ISSUER_MISMATCH", "PURPOSE_CHANGED",
     "POLICY_VERSION_CHANGED", "EXPIRY_EXPANDED", "DEPTH_EXPANDED",
     "DEPTH_INVALID", "ACTION_EXPANDED", "DENIAL_REMOVED", "DATA_EXPANDED",
     "RESOURCE_EXPANDED", "APPROVAL_WEAKENED"}

\* The lists are compared item by item, patterns included.
ResourceExpanded_ByMembership(parent, child) ==
    \E cat \in DOMAIN child.resources :
        ~(child.resources[cat] \subseteq Scopes(parent, cat))

ResourceExpanded(parent, child) ==
    \E cat \in DOMAIN child.resources : \E s \in child.resources[cat] :
        \A t \in Scopes(parent, cat) : ~Covers(t, s)

\* The roles are kept, whatever becomes of their conditions.
ApprovalWeakened_RoleOnly(parent, child) ==
    \E p \in parent.approvals : \A c \in child.approvals : c.role # p.role

ApprovalWeakened(parent, child) ==
    \E p \in parent.approvals : \A c \in child.approvals :
        c.role # p.role \/ ~Preserves(p.cond, c.cond)

\* Every rule is evaluated; each entry says whether its violation is added.
Breaches(parent, child) ==
    [PARENT_MISMATCH        |-> child.parent # parent.id,
     ID_REUSED              |-> child.id = parent.id,
     ISSUER_MISMATCH        |-> child.issuer # parent.recipient,
     PURPOSE_CHANGED        |-> child.purpose # parent.purpose,
     POLICY_VERSION_CHANGED |-> child.policy_version # parent.policy_version,
     EXPIRY_EXPANDED        |-> child.expires > parent.expires,
     DEPTH_EXPANDED         |-> child.max > parent.max,
     DEPTH_INVALID          |-> child.depth = 0 \/ child.depth - 1 # parent.depth,
     ACTION_EXPANDED        |-> ~(child.allowed \subseteq parent.allowed),
     DENIAL_REMOVED         |-> ~(parent.denied \subseteq child.denied),
     DATA_EXPANDED          |-> ~(child.data \subseteq parent.data),
     RESOURCE_EXPANDED      |-> ResourceExpanded(parent, child),
     APPROVAL_WEAKENED      |-> ApprovalWeakened(parent, child)]

\* The codes of the violations found; the decision is ALLOW iff there is none.
Diff(parent, child, now) ==
    IF ~Validate(parent, now) \/ ~Validate(child, now)
    THEN {"INVALID_ENVELOPE"}
    ELSE LET b == Breaches(parent, child) IN {code \in DOMAIN b : b[code]}

Decision(violations) == IF violations = {} THEN "ALLOW" ELSE "DENY"

-----------------------------------------------------------------------------
\* c is nowhere wider than p.  Diff establishes it (module PolicyProofs); it
\* mentions no time and no identity, so that it composes along a chain.
Narrower(p, c) ==
    /\ c.expires <= p.expires /\ c.max <= p.max
    /\ c.allowed \subseteq p.allowed /\ p.denied \subseteq c.denied
    /\ c.data \subseteq p.data
    /\ \A cat \in DOMAIN c.resources : \A s \in c.resources[cat] :
          \E t \in Scopes(p, cat) : Covers(t, s)
    /\ \A a \in p.approvals : \E b \in c.approvals :
          a.role = b.role /\ Preserves(a.cond, b.cond)
=============================================================================
