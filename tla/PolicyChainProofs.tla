-------------------------- MODULE PolicyChainProofs --------------------------
(* Chains of delegations of any length, over any documents and requests.    *)
EXTENDS PolicyChain, PolicyProofs

\* Each envelope is at least as narrow as every one before it.
ChainNarrows ==
    \A j \in 1..Len(chain) : \A i \in 1..j - 1 : Narrower(chain[i], chain[j])

ChainInv == chain \in Seq(Envelope) /\ Len(chain) > 0 /\ ChainNarrows

LEMMA CompleteIsEnvelope ==
    ASSUME ChainInv, Len(chain) <= MaxChain, NEW d \in Drafts
    PROVE  Last \in Envelope /\ Complete(d, Last) \in Envelope
<1>1. Last \in Envelope
  BY DEF ChainInv, Last
<1>2. d \in Envelope /\ Len(chain) + 1 \in EnvIds
  BY ChainInputs DEF ChainInv
<1>3. Last.id \in EnvIds \cup {Blank}
  BY <1>1 DEF Envelope
<1> DEFINE i == Len(chain) + 1
           q == Last.id
<1>4. i \in EnvIds /\ q \in EnvIds \cup {Blank} /\ Complete(d, Last)
        = [[[d EXCEPT !.id = i] EXCEPT !.parent = q] EXCEPT !.version = "1"]
  BY <1>2, <1>3 DEF Complete
<1> HIDE DEF i, q
<1>5. [d EXCEPT !.id = i] \in Envelope
  BY <1>2, <1>4 DEF Envelope
<1>6. [[d EXCEPT !.id = i] EXCEPT !.parent = q] \in Envelope
  BY <1>4, <1>5 DEF Envelope
<1>7. [[[d EXCEPT !.id = i] EXCEPT !.parent = q] EXCEPT !.version = "1"] \in Envelope
  BY <1>6 DEF Envelope
<1> QED BY <1>1, <1>4, <1>7

\* The chain keeps narrowing, by Diff on the last pair and transitivity on
\* the others (policy.go:39-121).
THEOREM ChainInvariant == Spec => []ChainInv
<1>1. Init => ChainInv
  BY ChainInputs DEF Init, ChainInv, ChainNarrows
<1>2. ChainInv /\ [Next]_chain => ChainInv'
  <2> SUFFICES ASSUME ChainInv, [Next]_chain PROVE ChainInv'
    OBVIOUS
  <2>1. CASE UNCHANGED chain
    BY <2>1 DEF ChainInv, ChainNarrows
  <2>2. ASSUME NEW d \in Drafts, Extend(d) PROVE ChainInv'
    <3> DEFINE c == Complete(d, Last)
    <3>1. Last \in Envelope /\ c \in Envelope
      <4>1. Len(chain) <= MaxChain
        BY <2>2, ChainInputs DEF Extend, ChainInv
      <4> QED BY <4>1, CompleteIsEnvelope
    <3>2. Diff(Last, c, 0) = {} /\ chain' = Append(chain, c)
      BY <2>2 DEF Extend, Decision
    <3> HIDE DEF c
    <3>3. Narrower(Last, c)
      BY <3>1, <3>2, DiffNarrows
    <3>4. /\ chain' \in Seq(Envelope) /\ Len(chain') = Len(chain) + 1
          /\ \A i \in 1..Len(chain) : chain'[i] = chain[i]
          /\ chain'[Len(chain) + 1] = c
      BY <3>1, <3>2 DEF ChainInv
    <3>5. ASSUME NEW i \in 1..Len(chain) PROVE Narrower(chain[i], c)
      <4>1. i = Len(chain) \/ (i \in 1..Len(chain) - 1 /\ Narrower(chain[i], Last))
        BY DEF ChainInv, ChainNarrows, Last
      <4>2. chain[i] \in Envelope
        BY DEF ChainInv
      <4> QED BY <3>1, <3>3, <4>1, <4>2, NarrowerTransitive DEF Last
    <3>6. ChainNarrows'
      <4> SUFFICES ASSUME NEW j \in 1..Len(chain'), NEW i \in 1..j - 1
                   PROVE  Narrower(chain'[i], chain'[j])
        BY DEF ChainNarrows
      <4>1. CASE j = Len(chain) + 1
        BY <3>4, <3>5, <4>1 DEF ChainInv
      <4>2. CASE j \in 1..Len(chain)
        BY <3>4, <4>2 DEF ChainInv, ChainNarrows
      <4> QED BY <3>4, <4>1, <4>2 DEF ChainInv
    <3> QED BY <3>4, <3>6 DEF ChainInv
  <2> QED BY <2>1, <2>2 DEF Next
<1> QED BY <1>1, <1>2, PTL DEF Spec

\* No envelope permits what an ancestor does not, however long the chain: the
\* central promise of the policy engine (policy.go:64-102).
THEOREM AuthorityNeverGrows == Spec => []NoAuthorityGained
<1>1. ChainInv => NoAuthorityGained
  <2> SUFFICES ASSUME ChainInv, NEW j \in 1..Len(chain), NEW i \in 1..j - 1,
                      NEW tool \in Tools, NEW cat \in Categories, NEW id \in Ids,
                      NEW class \in DataClasses, NEW t \in Times,
                      Permits(chain[j], tool, cat, id, class, t)
               PROVE  Permits(chain[i], tool, cat, id, class, t)
    BY DEF NoAuthorityGained
  <2>1. /\ chain[i] \in Envelope /\ chain[j] \in Envelope
        /\ Narrower(chain[i], chain[j])
    BY DEF ChainInv, ChainNarrows
  <2>2. id \in Scope /\ t \in Int
    BY ChainInputs
  <2>3. ResourceAllowed(Scopes(chain[i], cat), id)
    BY <2>1, <2>2, NarrowerAllowsLess DEF Permits
  <2>4. t < chain[i].expires
    <3>1. chain[i].expires \in Int /\ chain[j].expires \in Int
      BY <2>1 DEF Envelope
    <3> QED BY <2>1, <2>2, <3>1 DEF Permits, Narrower
  <2> QED BY <2>1, <2>3, <2>4 DEF Permits, Narrower
<1> QED BY <1>1, ChainInvariant, PTL

\* No approval that an ancestor may require is lost, however long the chain
\* (preserves, conditions.go:84-102).
THEOREM ObligationsNeverShrink == Spec => []NoObligationLost
<1>1. ChainInv => NoObligationLost
  <2> SUFFICES ASSUME ChainInv, NEW j \in 1..Len(chain), NEW i \in 1..j - 1,
                      NEW args \in Arguments,
                      ~ConditionError(chain[j].approvals, args),
                      NEW role \in Obliged(chain[i], args)
               PROVE  role \in RequiredRoles(chain[j].approvals, args)
    BY DEF NoObligationLost
  <2>1. /\ chain[i] \in Envelope /\ chain[j] \in Envelope
        /\ Narrower(chain[i], chain[j])
    BY DEF ChainInv, ChainNarrows
  <2>2. PICK a \in chain[i].approvals : Value(a.cond, args) # "false" /\ role = a.role
    BY DEF Obliged
  <2> QED BY <2>1, <2>2, ChainInputs, NarrowerRequiresMore
<1> QED BY <1>1, ChainInvariant, PTL
-----------------------------------------------------------------------------
(* Refusals. *)

\* The last envelope is valid and numbered by its place, as are all of them.
LastInv ==
    Len(chain) <= MaxChain /\ Last.id = Len(chain) /\ Validate(Last, 0)

LEMMA LastInvariant == Spec => []LastInv
<1>1. Init => LastInv
  BY ChainInputs DEF Init, LastInv, Last
<1>2. ChainInv /\ LastInv /\ [Next]_chain => LastInv'
  <2> SUFFICES ASSUME ChainInv, LastInv, [Next]_chain PROVE LastInv'
    OBVIOUS
  <2>1. CASE UNCHANGED chain
    BY <2>1 DEF LastInv, Last
  <2>2. ASSUME NEW d \in Drafts, Extend(d) PROVE LastInv'
    <3>1. PICK c : c = Complete(d, Last)
      OBVIOUS
    <3>2. Last \in Envelope /\ c \in Envelope
      BY <3>1, CompleteIsEnvelope DEF LastInv
    <3>3. Len(chain) < MaxChain /\ Diff(Last, c, 0) = {} /\ chain' = Append(chain, c)
      BY <2>2, <3>1 DEF Extend, Decision
    <3>4. Validate(c, 0)
      BY <3>2, <3>3, DiffNarrows
    <3>5. c.id = Len(chain) + 1
      <4>1. d \in Envelope
        BY ChainInputs
      <4> QED BY <3>1, <4>1 DEF Complete, Envelope
    <3>6. Len(chain') = Len(chain) + 1 /\ chain'[Len(chain) + 1] = c /\ Len(chain) \in Nat
      BY <3>2, <3>3 DEF ChainInv
    <3> QED BY <3>3, <3>4, <3>5, <3>6, ChainInputs DEF LastInv, Last
  <2> QED BY <2>1, <2>2 DEF Next
<1> QED BY <1>1, <1>2, ChainInvariant, PTL DEF Spec

\* While depth remains, the last envelope of a chain can be passed on as it is
\* (policy.go:39-121).
THEOREM VerbatimCopies == Spec => []VerbatimCopyIsAllowed
<1>1. ChainInv /\ LastInv => VerbatimCopyIsAllowed
  <2> SUFFICES ASSUME ChainInv, LastInv, Last.depth < Last.max
               PROVE  Diff(Last, Copy(Last, Len(chain) + 1), 0) = {}
    BY DEF VerbatimCopyIsAllowed, Copy
  <2>1. PICK e \in Envelope : e = Last
    BY DEF ChainInv, Last
  <2>2. PICK id \in EnvIds : id = Len(chain) + 1 /\ id # e.id
    BY <2>1, ChainInputs DEF ChainInv, LastInv
  <2>3. Validate(e, 0) /\ e.depth < e.max
    BY <2>1 DEF LastInv
  <2>4. Diff(e, Copy(e, id), 0) = {}
    BY <2>2, <2>3, CopiesAreAllowed
  <2> QED BY <2>1, <2>2, <2>4
<1> QED BY <1>1, ChainInvariant, LastInvariant, PTL

\* What may be asked for is as rich as the strings and numbers a client can
\* write: any concrete resource id, any number for a name, and no document
\* names every segment there is.
RichRequests ==
    /\ \A id \in Scope : ConcreteId(id) => id \in Ids
    /\ \A name \in Names, v \in Int : [x \in {name} |-> v] \in Arguments
    /\ \A m \in ResourceMaps : \E x \in Segments \ {Star, Wild} :
          \A cat \in DOMAIN m : \A s \in m[cat] : \A i \in 1..Len(s) : s[i] # x

\* A scope refused as wider allows a resource that the parent does not.
LEMMA WiderScopeAllowsMore ==
    ASSUME RichRequests, NEW p \in Envelope, NEW c \in Envelope,
           "RESOURCE_EXPANDED" \in Diff(p, c, 0)
    PROVE  \E cat \in Categories, id \in Ids :
               ResourceAllowed(Scopes(c, cat), id) /\ ~ResourceAllowed(Scopes(p, cat), id)
<1>1. Validate(c, 0) /\ "RESOURCE_EXPANDED" \in
         {code \in DOMAIN Breaches(p, c) : Breaches(p, c)[code]}
  BY DEF Diff
<1>2. ResourceExpanded(p, c)
  <2>1. PICK b : b = Breaches(p, c)
    OBVIOUS
  <2>2. b["RESOURCE_EXPANDED"]
    BY <1>1, <2>1
  <2> QED BY <2>1, <2>2 DEF Breaches
<1>3. PICK cat \in DOMAIN c.resources : \E s \in c.resources[cat] :
         \A t \in Scopes(p, cat) : ~Covers(t, s)
  BY <1>2 DEF ResourceExpanded
<1>4. PICK s \in c.resources[cat] : \A t \in Scopes(p, cat) : ~Covers(t, s)
  BY <1>3
<1>5. s \in Scopes(c, cat) /\ s \in Scope /\ Scopes(p, cat) \in SUBSET Scope
  <2>1. s \in Scopes(c, cat)
    BY <1>3, <1>4 DEF Scopes
  <2> QED BY <2>1, ScopesType
<1>6. ValidScope(s)
  BY <1>1, <1>3, <1>4 DEF Validate
<1>7. PICK x \in Segments \ {Star, Wild} :
         \A t \in Scopes(p, cat) : \A i \in 1..Len(t) : t[i] # x
  <2>1. p.resources \in ResourceMaps
    BY DEF Envelope
  <2>2. PICK x \in Segments \ {Star, Wild} :
           \A k \in DOMAIN p.resources : \A t \in p.resources[k] :
              \A i \in 1..Len(t) : t[i] # x
    BY <2>1 DEF RichRequests
  <2> QED BY <2>2 DEF Scopes
<1>8. PICK id \in Scope : ResourceAllowed({s}, id) /\ ~ResourceAllowed(Scopes(p, cat), id)
  BY <1>4, <1>5, <1>6, <1>7, ScopeRefusalsAreExact
<1>9. ResourceAllowed(Scopes(c, cat), id) /\ id \in Ids
  BY <1>5, <1>8 DEF ResourceAllowed, RichRequests
<1>10. cat \in Categories
  BY <1>3, ResourcesAreScopeLists DEF Envelope
<1> QED BY <1>8, <1>9, <1>10

\* A threshold refused as weaker is failed by an amount that meets the parent's.
LEMMA WeakerThresholdLosesRequests ==
    ASSUME RichRequests, NEW p \in Conditions, NEW c \in Conditions,
           p.root = c.root, p.name = c.name,
           {p.op, c.op} \subseteq Above \/ {p.op, c.op} \subseteq Below,
           ~Preserves(p, c)
    PROVE  \E args \in Arguments : Value(p, args) = "true" /\ Value(c, args) = "false"
<1>1. PICK v \in Int : Compare(p.op, v, 2 * p.n) /\ ~Compare(c.op, v, 2 * c.n)
  BY ThresholdRefusalsAreExact
<1>2. PICK args : args = [x \in {p.name} |-> v]
  OBVIOUS
<1>3. DOMAIN args = {p.name} /\ args[p.name] = v /\ p.name \in Names
  BY <1>2, ConditionTypes
<1>4. args \in Arguments
  BY <1>2, <1>3 DEF RichRequests
<1>5. /\ p.op \in Above \cup Below /\ c.op \in Above \cup Below
      /\ p.op \notin {"true", "false", "cel"} /\ c.op \notin {"true", "false", "cel"}
  BY DEF Above, Below
<1>6. Value(p, args) = "true" /\ Value(c, args) = "false"
  BY <1>1, <1>3, <1>5 DEF Value
<1> QED BY <1>4, <1>6

\* No refusal is gratuitous, in chains of any length, whatever a client may
\* write: neither of a scope, nor of a threshold, nor of a verbatim copy
\* (covers and preserves, policy.go:204-209, conditions.go:84-102).
THEOREM RefusalsExact ==
    ASSUME RichRequests PROVE Spec => []RefusalsAreExact
<1>1. ChainInv /\ LastInv /\ VerbatimCopyIsAllowed => RefusalsAreExact
  <2> SUFFICES ASSUME ChainInv, LastInv, NEW d \in Drafts
               PROVE  /\ "RESOURCE_EXPANDED" \in Diff(Last, Complete(d, Last), 0) =>
                            \E cat \in Categories, id \in Ids :
                               /\ ResourceAllowed(Scopes(Complete(d, Last), cat), id)
                               /\ ~ResourceAllowed(Scopes(Last, cat), id)
                      /\ \A p \in Last.approvals, a \in Complete(d, Last).approvals :
                            /\ p.cond.root = a.cond.root /\ p.cond.name = a.cond.name
                            /\ \/ {p.cond.op, a.cond.op} \subseteq Above
                               \/ {p.cond.op, a.cond.op} \subseteq Below
                            /\ ~Preserves(p.cond, a.cond)
                            => \E args \in Arguments :
                                  Value(p.cond, args) = "true" /\ Value(a.cond, args) = "false"
    BY DEF RefusalsAreExact
  <2>1. PICK c : c = Complete(d, Last)
    OBVIOUS
  <2>2. Last \in Envelope /\ c \in Envelope
    BY <2>1, CompleteIsEnvelope DEF LastInv
  <2>3. "RESOURCE_EXPANDED" \in Diff(Last, c, 0) =>
           \E cat \in Categories, id \in Ids :
              ResourceAllowed(Scopes(c, cat), id) /\ ~ResourceAllowed(Scopes(Last, cat), id)
    BY <2>2, WiderScopeAllowsMore
  <2>4. \A p \in Last.approvals, a \in c.approvals :
           p.cond \in Conditions /\ a.cond \in Conditions
    BY <2>2 DEF Envelope, Approval
  <2> QED BY <2>1, <2>3, <2>4, WeakerThresholdLosesRequests
<1> QED BY <1>1, ChainInvariant, LastInvariant, VerbatimCopies, PTL
=============================================================================
