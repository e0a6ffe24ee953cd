----------------------------- MODULE Discovery -----------------------------
(***************************************************************************)
(* Start-up of the gateway (internal/gateway, New): the upstream is asked  *)
(* for its tools page by page, and may answer with any pages; the tools of *)
(* the trusted mapping are exposed, and nothing else.                      *)
(*                                                                         *)
(* An operator named X_Deviation is a plausible wrong version of X, which  *)
(* nothing uses: some property fails when it takes the place of X.         *)
(***************************************************************************)
EXTENDS Integers, Sequences, FiniteSets

CONSTANTS
    Names,          \* names of upstream tools
    Invalid,        \* a nil tool, or one without a name
    Configured,     \* the tools of the trusted mapping
    Cursors,        \* continuation cursors
    Last,           \* "", the cursor that ends the pages
    Pages,          \* bound: the lists of tools a page may hold
    MaxTools,       \* 4096
    MaxCursors      \* 100

VARIABLES
    phase,          \* "asking", "serving" or "failed"
    cursor,         \* of the next page
    seenCursors, seenTools, found, total,
    listed,         \* every tool that the upstream has listed, in order
    exposed         \* the places in `listed` of the tools added to the server

discoveryVars ==
    <<phase, cursor, seenCursors, seenTools, found, total, listed, exposed>>

\* compiles: compileSchema accepts the input schema.
Tool == [name : Names, compiles : BOOLEAN]

ASSUME DiscoveryConstants ==
    /\ Invalid \notin Names /\ Last \notin Cursors
    /\ Configured \subseteq Names /\ Configured # {}
    /\ Pages \subseteq Seq(Tool \cup {Invalid})
    /\ MaxTools \in Nat \ {0} /\ MaxCursors \in Nat

DiscoveryInit ==
    /\ phase = "asking" /\ cursor = Last
    /\ seenCursors = {} /\ seenTools = {} /\ found = {} /\ total = 0
    /\ listed = << >> /\ exposed = {}

\* A tool may be listed again.
Acceptable_Repeated(tools, k) ==
    /\ total + k <= MaxTools
    /\ tools[k] # Invalid
    /\ tools[k].name \in Configured => tools[k].compiles

\* The k-th tool of a page is within the limit, named, new and, if it is
\* configured, has a schema that compiles.
Acceptable(tools, k) ==
    /\ total + k <= MaxTools
    /\ tools[k] # Invalid
    /\ tools[k].name \notin seenTools
    /\ \A j \in 1..k - 1 : tools[j] # Invalid => tools[j].name # tools[k].name
    /\ tools[k].name \in Configured => tools[k].compiles

\* The page has no next one, or one that was not asked for yet.
Continues(next) == next \notin seenCursors /\ Cardinality(seenCursors) < MaxCursors

\* Cursors are not remembered.
Remember_Nothing(next) == UNCHANGED seenCursors

Remember(next) == seenCursors' = IF next = Last THEN seenCursors ELSE seenCursors \cup {next}

\* After the last page: is every configured tool there?
Complete(seen) == Configured \subseteq seen

Mapped(tools) == {k \in DOMAIN tools : tools[k].name \in Configured}

\* A page that the loop accepts, and what follows it.
Page(tools, next) ==
    LET names == {tools[k].name : k \in DOMAIN tools}
        now   == found \cup (names \cap Configured)
    IN
    /\ phase = "asking"
    /\ \A k \in DOMAIN tools : Acceptable(tools, k)
    /\ next = Last \/ Continues(next)
    /\ listed' = listed \o tools
    /\ total' = total + Len(tools)
    /\ seenTools' = seenTools \cup names
    /\ exposed' = exposed \cup {Len(listed) + k : k \in Mapped(tools)}
    /\ found' = now
    /\ Remember(next)
    /\ cursor' = next
    /\ phase' = IF next # Last THEN "asking"
                ELSE IF Complete(now) THEN "serving" ELSE "failed"

\* A page that it does not accept: start-up fails, with the server discarded.
BadPage(tools, next) ==
    /\ phase = "asking"
    /\ \/ \E k \in DOMAIN tools : ~Acceptable(tools, k)
       \/ next # Last /\ ~Continues(next)
    /\ phase' = "failed"
    /\ listed' = listed \o tools
    /\ UNCHANGED <<cursor, seenCursors, seenTools, found, total, exposed>>

\* ListTools fails, or the 15-second deadline passes.
Unavailable ==
    /\ phase = "asking"
    /\ phase' = "failed"
    /\ UNCHANGED <<cursor, seenCursors, seenTools, found, total, listed, exposed>>

PageArrives == \E tools \in Pages, next \in Cursors \cup {Last} :
                Page(tools, next) \/ BadPage(tools, next)

DiscoveryNext == PageArrives \/ Unavailable

\* Only pages are promised, not that one of them is the last or that time passes.
DiscoverySpec ==
    DiscoveryInit /\ [][DiscoveryNext]_discoveryVars /\ WF_discoveryVars(PageArrives)

-----------------------------------------------------------------------------
\* Every variable has its type.
DiscoveryOK ==
    /\ phase \in {"asking", "serving", "failed"}
    /\ cursor \in Cursors \cup {Last} /\ seenCursors \subseteq Cursors
    /\ seenTools \subseteq Names /\ found \subseteq Configured
    /\ total \in 0..MaxTools
    /\ listed \in Seq(Tool \cup {Invalid}) /\ exposed \subseteq DOMAIN listed

\* A gateway that serves exposes each tool of the mapping, with a schema that
\* compiles, and nothing else; and its upstream has listed no name twice, so that
\* a second tool of the same name never takes the place of the one whose schema
\* is checked (gateway.go:67-116).
ServesTheMapping ==
    phase = "serving" =>
        /\ {listed[k].name : k \in exposed} = Configured
        /\ \A k \in exposed : listed[k].compiles
        /\ \A j, k \in DOMAIN listed : listed[j].name = listed[k].name => j = k

\* Whatever pages the upstream makes up, start-up ends without its deadline.
DiscoveryEnds == <>(phase # "asking")
=============================================================================
