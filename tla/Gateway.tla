------------------------------ MODULE Gateway ------------------------------
(***************************************************************************)
(* Tool calls through the MCP gateway (internal/gateway): the checks of    *)
(* `handler` before anything leaves the process, the authorization by the  *)
(* control API, and the one call of the upstream tool.  Calls run          *)
(* concurrently; requests and answers may be lost, late or damaged; the    *)
(* deadline of a call may pass at any step; the process may be killed.     *)
(*                                                                         *)
(* An operator named X_Deviation is a plausible wrong version of X, which  *)
(* nothing uses: some property fails when it takes the place of X.         *)
(***************************************************************************)
EXTENDS Naturals, Sequences, FiniteSets, Functions

CONSTANTS
    Calls,          \* tools/call requests of the agent; a retry is another call
    None,
    Tools,          \* the exposed tools
    Actions,        \* the action identifiers of the trusted mapping
    Action,         \* the action of each tool
    Ids,            \* resource ids
    Junk,           \* an array item that is not a concrete string
    Values,         \* what the mapped pointer may select: see IsValue
    Protected,      \* the actions for which the envelope requires an approval
    Sent,           \* bound: what each call may be
    Approvable,     \* bound: the operations that operators approve
    MaxApprovals    \* bound: unspent approvals of an operation

VARIABLES
    pc,             \* where the handler of each call is
    call,           \* the call: [tool, defect, value]
    reply,          \* the code of its result
    expired,        \* calls whose context is done
    pending,        \* calls whose authorization request is on its way
    ledger,         \* tool_actions: [id, action, resources, value, decision]
    answers,        \* authorization answers on their way: [id, status, body]
    unused,         \* unspent approvals of each operation
    upstream,       \* calls on their way to the tool
    performed,      \* what the tools have done, in order: [id, tool, value]
    results         \* tool results on their way: [id, outcome]

server == <<ledger, unused>>
handlers == <<pc, call, reply>>
tools == <<upstream, performed, results>>
vars == <<handlers, expired, pending, answers, server, tools>>

\* A value is one string, an array, or something else (None).
IsValue(v) == v = None \/ v \in Ids \/ v \in Seq(Ids \cup {Junk})

ASSUME GatewayConstants ==
    /\ None \notin Calls \cup Ids /\ Junk \notin Ids
    /\ Action \in [Tools -> Actions] /\ Protected \subseteq Actions
    /\ \A v \in Values : IsValue(v)
    /\ MaxApprovals \in Nat

\* The first thing that is wrong with the request and its arguments, if any.
Defects == {None, "continuation", "not one bounded object", "schema"}
Call == [tool : Tools, defect : Defects, value : Values]
Operation == [action : Actions, value : Values]
OperationOf(r) == [action |-> Action[r.tool], value |-> r.value]

ASSUME BoundsAssumption == Sent \in [Calls -> SUBSET Call] /\ Approvable \subseteq Operation

LocalCodes == {"UNSUPPORTED_CONTINUATION", "INVALID_ARGUMENTS", "RESOURCE_MAPPING_FAILED"}
Codes == LocalCodes \cup {"AUTHORIZATION_UNAVAILABLE", "AUTHORIZATION_DENIED",
            "AUTHORIZATION_EXPIRED", "UPSTREAM_OUTCOME_UNKNOWN", "RESULT"}

ASSUME NoneIsNoCode ==
    None \notin Codes \cup {"continuation", "not one bounded object", "schema"}
                    \cup {"ALLOW", "DENY"}

-----------------------------------------------------------------------------
(* Before anything is sent. *)

\* Items that are not concrete strings are skipped.
Extract_Lenient(v) ==
    IF v = None \/ v = << >> THEN None
    ELSE IF v \in Ids THEN {v} ELSE Range(v) \ {Junk}

\* extract: the set of ids selected by the pointer, or None for an error.
Extract(v) ==
    IF v = None \/ v = << >> THEN None
    ELSE IF v \in Ids THEN {v}
    ELSE IF Junk \in Range(v) THEN None ELSE Range(v)

\* The code of the reply to a call that goes no further, None for the others.
Rejection(r) ==
    CASE r.defect = "continuation" -> "UNSUPPORTED_CONTINUATION"
      [] r.defect \in Defects \ {None, "continuation"} -> "INVALID_ARGUMENTS"
      [] r.defect = None /\ Extract(r.value) = None -> "RESOURCE_MAPPING_FAILED"
      [] OTHER -> None

Reply(c, code) ==
    /\ reply' = [reply EXCEPT ![c] = code]
    /\ pc' = [pc EXCEPT ![c] = "replied"]

Goto(c, place) == pc' = [pc EXCEPT ![c] = place] /\ UNCHANGED reply

\* The handler is called; a call it does not reject is sent to the control API.
Receive(c, r) ==
    /\ pc[c] = "idle"
    /\ call' = [call EXCEPT ![c] = r]
    /\ IF Rejection(r) # None
         THEN Reply(c, Rejection(r)) /\ UNCHANGED pending
         ELSE Goto(c, "authorizing") /\ pending' = pending \cup {c}
    /\ UNCHANGED <<expired, answers, server, tools>>

-----------------------------------------------------------------------------
(* The control API.  ControlPlane says when an operation is in scope. *)

\* An evaluation: one transaction records the action and spends the approval.
Decide(c, inScope) ==
    LET op      == OperationOf(call[c])
        needed  == op.action \in Protected
        verdict == IF inScope /\ (needed => unused[op] > 0) THEN "ALLOW" ELSE "DENY"
    IN
    /\ c \in pending
    /\ pending' = pending \ {c}
    /\ ledger' = ledger \cup {[id |-> c, action |-> op.action, value |-> op.value,
                               resources |-> Extract(op.value), decision |-> verdict]}
    /\ unused' = [unused EXCEPT ![op] = IF needed /\ verdict = "ALLOW" THEN @ - 1 ELSE @]
    /\ answers' = answers \cup
         {[id |-> c, status |-> IF verdict = "ALLOW" THEN 200 ELSE 403, body |-> verdict]}
    /\ UNCHANGED <<handlers, expired, tools>>

\* A transaction that fails, and is rolled back.
Abort(c) ==
    /\ c \in pending
    /\ pending' = pending \ {c}
    /\ answers' = answers \cup {[id |-> c, status |-> 503, body |-> "error"]}
    /\ UNCHANGED <<handlers, expired, server, tools>>

\* An operator approves an operation with its exact arguments.
Approve(op) ==
    /\ unused[op] < MaxApprovals
    /\ unused' = [unused EXCEPT ![op] = @ + 1]
    /\ UNCHANGED <<handlers, expired, pending, answers, ledger, tools>>

-----------------------------------------------------------------------------
(* The network between the gateway and the control API. *)

LoseRequest(c) ==
    /\ c \in pending
    /\ pending' = pending \ {c}
    /\ UNCHANGED <<handlers, expired, answers, server, tools>>

\* Something on the way replaces the status or cuts the body of an answer that
\* is still waited for.
Damage(a) ==
    /\ pc[a.id] = "authorizing"
    /\ \E status \in {200, 403, 503}, body \in {a.body, "cut"} :
         answers' = (answers \ {a}) \cup {[a EXCEPT !.status = status, !.body = body]}
    /\ UNCHANGED <<handlers, expired, pending, server, tools>>

-----------------------------------------------------------------------------
(* The rest of the handler. *)

\* Authorize: the decision that an answer gives, None if it is inconsistent.
Accepted(a) ==
    CASE a.status = 200 /\ a.body = "ALLOW" -> "ALLOW"
      [] a.status = 403 /\ a.body = "DENY"  -> "DENY"
      [] OTHER -> None

\* The answer is read; an ALLOW that comes after the deadline is not used.
Answered(c) ==
    \E a \in answers :
        /\ a.id = c /\ pc[c] = "authorizing"
        /\ answers' = answers \ {a}
        /\ CASE Accepted(a) = None   -> Reply(c, "AUTHORIZATION_UNAVAILABLE")
             [] Accepted(a) = "DENY" -> Reply(c, "AUTHORIZATION_DENIED")
             [] OTHER -> IF c \in expired THEN Reply(c, "AUTHORIZATION_EXPIRED")
                                          ELSE Goto(c, "authorized")
        /\ UNCHANGED <<call, expired, pending, server, tools>>

\* A failed authorization is reported as a refusal.
Unanswered_Denied(c) ==
    /\ pc[c] = "authorizing"
    /\ Reply(c, "AUTHORIZATION_DENIED")
    /\ UNCHANGED <<call, expired, pending, answers, server, tools>>

\* No usable connection, or no answer in time: the request may still arrive.
Unanswered(c) ==
    /\ pc[c] = "authorizing"
    /\ Reply(c, "AUTHORIZATION_UNAVAILABLE")
    /\ UNCHANGED <<call, expired, pending, answers, server, tools>>

\* CallTool sends the decoded arguments under the original tool name.
Forward(c) ==
    /\ pc[c] = "authorized"
    /\ Goto(c, "forwarded")
    /\ upstream' = upstream \cup {c}
    /\ UNCHANGED <<call, expired, pending, answers, server, performed, results>>

\* The tool does what it is asked, and answers.
Perform(c, outcome) ==
    /\ c \in upstream
    /\ upstream' = upstream \ {c}
    /\ performed' = Append(performed, [id |-> c, tool |-> call[c].tool, value |-> call[c].value])
    /\ results' = results \cup {[id |-> c, outcome |-> outcome]}
    /\ UNCHANGED <<handlers, expired, pending, answers, server>>

LoseCall(c) ==
    /\ c \in upstream
    /\ upstream' = upstream \ {c}
    /\ UNCHANGED <<handlers, expired, pending, answers, server, performed, results>>

\* A result that asks for more input, or cannot be encoded, is not passed on.
Finish(c) ==
    \E r \in results :
        /\ r.id = c /\ pc[c] = "forwarded"
        /\ results' = results \ {r}
        /\ Reply(c, IF r.outcome = "complete" THEN "RESULT" ELSE "UPSTREAM_OUTCOME_UNKNOWN")
        /\ UNCHANGED <<call, expired, pending, answers, server, upstream, performed>>

\* The call is tried again.
CallFails_Retried(c) ==
    /\ pc[c] \in {"authorized", "forwarded"}
    /\ Goto(c, "authorized")
    /\ UNCHANGED <<call, expired, pending, answers, server, tools>>

\* CallTool returns an error: nothing was sent, or its outcome is not known.
CallFails(c) ==
    /\ pc[c] \in {"authorized", "forwarded"}
    /\ Reply(c, "UPSTREAM_OUTCOME_UNKNOWN")
    /\ UNCHANGED <<call, expired, pending, answers, server, tools>>

-----------------------------------------------------------------------------
(* The context of a call, and the process. *)

Running(c) == pc[c] \in {"authorizing", "authorized", "forwarded"}

\* No deadline is set.
Expire_Never(c) == FALSE /\ UNCHANGED vars

\* The 30-second deadline, or a cancellation by the agent.
Expire(c) ==
    /\ Running(c) /\ c \notin expired
    /\ expired' = expired \cup {c}
    /\ UNCHANGED <<handlers, pending, answers, server, tools>>

\* The process is killed: its calls get no result.
Crash ==
    /\ \E c \in Calls : Running(c)
    /\ pc' = [c \in Calls |-> IF Running(c) THEN "gone" ELSE pc[c]]
    /\ UNCHANGED <<call, reply, expired, pending, answers, server, tools>>

Init ==
    /\ pc = [c \in Calls |-> "idle"]
    /\ call = [c \in Calls |-> None] /\ reply = [c \in Calls |-> None]
    /\ expired = {} /\ pending = {} /\ answers = {}
    /\ ledger = {} /\ unused = [op \in Operation |-> 0]
    /\ upstream = {} /\ performed = << >> /\ results = {}

Next ==
    \/ \E c \in Calls :
        \/ \E r \in Sent[c] : Receive(c, r)
        \/ \E inScope \in BOOLEAN : Decide(c, inScope)
        \/ Abort(c) \/ LoseRequest(c)
        \/ Answered(c) \/ Unanswered(c)
        \/ Forward(c) \/ LoseCall(c) \/ Finish(c) \/ CallFails(c)
        \/ \E outcome \in {"complete", "unusable"} : Perform(c, outcome)
        \/ Expire(c)
    \/ \E op \in Approvable : Approve(op)
    \/ \E a \in answers : Damage(a)
    \/ Crash

Spec == Init /\ [][Next]_vars

\* The deadline comes, and a call whose context is done comes back with an
\* error; the handler then goes on.  Nobody else has to do anything.
Fairness ==
    \A c \in Calls :
        /\ WF_vars(Expire(c))
        /\ WF_vars(c \in expired /\ (Unanswered(c) \/ CallFails(c)))
FairSpec == Spec /\ Fairness

-----------------------------------------------------------------------------
(* Properties. *)

\* Every variable has its type.
TypeOK ==
    /\ pc \in [Calls -> {"idle", "authorizing", "authorized", "forwarded", "replied", "gone"}]
    /\ call \in [Calls -> Call \cup {None}]
    /\ reply \in [Calls -> Codes \cup {None}]
    /\ expired \subseteq Calls /\ pending \subseteq Calls /\ upstream \subseteq Calls
    /\ ledger \subseteq [id : Calls, action : Actions, value : Values,
                         resources : SUBSET Ids, decision : {"ALLOW", "DENY"}]
    /\ answers \subseteq [id : Calls, status : {200, 403, 503},
                          body : {"ALLOW", "DENY", "error", "cut"}]
    /\ unused \in [Operation -> 0..MaxApprovals]
    /\ performed \in Seq([id : Calls, tool : Tools, value : Values])
    /\ results \subseteq [id : Calls, outcome : {"complete", "unusable"}]

Allowed == {a \in ledger : a.decision = "ALLOW"}
Reached(c) == c \in upstream \/ \E k \in 1..Len(performed) : performed[k].id = c

\* The gateway implements its promise: the effects of the tools, in the words of
\* the mapping, are authorized operations, each at most once per authorization
\* and a protected one at most once per approval (gateway.go:165-186).
Promise == INSTANCE AuthorizedEffects WITH
    Ids <- Calls,
    Operations <- Operation,
    Guarded <- {op \in Operation : op.action \in Protected},
    allowed <- [c \in {a.id : a \in Allowed} |->
                  LET a == CHOOSE a \in Allowed : a.id = c
                  IN [action |-> a.action, value |-> a.value]],
    effects <- [k \in DOMAIN performed |->
                  [id |-> performed[k].id,
                   op |-> [action |-> Action[performed[k].tool], value |-> performed[k].value]]]
PromiseKept == Promise!Spec

\* What a reply says is so, and stays so whatever arrives later: after a code that
\* says nothing was forwarded nothing ever reaches the tool; a refusal has spent
\* no approval; a local rejection was never sent at all; a result was produced;
\* and an effect is never reported as anything but a result or an unknown
\* outcome (gateway.go:142-206).
RepliesAreTruthful ==
    \A c \in Calls :
        /\ reply[c] \in LocalCodes => c \notin pending \cup {a.id : a \in ledger}
        /\ reply[c] = "AUTHORIZATION_DENIED" => c \notin {a.id : a \in Allowed}
        /\ Reached(c) =>
             reply[c] \in {"UPSTREAM_OUTCOME_UNKNOWN", "RESULT", None}
        /\ reply[c] = "RESULT" => \E k \in 1..Len(performed) : performed[k].id = c
        /\ reply[c] = "UPSTREAM_OUTCOME_UNKNOWN" => c \in {a.id : a \in Allowed}

\* The decision was about everything the tool is given: each item of the arguments
\* it selects resources with is an id that the control API was asked about
\* (extract, config.go:103-157).
EveryItemWasDecided ==
    \A k \in 1..Len(performed) : \E a \in Allowed :
        /\ a.id = performed[k].id
        /\ LET v == performed[k].value
           IN (IF v \in Ids THEN {v} ELSE Range(v)) = a.resources

\* An agent gets a result or an error for every call that is not cut off by the
\* end of the process, whatever the control API and the tool do.
CallsEnd ==
    \A c \in Calls : pc[c] = "authorizing" ~> pc[c] \in {"replied", "gone"}
=============================================================================
