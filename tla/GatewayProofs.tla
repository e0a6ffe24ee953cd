---------------------------- MODULE GatewayProofs ----------------------------
(***************************************************************************)
(* The gateway keeps its promises for every number of calls, tools, ids    *)
(* and approvals, whatever the network does; and it starts with the tools  *)
(* of its mapping only, whatever pages its upstream answers with.          *)
(*                                                                         *)
(* The argument has three layers, each an inductive invariant that may use *)
(* those before it, and a refinement:                                      *)
(*   CallInv      what has left a handler is a call that it has accepted   *)
(*   DecisionInv  at most one decision per call, about what the call       *)
(*                selects; answers and replies agree with it, and no call  *)
(*                is forwarded without an ALLOW                            *)
(*   EffectInv    a tool is asked once per call, and results and replies   *)
(*                speak of what it did                                     *)
(* With these, Decide is an Allow of AuthorizedEffects (or changes nothing *)
(* that it speaks of), Perform an Effect, and every other step but Approve *)
(* a stutter.                                                              *)
(*                                                                         *)
(* Of start-up, DiscoveryInv says that what the loop remembers describes   *)
(* everything that the upstream has listed.                                *)
(***************************************************************************)
EXTENDS Gateway, Discovery, TLAPS

Decided == {a.id : a \in ledger}
AllowedIds == {a.id : a \in Allowed}
Performed == {performed[k].id : k \in 1..Len(performed)}

-----------------------------------------------------------------------------
(* What is sent to the control API. *)

\* The handler of c has accepted the request and its arguments.
Admitted(c) == pc[c] # "idle" /\ call[c] \in Call /\ Rejection(call[c]) = None

\* The calls that have left the handler, or have come back to it.
Beyond == pending \cup Decided \cup {a.id : a \in answers} \cup upstream

CallInv ==
    /\ TypeOK
    /\ \A c \in Calls :
         /\ pc[c] # "replied" => reply[c] = None
         /\ pc[c] = "replied" => call[c] \in Call
         /\ reply[c] \in LocalCodes => Rejection(call[c]) # None
         /\ Running(c) => Admitted(c)
    /\ \A c \in Beyond : Admitted(c)

\* An operation that is not rejected selects ids, and all that it selects.
LEMMA ExtractIds ==
    ASSUME NEW v \in Values, Extract(v) # None
    PROVE  /\ Extract(v) \in SUBSET Ids
           /\ Extract(v) = IF v \in Ids THEN {v} ELSE Range(v)
<1>1. v # None /\ v # << >> /\ IsValue(v)
  BY GatewayConstants DEF Extract
<1>2. CASE v \in Ids
  BY <1>1, <1>2 DEF Extract
<1>3. CASE v \notin Ids
  <2>1. Junk \notin Range(v) /\ Extract(v) = Range(v)
    BY <1>1, <1>3 DEF Extract
  <2>2. v \in Seq(Ids \cup {Junk})
    BY <1>1, <1>3 DEF IsValue
  <2>3. \A x \in Range(v) : x \in Ids \cup {Junk}
    BY <2>2 DEF Range
  <2> QED BY <1>3, <2>1, <2>3
<1> QED BY <1>2, <1>3

LEMMA RejectionCodes ==
    ASSUME NEW r \in Call
    PROVE  /\ Rejection(r) \in LocalCodes \cup {None}
           /\ Rejection(r) = None => Extract(r.value) # None
<1>1. r.defect \in Defects
  BY DEF Call
<1>2. CASE r.defect = "continuation"
  <2>1. Rejection(r) = "UNSUPPORTED_CONTINUATION"
    BY <1>2, NoneIsNoCode DEF Rejection
  <2> QED BY <2>1, NoneIsNoCode DEF LocalCodes, Codes
<1>3. CASE r.defect # "continuation" /\ r.defect # None
  <2>1. Rejection(r) = "INVALID_ARGUMENTS"
    BY <1>1, <1>3 DEF Rejection
  <2> QED BY <2>1, NoneIsNoCode DEF LocalCodes, Codes
<1>4. CASE r.defect # "continuation" /\ r.defect = None
  <2>1. r.defect \notin Defects \ {None, "continuation"}
    BY <1>4
  <2>2. CASE Extract(r.value) = None
    <3>1. Rejection(r) = "RESOURCE_MAPPING_FAILED"
      BY <1>4, <2>1, <2>2 DEF Rejection
    <3> QED BY <3>1, NoneIsNoCode DEF LocalCodes, Codes
  <2>3. CASE Extract(r.value) # None
    <3>1. Rejection(r) = None
      BY <1>4, <2>1, <2>3 DEF Rejection
    <3> QED BY <3>1, <2>3
  <2> QED BY <2>2, <2>3
<1> QED BY <1>2, <1>3, <1>4

LEMMA OperationIs ==
    ASSUME NEW r \in Call
    PROVE  /\ OperationOf(r) \in Operation
           /\ OperationOf(r).action = Action[r.tool] /\ OperationOf(r).value = r.value
           /\ r.value \in Values /\ Action[r.tool] \in Actions /\ r.tool \in Tools
BY GatewayConstants DEF Call, Operation, OperationOf

\* The types, piece by piece, after a step that moves one handler.
LEMMA MoveTypes ==
    ASSUME TypeOK, NEW c \in Calls, NEW code \in Codes,
           \/ Reply(c, code)
           \/ Goto(c, "authorizing") \/ Goto(c, "authorized") \/ Goto(c, "forwarded")
    PROVE  /\ pc' \in [Calls -> {"idle", "authorizing", "authorized", "forwarded", "replied", "gone"}]
           /\ reply' \in [Calls -> Codes \cup {None}]
           /\ \A d \in Calls \ {c} : pc'[d] = pc[d] /\ reply'[d] = reply[d]
           /\ Reply(c, code) => pc'[c] = "replied" /\ reply'[c] = code
           /\ Goto(c, "authorizing") => pc'[c] = "authorizing" /\ reply'[c] = reply[c]
           /\ Goto(c, "authorized") => pc'[c] = "authorized" /\ reply'[c] = reply[c]
           /\ Goto(c, "forwarded") => pc'[c] = "forwarded" /\ reply'[c] = reply[c]
<1>1. /\ pc \in [Calls -> {"idle", "authorizing", "authorized", "forwarded", "replied", "gone"}]
      /\ reply \in [Calls -> Codes \cup {None}]
  BY DEF TypeOK
<1>2. CASE Reply(c, code)
  <2>1. /\ pc' = [pc EXCEPT ![c] = "replied"] /\ reply' = [reply EXCEPT ![c] = code]
    BY <1>2 DEF Reply
  <2>2. ~ Goto(c, "authorizing") /\ ~ Goto(c, "authorized") /\ ~ Goto(c, "forwarded")
    BY <1>1, <2>1 DEF Goto
  <2> QED
    BY <1>1, <2>1, <2>2
<1>3. ASSUME NEW place \in {"authorizing", "authorized", "forwarded"}, Goto(c, place)
      PROVE  /\ pc' \in [Calls -> {"idle", "authorizing", "authorized", "forwarded", "replied", "gone"}]
             /\ reply' = reply /\ pc'[c] = place
             /\ \A d \in Calls \ {c} : pc'[d] = pc[d]
  BY <1>1, <1>3 DEF Goto
<1>4. CASE \E place \in {"authorizing", "authorized", "forwarded"} : Goto(c, place)
  <2>1. PICK place \in {"authorizing", "authorized", "forwarded"} : Goto(c, place)
    BY <1>4
  <2>2. ~ Reply(c, code)
    BY <1>1, <1>3, <2>1 DEF Reply
  <2> QED
    BY <1>1, <1>3, <2>2, <2>1
<1> QED
  BY <1>2, <1>4

\* Once a handler has accepted its request, nothing changes that.
LEMMA CallKept ==
    ASSUME CallInv, TypeOK', UNCHANGED call,
           \A c \in Calls : pc[c] # "idle" => pc'[c] # "idle",
           \A c \in Calls :
              \/ pc'[c] = pc[c] /\ reply'[c] = reply[c]
              \/ Running(c) /\ pc'[c] = "replied" /\ reply'[c] \notin LocalCodes
              \/ Running(c) /\ pc'[c] # "replied" /\ reply'[c] = reply[c],
           Beyond' \subseteq Beyond \cup {c \in Calls : Running(c)}
    PROVE  CallInv'
<1>1. \A c \in Calls : Admitted(c) => Admitted(c)'
  BY DEF Admitted
<1>2. \A c \in Beyond' : c \in Calls
  BY DEF TypeOK, Decided, Beyond
<1>3. \A c \in Beyond' : Admitted(c)'
  BY <1>1, <1>2 DEF CallInv
<1>4. ASSUME NEW c \in Calls
      PROVE  /\ pc'[c] # "replied" => reply'[c] = None
             /\ pc'[c] = "replied" => call'[c] \in Call
             /\ reply'[c] \in LocalCodes => Rejection(call'[c]) # None
             /\ Running(c)' => Admitted(c)'
  <2>1. /\ pc[c] # "replied" => reply[c] = None
        /\ pc[c] = "replied" => call[c] \in Call
        /\ reply[c] \in LocalCodes => Rejection(call[c]) # None
        /\ Running(c) => Admitted(c)
    BY DEF CallInv
  <2>2. CASE pc'[c] = pc[c] /\ reply'[c] = reply[c]
    BY <2>1, <2>2 DEF Running, Admitted
  <2>3. CASE Running(c) /\ pc'[c] = "replied" /\ reply'[c] \notin LocalCodes
    BY <2>1, <2>3 DEF Running, Admitted
  <2>4. CASE Running(c) /\ pc'[c] # "replied" /\ reply'[c] = reply[c]
    BY <1>1, <2>1, <2>4 DEF Running, Admitted
  <2> QED BY <2>2, <2>3, <2>4
<1> QED BY <1>3, <1>4 DEF CallInv

LEMMA CallStep == CallInv /\ [Next]_vars => CallInv'
<1> SUFFICES ASSUME CallInv, [Next]_vars PROVE CallInv'
  OBVIOUS
<1>0. TypeOK
  BY DEF CallInv
<1> USE DEF handlers, server, tools
<1>1. ASSUME NEW c \in Calls, NEW r \in Sent[c], Receive(c, r) PROVE CallInv'
  <2>1. /\ pc[c] = "idle" /\ call' = [call EXCEPT ![c] = r]
        /\ UNCHANGED <<expired, answers, server, tools>>
    BY <1>1 DEF Receive
  <2>2. r \in Call
    BY BoundsAssumption
  <2>3. c \notin Beyond
    BY <2>1 DEF CallInv, Admitted
  <2>4. call' \in [Calls -> Call \cup {None}] /\ call'[c] = r
        /\ \A d \in Calls \ {c} : call'[d] = call[d]
    BY <1>0, <2>1, <2>2 DEF TypeOK
  <2>5. Beyond' = Beyond \cup (pending' \ pending)
    BY <1>1 DEF Beyond, Decided, Receive
  <2>6. \/ /\ Rejection(r) # None /\ Reply(c, Rejection(r)) /\ pending' = pending
           /\ Rejection(r) \in LocalCodes
        \/ /\ Rejection(r) = None /\ Goto(c, "authorizing")
           /\ pending' = pending \cup {c}
    BY <1>1, <2>2, RejectionCodes DEF Receive
  <2>7. PICK code \in Codes : Rejection(r) = None \/ code = Rejection(r)
    BY <2>6 DEF Codes
  <2>8. /\ pc' \in [Calls -> {"idle", "authorizing", "authorized", "forwarded", "replied", "gone"}]
        /\ reply' \in [Calls -> Codes \cup {None}]
        /\ \A d \in Calls \ {c} : pc'[d] = pc[d] /\ reply'[d] = reply[d]
        /\ \/ Rejection(r) # None /\ pc'[c] = "replied" /\ reply'[c] = Rejection(r)
           \/ Rejection(r) = None /\ pc'[c] = "authorizing" /\ reply'[c] = reply[c]
    BY <1>0, <2>6, <2>7, MoveTypes
  <2>9. TypeOK'
    BY <1>0, <2>1, <2>4, <2>6, <2>8 DEF TypeOK
  <2>10. \A d \in Calls \ {c} : Admitted(d)' <=> Admitted(d)
    BY <2>4, <2>8 DEF Admitted
  <2>11. Rejection(r) = None => Admitted(c)'
    BY <2>2, <2>4, <2>8 DEF Admitted
  <2>12. \A d \in Beyond' : Admitted(d)'
    <3>1. \A d \in Beyond :
             d \in Calls \ {c} /\ Admitted(d)
      BY <1>0, <2>3 DEF CallInv, TypeOK, Decided, Beyond
    <3> QED BY <2>5, <2>6, <2>10, <2>11, <3>1
  <2>13. ASSUME NEW d \in Calls
         PROVE  /\ pc'[d] # "replied" => reply'[d] = None
                /\ pc'[d] = "replied" => call'[d] \in Call
                /\ reply'[d] \in LocalCodes => Rejection(call'[d]) # None
                /\ Running(d)' => Admitted(d)'
    <3>1. CASE d = c
      <4>1. reply[c] = None /\ None \notin LocalCodes
        BY <2>1, NoneIsNoCode DEF CallInv, Codes
      <4> QED BY <2>2, <2>4, <2>8, <2>11, <3>1, <4>1 DEF Running
    <3>2. CASE d # c
      BY <2>4, <2>8, <2>10, <3>2 DEF CallInv, Running
    <3> QED BY <3>1, <3>2
  <2> QED BY <2>9, <2>12, <2>13 DEF CallInv
<1>2. ASSUME NEW c \in Calls, NEW inScope \in BOOLEAN, Decide(c, inScope) PROVE CallInv'
  <2> DEFINE op == OperationOf(call[c])
             needed == op.action \in Protected
             verdict == IF inScope /\ (needed => unused[op] > 0) THEN "ALLOW" ELSE "DENY"
             entry == [id |-> c, action |-> op.action, value |-> op.value,
                       resources |-> Extract(op.value), decision |-> verdict]
             answer == [id |-> c, status |-> IF verdict = "ALLOW" THEN 200 ELSE 403,
                        body |-> verdict]
  <2>1. /\ c \in pending /\ pending' = pending \ {c} /\ ledger' = ledger \cup {entry}
        /\ unused' = [unused EXCEPT ![op] = IF needed /\ verdict = "ALLOW" THEN @ - 1 ELSE @]
        /\ answers' = answers \cup {answer}
        /\ UNCHANGED <<handlers, expired, tools>>
    BY <1>2 DEF Decide
  <2>2. call[c] \in Call /\ Rejection(call[c]) = None
    BY <2>1 DEF CallInv, Admitted, Beyond
  <2>3. /\ op \in Operation /\ op.action \in Actions /\ op.value \in Values
        /\ Extract(op.value) \in SUBSET Ids
    BY <2>2, OperationIs, RejectionCodes, ExtractIds
  <2>4. verdict \in {"ALLOW", "DENY"} /\ entry.id = c /\ answer.id = c
    OBVIOUS
  <2>5. needed /\ verdict = "ALLOW" => unused[op] > 0
    OBVIOUS
  <2> HIDE DEF op, needed, verdict
  <2>6. /\ entry \in [id : Calls, action : Actions, value : Values,
                      resources : SUBSET Ids, decision : {"ALLOW", "DENY"}]
        /\ answer \in [id : Calls, status : {200, 403, 503},
                       body : {"ALLOW", "DENY", "error", "cut"}]
    BY <2>3, <2>4
  <2>7. unused' \in [Operation -> 0..MaxApprovals]
    <3>1. unused[op] \in 0..MaxApprovals
      BY <1>0, <2>3 DEF TypeOK
    <3> QED BY <1>0, <2>1, <2>3, <2>5, <3>1, GatewayConstants DEF TypeOK
  <2> HIDE DEF entry, answer
  <2>8. TypeOK'
    BY <1>0, <2>1, <2>6, <2>7 DEF TypeOK
  <2>9. Beyond' \subseteq Beyond
    BY <2>1, <2>4 DEF Decided, Beyond
  <2> QED BY <2>1, <2>8, <2>9, CallKept
<1>3. ASSUME NEW c \in Calls, Abort(c) PROVE CallInv'
  <2>1. TypeOK'
    BY <1>0, <1>3 DEF TypeOK, Abort
  <2>2. Beyond' \subseteq Beyond
    BY <1>3 DEF Abort, Decided, Beyond
  <2> QED BY <1>3, <2>1, <2>2, CallKept DEF Abort
<1>4. ASSUME NEW op \in Operation, Approve(op) PROVE CallInv'
  <2>1. unused' \in [Operation -> 0..MaxApprovals]
    BY <1>0, <1>4, GatewayConstants DEF TypeOK, Approve
  <2>2. TypeOK'
    BY <1>0, <1>4, <2>1 DEF TypeOK, Approve
  <2>3. Beyond' = Beyond
    BY <1>4 DEF Approve, Decided, Beyond
  <2> QED BY <1>4, <2>2, <2>3, CallKept DEF Approve
<1>5. ASSUME NEW c \in Calls, LoseRequest(c) \/ LoseCall(c) \/ Expire(c) PROVE CallInv'
  <2>1. TypeOK'
    BY <1>0, <1>5 DEF TypeOK, LoseRequest, LoseCall, Expire
  <2>2. Beyond' \subseteq Beyond /\ UNCHANGED handlers
    BY <1>5 DEF LoseRequest, LoseCall, Expire, Decided, Beyond
  <2> QED BY <2>1, <2>2, CallKept
<1>6. ASSUME NEW a \in answers, Damage(a) PROVE CallInv'
  <2>1. PICK status \in {200, 403, 503}, body \in {a.body, "cut"} :
           answers' = (answers \ {a}) \cup {[a EXCEPT !.status = status, !.body = body]}
    BY <1>6 DEF Damage
  <2> DEFINE b == [a EXCEPT !.status = status, !.body = body]
  <2>2. b \in [id : Calls, status : {200, 403, 503},
               body : {"ALLOW", "DENY", "error", "cut"}] /\ b.id = a.id
    <3> DEFINE S == {200, 403, 503}
               B == {"ALLOW", "DENY", "error", "cut"}
    <3>1. a \in [id : Calls, status : S, body : B]
      BY <1>0 DEF TypeOK
    <3>2. status \in S /\ body \in B
      BY <3>1
    <3> HIDE DEF S, B
    <3>3. b \in [id : Calls, status : S, body : B] /\ b.id = a.id
      BY <3>1, <3>2
    <3> QED BY <3>3 DEF S, B
  <2> HIDE DEF b
  <2>3. answers' = (answers \ {a}) \cup {b}
    BY <2>1 DEF b
  <2>4. TypeOK'
    BY <1>0, <1>6, <2>2, <2>3 DEF TypeOK, Damage
  <2>5. Beyond' \subseteq Beyond
    BY <1>6, <2>2, <2>3 DEF Damage, Decided, Beyond
  <2> QED BY <1>6, <2>4, <2>5, CallKept DEF Damage
<1>7. ASSUME NEW c \in Calls,
             Answered(c) \/ Unanswered(c) \/ Forward(c) \/ Finish(c) \/ CallFails(c)
      PROVE  CallInv'
  <2>1. PICK code \in Codes \ LocalCodes :
           Reply(c, code) \/ Goto(c, "authorized") \/ Goto(c, "forwarded")
    BY <1>7 DEF Answered, Unanswered, Forward, Finish, CallFails, Codes, LocalCodes
  <2>2. Running(c) /\ UNCHANGED <<call, pending, ledger>> /\ answers' \subseteq answers
    BY <1>7 DEF Answered, Unanswered, Forward, Finish, CallFails, Running
  <2>3. /\ pc' \in [Calls -> {"idle", "authorizing", "authorized", "forwarded", "replied", "gone"}]
        /\ reply' \in [Calls -> Codes \cup {None}]
        /\ \A d \in Calls \ {c} : pc'[d] = pc[d] /\ reply'[d] = reply[d]
        /\ \/ pc'[c] = "replied" /\ reply'[c] \notin LocalCodes
           \/ pc'[c] \in {"authorized", "forwarded"} /\ reply'[c] = reply[c]
    BY <1>0, <2>1, MoveTypes
  <2>4. TypeOK'
    <3>1. /\ upstream' \subseteq Calls
          /\ results' \subseteq results /\ UNCHANGED <<expired, unused, performed>>
      BY <1>0, <1>7 DEF Answered, Unanswered, Forward, Finish, CallFails, TypeOK
    <3> QED BY <1>0, <2>2, <2>3, <3>1 DEF TypeOK
  <2>5. Beyond' \subseteq Beyond \cup {c}
    BY <1>7, <2>2
       DEF Answered, Unanswered, Forward, Finish, CallFails, Decided, Beyond
  <2> QED BY <2>2, <2>3, <2>4, <2>5, CallKept
<1>8. ASSUME NEW c \in Calls, NEW outcome \in {"complete", "unusable"}, Perform(c, outcome)
      PROVE  CallInv'
  <2>1. call[c] \in Call
    <3>1. c \in Beyond
      BY <1>8 DEF Perform, Beyond
    <3> QED BY <3>1 DEF CallInv, Admitted
  <2>2. [id |-> c, tool |-> call[c].tool, value |-> call[c].value]
          \in [id : Calls, tool : Tools, value : Values]
    BY <2>1, OperationIs
  <2>3. performed' \in Seq([id : Calls, tool : Tools, value : Values])
    BY <1>0, <1>8, <2>2 DEF TypeOK, Perform
  <2>4. TypeOK'
    BY <1>0, <1>8, <2>3 DEF TypeOK, Perform
  <2>5. Beyond' \subseteq Beyond
    BY <1>8 DEF Perform, Beyond, Decided
  <2> QED BY <1>8, <2>4, <2>5, CallKept DEF Perform
<1>9. CASE Crash
  <2>1. /\ pc' = [c \in Calls |-> IF Running(c) THEN "gone" ELSE pc[c]]
        /\ UNCHANGED <<call, reply, expired, pending, answers, server, tools>>
    BY <1>9 DEF Crash
  <2>2. TypeOK'
    BY <1>0, <2>1 DEF TypeOK
  <2>3. Beyond' = Beyond
    BY <2>1 DEF Decided, Beyond
  <2> QED BY <2>1, <2>2, <2>3, CallKept DEF Running
<1>10. CASE UNCHANGED vars
  <2>1. TypeOK' /\ Beyond' = Beyond
    BY <1>0, <1>10 DEF TypeOK, vars, Decided, Beyond
  <2> QED BY <1>10, <2>1, CallKept DEF vars
<1> QED
  BY <1>1, <1>2, <1>3, <1>4, <1>5, <1>6, <1>7, <1>8, <1>9, <1>10, BoundsAssumption
     DEF Next

LEMMA CallInvariant == Spec => []CallInv
<1>1. Init => CallInv
  <2> SUFFICES ASSUME Init PROVE CallInv
    OBVIOUS
  <2>1. performed \in Seq([id : Calls, tool : Tools, value : Values])
    BY DEF Init
  <2>2. unused \in [Operation -> 0..MaxApprovals]
    BY GatewayConstants DEF Init
  <2>3. TypeOK
    BY <2>1, <2>2 DEF Init, TypeOK
  <2>4. Beyond = {}
    BY DEF Init, Beyond, Decided
  <2> QED BY <2>3, <2>4, NoneIsNoCode DEF Init, CallInv, Running, Codes
<1> QED BY <1>1, CallStep, PTL DEF Spec

\* Every variable of the gateway stays in its type.
THEOREM GatewayTypes == Spec => []TypeOK
<1>1. CallInv => TypeOK
  BY DEF CallInv
<1> QED BY <1>1, CallInvariant, PTL

-----------------------------------------------------------------------------
(* Decisions. *)

DecisionInv ==
    /\ \A a \in ledger : /\ a.id \notin pending
                         /\ a.action = Action[call[a.id].tool] /\ a.value = call[a.id].value
                         /\ a.resources = Extract(a.value)
    /\ \A a, b \in ledger : a.id = b.id => a = b
    /\ \A a \in answers : /\ a.id \notin pending
                          /\ a.body = "ALLOW" => a.id \in AllowedIds
                          /\ a.body = "DENY" => a.id \in Decided \ AllowedIds
    /\ \A c \in Calls :
         /\ pc[c] \in {"authorized", "forwarded"} => c \in AllowedIds
         /\ reply[c] \in {"RESULT", "UPSTREAM_OUTCOME_UNKNOWN"} => c \in AllowedIds
         /\ reply[c] = "AUTHORIZATION_DENIED" => c \in Decided \ AllowedIds

\* Nothing is decided in the step.
LEMMA DecisionKept ==
    ASSUME CallInv, DecisionInv, UNCHANGED ledger, pending' \subseteq pending,
           \A a \in ledger : call'[a.id] = call[a.id],
           \A a \in answers' : a.id \notin pending' /\
              \/ a.body \notin {"ALLOW", "DENY"}
              \/ \E b \in answers : a.id = b.id /\ a.body = b.body,
           \A c \in Calls :
              \/ /\ pc'[c] \notin {"authorized", "forwarded"}
                 /\ reply'[c] \notin {"RESULT", "UPSTREAM_OUTCOME_UNKNOWN", "AUTHORIZATION_DENIED"}
              \/ pc'[c] = pc[c] /\ reply'[c] = reply[c]
              \/ c \in AllowedIds /\ reply'[c] # "AUTHORIZATION_DENIED"
              \/ /\ c \in Decided \ AllowedIds /\ pc'[c] = "replied"
                 /\ reply'[c] = "AUTHORIZATION_DENIED"
    PROVE  DecisionInv'
<1>1. AllowedIds' = AllowedIds /\ Decided' = Decided
  BY DEF AllowedIds, Decided, Allowed
<1>2. \A c \in Calls :
         /\ pc'[c] \in {"authorized", "forwarded"} => c \in AllowedIds'
         /\ reply'[c] \in {"RESULT", "UPSTREAM_OUTCOME_UNKNOWN"} => c \in AllowedIds'
         /\ reply'[c] = "AUTHORIZATION_DENIED" => c \in Decided' \ AllowedIds'
  BY <1>1 DEF DecisionInv
<1>3. \A a \in answers' : /\ a.id \notin pending'
                          /\ a.body = "ALLOW" => a.id \in AllowedIds'
                          /\ a.body = "DENY" => a.id \in Decided' \ AllowedIds'
  BY <1>1 DEF DecisionInv
<1>4. /\ \A a \in ledger' : /\ a.id \notin pending'
                            /\ a.action = Action[call'[a.id].tool]
                            /\ a.value = call'[a.id].value
                            /\ a.resources = Extract(a.value)
      /\ \A a, b \in ledger' : a.id = b.id => a = b
  BY DEF DecisionInv
<1> QED BY <1>2, <1>3, <1>4 DEF DecisionInv

LEMMA DecisionStep == CallInv /\ DecisionInv /\ [Next]_vars => DecisionInv'
<1> SUFFICES ASSUME CallInv, DecisionInv, [Next]_vars PROVE DecisionInv'
  OBVIOUS
<1>0. TypeOK
  BY DEF CallInv
<1> USE DEF handlers, server, tools
<1>1. ASSUME NEW c \in Calls, NEW r \in Sent[c], Receive(c, r) PROVE DecisionInv'
  <2>1. /\ pc[c] = "idle" /\ call' = [call EXCEPT ![c] = r] /\ reply[c] = None
        /\ UNCHANGED <<answers, ledger>> /\ pending' \subseteq pending \cup {c}
    BY <1>1 DEF Receive, CallInv
  <2>2. c \notin Beyond
    BY <2>1 DEF CallInv, Admitted
  <2>3. r \in Call
    BY BoundsAssumption
  <2>4. PICK code \in LocalCodes : Rejection(r) = None \/ code = Rejection(r)
    BY <2>3, RejectionCodes DEF LocalCodes
  <2>5. /\ \A d \in Calls \ {c} : pc'[d] = pc[d] /\ reply'[d] = reply[d]
        /\ pc'[c] \notin {"authorized", "forwarded"}
        /\ reply'[c] \in LocalCodes \cup {None}
    <3>1. code \in Codes
      BY <2>4 DEF Codes
    <3>2. Reply(c, code) \/ Goto(c, "authorizing")
      BY <1>1, <2>4 DEF Receive
    <3> QED BY <1>0, <2>1, <2>4, <3>1, <3>2, MoveTypes
  <2>6. reply'[c] \notin {"RESULT", "UPSTREAM_OUTCOME_UNKNOWN", "AUTHORIZATION_DENIED"}
    BY <2>5, NoneIsNoCode DEF LocalCodes, Codes
  <2>7. \A a \in ledger : a.id # c /\ call'[a.id] = call[a.id]
    BY <1>0, <2>1, <2>2 DEF Beyond, Decided, TypeOK
  <2>8. AllowedIds' = AllowedIds /\ Decided' = Decided
    BY <2>1 DEF AllowedIds, Decided, Allowed
  <2>9. \A a \in answers : a.id \notin pending'
    BY <2>1, <2>2 DEF Beyond, DecisionInv
  <2>10. \A a \in ledger : a.id \notin pending'
    BY <2>1, <2>7 DEF DecisionInv
  <2>11. \A a \in ledger' : /\ a.id \notin pending'
                            /\ a.action = Action[call'[a.id].tool]
                            /\ a.value = call'[a.id].value
                            /\ a.resources = Extract(a.value)
    BY <2>1, <2>7, <2>10 DEF DecisionInv
  <2>12. \A d \in Calls :
           /\ pc'[d] \in {"authorized", "forwarded"} => d \in AllowedIds'
           /\ reply'[d] \in {"RESULT", "UPSTREAM_OUTCOME_UNKNOWN"} => d \in AllowedIds'
           /\ reply'[d] = "AUTHORIZATION_DENIED" => d \in Decided' \ AllowedIds'
    BY <2>5, <2>6, <2>8 DEF DecisionInv
  <2>13. \A a \in answers' : /\ a.id \notin pending'
                             /\ a.body = "ALLOW" => a.id \in AllowedIds'
                             /\ a.body = "DENY" => a.id \in Decided' \ AllowedIds'
    BY <2>1, <2>8, <2>9 DEF DecisionInv
  <2> QED BY <2>1, <2>11, <2>12, <2>13 DEF DecisionInv
<1>2. ASSUME NEW c \in Calls, NEW inScope \in BOOLEAN, Decide(c, inScope)
      PROVE  DecisionInv'
  <2> DEFINE op == OperationOf(call[c])
             needed == op.action \in Protected
             verdict == IF inScope /\ (needed => unused[op] > 0) THEN "ALLOW" ELSE "DENY"
             entry == [id |-> c, action |-> op.action, value |-> op.value,
                       resources |-> Extract(op.value), decision |-> verdict]
             answer == [id |-> c, status |-> IF verdict = "ALLOW" THEN 200 ELSE 403,
                        body |-> verdict]
  <2>1. /\ c \in pending /\ pending' = pending \ {c} /\ ledger' = ledger \cup {entry}
        /\ answers' = answers \cup {answer} /\ UNCHANGED handlers
    BY <1>2 DEF Decide
  <2>2. call[c] \in Call
    BY <2>1 DEF CallInv, Admitted, Beyond
  <2>3. op.action = Action[call[c].tool] /\ op.value = call[c].value
    BY <2>2, OperationIs
  <2>4. verdict \in {"ALLOW", "DENY"}
    OBVIOUS
  <2> HIDE DEF op, needed, verdict
  <2>5. /\ entry.id = c /\ entry.action = op.action /\ entry.value = op.value
        /\ entry.resources = Extract(op.value) /\ entry.decision = verdict
        /\ answer.id = c /\ answer.body = verdict
    OBVIOUS
  <2> HIDE DEF entry, answer
  <2>6. \A a \in ledger : a.id # c
    BY <2>1 DEF DecisionInv
  <2>7. c \notin Decided /\ Decided' = Decided \cup {c}
    BY <2>1, <2>5, <2>6 DEF Decided
  <2>8. AllowedIds' = IF verdict = "ALLOW" THEN AllowedIds \cup {c} ELSE AllowedIds
    <3>1. CASE verdict = "ALLOW"
      <4>1. Allowed' = Allowed \cup {entry}
        BY <2>1, <2>5, <3>1 DEF Allowed
      <4> QED BY <2>5, <3>1, <4>1 DEF AllowedIds
    <3>2. CASE verdict # "ALLOW"
      <4>1. Allowed' = Allowed
        BY <2>1, <2>5, <3>2 DEF Allowed
      <4> QED BY <3>2, <4>1 DEF AllowedIds
    <3> QED BY <3>1, <3>2
  <2>9. AllowedIds \subseteq Decided
    BY DEF AllowedIds, Decided, Allowed
  <2>10. \A a \in ledger' : /\ a.id \notin pending'
                            /\ a.action = Action[call'[a.id].tool]
                            /\ a.value = call'[a.id].value
                            /\ a.resources = Extract(a.value)
    BY <2>1, <2>3, <2>5 DEF DecisionInv
  <2>11. \A a, b \in ledger' : a.id = b.id => a = b
    BY <2>1, <2>5, <2>6 DEF DecisionInv
  <2>12. \A d \in Calls :
           /\ pc'[d] \in {"authorized", "forwarded"} => d \in AllowedIds'
           /\ reply'[d] \in {"RESULT", "UPSTREAM_OUTCOME_UNKNOWN"} => d \in AllowedIds'
           /\ reply'[d] = "AUTHORIZATION_DENIED" => d \in Decided' \ AllowedIds'
    BY <2>1, <2>7, <2>8 DEF DecisionInv
  <2>13. \A a \in answers' : /\ a.id \notin pending'
                             /\ a.body = "ALLOW" => a.id \in AllowedIds'
                             /\ a.body = "DENY" => a.id \in Decided' \ AllowedIds'
    BY <2>1, <2>4, <2>5, <2>7, <2>8, <2>9 DEF DecisionInv
  <2> QED BY <2>10, <2>11, <2>12, <2>13 DEF DecisionInv
<1>3. ASSUME NEW c \in Calls, Abort(c) PROVE DecisionInv'
  BY <1>3, DecisionKept DEF Abort, DecisionInv
<1>4. ASSUME NEW op \in Operation, Approve(op) PROVE DecisionInv'
  BY <1>4, DecisionKept DEF Approve, DecisionInv
<1>5. ASSUME NEW c \in Calls, LoseRequest(c) \/ LoseCall(c) \/ Expire(c)
      PROVE  DecisionInv'
  BY <1>5, DecisionKept DEF LoseRequest, LoseCall, Expire, DecisionInv
<1>6. ASSUME NEW a \in answers, Damage(a) PROVE DecisionInv'
  <2>1. PICK status \in {200, 403, 503}, body \in {a.body, "cut"} :
           answers' = (answers \ {a}) \cup {[a EXCEPT !.status = status, !.body = body]}
    BY <1>6 DEF Damage
  <2> DEFINE b == [a EXCEPT !.status = status, !.body = body]
  <2>2. b.id = a.id /\ b.body = body
    BY <1>0 DEF TypeOK
  <2> HIDE DEF b
  <2>3. answers' = (answers \ {a}) \cup {b}
    BY <2>1 DEF b
  <2>4. \A x \in answers' : x.id \notin pending /\
              \/ x.body \notin {"ALLOW", "DENY"}
              \/ \E y \in answers : x.id = y.id /\ x.body = y.body
    BY <2>2, <2>3 DEF DecisionInv
  <2> QED BY <1>6, <2>4, DecisionKept DEF Damage
<1>7. ASSUME NEW c \in Calls, NEW code \in Codes, pc[c] # "replied",
             \/ Reply(c, code) /\ code \notin {"RESULT", "UPSTREAM_OUTCOME_UNKNOWN",
                                               "AUTHORIZATION_DENIED"}
             \/ /\ Reply(c, code) /\ c \in AllowedIds
                /\ code \in {"RESULT", "UPSTREAM_OUTCOME_UNKNOWN"}
             \/ /\ Reply(c, code) /\ c \in Decided \ AllowedIds
                /\ code = "AUTHORIZATION_DENIED"
             \/ (Goto(c, "authorized") \/ Goto(c, "forwarded")) /\ c \in AllowedIds,
             UNCHANGED <<call, pending, ledger>>, answers' \subseteq answers
      PROVE  DecisionInv'
  <2>1. reply[c] = None /\ None # "AUTHORIZATION_DENIED"
    BY <1>7, NoneIsNoCode DEF CallInv, Codes
  <2>2. /\ \A d \in Calls \ {c} : pc'[d] = pc[d] /\ reply'[d] = reply[d]
        /\ Reply(c, code) => pc'[c] = "replied" /\ reply'[c] = code
        /\ Goto(c, "authorized") => pc'[c] = "authorized" /\ reply'[c] = reply[c]
        /\ Goto(c, "forwarded") => pc'[c] = "forwarded" /\ reply'[c] = reply[c]
    BY <1>0, <1>7, MoveTypes
  <2>3. \A d \in Calls :
           \/ /\ pc'[d] \notin {"authorized", "forwarded"}
              /\ reply'[d] \notin {"RESULT", "UPSTREAM_OUTCOME_UNKNOWN", "AUTHORIZATION_DENIED"}
           \/ pc'[d] = pc[d] /\ reply'[d] = reply[d]
           \/ d \in AllowedIds /\ reply'[d] # "AUTHORIZATION_DENIED"
           \/ /\ d \in Decided \ AllowedIds /\ pc'[d] = "replied"
              /\ reply'[d] = "AUTHORIZATION_DENIED"
    BY <1>7, <2>1, <2>2
  <2>4. \A a \in answers' : a.id \notin pending' /\
              \/ a.body \notin {"ALLOW", "DENY"}
              \/ \E b \in answers : a.id = b.id /\ a.body = b.body
    BY <1>7 DEF DecisionInv
  <2> QED BY <1>7, <2>3, <2>4, DecisionKept
<1>8. ASSUME NEW c \in Calls, Answered(c) PROVE DecisionInv'
  <2>1. PICK a \in answers :
          /\ a.id = c /\ pc[c] = "authorizing" /\ answers' = answers \ {a}
          /\ CASE Accepted(a) = None   -> Reply(c, "AUTHORIZATION_UNAVAILABLE")
               [] Accepted(a) = "DENY" -> Reply(c, "AUTHORIZATION_DENIED")
               [] OTHER -> IF c \in expired THEN Reply(c, "AUTHORIZATION_EXPIRED")
                                            ELSE Goto(c, "authorized")
          /\ UNCHANGED <<call, expired, pending, server, tools>>
    BY <1>8 DEF Answered
  <2>2. CASE Reply(c, "AUTHORIZATION_UNAVAILABLE") \/ Reply(c, "AUTHORIZATION_EXPIRED")
    <3>1. PICK code \in {"AUTHORIZATION_UNAVAILABLE", "AUTHORIZATION_EXPIRED"} : Reply(c, code)
      BY <2>2
    <3> QED BY <1>7, <2>1, <3>1 DEF Codes
  <2>3. CASE Accepted(a) = "DENY" /\ Reply(c, "AUTHORIZATION_DENIED")
    <3>1. a.body = "DENY"
      BY <2>3, NoneIsNoCode DEF Accepted
    <3>2. c \in Decided \ AllowedIds
      BY <2>1, <3>1 DEF DecisionInv
    <3>3. PICK code \in Codes : code = "AUTHORIZATION_DENIED"
      BY DEF Codes
    <3>4. Reply(c, code)
      BY <2>3, <3>3
    <3> QED BY <1>7, <2>1, <3>2, <3>3, <3>4
  <2>4. CASE Accepted(a) # "DENY" /\ Accepted(a) # None /\ Goto(c, "authorized")
    <3>1. a.body = "ALLOW"
      BY <2>4 DEF Accepted
    <3>2. c \in AllowedIds
      BY <2>1, <3>1 DEF DecisionInv
    <3>3. PICK code \in Codes : TRUE
      BY DEF Codes
    <3> QED BY <1>7, <2>1, <2>4, <3>2, <3>3
  <2> QED BY <2>1, <2>2, <2>3, <2>4
<1>9. ASSUME NEW c \in Calls, Unanswered(c) PROVE DecisionInv'
  <2>1. PICK code \in Codes : code = "AUTHORIZATION_UNAVAILABLE"
    BY DEF Codes
  <2>2. Reply(c, code) /\ pc[c] = "authorizing"
    BY <1>9, <2>1 DEF Unanswered
  <2> QED BY <1>7, <1>9, <2>1, <2>2 DEF Unanswered
<1>10. ASSUME NEW c \in Calls, Forward(c) PROVE DecisionInv'
  <2>1. PICK code \in Codes : TRUE
    BY DEF Codes
  <2>2. c \in AllowedIds /\ Goto(c, "forwarded") /\ pc[c] = "authorized"
    BY <1>10 DEF Forward, DecisionInv
  <2> QED BY <1>7, <1>10, <2>1, <2>2 DEF Forward
<1>11. ASSUME NEW c \in Calls, Finish(c) \/ CallFails(c) PROVE DecisionInv'
  <2>1. PICK code \in {"RESULT", "UPSTREAM_OUTCOME_UNKNOWN"} : Reply(c, code)
    BY <1>11 DEF Finish, CallFails
  <2>2. /\ pc[c] \in {"authorized", "forwarded"}
        /\ UNCHANGED <<call, pending, ledger, answers>>
    BY <1>11 DEF Finish, CallFails
  <2>3. c \in AllowedIds
    BY <2>2 DEF DecisionInv
  <2> QED BY <1>7, <2>1, <2>2, <2>3 DEF Codes
<1>12. ASSUME NEW c \in Calls, NEW outcome \in {"complete", "unusable"}, Perform(c, outcome)
       PROVE  DecisionInv'
  BY <1>12, DecisionKept DEF Perform, DecisionInv
<1>13. CASE Crash
  <2>1. /\ pc' = [c \in Calls |-> IF Running(c) THEN "gone" ELSE pc[c]]
        /\ UNCHANGED <<call, reply, pending, answers, ledger>>
    BY <1>13 DEF Crash
  <2>2. \A c \in Calls : Running(c) => reply[c] = None
    BY DEF CallInv, Running
  <2>3. None \notin {"RESULT", "UPSTREAM_OUTCOME_UNKNOWN", "AUTHORIZATION_DENIED"}
    BY NoneIsNoCode DEF Codes
  <2> QED BY <2>1, <2>2, <2>3, DecisionKept DEF DecisionInv
<1>14. CASE UNCHANGED vars
  BY <1>14, DecisionKept DEF vars, DecisionInv
<1> QED
  BY <1>1, <1>2, <1>3, <1>4, <1>5, <1>6, <1>8, <1>9, <1>10, <1>11, <1>12, <1>13, <1>14,
     BoundsAssumption
     DEF Next

LEMMA DecisionInvariant == Spec => []DecisionInv
<1>1. Init => DecisionInv
  BY NoneIsNoCode DEF Init, DecisionInv, AllowedIds, Allowed, Decided, Codes
<1> QED BY <1>1, CallInvariant, DecisionStep, PTL DEF Spec

-----------------------------------------------------------------------------
(* Effects. *)

\* What the tools have been asked for.
Outside == upstream \cup Performed

EffectInv ==
    /\ \A c \in Outside :
         /\ c \in AllowedIds
         /\ pc[c] \in {"forwarded", "replied", "gone"}
         /\ reply[c] \in {"RESULT", "UPSTREAM_OUTCOME_UNKNOWN", None}
    /\ upstream \cap Performed = {}
    /\ \A j, k \in 1..Len(performed) : performed[j].id = performed[k].id => j = k
    /\ \A k \in 1..Len(performed) :
         /\ performed[k].tool = call[performed[k].id].tool
         /\ performed[k].value = call[performed[k].id].value
    /\ \A r \in results : r.id \in Performed
    /\ \A c \in Calls : reply[c] = "RESULT" => c \in Performed

LEMMA OutsideCalls ==
    ASSUME TypeOK PROVE \A c \in Outside : c \in Calls
<1> DEFINE S == [id : Calls, tool : Tools, value : Values]
<1>1. performed \in Seq(S) /\ \A x \in S : x.id \in Calls
  BY DEF TypeOK
<1> HIDE DEF S
<1>2. Performed \subseteq Calls
  BY <1>1 DEF Performed
<1> QED BY <1>2 DEF TypeOK, Outside

\* Nothing is forwarded or performed in the step.
LEMMA EffectKept ==
    ASSUME CallInv, EffectInv, UNCHANGED performed, upstream' \subseteq upstream,
           results' \subseteq results, AllowedIds \subseteq AllowedIds',
           \A c \in Outside : call'[c] = call[c],
           \A c \in Calls :
              \/ pc'[c] = pc[c] /\ reply'[c] = reply[c]
              \/ c \notin Outside /\ reply'[c] # "RESULT"
              \/ /\ pc'[c] \in {"replied", "gone"}
                 /\ reply'[c] \in {"RESULT", "UPSTREAM_OUTCOME_UNKNOWN", None}
                 /\ reply'[c] = "RESULT" => c \in Performed
    PROVE  EffectInv'
<1>1. Performed' = Performed /\ Outside' \subseteq Outside
  BY DEF Performed, Outside
<1>2. \A c \in Outside : c \in Calls
  BY OutsideCalls DEF CallInv
<1>3. \A c \in Outside' :
         /\ c \in AllowedIds'
         /\ pc'[c] \in {"forwarded", "replied", "gone"}
         /\ reply'[c] \in {"RESULT", "UPSTREAM_OUTCOME_UNKNOWN", None}
  BY <1>1, <1>2 DEF EffectInv
<1>4. \A k \in 1..Len(performed') :
         /\ performed'[k].tool = call'[performed'[k].id].tool
         /\ performed'[k].value = call'[performed'[k].id].value
  <2>1. \A k \in 1..Len(performed) : performed[k].id \in Outside
    BY DEF Outside, Performed
  <2> QED BY <2>1 DEF EffectInv
<1>5. \A c \in Calls : reply'[c] = "RESULT" => c \in Performed'
  BY <1>1 DEF EffectInv
<1>6. /\ upstream' \cap Performed' = {} /\ \A r \in results' : r.id \in Performed'
      /\ \A j, k \in 1..Len(performed') : performed'[j].id = performed'[k].id => j = k
  BY <1>1 DEF EffectInv
<1> QED BY <1>3, <1>4, <1>5, <1>6 DEF EffectInv

LEMMA AllowedGrows ==
    ASSUME ledger \subseteq ledger' PROVE AllowedIds \subseteq AllowedIds'
BY DEF AllowedIds, Allowed

\* A tool does what it is asked, once.
LEMMA PerformEffect ==
    ASSUME CallInv, EffectInv, NEW c \in Calls, NEW outcome, Perform(c, outcome)
    PROVE  EffectInv'
<1> DEFINE n == Len(performed)
           x == [id |-> c, tool |-> call[c].tool, value |-> call[c].value]
<1>1. /\ c \in upstream /\ upstream' = upstream \ {c}
      /\ performed' = Append(performed, x)
      /\ results' = results \cup {[id |-> c, outcome |-> outcome]}
      /\ UNCHANGED <<handlers, ledger>>
  BY DEF Perform, server
<1>2. x.id = c /\ x.tool = call[c].tool /\ x.value = call[c].value
  OBVIOUS
<1> HIDE DEF x
<1>3. /\ n \in Nat /\ Len(performed') = n + 1 /\ performed'[n + 1] = x
      /\ \A k \in 1..n : performed'[k] = performed[k]
  BY <1>1 DEF CallInv, TypeOK
<1> HIDE DEF n
<1>4. Performed' = Performed \cup {c}
  BY <1>2, <1>3 DEF Performed, n
<1>5. Outside' = Outside /\ AllowedIds' = AllowedIds
  BY <1>1, <1>4 DEF Outside, AllowedIds, Allowed
<1>6. c \notin Performed
  BY <1>1 DEF EffectInv
<1>7. \A j, k \in 1..Len(performed') : performed'[j].id = performed'[k].id => j = k
  <2>1. \A k \in 1..n : performed'[k].id # c
    BY <1>3, <1>6 DEF Performed, n
  <2>2. \A j, k \in 1..n : performed'[j].id = performed'[k].id => j = k
    BY <1>3 DEF EffectInv, n
  <2>3. \A k \in 1..Len(performed') : k \in 1..n \/ k = n + 1
    BY <1>3
  <2> QED BY <1>2, <1>3, <2>1, <2>2, <2>3
<1>8. \A k \in 1..Len(performed') :
         /\ performed'[k].tool = call'[performed'[k].id].tool
         /\ performed'[k].value = call'[performed'[k].id].value
  <2>1. \A k \in 1..Len(performed') : k \in 1..n \/ k = n + 1
    BY <1>3
  <2>2. call' = call
    BY <1>1 DEF handlers
  <2> QED BY <1>2, <1>3, <2>1, <2>2 DEF EffectInv, n
<1>9. /\ \A d \in Outside' : /\ d \in AllowedIds'
                             /\ pc'[d] \in {"forwarded", "replied", "gone"}
                             /\ reply'[d] \in {"RESULT", "UPSTREAM_OUTCOME_UNKNOWN", None}
      /\ upstream' \cap Performed' = {}
      /\ \A r \in results' : r.id \in Performed'
      /\ \A d \in Calls : reply'[d] = "RESULT" => d \in Performed'
  BY <1>1, <1>4, <1>5 DEF EffectInv, handlers
<1> QED BY <1>7, <1>8, <1>9 DEF EffectInv

LEMMA EffectStep == CallInv /\ DecisionInv /\ EffectInv /\ [Next]_vars => EffectInv'
<1> SUFFICES ASSUME CallInv, DecisionInv, EffectInv, [Next]_vars PROVE EffectInv'
  OBVIOUS
<1>0. TypeOK
  BY DEF CallInv
<1> USE DEF handlers, server, tools
<1>1. ASSUME NEW c \in Calls, NEW r \in Sent[c], Receive(c, r) PROVE EffectInv'
  <2>1. /\ pc[c] = "idle" /\ call' = [call EXCEPT ![c] = r]
        /\ UNCHANGED <<ledger, tools>>
    BY <1>1 DEF Receive
  <2>2. c \notin Outside
    BY <2>1 DEF EffectInv
  <2>3. r \in Call
    BY BoundsAssumption
  <2>4. PICK code \in LocalCodes : Rejection(r) = None \/ code = Rejection(r)
    BY <2>3, RejectionCodes DEF LocalCodes
  <2>5. /\ \A d \in Calls \ {c} : pc'[d] = pc[d] /\ reply'[d] = reply[d]
        /\ reply'[c] \in LocalCodes \cup {None}
    <3>1. code \in Codes
      BY <2>4 DEF Codes
    <3>2. Reply(c, code) \/ Goto(c, "authorizing")
      BY <1>1, <2>4 DEF Receive
    <3>3. reply[c] = None
      BY <2>1 DEF CallInv
    <3> QED BY <1>0, <2>4, <3>1, <3>2, <3>3, MoveTypes
  <2>6. reply'[c] # "RESULT"
    BY <2>5, NoneIsNoCode DEF LocalCodes, Codes
  <2>7. \A d \in Outside : call'[d] = call[d]
    BY <1>0, <2>1, <2>2, OutsideCalls DEF TypeOK
  <2>8. AllowedIds \subseteq AllowedIds'
    BY <2>1, AllowedGrows
  <2> QED BY <2>1, <2>2, <2>5, <2>6, <2>7, <2>8, EffectKept
<1>2. ASSUME NEW c \in Calls,
             \/ \E inScope \in BOOLEAN : Decide(c, inScope)
             \/ Abort(c) \/ LoseRequest(c) \/ LoseCall(c) \/ Expire(c)
      PROVE  EffectInv'
  <2>1. /\ ledger \subseteq ledger' /\ upstream' \subseteq upstream
        /\ UNCHANGED <<handlers, performed, results>>
    BY <1>2 DEF Decide, Abort, LoseRequest, LoseCall, Expire
  <2> QED BY <2>1, AllowedGrows, EffectKept
<1>3. ASSUME NEW op, Approve(op) PROVE EffectInv'
  BY <1>3, AllowedGrows, EffectKept DEF Approve
<1>4. ASSUME NEW a, Damage(a) PROVE EffectInv'
  BY <1>4, AllowedGrows, EffectKept DEF Damage
<1>5. ASSUME NEW c \in Calls, Answered(c) \/ Unanswered(c) PROVE EffectInv'
  <2>1. PICK code \in Codes \ {"RESULT"} : Reply(c, code) \/ Goto(c, "authorized")
    BY <1>5 DEF Answered, Unanswered, Codes
  <2>2. pc[c] = "authorizing" /\ UNCHANGED <<call, ledger, tools>>
    BY <1>5 DEF Answered, Unanswered
  <2>3. c \notin Outside /\ reply[c] = None /\ None # "RESULT"
    BY <2>2, NoneIsNoCode DEF EffectInv, CallInv, Codes
  <2>4. /\ \A d \in Calls \ {c} : pc'[d] = pc[d] /\ reply'[d] = reply[d]
        /\ reply'[c] # "RESULT"
    BY <1>0, <2>1, <2>3, MoveTypes
  <2> QED BY <2>2, <2>3, <2>4, AllowedGrows, EffectKept
<1>6. ASSUME NEW c \in Calls, Forward(c) PROVE EffectInv'
  <2>1. /\ pc[c] = "authorized" /\ upstream' = upstream \cup {c} /\ Goto(c, "forwarded")
        /\ UNCHANGED <<call, ledger, performed, results>>
    BY <1>6 DEF Forward
  <2>2. c \notin Outside /\ c \in AllowedIds /\ reply[c] = None
    BY <2>1 DEF EffectInv, DecisionInv, CallInv
  <2>3. /\ \A d \in Calls \ {c} : pc'[d] = pc[d] /\ reply'[d] = reply[d]
        /\ pc'[c] = "forwarded" /\ reply'[c] = None
    <3>1. PICK code \in Codes : TRUE
      BY DEF Codes
    <3> QED BY <1>0, <2>1, <2>2, <3>1, MoveTypes
  <2>4. Performed' = Performed /\ AllowedIds' = AllowedIds /\ Outside' = Outside \cup {c}
    BY <2>1 DEF Performed, AllowedIds, Allowed, Outside
  <2>5. \A d \in Outside : d \in Calls
    BY <1>0, OutsideCalls
  <2>6. \A d \in Outside' : /\ d \in AllowedIds'
                            /\ pc'[d] \in {"forwarded", "replied", "gone"}
                            /\ reply'[d] \in {"RESULT", "UPSTREAM_OUTCOME_UNKNOWN", None}
    BY <2>2, <2>3, <2>4, <2>5 DEF EffectInv
  <2>7. upstream' \cap Performed' = {}
    BY <2>1, <2>2, <2>4 DEF EffectInv, Outside
  <2>8. \A d \in Calls : reply'[d] = "RESULT" => d \in Performed'
    BY <2>3, <2>4, NoneIsNoCode DEF EffectInv, Codes
  <2>9. /\ \A j, k \in 1..Len(performed') : performed'[j].id = performed'[k].id => j = k
        /\ \A k \in 1..Len(performed') :
             /\ performed'[k].tool = call'[performed'[k].id].tool
             /\ performed'[k].value = call'[performed'[k].id].value
        /\ \A r \in results' : r.id \in Performed'
    BY <2>1, <2>4 DEF EffectInv
  <2> QED BY <2>6, <2>7, <2>8, <2>9 DEF EffectInv
<1>7. ASSUME NEW c \in Calls, Finish(c) \/ CallFails(c) PROVE EffectInv'
  <2>1. PICK code \in {"RESULT", "UPSTREAM_OUTCOME_UNKNOWN"} :
           Reply(c, code) /\ (code = "RESULT" => c \in Performed)
    BY <1>7 DEF Finish, CallFails, EffectInv
  <2>2. UNCHANGED <<call, ledger, performed, upstream>> /\ results' \subseteq results
    BY <1>7 DEF Finish, CallFails
  <2>3. /\ \A d \in Calls \ {c} : pc'[d] = pc[d] /\ reply'[d] = reply[d]
        /\ pc'[c] = "replied" /\ reply'[c] = code
    BY <1>0, <2>1, MoveTypes DEF Codes
  <2> QED BY <2>1, <2>2, <2>3, AllowedGrows, EffectKept
<1>8. CASE Crash
  <2>1. /\ pc' = [c \in Calls |-> IF Running(c) THEN "gone" ELSE pc[c]]
        /\ UNCHANGED <<call, reply, ledger, tools>>
    BY <1>8 DEF Crash
  <2>2. \A c \in Calls : Running(c) => reply[c] = None
    BY DEF CallInv, Running
  <2>3. None # "RESULT"
    BY NoneIsNoCode DEF Codes
  <2> QED BY <2>1, <2>2, <2>3, AllowedGrows, EffectKept
<1>9. CASE UNCHANGED vars
  BY <1>9, AllowedGrows, EffectKept DEF vars
<1> QED
  BY <1>1, <1>2, <1>3, <1>4, <1>5, <1>6, <1>7, <1>8, <1>9, PerformEffect DEF Next

LEMMA EffectInvariant == Spec => []EffectInv
<1>1. Init => EffectInv
  <2> SUFFICES ASSUME Init PROVE EffectInv
    OBVIOUS
  <2>1. Len(performed) = 0 /\ upstream = {} /\ results = {}
    BY DEF Init
  <2>2. Performed = {} /\ Outside = {}
    BY <2>1 DEF Performed, Outside
  <2>3. \A c \in Calls : reply[c] # "RESULT"
    BY NoneIsNoCode DEF Init, Codes
  <2>4. \A k \in 1..Len(performed) : FALSE
    BY <2>1
  <2> HIDE DEF Performed
  <2> QED BY <2>1, <2>2, <2>3, <2>4 DEF EffectInv
<1> QED BY <1>1, CallInvariant, DecisionInvariant, EffectStep, PTL DEF Spec

-----------------------------------------------------------------------------
(* What the agent may rely on. *)

\* Every reply says what is so, and stays so however late a decision, an answer
\* or a result is (gateway.go:142-206): a call that was rejected or denied never
\* reaches a tool, and an effect is only ever reported as a result or as an
\* unknown outcome.
THEOREM TruthfulReplies == Spec => []RepliesAreTruthful
<1>1. CallInv /\ DecisionInv /\ EffectInv => RepliesAreTruthful
  <2> SUFFICES ASSUME CallInv, DecisionInv, EffectInv, NEW c \in Calls
               PROVE  /\ reply[c] \in LocalCodes => c \notin pending \cup {a.id : a \in ledger}
                      /\ reply[c] = "AUTHORIZATION_DENIED" => c \notin {a.id : a \in Allowed}
                      /\ Reached(c) => reply[c] \in {"UPSTREAM_OUTCOME_UNKNOWN", "RESULT", None}
                      /\ reply[c] = "RESULT" => \E k \in 1..Len(performed) : performed[k].id = c
                      /\ reply[c] = "UPSTREAM_OUTCOME_UNKNOWN" => c \in {a.id : a \in Allowed}
    BY DEF RepliesAreTruthful
  <2>1. reply[c] \in LocalCodes => c \notin pending \cup {a.id : a \in ledger}
    BY DEF CallInv, Beyond, Decided, Admitted
  <2>2. Reached(c) => c \in Outside
    BY DEF Reached, Outside, Performed
  <2> QED BY <2>1, <2>2 DEF DecisionInv, EffectInv, AllowedIds, Performed
<1> QED BY <1>1, CallInvariant, DecisionInvariant, EffectInvariant, PTL

\* Each item that the forwarded arguments select resources with is an id that
\* the control API has allowed (extract, config.go:103-157): an item that is
\* not a concrete string stops the call, and duplicates add nothing.
THEOREM ItemsDecided == Spec => []EveryItemWasDecided
<1>1. CallInv /\ DecisionInv /\ EffectInv => EveryItemWasDecided
  <2> SUFFICES ASSUME CallInv, DecisionInv, EffectInv, NEW k \in 1..Len(performed)
               PROVE  \E a \in Allowed :
                         /\ a.id = performed[k].id
                         /\ LET v == performed[k].value
                            IN (IF v \in Ids THEN {v} ELSE Range(v)) = a.resources
    BY DEF EveryItemWasDecided
  <2>1. performed[k].id \in AllowedIds /\ performed[k].value = call[performed[k].id].value
    BY DEF EffectInv, Outside, Performed
  <2>2. PICK a \in Allowed : a.id = performed[k].id
    BY <2>1 DEF AllowedIds
  <2>3. a \in ledger
    BY DEF Allowed
  <2>4. a.resources = Extract(a.value) /\ a.value = performed[k].value
    BY <2>1, <2>2, <2>3 DEF DecisionInv
  <2>5. Admitted(a.id)
    BY <2>3 DEF CallInv, Beyond, Decided
  <2>6. call[a.id] \in Call /\ Rejection(call[a.id]) = None
    BY <2>5 DEF Admitted
  <2>7. a.value \in Values /\ Extract(a.value) # None
    BY <2>1, <2>2, <2>4, <2>6, RejectionCodes, OperationIs
  <2> QED BY <2>2, <2>4, <2>7, ExtractIds
<1> QED BY <1>1, CallInvariant, DecisionInvariant, EffectInvariant, PTL

-----------------------------------------------------------------------------
(* The promise. *)

LEMMA MapAppend ==
    ASSUME NEW S, NEW T, NEW s \in Seq(S), NEW x \in S, NEW g \in [S -> T]
    PROVE  LET m == [k \in DOMAIN s |-> g[s[k]]]
               t == Append(s, x)
           IN  /\ Len(m) = Len(s) /\ \A k \in 1..Len(s) : m[k] = g[s[k]]
               /\ [k \in DOMAIN t |-> g[t[k]]] = Append(m, g[x])
<1> DEFINE n == Len(s)
           m == [k \in DOMAIN s |-> g[s[k]]]
           t == Append(s, x)
<1>1. n \in Nat /\ DOMAIN s = 1..n /\ \A k \in 1..n : s[k] \in S
  OBVIOUS
<1>2. DOMAIN t = 1..(n + 1) /\ t[n + 1] = x /\ \A k \in 1..n : t[k] = s[k]
  OBVIOUS
<1>3. m = [k \in 1..n |-> g[s[k]]]
  BY <1>1
<1>4. m \in Seq(T) /\ Len(m) = n
  <2>1. \A k \in 1..n : g[s[k]] \in T
    BY <1>1
  <2> HIDE DEF n
  <2>2. m \in [1..n -> T]
    BY <1>3, <2>1
  <2> HIDE DEF m
  <2> QED BY <1>1, <2>2
<1>5. \A k \in 1..n : m[k] = g[s[k]]
  BY <1>3
<1>6. [k \in DOMAIN t |-> g[t[k]]] = Append(m, g[x])
  <2> DEFINE l == [k \in DOMAIN t |-> g[t[k]]]
             r == Append(m, g[x])
  <2>1. DOMAIN r = 1..(n + 1) /\ r[n + 1] = g[x] /\ \A k \in 1..n : r[k] = m[k]
    <3> HIDE DEF m, n
    <3>1. g[x] \in T
      OBVIOUS
    <3> QED BY <1>4, <3>1
  <2> HIDE DEF m, t, n
  <2>2. DOMAIN l = 1..(n + 1) /\ \A k \in 1..(n + 1) : l[k] = g[t[k]]
    BY <1>2
  <2>3. \A k \in 1..(n + 1) : k \in 1..n \/ k = n + 1
    BY <1>1
  <2>4. \A k \in 1..(n + 1) : l[k] = r[k]
    BY <1>2, <1>5, <2>1, <2>2, <2>3
  <2>5. r = [k \in 1..(n + 1) |-> r[k]] /\ l = [k \in 1..(n + 1) |-> l[k]]
    BY <2>1, <2>2, <1>4
  <2> QED BY <2>4, <2>5
<1> QED BY <1>4, <1>5, <1>6

\* The values of the promise's variables: see Promise in Gateway.
allowed ==
    [c \in {a.id : a \in Allowed} |->
        LET a == CHOOSE a \in Allowed : a.id = c
        IN [action |-> a.action, value |-> a.value]]
effects ==
    [k \in DOMAIN performed |->
        [id |-> performed[k].id,
         op |-> [action |-> Action[performed[k].tool], value |-> performed[k].value]]]

\* An authorization is for the operation of its call.
LEMMA AllowedIs ==
    CallInv /\ DecisionInv => allowed = [i \in AllowedIds |-> OperationOf(call[i])]
<1> SUFFICES ASSUME CallInv, DecisionInv
             PROVE  allowed = [i \in AllowedIds |-> OperationOf(call[i])]
  OBVIOUS
<1>1. ASSUME NEW c \in AllowedIds
      PROVE  LET a == CHOOSE a \in Allowed : a.id = c
             IN [action |-> a.action, value |-> a.value] = OperationOf(call[c])
  <2> DEFINE a == CHOOSE a \in Allowed : a.id = c
  <2>1. a \in Allowed /\ a.id = c
    BY DEF AllowedIds
  <2> HIDE DEF a
  <2>2. a.action = Action[call[c].tool] /\ a.value = call[c].value
    BY <2>1 DEF Allowed, DecisionInv
  <2> QED BY <2>2 DEF OperationOf, a
<1> QED BY <1>1 DEF allowed, AllowedIds

LEMMA AllowedNext ==
    (CallInv /\ DecisionInv => allowed = [i \in AllowedIds |-> OperationOf(call[i])])'
BY AllowedIs, PTL

\* A step that records no ALLOW changes no authorization.
LEMMA AllowedSame ==
    ASSUME Allowed' = Allowed PROVE allowed' = allowed
BY DEF allowed

LEMMA EffectsSame ==
    ASSUME performed' = performed PROVE effects' = effects
BY DEF effects

LEMMA DecidePromise ==
    ASSUME CallInv, DecisionInv, CallInv', DecisionInv', NEW c \in Calls,
           NEW inScope \in BOOLEAN, Decide(c, inScope)
    PROVE  (\E op \in Operation : Promise!Allow(c, op))
             \/ UNCHANGED <<unused, allowed, effects>>
<1> DEFINE op == OperationOf(call[c])
           needed == op.action \in Protected
           verdict == IF inScope /\ (needed => unused[op] > 0) THEN "ALLOW" ELSE "DENY"
           entry == [id |-> c, action |-> op.action, value |-> op.value,
                     resources |-> Extract(op.value), decision |-> verdict]
<1>1. /\ c \in pending /\ ledger' = ledger \cup {entry}
      /\ unused' = [unused EXCEPT ![op] = IF needed /\ verdict = "ALLOW" THEN @ - 1 ELSE @]
      /\ call' = call /\ performed' = performed
  BY DEF Decide, handlers, tools
<1>2. c \in Beyond
  BY <1>1 DEF Beyond
<1>3. call[c] \in Call
  BY <1>2 DEF CallInv, Admitted
<1>4. op \in Operation
  BY <1>3, OperationIs
<1>5. entry.id = c /\ entry.decision = verdict
  OBVIOUS
<1>6. needed /\ verdict = "ALLOW" => unused[op] > 0
  OBVIOUS
<1>7. \A a \in ledger : a.id # c
  BY <1>1 DEF DecisionInv
<1>8. c \notin AllowedIds
  BY <1>7 DEF AllowedIds, Allowed
<1>9. allowed = [i \in AllowedIds |-> OperationOf(call[i])]
  BY AllowedIs
<1>10. allowed' = [d \in AllowedIds' |-> OperationOf(call[d])]
  BY <1>1, AllowedNext DEF OperationOf
<1>11. effects' = effects
  BY <1>1, EffectsSame
<1>12. op \in {o \in Operation : o.action \in Protected} <=> needed
  BY <1>4
<1> HIDE DEF entry, verdict, needed
<1>13. CASE verdict = "ALLOW"
  <2>1. AllowedIds' = AllowedIds \cup {c}
    <3>1. Allowed' = Allowed \cup {entry}
      BY <1>1, <1>5, <1>13 DEF Allowed
    <3> QED BY <1>5, <3>1 DEF AllowedIds
  <2>2. DOMAIN allowed = AllowedIds
    BY <1>9
  <2>3. allowed' = [i \in DOMAIN allowed \cup {c} |-> IF i = c THEN op ELSE allowed[i]]
    <3> DEFINE M == [i \in DOMAIN allowed \cup {c} |-> IF i = c THEN op ELSE allowed[i]]
    <3>1. M = [i \in AllowedIds \cup {c} |-> OperationOf(call[i])]
      BY <1>8, <1>9, <2>2
    <3> QED BY <1>10, <2>1, <3>1
  <2>4. IF needed THEN unused[op] > 0 /\ unused' = [unused EXCEPT ![op] = @ - 1]
                  ELSE UNCHANGED unused
    <3>1. CASE needed
      BY <1>1, <1>6, <1>13, <3>1
    <3>2. CASE ~needed
      <4>1. unused' = [unused EXCEPT ![op] = @]
        BY <1>1, <3>2
      <4>2. unused \in [Operation -> 0..MaxApprovals]
        BY DEF CallInv, TypeOK
      <4> QED BY <3>2, <4>1, <4>2
    <3> QED BY <3>1, <3>2
  <2>5. c \notin DOMAIN allowed
    BY <1>8, <2>2
  <2> HIDE DEF op
  <2>6. PICK o \in Operation : o = op
    BY <1>4
  <2>7. Promise!Allow(c, o)
    BY <1>11, <1>12, <2>3, <2>4, <2>5, <2>6 DEF Promise!Allow, allowed, effects
  <2> QED BY <2>6, <2>7
<1>14. CASE verdict # "ALLOW"
  <2>1. Allowed' = Allowed
    BY <1>1, <1>5, <1>14 DEF Allowed
  <2>2. unused' = unused
    <3>1. unused' = [unused EXCEPT ![op] = @]
      BY <1>1, <1>14
    <3>2. unused \in [Operation -> 0..MaxApprovals]
      BY DEF CallInv, TypeOK
    <3> QED BY <3>1, <3>2
  <2> QED BY <1>11, <2>1, <2>2, AllowedSame
<1> QED BY <1>13, <1>14

LEMMA PerformPromise ==
    ASSUME CallInv, DecisionInv, EffectInv, NEW c \in Calls, NEW outcome,
           Perform(c, outcome)
    PROVE  Promise!Effect(c)
<1> DEFINE x == [id |-> c, tool |-> call[c].tool, value |-> call[c].value]
           S == [id : Calls, tool : Tools, value : Values]
           T == [id : Calls, op : Operation]
           g == [y \in S |-> [id |-> y.id, op |-> [action |-> Action[y.tool], value |-> y.value]]]
<1>1. /\ c \in upstream /\ performed' = Append(performed, x)
      /\ UNCHANGED <<ledger, unused, call>>
  BY DEF Perform, server, handlers
<1>2. c \in AllowedIds /\ c \in Beyond /\ c \notin Performed
  BY <1>1 DEF EffectInv, Outside, Beyond
<1>3. call[c] \in Call
  BY <1>2 DEF CallInv, Admitted
<1>4. x \in S /\ performed \in Seq(S)
  BY <1>3, OperationIs DEF CallInv, TypeOK
<1>5. g \in [S -> T]
  <2>1. \A y \in S : [id |-> y.id, op |-> [action |-> Action[y.tool], value |-> y.value]] \in T
    BY GatewayConstants DEF Operation
  <2> HIDE DEF S, T
  <2> QED BY <2>1
<1>6. g[x] = [id |-> c, op |-> OperationOf(call[c])]
  BY <1>4 DEF OperationOf
<1>7. /\ effects = [k \in DOMAIN performed |-> g[performed[k]]]
      /\ effects' = [k \in DOMAIN performed' |-> g[performed'[k]]]
  <2>1. \A y \in S : g[y] = [id |-> y.id, op |-> [action |-> Action[y.tool], value |-> y.value]]
    OBVIOUS
  <2>2. performed' \in Seq(S)
    BY <1>1, <1>4
  <2> HIDE DEF g, S
  <2>3. /\ \A k \in DOMAIN performed : performed[k] \in S
        /\ \A k \in DOMAIN performed' : performed'[k] \in S
    BY <1>4, <2>2
  <2> QED BY <2>1, <2>3 DEF effects
<1> HIDE DEF g, x, S, T
<1>8. /\ Len(effects) = Len(performed)
      /\ \A k \in 1..Len(performed) : effects[k] = g[performed[k]]
      /\ effects' = Append(effects, g[x])
  BY <1>1, <1>4, <1>5, <1>7, MapAppend
<1>9. \A k \in 1..Len(effects) : effects[k].id # c
  <2>1. \A k \in 1..Len(performed) : performed[k].id # c
    BY <1>2 DEF Performed
  <2>2. \A k \in 1..Len(performed) : effects[k].id = performed[k].id
    BY DEF effects
  <2> QED BY <1>8, <2>1, <2>2
<1>10. c \in DOMAIN allowed /\ allowed[c] = OperationOf(call[c])
  BY <1>2, AllowedIs
<1>11. Allowed' = Allowed
  BY <1>1 DEF Allowed
<1>12. allowed' = allowed /\ unused' = unused
  BY <1>1, <1>11, AllowedSame
<1>13. effects' = Append(effects, [id |-> c, op |-> allowed[c]])
  BY <1>6, <1>8, <1>10
<1> QED BY <1>9, <1>10, <1>12, <1>13 DEF Promise!Effect, allowed, effects

LEMMA PromiseStep ==
    CallInv /\ DecisionInv /\ EffectInv /\ CallInv' /\ DecisionInv' /\ [Next]_vars
      => [Promise!Next]_<<unused, allowed, effects>>
<1> SUFFICES ASSUME CallInv, DecisionInv, EffectInv, CallInv', DecisionInv', [Next]_vars
             PROVE  [Promise!Next]_<<unused, allowed, effects>>
  OBVIOUS
<1> USE DEF handlers, server, tools
<1>1. ASSUME ledger' = ledger, unused' = unused, performed' = performed
      PROVE  UNCHANGED <<unused, allowed, effects>>
  BY <1>1, AllowedSame, EffectsSame DEF Allowed
<1>2. ASSUME NEW c \in Calls, NEW inScope \in BOOLEAN, Decide(c, inScope)
      PROVE  [Promise!Next]_<<unused, allowed, effects>>
  BY <1>2, DecidePromise DEF Promise!Next
<1>3. ASSUME NEW c \in Calls, NEW outcome, Perform(c, outcome)
      PROVE  [Promise!Next]_<<unused, allowed, effects>>
  BY <1>3, PerformPromise DEF Promise!Next
<1>4. ASSUME NEW op \in Approvable, Approve(op)
      PROVE  [Promise!Next]_<<unused, allowed, effects>>
  <2>1. op \in Operation
    BY BoundsAssumption
  <2>2. allowed' = allowed /\ effects' = effects
    BY <1>4, AllowedSame, EffectsSame DEF Approve, Allowed
  <2>3. Promise!Approve(op)
    BY <1>4, <2>2 DEF Approve, Promise!Approve, allowed, effects
  <2> QED BY <2>1, <2>3 DEF Promise!Next
<1>5. ASSUME NEW c \in Calls,
             \/ \E r \in Sent[c] : Receive(c, r)
             \/ Abort(c) \/ LoseRequest(c) \/ Answered(c) \/ Unanswered(c)
             \/ Forward(c) \/ LoseCall(c) \/ Finish(c) \/ CallFails(c) \/ Expire(c)
      PROVE  UNCHANGED <<unused, allowed, effects>>
  BY <1>1, <1>5
     DEF Receive, Abort, LoseRequest, Answered, Unanswered, Forward, LoseCall, Finish,
         CallFails, Expire
<1>6. ASSUME NEW a \in answers, Damage(a) PROVE UNCHANGED <<unused, allowed, effects>>
  BY <1>1, <1>6 DEF Damage
<1>7. ASSUME Crash \/ UNCHANGED vars PROVE UNCHANGED <<unused, allowed, effects>>
  BY <1>1, <1>7 DEF Crash, vars
<1> QED BY <1>2, <1>3, <1>4, <1>5, <1>6, <1>7 DEF Next

\* The gateway implements AuthorizedEffects, whatever is lost, late, damaged or
\* retried and whenever the process is killed (gateway.go:165-186): a tool has
\* an effect only for a committed authorization of that very operation, once
\* per authorization; and a guarded operation is authorized once per approval.
THEOREM KeepsPromise == Spec => PromiseKept
<1>1. Init => Promise!Init
  <2> SUFFICES ASSUME Init PROVE Promise!Init
    OBVIOUS
  <2>1. Allowed = {} /\ performed = << >> /\ unused = [op \in Operation |-> 0]
    BY DEF Init, Allowed
  <2>2. allowed = [id \in {} |-> Operation]
    BY <2>1 DEF allowed
  <2>3. effects = << >>
    BY <2>1 DEF effects
  <2> QED BY <2>1, <2>2, <2>3 DEF Promise!Init, allowed, effects
<1>2. CallInv /\ DecisionInv /\ EffectInv /\ CallInv' /\ DecisionInv' /\ [Next]_vars
        => [Promise!Next]_<<unused, allowed, effects>>
  BY PromiseStep
<1> QED
  BY <1>1, <1>2, CallInvariant, DecisionInvariant, EffectInvariant, PTL
     DEF Spec, PromiseKept, Promise!Spec, allowed, effects

-----------------------------------------------------------------------------
(* Start-up. *)

\* What the loop remembers is what the upstream has listed so far: no name twice,
\* and each configured tool among them is exposed with a schema that compiles.
KnownFrom(page, seen, shown) ==
    /\ page \in Seq(Tool)
    /\ seen = {page[k].name : k \in 1..Len(page)}
    /\ \A j, k \in 1..Len(page) : page[j].name = page[k].name => j = k
    /\ \A k \in 1..Len(page) : page[k].name \in Configured => page[k].compiles
    /\ shown = {k \in 1..Len(page) : page[k].name \in Configured}
Known == KnownFrom(listed, seenTools, exposed) /\ found = seenTools \cap Configured

DiscoveryInv ==
    /\ DiscoveryOK
    /\ phase # "failed" => Known
    /\ phase = "serving" => Configured \subseteq found

\* What a page adds to a list.
LEMMA Listed ==
    ASSUME NEW S, NEW a \in Seq(S), NEW b \in Seq(S)
    PROVE  /\ a \o b \in Seq(S) /\ Len(a \o b) = Len(a) + Len(b)
           /\ Len(a) \in Nat /\ Len(b) \in Nat
           /\ \A k \in 1..Len(a) : (a \o b)[k] = a[k]
           /\ \A k \in 1..Len(b) : (a \o b)[Len(a) + k] = b[k]
           /\ \A k \in 1..Len(a) + Len(b) :
                 k \in 1..Len(a) \/ \E i \in 1..Len(b) : k = Len(a) + i
           /\ \A k \in 1..Len(b) : Len(a) + k \in 1..Len(a) + Len(b) /\ Len(a) + k \notin 1..Len(a)
<1>1. /\ a \o b \in Seq(S) /\ Len(a \o b) = Len(a) + Len(b)
      /\ Len(a) \in Nat /\ Len(b) \in Nat
      /\ \A k \in 1..Len(a) : (a \o b)[k] = a[k]
      /\ \A k \in 1..Len(b) : (a \o b)[Len(a) + k] = b[k]
  OBVIOUS
<1>2. PICK m, n : m = Len(a) /\ n = Len(b) /\ m \in Nat /\ n \in Nat
  BY <1>1
<1>3. ASSUME NEW k \in 1..m + n PROVE k \in 1..m \/ \E i \in 1..n : k = m + i
  <2>1. CASE k > m
    <3>1. k - m \in 1..n /\ k = m + (k - m)
      BY <1>2, <2>1
    <3> QED BY <3>1
  <2> QED BY <1>2, <2>1
<1>4. \A k \in 1..n : m + k \in 1..m + n /\ m + k \notin 1..m
  BY <1>2
<1> QED BY <1>1, <1>2, <1>3, <1>4

\* The tools of a page that the loop accepts.
LEMMA AcceptedPage ==
    ASSUME NEW page \in Seq(Tool \cup {Invalid}), \A k \in DOMAIN page : Acceptable(page, k)
    PROVE  /\ page \in Seq(Tool)
           /\ \A k \in 1..Len(page) : page[k].name \notin seenTools
           /\ \A j, k \in 1..Len(page) : page[j].name = page[k].name => j = k
           /\ \A k \in 1..Len(page) : page[k].name \in Configured => page[k].compiles
<1>1. Len(page) \in Nat /\ DOMAIN page = 1..Len(page)
  OBVIOUS
<1>2. \A k \in 1..Len(page) : page[k] \in Tool /\ page[k] # Invalid
  BY <1>1 DEF Acceptable
<1>3. page \in Seq(Tool)
  BY <1>1, <1>2
<1>4. ASSUME NEW j \in 1..Len(page), NEW k \in 1..Len(page), j < k
      PROVE  page[j].name # page[k].name
  <2>1. j \in 1..k - 1
    BY <1>1, <1>4
  <2> QED BY <1>1, <1>2, <2>1 DEF Acceptable
<1>5. \A j, k \in 1..Len(page) : page[j].name = page[k].name => j = k
  <2>1. \A j, k \in 1..Len(page) : j = k \/ j < k \/ k < j
    BY <1>1
  <2> QED BY <1>4, <2>1
<1> QED BY <1>1, <1>2, <1>3, <1>5 DEF Acceptable

LEMMA DiscoveryPage ==
    ASSUME DiscoveryInv, NEW page \in Pages, NEW next \in Cursors \cup {Last}, Page(page, next)
    PROVE  DiscoveryInv'
<1>1. Known /\ DiscoveryOK /\ phase = "asking"
  BY DEF DiscoveryInv, Page
<1>2. page \in Seq(Tool \cup {Invalid}) /\ \A k \in DOMAIN page : Acceptable(page, k)
  BY DiscoveryConstants DEF Page
<1>3. /\ page \in Seq(Tool)
      /\ \A k \in 1..Len(page) : page[k].name \notin seenTools
      /\ \A j, k \in 1..Len(page) : page[j].name = page[k].name => j = k
      /\ \A k \in 1..Len(page) : page[k].name \in Configured => page[k].compiles
  BY <1>2, AcceptedPage
<1>4. PICK old, new, m, n : /\ old = listed /\ new = listed \o page
                            /\ m = Len(listed) /\ n = Len(page)
  OBVIOUS
<1>5. /\ new \in Seq(Tool) /\ Len(new) = m + n /\ m \in Nat /\ n \in Nat
      /\ \A k \in 1..m : new[k] = old[k]
      /\ \A k \in 1..n : new[m + k] = page[k]
      /\ \A k \in 1..m + n : k \in 1..m \/ \E i \in 1..n : k = m + i
      /\ \A k \in 1..n : m + k \in 1..m + n /\ m + k \notin 1..m
  BY <1>1, <1>3, <1>4, Listed DEF Known, KnownFrom
<1>6. PICK names : names = {page[k].name : k \in 1..n}
  OBVIOUS
<1>7. /\ listed' = new /\ total' = total + n /\ seenTools' = seenTools \cup names
      /\ exposed' = exposed \cup {m + k : k \in {k \in 1..n : page[k].name \in Configured}}
      /\ found' = found \cup (names \cap Configured)
      /\ phase' = IF next # Last THEN "asking"
                  ELSE IF Complete(found') THEN "serving" ELSE "failed"
  <2>1. DOMAIN page = 1..n
    BY <1>3, <1>4
  <2> QED BY <1>4, <1>6, <2>1 DEF Page, Mapped
<1>8. /\ old \in Seq(Tool) /\ seenTools = {old[k].name : k \in 1..m}
      /\ \A j, k \in 1..m : old[j].name = old[k].name => j = k
      /\ \A k \in 1..m : old[k].name \in Configured => old[k].compiles
      /\ exposed = {k \in 1..m : old[k].name \in Configured}
      /\ found = seenTools \cap Configured
  BY <1>1, <1>4 DEF Known, KnownFrom
<1>9. 1..m \subseteq 1..m + n
  BY <1>5
<1>10. seenTools' = {new[k].name : k \in 1..m + n}
  <2>1. ASSUME NEW x \in seenTools' PROVE x \in {new[k].name : k \in 1..m + n}
    <3>1. CASE x \in seenTools
      BY <1>5, <1>8, <1>9, <3>1
    <3>2. CASE x \in names
      <4>1. PICK i \in 1..n : x = page[i].name
        BY <1>6, <3>2
      <4>2. new[m + i] = page[i] /\ m + i \in 1..m + n
        BY <1>5
      <4> QED BY <4>1, <4>2
    <3> QED BY <1>7, <2>1, <3>1, <3>2
  <2>2. ASSUME NEW k \in 1..m + n PROVE new[k].name \in seenTools'
    <3>1. CASE k \in 1..m
      BY <1>5, <1>7, <1>8, <3>1
    <3>2. ASSUME NEW i \in 1..n, k = m + i PROVE new[k].name \in seenTools'
      <4>1. new[k] = page[i]
        BY <1>5, <3>2
      <4>2. page[i].name \in names
        BY <1>6
      <4> QED BY <1>7, <4>1, <4>2
    <3> QED BY <1>5, <3>1, <3>2
  <2> QED BY <2>1, <2>2
<1>11. ASSUME NEW j \in 1..m + n, NEW k \in 1..m + n, new[j].name = new[k].name
       PROVE  j = k
  <2>1. CASE j \in 1..m /\ k \in 1..m
    BY <1>5, <1>8, <1>11, <2>1
  <2>2. ASSUME NEW x \in 1..m, NEW i \in 1..n PROVE new[x].name # new[m + i].name
    BY <1>3, <1>4, <1>5, <1>8
  <2>3. ASSUME NEW x \in 1..n, NEW i \in 1..n, j = m + x, k = m + i PROVE j = k
    <3>1. page[x].name = page[i].name
      BY <1>5, <1>11, <2>3
    <3> QED BY <1>3, <1>4, <2>3, <3>1
  <2>4. j \in 1..m \/ \E x \in 1..n : j = m + x
    BY <1>5
  <2>5. k \in 1..m \/ \E i \in 1..n : k = m + i
    BY <1>5
  <2>6. CASE j \in 1..m
    BY <1>11, <2>1, <2>2, <2>5, <2>6
  <2>7. CASE \E x \in 1..n : j = m + x
    BY <1>11, <2>2, <2>3, <2>5, <2>7
  <2> QED BY <2>4, <2>6, <2>7
<1>12. \A k \in 1..m + n : new[k].name \in Configured => new[k].compiles
  BY <1>3, <1>4, <1>5, <1>8
<1>13. exposed' = {k \in 1..m + n : new[k].name \in Configured}
  <2>1. ASSUME NEW x \in exposed' PROVE x \in 1..m + n /\ new[x].name \in Configured
    <3>1. CASE x \in exposed
      BY <1>5, <1>8, <1>9, <3>1
    <3>2. ASSUME NEW k \in 1..n, page[k].name \in Configured, x = m + k
          PROVE  x \in 1..m + n /\ new[x].name \in Configured
      BY <1>5, <3>2
    <3> QED BY <1>7, <2>1, <3>1, <3>2
  <2>2. ASSUME NEW k \in 1..m + n, new[k].name \in Configured PROVE k \in exposed'
    <3>1. CASE k \in 1..m
      BY <1>5, <1>7, <1>8, <2>2, <3>1
    <3>2. ASSUME NEW i \in 1..n, k = m + i PROVE k \in exposed'
      BY <1>5, <1>7, <2>2, <3>2
    <3> QED BY <1>5, <3>1, <3>2
  <2> QED BY <2>1, <2>2
<1>14. Known'
  <2>1. PICK seen, shown : seen = seenTools' /\ shown = exposed'
    OBVIOUS
  <2>2. KnownFrom(new, seen, shown)
    BY <1>5, <1>10, <1>11, <1>12, <1>13, <2>1 DEF KnownFrom
  <2>3. KnownFrom(listed', seenTools', exposed')
    BY <1>7, <2>1, <2>2
  <2>4. found' = seenTools' \cap Configured
    BY <1>7, <1>8
  <2> QED BY <2>3, <2>4 DEF Known
<1>15. DiscoveryOK'
  <2>1. total' \in 0..MaxTools
    <3>1. total \in 0..MaxTools /\ MaxTools \in Nat
      BY <1>1, DiscoveryConstants DEF DiscoveryOK
    <3>2. n # 0 => total + n <= MaxTools
      <4>1. n # 0 => n \in DOMAIN page
        BY <1>3, <1>4, <1>5
      <4> QED BY <1>2, <4>1 DEF Acceptable
    <3> QED BY <1>5, <1>7, <3>1, <3>2
  <2>2. names \subseteq Names
    <3>1. \A k \in 1..n : page[k].name \in Names
      <4>1. \A k \in 1..Len(page) : page[k] \in Tool
        BY <1>3
      <4>2. \A t \in Tool : t.name \in Names
        BY DEF Tool
      <4> QED BY <1>4, <4>1, <4>2
    <3> QED BY <1>6, <3>1
  <2>3. listed' \in Seq(Tool \cup {Invalid}) /\ exposed' \subseteq DOMAIN listed'
    BY <1>5, <1>7, <1>13
  <2>4. cursor' \in Cursors \cup {Last} /\ seenCursors' \subseteq Cursors
    BY <1>1 DEF Page, Remember, DiscoveryOK
  <2>5. seenTools' \subseteq Names /\ found' \subseteq Configured
    BY <1>1, <1>7, <2>2 DEF DiscoveryOK
  <2>6. phase' \in {"asking", "serving", "failed"}
    BY <1>7
  <2> QED BY <2>1, <2>3, <2>4, <2>5, <2>6 DEF DiscoveryOK
<1>16. phase' = "serving" => Configured \subseteq found'
  BY <1>7 DEF Complete
<1> QED BY <1>14, <1>15, <1>16 DEF DiscoveryInv

LEMMA DiscoveryInvariant == DiscoverySpec => []DiscoveryInv
<1>1. DiscoveryInit => DiscoveryInv
  <2> SUFFICES ASSUME DiscoveryInit PROVE DiscoveryInv
    OBVIOUS
  <2>1. /\ phase = "asking" /\ cursor = Last /\ seenCursors = {} /\ seenTools = {}
        /\ found = {} /\ total = 0 /\ listed = << >> /\ exposed = {}
    BY DEF DiscoveryInit
  <2>2. Known
    BY <2>1 DEF Known, KnownFrom
  <2>3. DiscoveryOK
    BY <2>1, DiscoveryConstants DEF DiscoveryOK
  <2> QED BY <2>1, <2>2, <2>3 DEF DiscoveryInv
<1>2. DiscoveryInv /\ [DiscoveryNext]_discoveryVars => DiscoveryInv'
  <2> SUFFICES ASSUME DiscoveryInv, [DiscoveryNext]_discoveryVars PROVE DiscoveryInv'
    OBVIOUS
  <2>1. ASSUME NEW page \in Pages, NEW next \in Cursors \cup {Last}, BadPage(page, next)
        PROVE  DiscoveryInv'
    <3>1. page \in Seq(Tool \cup {Invalid}) /\ listed \in Seq(Tool \cup {Invalid})
      BY DiscoveryConstants DEF DiscoveryInv, DiscoveryOK
    <3>2. PICK S : S = Tool \cup {Invalid}
      OBVIOUS
    <3>3. /\ listed \o page \in Seq(S) /\ Len(listed) \in Nat /\ Len(page) \in Nat
          /\ Len(listed \o page) = Len(listed) + Len(page)
      BY <3>1, <3>2
    <3>4. DOMAIN listed \subseteq DOMAIN (listed \o page)
      BY <3>1, <3>3
    <3> QED BY <2>1, <3>2, <3>3, <3>4 DEF BadPage, DiscoveryInv, DiscoveryOK
  <2>2. CASE Unavailable
    BY <2>2 DEF Unavailable, DiscoveryInv, DiscoveryOK
  <2>3. CASE UNCHANGED discoveryVars
    BY <2>3 DEF discoveryVars, DiscoveryInv, DiscoveryOK, Known, KnownFrom
  <2> QED BY <2>1, <2>2, <2>3, DiscoveryPage DEF DiscoveryNext, PageArrives
<1> QED BY <1>1, <1>2, PTL DEF DiscoverySpec

\* A gateway that serves exposes the tools of its mapping and no others, each as
\* its upstream has listed it once, with a schema that compiles, whatever pages
\* the upstream makes up and for any limits (New, gateway.go:54-117).
THEOREM MappingServed == DiscoverySpec => []ServesTheMapping
<1>1. DiscoveryInv => ServesTheMapping
  <2> SUFFICES ASSUME DiscoveryInv, phase = "serving"
               PROVE  /\ {listed[k].name : k \in exposed} = Configured
                      /\ \A k \in exposed : listed[k].compiles
                      /\ \A j, k \in DOMAIN listed : listed[j].name = listed[k].name => j = k
    BY DEF ServesTheMapping
  <2>1. Known /\ Configured \subseteq found
    BY DEF DiscoveryInv
  <2>2. DOMAIN listed = 1..Len(listed)
    BY <2>1 DEF Known, KnownFrom
  <2>3. {listed[k].name : k \in exposed} = Configured
    BY <2>1 DEF Known, KnownFrom
  <2>4. \A k \in exposed : listed[k].compiles
    BY <2>1 DEF Known, KnownFrom
  <2>5. \A j, k \in DOMAIN listed : listed[j].name = listed[k].name => j = k
    BY <2>1, <2>2 DEF Known, KnownFrom
  <2> QED BY <2>3, <2>4, <2>5
<1> QED BY <1>1, DiscoveryInvariant, PTL
==============================================================================
