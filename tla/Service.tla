------------------------------ MODULE Service ------------------------------
(***************************************************************************)
(* The processes of the control API (cmd/cli/server.go, server.New and     *)
(* wrapEndpoint of internal/server/server.go, internal/store/store.go and  *)
(* observe of metrics.go): start, pinning of the signing key, the life of  *)
(* a request and of its transaction, the counters, a stop by a signal and  *)
(* death.  What an endpoint decides is the subject of ControlPlane and     *)
(* Operators; here it is a choice between the results it can have.         *)
(*                                                                         *)
(* A request is known from both of its ends: req is what the process knows *)
(* of it, session what PostgreSQL makes of its transaction.  A COMMIT may  *)
(* take effect after its sender has given up or died.                      *)
(*                                                                         *)
(* An operator named X_Deviation is a plausible wrong version of X, which  *)
(* nothing uses: some property fails when it takes the place of X.         *)
(***************************************************************************)
EXTENDS Naturals, FiniteSets, Sequences

CONSTANTS
    Servers,    \* processes on one database
    Keys,       \* Ed25519 keys a process may be started with
    Kinds,      \* bound: what the first, the second, ... request may be
    Starts      \* bound: which <<server, key>> the first, the second, ... start may be

ASSUME ServiceConstants ==
    /\ Servers # {} /\ Keys # {} /\ Keys \cap {"none", "waiting", "held", "allow", "deny", "rejected", "error"} = {}
    /\ Kinds \in Seq(SUBSET {"action", "create"})
    /\ Starts \in Seq(SUBSET (Servers \X Keys))

VARIABLES
    proc,       \* server -> [phase, key]
    metrics,    \* server -> [allow, deny, rejected, error, count]
    req,        \* request -> [stage, at, kind, answer]
    session,    \* request -> its transaction in PostgreSQL: "none", "waiting" for
                \*   the lock, "held", or the work that a COMMIT was sent for
    pinned,     \* the signing_key rows of server_metadata
    log,        \* request -> what it left in the database
    starts

vars == <<proc, metrics, req, session, pinned, log, starts>>
database == <<session, pinned, log>>

Requests == 1..Len(Kinds)       \* in the order they arrive
Decisions == {"allow", "deny"}
Works == Decisions \cup Keys    \* a decision, or the key that signed a new envelope
Outcomes == Decisions \cup {"rejected", "error"}
Stopping == {"draining", "closing"}
OnConnection == {"waiting", "running", "committing"}  \* holds a connection of the pool
InProgress == OnConnection \cup {"answering"}

AnyKey == CHOOSE k \in Keys : TRUE
Down == [phase |-> "down", key |-> AnyKey]
Zero == [o \in Outcomes \cup {"count"} |-> 0]
Unsent == [stage |-> "unsent", at |-> CHOOSE s \in Servers : TRUE, kind |-> "action",
           answer |-> "none"]

Init ==
    /\ proc = [s \in Servers |-> Down]
    /\ metrics = [s \in Servers |-> Zero]
    /\ req = [r \in Requests |-> Unsent]
    /\ session = [r \in Requests |-> "none"]
    /\ pinned = {} /\ starts = 0
    /\ log = [r \in Requests |-> "none"]

\* The lock of a transaction is released when its COMMIT is sent.
LockIsFree_Deviation == \A r \in Requests : session[r] # "held"

\* pg_advisory_xact_lock: held until the transaction ends in PostgreSQL.
LockIsFree == \A r \in Requests : session[r] \in {"none", "waiting"}
Of(s, stages) == {r \in Requests : req[r].at = s /\ req[r].stage \in stages}
Enter(s, phase) == proc' = [proc EXCEPT ![s].phase = phase]

-----------------------------------------------------------------------------
(* Start, in the order of newServerCmd. *)

\* LoadPrivate and store.Open.
Open(s, key) ==
    /\ proc[s].phase = "down"
    /\ starts < Len(Starts) /\ <<s, key>> \in Starts[starts + 1]
    /\ starts' = starts + 1
    /\ proc' = [proc EXCEPT ![s] = [phase |-> "opened", key |-> key]]
    /\ UNCHANGED <<metrics, req, database>>

\* The end of a process, and of its counters.  What it had not answered will
\* not be answered.
End(s) ==
    /\ proc' = [proc EXCEPT ![s] = Down]
    /\ metrics' = [metrics EXCEPT ![s] = Zero]
    /\ req' = [r \in Requests |->
                 IF r \in Of(s, InProgress \cup {"answered"})
                 THEN [Unsent EXCEPT !.stage = "over", !.answer = req[r].answer]
                 ELSE req[r]]
    /\ UNCHANGED <<database, starts>>

\* A signal, 15 seconds, a failure, or a key that is not the pinned one.
StartFails(s) == proc[s].phase = "opened" /\ End(s)

\* INSERT ... ON CONFLICT DO NOTHING.
Pinned_Deviation(key) == {key}
Pinned(key) == IF pinned = {} THEN {key} ELSE pinned

\* Migrate (CREATE ... IF NOT EXISTS), server.New and Listen.  The process may
\* fail after the key is pinned.
Serve(s) ==
    /\ proc[s].phase = "opened" /\ LockIsFree
    /\ pinned' = Pinned(proc[s].key)
    /\ proc[s].key \in pinned'
    /\ Enter(s, "serving") \/ proc' = [proc EXCEPT ![s] = Down]
    /\ UNCHANGED <<metrics, req, session, log, starts>>

-----------------------------------------------------------------------------
(* A request in the process: wrapEndpoint around store.Transaction. *)

Move(r, stage) == req' = [req EXCEPT ![r].stage = stage]
Answering(r, answer) == req' = [req EXCEPT ![r].stage = "answering", ![r].answer = answer]

\* It is refused without a bearer token, or begins a transaction that waits
\* for the advisory lock.
Accept(s, r, kind) ==
    /\ proc[s].phase = "serving"
    /\ req[r].stage = "unsent" /\ \A q \in 1..(r - 1) : req[q].stage # "unsent"
    /\ \/ /\ req' = [req EXCEPT ![r] = [Unsent EXCEPT !.stage = "waiting", !.at = s, !.kind = kind]]
          /\ session' = [session EXCEPT ![r] = "waiting"]
       \/ /\ req' = [req EXCEPT ![r] = [Unsent EXCEPT !.stage = "answering", !.at = s, !.kind = kind,
                                                      !.answer = "rejected"]]
          /\ UNCHANGED session
    /\ UNCHANGED <<proc, metrics, pinned, log, starts>>

Locked(r) ==
    /\ req[r].stage = "waiting" /\ session[r] = "held"
    /\ Move(r, "running")
    /\ UNCHANGED <<proc, metrics, database, starts>>

\* fn returned without an error, and COMMIT is sent.
Complete(r, work) ==
    /\ req[r].stage = "running" /\ session[r] = "held"
    /\ IF req[r].kind = "action" THEN work \in Decisions ELSE work = proc[req[r].at].key
    /\ Move(r, "committing")
    /\ session' = [session EXCEPT ![r] = work]
    /\ UNCHANGED <<proc, metrics, pinned, log, starts>>

\* fn returned an apiError, ErrNoRows or a unique violation.  Whether the deferred
\* Rollback succeeds, or the connection is gone already, makes no difference to
\* the answer.
Refuse(r) ==
    /\ req[r].stage = "running"
    /\ Answering(r, "rejected")
    /\ session' \in {session, [session EXCEPT ![r] = "none"]}
    /\ UNCHANGED <<proc, metrics, pinned, log, starts>>

\* What fn returned: it is on its way to the database, or there.
Result(r) == IF session[r] \in Works THEN session[r] ELSE log[r]

\* A statement or the COMMIT failed, its connection is gone, 15 seconds are
\* over, or Close has cancelled the context.
FailedAt_Deviation(r) == req[r].stage \in {"waiting", "running"}
FailedAt(r) == req[r].stage \in OnConnection
Fail(r) ==
    /\ FailedAt(r)
    /\ Answering(r, "error")
    /\ UNCHANGED <<proc, metrics, database, starts>>

Confirmed_Deviation(r) == TRUE
Confirmed(r) == log[r] # "none"
Committed(r) ==
    /\ req[r].stage = "committing" /\ Confirmed(r)
    /\ Answering(r, Result(r))
    /\ UNCHANGED <<proc, metrics, database, starts>>

\* Only requests of POST /v1/evaluate/action are counted by outcome; every
\* status from 500 is an error.
Observed_Deviation(m, kind, outcome) ==
    LET counted == IF outcome = "error" THEN "rejected" ELSE outcome
    IN IF kind = "action" THEN [m EXCEPT ![counted] = @ + 1, !.count = @ + 1] ELSE m
Observed(m, kind, outcome) ==
    IF kind = "action" THEN [m EXCEPT ![outcome] = @ + 1, !.count = @ + 1] ELSE m

Observe(r) ==
    /\ req[r].stage = "answering"
    /\ Move(r, "answered")
    /\ metrics' = [metrics EXCEPT ![req[r].at] = Observed(@, req[r].kind, req[r].answer)]
    /\ UNCHANGED <<proc, database, starts>>

-----------------------------------------------------------------------------
(* The transaction in PostgreSQL. *)

Session(r, from, to) ==
    /\ session[r] \in from
    /\ session' = [session EXCEPT ![r] = to]
    /\ UNCHANGED <<proc, metrics, req, pinned, starts>>

Grant(r) == LockIsFree /\ Session(r, {"waiting"}, "held") /\ UNCHANGED log
Commit(r) == Session(r, Works, "none") /\ log' = [log EXCEPT ![r] = session[r]]

\* A crash of the database, a broken connection, or a client that is gone.
Abort(r) == Session(r, {"waiting", "held"} \cup Works, "none") /\ UNCHANGED log

-----------------------------------------------------------------------------
(* The end of a process. *)

\* SIGINT or SIGTERM: Shutdown accepts no request any more.
Signal(s) ==
    /\ proc[s].phase = "serving"
    /\ Enter(s, "draining")
    /\ UNCHANGED <<metrics, req, database, starts>>

\* Shutdown returns when every connection is idle.
Idle(s) == Of(s, InProgress) = {}
Drained(s) == proc[s].phase = "draining" /\ Idle(s) /\ End(s)

\* Ten seconds of Shutdown are over, or Serve has failed.
GiveUp(s) ==
    /\ proc[s].phase \in {"serving", "draining"}
    /\ Enter(s, "closing")
    /\ UNCHANGED <<metrics, req, database, starts>>

\* The pool is closed when every connection has been returned to it.
Closed(s) == proc[s].phase = "closing" /\ Of(s, OnConnection) = {} /\ End(s)

Die(s) == proc[s].phase # "down" /\ End(s)

Next ==
    \/ \E s \in Servers :
         \/ \E k \in Keys : Open(s, k)
         \/ StartFails(s) \/ Serve(s)
         \/ Signal(s) \/ Drained(s) \/ GiveUp(s) \/ Closed(s) \/ Die(s)
         \/ \E r \in Requests : \E kind \in Kinds[r] : Accept(s, r, kind)
    \/ \E r \in Requests :
         \/ Locked(r) \/ Refuse(r) \/ Fail(r) \/ Committed(r) \/ Observe(r)
         \/ \E w \in Works : Complete(r, w)
         \/ Grant(r) \/ Commit(r) \/ Abort(r)

\* The timers of the process: 15 seconds for a request, 10 for Shutdown; and
\* an answer that is known is written.  Nothing is assumed of the database.
Fairness ==
    /\ \A r \in Requests : WF_vars(Fail(r)) /\ WF_vars(Observe(r))
    /\ \A s \in Servers : WF_vars(Closed(s))
                       /\ WF_vars(proc[s].phase = "draining" /\ GiveUp(s))

Spec == Init /\ [][Next]_vars
FairSpec == Spec /\ Fairness

-----------------------------------------------------------------------------
(* Properties. *)

\* What a server serves it can verify: every envelope in the database is
\* signed with the key of every process that serves, although processes with
\* other keys were started at the same time or died at any step of it
\* (server.New; docs/server.md:24 "pins the public signing key").
EveryEnvelopeVerifies ==
    \A s \in Servers, r \in Requests :
        proc[s].phase \in {"serving"} \cup Stopping /\ log[r] \in Keys => log[r] = proc[s].key

\* To a client, requests are atomic: a result is answered only when it is in
\* the database for good, what was refused never gets there, and only an error
\* may hide either (wrapEndpoint answers after Transaction; docs/server.md:70
\* "returned only after the database transaction commits").
Client ==
    INSTANCE AtomicRequests WITH Effects <- Works, None <- "none", effect <- log,
                                 answer <- [r \in Requests |-> req[r].answer]
AnswersFollowCommits == Client!Spec

\* The counters of a process bracket the decisions it brought about: none is
\* counted that is not committed, and a committed one that is not counted is
\* still on its way or was counted as an error (metrics.observe;
\* docs/observability.md:99).
CountersBracketTheLog ==
    \A s \in Servers : proc[s].phase # "down" =>
        LET own == {r \in Of(s, InProgress \cup {"answered"}) : req[r].kind = "action"}
            late == Cardinality(own \cap Of(s, InProgress))
            m == metrics[s]
        IN /\ \A d \in Decisions :
                LET durable == Cardinality({r \in own : log[r] = d})
                IN m[d] <= durable /\ durable <= m[d] + m["error"] + late
           /\ m["count"] = Cardinality(own) - late
           /\ m["count"] = m["allow"] + m["deny"] + m["rejected"] + m["error"]

\* What a transaction decides on still holds when it takes effect: from when it
\* gets the lock until it has ended in PostgreSQL, nothing of any other process or
\* request takes effect, even if its own process gave up or died and its COMMIT
\* arrives late (store.Transaction takes the lock before fn reads anything).
DecisionsAreNotOvertaken ==
    [][\A r \in Requests : session[r] \in {"held"} \cup Works =>
          /\ pinned' = pinned
          /\ \A q \in Requests \ {r} : log'[q] = log[q]]_vars

\* A process that was told to stop ends, whatever the database and the other
\* processes do, and a request that was taken is answered or dies with its
\* process (the timeouts of newServerCmd and wrapEndpoint, and pool.Close).
EverythingEnds ==
    /\ \A s \in Servers : proc[s].phase \in Stopping ~> proc[s].phase = "down"
    /\ \A r \in Requests : req[r].stage \in InProgress ~> req[r].stage \in {"answered", "over"}
=============================================================================
