# Counterseal: TLA+ models and proofs

Counterseal lets an agent hand a task to another agent with a signed *envelope* that
says what the receiver may do.  A control API (Go, PostgreSQL) issues, narrows and
revokes envelopes, records operators' approvals and authorizes each tool action; an
MCP gateway asks it before every tool call; a durable Java workflow drives three agents
through a refund.  This directory models these programs, model-checks them on small
instances with TLC, and proves all that the runs check, but for liveness, for every size
with TLAPS.  Paths are relative to the repository.

- [Parts of the system](#parts-of-the-system)
- [Modules](#modules)
- [Runs](#runs)
- [Fairness](#fairness)
- [Proofs](#proofs)
- [A disagreement with the documentation](#a-disagreement-with-the-documentation)
- [What is not modelled](#what-is-not-modelled)
- [Plan](#plan)

## Parts of the system

| Part | State | Operations | What makes it hard | What makes it correct |
|---|---|---|---|---|
| Policy engine `internal/policy` | none | `Validate`, `Diff`, `ResourceAllowed`, `RequiredRoles` | `Diff` compares one parent with one child, by form; authority is a matter of whole chains, prefix scopes and undecided conditions | no chain of accepted narrowings gains authority or loses an obligation; refusals are not gratuitous |
| Envelopes `internal/server/envelopes.go` | `runs`, `envelopes`, `handoffs`, `violations` | create, delegate, evaluate, revoke; the walk `active` | an ancestor dies after its descendants were issued; the walk is bounded | a grant is covered by each ancestor at that moment; a revocation is final |
| Actions and approvals `internal/server/actions.go` | `approvals`, `tool_actions` | approve (operator, legacy service token), evaluate action | approvals are matched by content, expire, are taken once; retries | an allowed action spent an exact approval for every role of every ancestor; one execution per approved operation |
| Audit `internal/server/audit.go` | `audit_events` (a hash chain per run) | append, verify | one event per committed transaction, in the order of commits; rows changed from outside afterwards | the log and the tables tell the same story; what verifies is what the server wrote, as far as hashes, signatures and a kept head hash can tell |
| Operators `internal/server/operators.go` | `operators`, `operator_sessions`, `login_limits` | provision, reset, disable (another process); sign in, act, sign out | requests wait for the lock with the `now()` of their start | a session that has ended authorizes nothing; a disabled account has no session; sign-ins are limited |
| Server process `cmd/cli/server.go`, `server.New`, `wrapEndpoint`, `internal/store` | PostgreSQL transactions under one advisory lock, the pinned key, outcome counters | start, request, commit, answer, count, shutdown | commits of unknown outcome, or that take effect after their process; several processes; a shutdown shorter than a request | to a client requests are atomic; a server can verify what it serves; counters bracket the log; no decision is overtaken before it takes effect; a stopped process ends |
| Gateway `internal/gateway` | one handler per call | check, authorize, forward; discover tools at start-up | lost, late and damaged answers, deadlines, an arbitrary upstream, kill | an effect is authorized and happens once; what the agent is told is true for good; what is served is the mapping |
| Java workflow `integrations/java-workflow` | `workflow.json`, `workflow.lock`, the `Workflow` object | `prepareApproval`, `run`, resume | crashes, power failures and lost answers between a request and its checkpoint | nothing happens twice, nothing sent is forgotten, stages are in order, what was approved is executed |
| Signatures, keys `internal/keys`, `internal/envelope` | key files | keygen, sign, verify, canonical JSON | concurrent keygens, failures and crashes between two files | an announced pair stays; what was signed verifies |
| Operator console `dashboard` | – | `approveRefund` | the operator may approve any amount under any envelope | only the refund that was approved is paid |
| Dashboard reads, CLI for policies, demo tools, telemetry | – | read-only queries, wiring | – | – |

How they interact: the workflow calls the control API (create, delegate, legacy
approval) and starts one gateway per agent; the gateway calls `POST
/v1/evaluate/action` and then the upstream MCP tool; operators call the control API from
the console, with a session; a host administrator changes accounts with the CLI, which
writes the same database.  Inside the server everything meets in the tables, under the
advisory lock of `store.Transaction`.

`PROJECT.json` lists the components, the hazards of the code at their lines with the
properties that would catch them, and for every definition the lines it models.

## Modules

**Policy** (`policy.go`, `conditions.go`, `envelope/validation.go`): pure operators.
Scopes are sequences of segments, with `Star` for `*`; names are model values, with
`Wild` standing for what the code rejects as a wildcard.  A condition is a comparison of
an argument with an integer literal, `true`, `false`, text that does not compile, or any
other CEL expression, whose value is the constant operator `CelValue`.  Numbers are in
halves, so that a double between two literals is among the arguments.  `Narrower` is not
in the code: it is what `Diff` establishes, in a form that composes.

**PolicyChain** grows chains of envelopes by `Diff` alone and states what they promise
in terms of an independent meaning of envelopes (`Permits`, `Obliged`).

**ControlPlane** (`envelopes.go`, `actions.go`, `appendAudit`): one variable per table;
each action is the one transaction of a handler, whole: its checks, its rows, the
violations and the audit event.  Because of the advisory lock the committed transactions
are totally ordered, and a handler that fails is rolled back, hence no action.  That no handler checks
against tables which another one changes before it commits is what
`DecisionsAreNotOvertaken` of `Service` says.  A handler reads the clock
twice: `clock` is the `time.Now()` that it decides by (for actions `actions.go:135`), and
`clock'` the later one with which `appendAudit` dates the event (`audit.go:45`).  An
action may be allowed just before its envelope or its approval expires and be logged at that
instant or after it, so no property compares an expiry with a logged timestamp;
`decided`, a history field of the events of actions, keeps the first reading, and
the properties are about that.  Rows are numbered in commit order where
the code draws random ids; an envelope id is any unused member of `EnvIds`.  `Ancestors`
is the set the walk of `active` meets, defined as a least set without recursion so that
it can be reasoned about; the bound of the walk is `MaxChain`.  When several approvals
match, the code takes the oldest by `created_at`, the start of its transaction, which is
unrelated to commit order: the model takes any.  `ApprovalsKeepTheirPromise` is a
refinement with a parameter: for each exact operation `op`, `Promise(op)` is
`AuthorizedEffects` with the open approvals of `op` counted (`Unspent`) and the actions
that needed one (`Authorized`) as authorizations.  It has no effects: these are the
gateway's.

**Operators** (`operators.go`, `cmd/cli/operator.go`): requests begin, wait for the lock
up to `MaxWait` and then run as one action; `r.began` is the `now()` of PostgreSQL (it
decides windows and expiry), `clock` is `time.Now()` (it dates a new session).  `log` is a
history variable in which each commit leaves one entry; properties are about it.
`LoginsAreLimited` is stated for intervals of `Window - MaxWait`, because windows are
counted by start times of requests that may run up to `MaxWait` later; within them the
limit of a fixed window doubles at most.  Names and passwords that are too long, refused
before anything is counted, are left out.  `Act` stands for every endpoint behind
`operatorRoute`; what the approval does is in `ControlPlane`.

**Service** (`cmd/cli/server.go`, `server.New`, `wrapEndpoint`, `store.go`, `observe`): the
processes of the control API on one database.  Each request has two sides: `req`, what
its process knows of it, from `Accept` to `Observe`, and `session`, its transaction in
PostgreSQL, which waits for the lock, holds it, or has been sent a COMMIT that takes effect
or not, at any later time, whether or not the process still waits for it.  `Fail` is
every error that `wrapEndpoint` answers with 500: a failed statement, a broken
connection, its 15 seconds, a cancelled context.  What an endpoint decides is left open
(ALLOW, DENY, a refusal, a new envelope signed with the key of the process).  `Serve` is
`Migrate`, `New` and `Listen` in one, because all that lasts of them is the pinned key,
which the lock makes atomic; the process may fail right after it.  A refusal may find its connection gone, since
its rollback is deferred and nothing checks it.  A process ends when it has drained
(`Drained`), with an error (`Closed`, `StartFails`) or killed (`Die`), and the
transactions it leaves behind go on in the database, those that were sent a COMMIT holding
the lock for as long as they are under way.

**AtomicRequests** is what clients are promised: a request takes effect once or not at
all, its effect is answered only after that, a refusal only if it never comes, and an
error says nothing.  `AnswersFollowCommits` is the refinement.

**KeyFiles** (`keys.go`, `keygen.go`, `envelope_create.go`, `envelope_verify.go`): one action
per system call of a keygen, each of which may fail, and runs that die between two of
them, beside commands that sign and verify with the files they find.  A file that is
not whole does not load, because of the length of a key.

**AuthorizedEffects** is the abstract promise of the gateway: approvals, authorizations
of an operation, effects.  **Gateway** (`handler` in `gateway.go`, `authorize.go`,
`extract` in `config.go`) implements it (`PromiseKept`, a refinement mapping with
`INSTANCE`).  `Receive` makes all checks that send nothing; the control API and the tool
answer at any time or never; `Damage` changes the status or cuts the body of an answer;
`Expire` is the 30-second deadline or a cancellation; `Crash` kills the process.  The
decision of the control API is `ControlPlane`'s, reduced to a free choice of whether the
operation is in scope and the count of unspent approvals.

**Discovery** (`New` in `gateway.go`): the paging loop at start-up with its limits and
its duplicate, schema and cursor checks, one page per action, against an upstream that
answers with any page.  `compileSchema` is a flag of the tool.  `exposed` names the tools
added to the server by their places in `listed`, everything that the upstream has listed:
a name alone would not tell which of two tools was checked.

**Workflow** (`Workflow.java`, `WorkflowStore.java`, `ControlApi.java`,
`GatewaySession.java`): `mem[p]` is the object of a process, `disk` the file it reads,
`durable` what a power failure leaves.  Every step up to a checkpoint is an action; the
checkpoint is the actions `Rename` and `SyncDirectory`, and the process goes to `next[p]`
afterwards.  `Perform` and `Lose` act on requests at any time, after the death of their
process too.  A receipt is kept only if it is valid, so that the set of stages that have
one stands for receipts.  `announced` and `modelled` are history variables.

**Refund** composes `Workflow` with `AuthorizedEffects`, which `Gateway` has been shown to
implement, given approvals and authorizations that behave as in `ControlPlane`
(`ApprovalsKeepTheirPromise`), and with the console (`approveRefund` in `dashboard/src/app/actions.ts`): the
steps of `Workflow` that approve or perform a refund are joined with the steps of the
promise, so that a refund is first authorized, which spends an approval, and then paid
or lost.  The operator approves any amount under any envelope that may refund.  An
operation is the envelope with the arguments.

**AuditChain** (`audit.go`, `cmd/cli/audit.go`): the rows of one run with their hashes as
`appendAudit` makes them, and `verifyAudit` as the operator `Failures`, evaluated in every
state.  Hashes and signatures are injective constructors (`digest`, `Sign`).  The storage
may be damaged between transactions: a row edited, lost or swapped, all hashes of the
chain computed anew (`Rewrite`), an envelope edited, replaced or lost; the server goes on
afterwards.  Nobody but the server can sign.  `issued`, `genuine` and `retained` are
history variables: the envelopes as inserted, the logs that appended events make up, and
the head hash somebody kept.  What is appended when is `ControlPlane`'s; here verdicts are
open, and an event is the document it is about.  Timestamps count half microseconds,
because the code hashes what the database will return (`Truncate`, `Stored`).

An operator called `X_Deviation` is a plausible wrong version of `X`.  No module uses
it; replacing `X` by it breaks a property, and `PROJECT.json` (`mutants`) says which.

## Runs

`CHECK_DEADLOCK FALSE` throughout: every system here may stop, by its bounds (clock,
rows, starts) or by its own end (a gateway that serves, a finished workflow).

| Run | Module, cfg | Question | Bounds, and why they suffice |
|---|---|---|---|
| `delegation_and_revocation` | MCControlPlane, MCDelegation | Are grants covered by every ancestor, is a revocation final, does the audit log match? | three envelopes (root, child, grandchild or two children), two instants, two handoffs, one approval, one action: every order of issue, revocation, expiry and use on a chain with an envelope in the middle; what is issued at 0 may expire at 1 or never |
| `operator_approvals` | MCControlPlane, MCApproval | Is each exact operation authorized once per approval (`AuthorizedEffects` again), and executed once if only operators approved it? | a root and one child, two approvals out of three (by an operator, or by the service token for either of two orders), two actions (on one order by the receiver of the child, on both by that of the root), two instants, with both ways of approving (`--allow-demo-approvals`), which only adds behaviours; what only operators approved is executed once |
| `policy_chains` | MCPolicy, .cfg | Can accepted narrowings add up to more authority or lose an obligation? Are refusals exact? | chains of three; all scopes over two segments up to two levels and a prefix; every comparison with 1 and 2, arguments 0..3 in halves and none at all |
| `operator_sessions` | MCOperators, .cfg | Do sessions end when they must, and are sign-ins limited? | one account and an unknown name, two waiting requests, two tokens, four requests; a window of two instants, so that requests straddle its reset. Four requests cannot reach the limit over all users of `LoginsAreLimited`, which has `LoginsLimited` for any number of them. No window is old enough to be deleted within these bounds: that deletion forgets no limit is shown by `LoginsLimited` |
| `service_processes` | MCService, .cfg | Refinement of `AtomicRequests`; do envelopes verify, can counters be trusted, is a decision overtaken before it takes effect, do stops end? | two processes with two keys, two starts and two requests: a second process or a restart beside a transaction that is still under way, and two transactions for the lock. Processes and keys are interchangeable, so the first start is fixed; the first request is either kind, the second an action |
| `key_files` | MCKeyFiles, .cfg | Are key pairs kept and consistent? | four keygens: one that announced its pair or died, and three that may get between each other's calls |
| `gateway_calls` | MCGateway, .cfg | Refinement of `AuthorizedEffects`; are replies true, and does each call get one? | a refund, for one approval, beside any of: the same refund, a lookup, a refund with each defect, a lookup that selects nothing usable; all faults |
| `gateway_discovery` | MCDiscovery, .cfg | Does start-up end, and is what is served the mapping? | four names of which two are configured, pages of up to two tools, three cursors against a limit of two, at most three tools |
| `workflow_recovery` | MCWorkflow, .cfg | Does anything happen twice or get forgotten, does a process hang? | two processes, three starts (first, resume, resume or rival), two amounts, two orders |
| `refund` | MCRefund, .cfg | Is the money moved at most once, exactly as started and approved? | two starts (first, and resume or rival) of two processes, with an amount that needs an approval and one that does not, and the operator approving both under two envelopes |
| `audit_chain` | MCAuditChain, .cfg | What does `verifyAudit` vouch for? | a root and a child, three events, two changes from outside: enough to edit the past and rewrite the chain over it, or to lose an event and repair a link; clients send one body (documents differ by their ids), the other comes from outside |
| `workflow_model_mode` | MCWorkflow, MCWorkflowModel | `docs/live-model.md:62`: violated, see below | two starts |

Symmetry is used for envelope ids and bodies, for the requests and tokens of `Operators`,
for keygens and for the processes of a workflow, in runs that check safety only; no action
or property distinguishes or orders these values.

The type invariants of `Operators`, `Gateway`, `Discovery` and `Workflow` are not among the
runs: they say nothing that the properties do not, and are there for the proofs.

What the deeper properties say, beyond one step of code:

- `GrantsAreCoveredByEveryAncestor`, `ObligationsOfEveryAncestorAreMet`: `action` looks at
  one envelope and relies on the walk and on `Diff` for the others.
- `RevocationIsFinal`, `AuthorityEndsWithTheSession`: about orders in a log, with requests
  that were already under way.
- `ApprovalsKeepTheirPromise`: an action that needs several approvals takes exactly one of
  each operation and role, and one that is denied for any reason takes none, although
  some of its approvals may have been found before another turns out to be missing.
- `OneExecutionPerApprovedOperation`: holds because consumed and expired approvals still
  block a second one, not because of the matching.
- `DecisionsAreNotOvertaken`: the tables that a decision was made from are still those
  that it takes effect on, although the process may have died, stopped or given up, and others have
  started, between the two.
- `AnswersFollowCommits`: an answer is decided by a process that learns of its commit, or of
  nothing; what the database does later must not make it false, across restarts.
- `CountersBracketTheLog`: every committed decision is counted, still under way, or was
  counted as an error, so that `allow + error` bounds what was allowed.
- `SignaturesVerify` has its exceptions in its statement: a keygen that reported its
  failure may have removed a key that somebody had already signed with, and one that could
  not remove a file has left it there.
- `RefundOnceAsApproved`: neither the workflow (which may resume with another model) nor the
  gateway (which knows nothing of repetitions below the threshold) gives it alone.
- `RepliesAreTruthful`: the code of a reply remains true whatever arrives after it.
- `NothingSentIsForgotten` and `UnmarkedCheckpointsResume`: what was sent has left a marker
  or an answer in both files, and a file without a marker is never a dead end.
- `ValidLogsAreGenuine`, `ValidEnvelopesAreIssued`, `CheckpointPinsThePast` are what is left
  of each other's protection: hashes guard the log until they are computed anew,
  signatures guard the envelopes even then, and a kept head hash guards the log before
  it.  As `docs/server.md:186` says, a lost tail is not noticed, so that "genuine" includes
  prefixes.
- `ArgumentsArePinned` is stated for proposals that a model has planned.  Arguments that
  were approved without a model are not saved: a process that resumes such a workflow
  *with* a model asks it then, and the scope check of the gateway is what remains.

## Fairness

- `Workflow.FairSpec`: a process goes on by itself, and each call ends by its timeout
  (20 s for the control API in `ControlApi.java`, 35 s for a tool in
  `GatewaySession.java`), after which the code throws.  No fairness is assumed of the
  network, the other side, crashes, or anybody starting a process.  The checks of the
  code that throw whatever the outside does are in `Refused`.
- `Service.FairSpec`: a request ends by its 15-second context, its answer is written once it
  is known, `Shutdown` gives up when its 10 seconds are over, and the pool closes when every connection was returned.  Nothing is assumed of the
  database: a transaction may hold the lock for ever.  Nobody has to send a signal.
- `Gateway.FairSpec`: the deadline of a call comes (`context.WithTimeout`, 30 s), and
  `Authorize` and `CallTool` return an error once their context is done.  Nothing is
  assumed of the control API, the tool or the network.
- `DiscoverySpec`: the upstream answers with *some* page.  The 15-second deadline of
  start-up is not used, so that the limits of the loop alone are shown to end it.

## Proofs

`tlapm` checks these for every value of the constants that satisfies the named
`ASSUME`s.  These say that inputs are documents, that bounds are naturals, that `None`,
`Absent` and the like are not among the values they are told apart from
(`NoneIsNoCode`, `NoneIsNoData`, `KeyFilesConstants`, `ServiceConstants`, `AuditConstants`), and two things
about the code: `WalkReachesRoots`, that the deepest root that `create` accepts
(`MaxRootDepth`) is within the bound of the walk in `active` (`MaxChain`), which are 128
and 129 there; and in `OperatorsConstants`, that a request times out (`MaxWait`, 15 s)
before a window ends (`Window`, a minute) and before an old window is deleted (`Forget`,
an hour).  All numbers of processes, requests, calls, keys, users and steps are
arbitrary; so are the bounds.

A property that relates two pieces of state is seldom inductive.  The proof modules name
what has to be known besides, in layers: each layer is an inductive invariant that may
use those before it, and TLC has checked each on the module's run first.

| Module | Inductive invariant | Theorem: property |
|---|---|---|
| PolicyProofs | – | `DiffNarrows`, `NarrowerTransitive`; `CopiesAreAllowed`, `ScopeRefusalsAreExact`, `ThresholdRefusalsAreExact` |
| PolicyChainProofs | `ChainInv`, `LastInv` | `AuthorityNeverGrows`: `NoAuthorityGained`; `ObligationsNeverShrink`: `NoObligationLost`; `RefusalsExact`: `RefusalsAreExact`, with `VerbatimCopies` as a part: all properties of the run |
| ControlPlaneProofs | `DelegationInv`, `TypeOK`, `GrantInv`, `SpentInv`, `RevocationInv`, `UniqueInv`, `ChainInv`, `AuditInv` | `AuthorityNarrowsAlways`, `TypeCorrect`, `GrantsCovered`, `ObligationsMet`, `SpentOnce`, `HistoryStays`, `RevocationFinal`, `OneExecution`, `ActiveWhenAlive`, `AuditMatches`, and `ApprovalsPromised`: the refinement of `AuthorizedEffects` for each operation, as a specification in `PromiseOfEachOperation`: all properties of its runs |
| WorkflowProofs | `PlaceInv`, `LogInv`, `PinInv`; `ApprovedInv`, `MarkInv`, `RefundInv` | `CheckpointsResume`, `EachOnce`, `NothingForgotten`, `InOrder`, `ArgumentsPinned`: all safety properties of the run; `RefundOnce`: that of `Refund` |
| GatewayProofs | `CallInv`, `DecisionInv`, `EffectInv`; `DiscoveryInv` | `TruthfulReplies`, `ItemsDecided`, and `KeepsPromise`: the refinement of `AuthorizedEffects`; `MappingServed`: that of `Discovery` |
| ServiceProofs | `RequestInv`, `KeyInv`, `CountInv`, `LockInv` | `NotOvertaken`: `DecisionsAreNotOvertaken`; `EnvelopesVerify`, `CountersBracket`, and `AnswersFollow`: the refinement of `AtomicRequests` |
| SignatureProofs | `LogInv`, `TableInv`, `CleanInv`; `KeyFilesInv` | `CleanStorageVerifies`, `GenuineLogs`, `IssuedEnvelopes`, `PastIsPinned`: all properties of `AuditChain`; `PairsStay`, `KeysVerify`: all of `KeyFiles` |
| OperatorsProofs | `AccountInv`, `SessionInv`, `LimitInv` | `NoSessionWhenDisabled`, `AuthorityEnds`, `LoginsLimited`: all properties of the run |

**PolicyProofs.**  `CoversTransitive` (a scope covered by a covered scope is covered) and
`PreservesTransitive`, `PreservesSound` (the syntactic comparison of conditions implies
the semantic one) give `DiffNarrows` – whatever `Diff` allows is `Narrower` – and
`NarrowerTransitive`.  The other direction is the subject of the last three theorems: a
valid envelope can be passed on as it is; a refused scope does contain a resource outside
the parent's scopes (given a segment that the parent does not name: identifiers are
arbitrary strings in the code); and of two thresholds that are refused, one is true where
the other is false.

**PolicyChainProofs.**  `ChainInv`, that each envelope of a chain is narrower than its
predecessor and, by transitivity, than all before it, is inductive, and the first two
theorems follow from it in each state.  `LastInv` is what the last envelope was checked
for, which makes its copy valid; so `VerbatimCopies`.  `RefusalsExact` says that a refusal has
a witness *among the requests of the model*, and therefore assumes `RichRequests`: every concrete
identifier and every integer argument is a request, and for each resource map there is a
segment that it does not name.  In the code identifiers are arbitrary strings and
arguments any JSON numbers, so all three hold there; the run has just enough of each.

**ControlPlaneProofs.**  `DelegationInv`: every stored envelope is narrower than its stored
parent, in its run, one level deeper.  It does not follow from the type of the tables and is
needed for it: the documents of children are what `Diff` let through.  `AuthorityNarrows`
follows in each state: the envelopes that some `id` is narrower than form a set closed
under parents, and `Ancestors` is the least of these.  `GrantInv` says what each allowed
action was checked against, in terms of its own envelope and of the approvals it consumed;
it is inductive because documents never change and approvals change only by being
consumed (`Stable`); its instants are the `decided` of the event, never its timestamp, which may be later.  With `DelegationInv` it speaks of all ancestors.
`RevocationIsFinal` needs that the log knows of every revocation of a stored envelope, and
that what it grants is about stored ones; `OneExecution` that the approvals which operators
gave for one operation are never open at the same time, because spent and expired ones
block a second; `ActiveWhenAlive` that whatever `active` checks again – documents, links,
depths – held when the envelope was issued, and that the walk ends before its bound.
`AuditMatches`: `AuditInv` relates each kind of event to the rows of one table in both
directions and in order; each handler files one event and the row it is about
(`Enveloped`, `Rowed`), and nothing else touches either.  `ApprovalsPromised`: `PromiseStep` says what
a step may do to the approvals of one operation, as sets; `AuditInv` supplies that the
action is a new one, `GrantInv` that what an earlier action needed is settled by documents
that stay, and `TakesOneEach`, part of what `ActionStep` says of every action, that what
it takes is one approval for each thing it needs: no two needs share one, because approvals
name their resource and role.  Cardinalities of finite sets then give the counts.

**WorkflowProofs.**  `PlaceInv`: where each process is, what its object, its next
checkpoint and the file hold there, and that all snapshots of one run are comparable;
it needs that only the owner of the lock is anywhere.  `LogInv`: whatever was sent has left
its answer or its marker in *every* copy of the checkpoint that somebody might read
(`disk`, `durable`, and what a process is about to rename), which gives
`NothingForgotten` and, because restore refuses a marker, `EachOnce` and `InOrder`.
`PinInv`: whatever a model has planned is in those copies from the moment the operator
sees it.

Every step of `Refund` is one of the workflow or leaves it alone (`WorkflowSteps`), so that
all of this holds there, too.  The first authorization of a refund finds it in flight, and
by `LogInv` every copy of the checkpoint shows that (`MarkInv`): it has the marker, which
`restore` refuses, or the receipt, after which `run()` is past Billing.  `MarkInv` never ends
(`MarkStep` goes through all steps of the workflow, crashes included), so no process
announces the refund again, and `RefundInv` follows: the requests in flight are the one
that was authorized, no second authorization is given and no second effect follows.  That
an operator approved the very refund comes from `ApprovedInv` and, for its amount, from
`PinInv`.  `RefundOnce` rests on the promise `AuthorizedEffects`, which `KeepsPromise`
proves of the gateway.

**GatewayProofs.**  A call that has left its handler was accepted (`CallInv`); what the
control API decided is about what the call selects, and nothing is forwarded that it did
not allow (`DecisionInv`); results and replies speak of what the tool did (`EffectInv`).
Under the mapping `Decide` is an authorization, `Perform` an effect, `Approve` an
approval, and every other step a stutter.

Of start-up, `DiscoveryInv` says that what the loop remembers describes the whole list so
far: `seenTools` are its names, no name is in it twice, and the configured ones are exposed
and compile.  A page is compared with `seenTools` and with itself, which is why the list
remains free of repetitions (`AcceptedPage`); that `found` reaches `Configured` at the end
then gives `MappingServed`.

**ServiceProofs.**  `Sound(r)` ties the stage of a request to its transaction and the log;
that nothing is left of a refused transaction, and that only a COMMIT leaves anything,
makes `Commit` a `TakeEffect` and each answer an `Answer`.  `KeyInv` speaks of signatures
whose COMMIT is still under way, too.  `CountInv` counts: each counter is the cardinality
of the answers it stands for, so that the brackets are inclusions of finite sets.  `LockInv`:
of the transactions that hold the lock, or still may commit, there is one at most; what
decides or commits in a step is therefore that one, and `NotOvertaken` follows.

**SignatureProofs**, of the audit log.  What `verifyAudit` checks of the rows is that they
are a chain (`ValidIsChain`).  No hash is the hash of two contents, and none is the empty
link, so a hash that two chains contain stands at the same place and for the same past in
both (`SamePast`): were there a difference, look at the one nearest to the shared hash; the
links into it would differ.  (That is an induction over the log, as a least element.)
`PastIsPinned` is `SamePast` for the log and the one that the auditor kept.  For
`GenuineLogs`, `LogInv` adds that edits, losses and swaps invent no hash, so the head of a
log that verifies is that of a genuine chain, which it then equals; new hashes come only
from the server, which extends a genuine log along with the real one, and from `Rewrite`.
`TableInv`: changes from outside leave in each row a signature that was issued or none, and
a signature is about all the rest of its document; so `IssuedEnvelopes`.
`CleanStorageVerifies` goes through what `verifyAudit` looks for, one finding after the
other, for a log and a table that tell of the same documents (`CleanInv`).

An earlier form of `ValidEnvelopesAreIssued` said that each envelope is *the* one issued
under its id.  It does not hold for arbitrary bounds: when an envelope and its event are
lost, a client may choose the id again.  Now it says that each envelope was issued under
its id.

**SignatureProofs**, of the keys.  While a run writes a file, or has to remove it, the file
is its own; the public key on the disk lies beside its private key, or its run has leaked.

**OperatorsProofs.**  A token is drawn once, a session is what its login left, and nothing
in the log since has ended it; an act is recorded only with a session.
`LoginsLimited` needs to know which window counted an attempt, which no variable says: a
row is overwritten by the next window and deleted when it is old.  `LimitInv` says that
*some* assignment `W` of attempts to windows exists, in which windows of one bucket lie
`Window` apart, none is overfull, and the row, if it is there, is the last one; without a
row all of them are over for every request that still waits.  An interval of
`Window - MaxWait` meets at most two such windows.

Only model-checked: liveness (`CallsEnd`, `DiscoveryEnds`, `RunsEnd`, `EverythingEnds`), which is
out of the prover's reach.  Every other property of a passing run has a theorem.

The theorems about `ControlPlane` hold for both values of `AllowDemoApprovals`.

## A disagreement with the documentation

`docs/live-model.md:62-63` says that "a model workflow with unplanned stages cannot silently
resume in deterministic mode."  `start()` (`Workflow.java:107`) refuses only if
`proposals` is not empty.  The run `workflow_model_mode` shows a workflow started with
`--live-model` that stops before its first proposal is in the checkpoint and is then
resumed without a model: it goes on, with all its stages unplanned.

## What is not modelled

- CEL beyond comparisons with integer literals: `CelValue` is any function of the
  condition and the arguments that gives true, false or an error.
- The cryptography of signatures and the canonical JSON; in `ControlPlane` stored
  documents are the signed ones.
- The parsers: strict JSON, YAML and canonical JSON, gateway configuration and JSON
  pointers, command lines.  They keep no state; what is wrong with a text is a refusal.
- Routing, headers, the health check and the authentication of `/metrics`; the latency
  histogram and the text format of `metrics.go`.
- The latencies behind timeouts: a timeout may come at any time.  That the commit of one
  transaction outlives the next start is in `Service`; clock skew between hosts is not.
- Reads for the dashboard and the console's pages, telemetry, the demo MCP server, and the
  scenarios, proposer and traces of the Java demonstration: no protocol state.
- The `agents` table, which no decision reads.

## Plan

Done: all modules are model-checked, and every safety property, every action property and every
refinement has a theorem.  What could be added:

1. the transports and the configuration of the gateway, if they come to keep state;
2. `Gateway` with the tables of `ControlPlane` in place of its count of approvals: each of the two is
   shown to implement `AuthorizedEffects`, but not yet in one module.
