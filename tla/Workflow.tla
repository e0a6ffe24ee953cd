------------------------------ MODULE Workflow ------------------------------
(***************************************************************************)
(* The durable refund workflow of integrations/java-workflow: Support,     *)
(* Billing and Notification, each an envelope delegated by the one before  *)
(* and one tool call.  Every call that changes something outside is        *)
(* announced in the checkpoint before it is sent and cleared, with its     *)
(* result, after its answer.  Processes of the same state directory may    *)
(* crash, be started again, or be started at once; requests and answers    *)
(* may be lost or late; the machine may lose what it had not yet synced.   *)
(*                                                                         *)
(* An operator named X_Deviation is a plausible wrong version of X, which  *)
(* nothing uses: some property fails when it takes the place of X.         *)
(***************************************************************************)
EXTENDS Naturals, Sequences, FiniteSets

CONSTANTS
    Procs,          \* processes started on the state directory
    None,
    Amounts,        \* --amount
    Orders,         \* the order ids a model may propose
    OrderId,        \* "48319", the order of the refund
    Approvals,      \* the values of the approve flag
    Models,         \* whether processes are started with --live-model
    MaxStarts       \* bound: processes started

VARIABLES
    pc,             \* where each process is
    next,           \* where it goes once its checkpoint is saved
    mem,            \* the fields of its Workflow object that a Snapshot holds
    job,            \* [mode, live]: prepareApproval or run, with a proposer
    lock,           \* the process that holds workflow.lock
    disk,           \* workflow.json as processes read it
    durable,        \* workflow.json as a power failure may leave it
    inflight,       \* requests sent and not yet performed
    performed,      \* what the server and the tools have performed, in order
    announced,      \* [args, planned]: what prepareApproval has shown
    modelled,       \* the checkpoint was created by a --live-model process
    starts

vars == <<pc, next, mem, job, lock, disk, durable, inflight, performed,
          announced, modelled, starts>>
world == <<inflight, performed>>

ASSUME WorkflowConstants ==
    /\ None \notin Procs
    /\ OrderId \in Orders
    /\ Approvals \subseteq BOOLEAN /\ Models \subseteq BOOLEAN
    /\ MaxStarts \in Nat

SUPPORT == 1
BILLING == 2
NOTIFICATION == 3
Stages == {SUPPORT, BILLING, NOTIFICATION}

\* The values of `pending`.
CREATE_RUN == [kind |-> "CREATE_RUN", stage |-> SUPPORT]
DELEGATE(s) == [kind |-> "DELEGATE", stage |-> s]
APPROVE_BILLING == [kind |-> "APPROVE", stage |-> BILLING]
EXECUTE(s) == [kind |-> "EXECUTE", stage |-> s]
Ops == {CREATE_RUN, APPROVE_BILLING} \cup {DELEGATE(s) : s \in Stages \ {SUPPORT}}
         \cup {EXECUTE(s) : s \in Stages}

\* A receipt is only ever kept when it is the valid one, so that the stages
\* that have an envelope or a receipt are enough; run: runId # null.
Snapshot ==
    [amount : Amounts, approve : BOOLEAN, run : BOOLEAN,
     envelopes : SUBSET Stages, receipts : SUBSET Stages, attempted : SUBSET Stages,
     granted : BOOLEAN, pending : Ops \cup {None},
     proposals : UNION {[S -> Orders] : S \in SUBSET Stages}]

ASSUME NoneIsNoData == None \notin Snapshot /\ None \notin Ops

Arguments == [order : Orders, amount : Amounts]
\* planned: the arguments are a saved proposal of the model.
Request == [proc : Procs, op : Ops, args : Arguments, planned : BOOLEAN]

-----------------------------------------------------------------------------
(* The checkpoint file. *)

Fresh(amount, approve) ==
    [amount |-> amount, approve |-> approve, run |-> FALSE,
     envelopes |-> {}, receipts |-> {}, attempted |-> {},
     granted |-> FALSE, pending |-> None, proposals |-> [s \in {} |-> OrderId]]

Consistent(saved) ==
    /\ saved.run <=> saved.envelopes # {}
    /\ saved.attempted = saved.receipts
    /\ saved.receipts \subseteq saved.envelopes
    /\ saved.granted => saved.approve /\ BILLING \in saved.envelopes
    /\ \A s \in saved.envelopes \ {SUPPORT} : s - 1 \in saved.receipts

\* The marker of an operation with an unknown outcome is ignored.
Restorable_Unmarked(saved) == Consistent(saved)

\* What `restore` accepts.
Restorable(saved) == saved.pending = None /\ Consistent(saved)

\* checkpoint(): m is written to a temporary file ...
Checkpoint(p, m, then) ==
    /\ mem' = [mem EXCEPT ![p] = m]
    /\ pc' = [pc EXCEPT ![p] = "saving"]
    /\ next' = [next EXCEPT ![p] = then]

\* ... that replaces workflow.json,
Rename(p) ==
    /\ pc[p] = "saving"
    /\ disk' = mem[p]
    /\ pc' = [pc EXCEPT ![p] = "syncing"]
    /\ UNCHANGED <<next, mem, job, lock, durable, world, announced, modelled, starts>>

\* The directory is not synced.
SyncDirectory_Skipped(p) ==
    /\ pc[p] = "syncing"
    /\ pc' = [pc EXCEPT ![p] = next[p]]
    /\ UNCHANGED <<next, mem, job, lock, disk, durable, world, announced, modelled, starts>>

\* and the directory is synced.
SyncDirectory(p) ==
    /\ pc[p] = "syncing"
    /\ durable' = disk
    /\ pc' = [pc EXCEPT ![p] = next[p]]
    /\ UNCHANGED <<next, mem, job, lock, disk, world, announced, modelled, starts>>

-----------------------------------------------------------------------------
(* Starting a process. *)

Init ==
    /\ pc = [p \in Procs |-> "off"]
    /\ next = [p \in Procs |-> "off"]
    /\ mem = [p \in Procs |-> None]
    /\ job = [p \in Procs |-> None]
    /\ lock = None
    /\ disk = None /\ durable = None
    /\ inflight = {} /\ performed = << >>
    /\ announced = None /\ modelled = FALSE
    /\ starts = 0

\* The constructor takes the lock; a process that cannot gives up.
Own(p) ==
    /\ pc[p] = "off"
    /\ lock = None
    /\ starts < MaxStarts
    /\ lock' = p
    /\ starts' = starts + 1

\* A new workflow, in a directory without a checkpoint.
Create(p, amount, approve, mode, live) ==
    /\ Own(p)
    /\ disk = None
    /\ Checkpoint(p, Fresh(amount, approve), "opened")
    /\ job' = [job EXCEPT ![p] = [mode |-> mode, live |-> live]]
    /\ modelled' = live
    /\ UNCHANGED <<disk, durable, world, announced>>

\* --resume keeps the saved amount and approval choice; the command line
\* refuses to combine it with --prepare-approval.
Resume(p, live) ==
    /\ Own(p)
    /\ disk # None
    /\ Restorable(disk)
    /\ Checkpoint(p, disk, "opened")
    /\ job' = [job EXCEPT ![p] = [mode |-> "run", live |-> live]]
    /\ UNCHANGED <<disk, durable, world, announced, modelled>>

-----------------------------------------------------------------------------
(* The steps of run() and prepareApproval(), each up to its checkpoint. *)

Planned(m, s) == s \in DOMAIN m.proposals
Expected(m) == [order |-> OrderId, amount |-> m.amount]
ProposedArguments(m, s) ==
    [Expected(m) EXCEPT !.order = IF Planned(m, s) THEN m.proposals[s] ELSE OrderId]

\* The first stage without a receipt.
Current(m) == CHOOSE s \in Stages \ m.receipts : \A t \in Stages \ m.receipts : s <= t

Begin(p, op, m) == Checkpoint(p, [m EXCEPT !.pending = op], "calling")

\* start(): a saved run is looked up in the server, whose answer may be an
\* error (Fail), and then continued; otherwise a run is created.
Start(p) ==
    LET m == mem[p] IN
    /\ pc[p] = "opened"
    /\ \/ job[p].live
       \/ DOMAIN m.proposals = {}
       \/ \A s \in Stages : s \in m.receipts \/ Planned(m, s)
    /\ IF m.run THEN Checkpoint(p, m, "ready") ELSE Begin(p, CREATE_RUN, m)
    /\ UNCHANGED <<job, lock, disk, durable, world, announced, modelled, starts>>

\* prepareApproval() ends after Billing is delegated and its call is planned.
Prepared(p) == job[p].mode = "prepare" /\ BILLING \in mem[p].envelopes
Ready(p) == pc[p] = "ready"
AtStage(p, s) == mem[p].receipts # Stages /\ s = Current(mem[p])

\* A child is asked for before the preceding stage has its receipt.
Transition_Early(p, s) ==
    /\ Ready(p)
    /\ s = 1 + Cardinality(mem[p].envelopes) /\ s \in Stages
    /\ Begin(p, DELEGATE(s), mem[p])
    /\ UNCHANGED <<job, lock, disk, durable, world, announced, modelled, starts>>

Transition(p, s) ==
    /\ Ready(p) /\ AtStage(p, s)
    /\ s \notin mem[p].envelopes
    /\ Begin(p, DELEGATE(s), mem[p])
    /\ UNCHANGED <<job, lock, disk, durable, world, announced, modelled, starts>>

\* The proposal is only kept in memory.
Propose_Unsaved(p, s, order) ==
    /\ Ready(p) /\ AtStage(p, s)
    /\ s \in mem[p].envelopes
    /\ job[p].live /\ ~Planned(mem[p], s)
    /\ mem' = [mem EXCEPT ![p].proposals =
                [t \in DOMAIN @ \cup {s} |-> IF t = s THEN order ELSE @[t]]]
    /\ UNCHANGED <<pc, next, job, lock, disk, durable, world, announced, modelled, starts>>

\* The model may choose the order; anything else it changes is refused.
Propose(p, s, order) ==
    /\ Ready(p) /\ AtStage(p, s)
    /\ s \in mem[p].envelopes
    /\ job[p].live /\ ~Planned(mem[p], s)
    /\ Checkpoint(p, [mem[p] EXCEPT !.proposals =
                [t \in DOMAIN @ \cup {s} |-> IF t = s THEN order ELSE @[t]]], "ready")
    /\ UNCHANGED <<job, lock, disk, durable, world, announced, modelled, starts>>

\* A stage whose proposal is settled and whose call is not yet made.
Executing(p, s) ==
    /\ Ready(p) /\ AtStage(p, s)
    /\ s \in mem[p].envelopes \ mem[p].attempted
    /\ job[p].live => Planned(mem[p], s)
    /\ ~Prepared(p)

\* The approval compatibility path of executeChecked.
NeedsApproval(m, s) == s = BILLING /\ m.approve /\ ~m.granted

\* The stage counts as attempted although its call is not made.
ApproveBilling_Attempted(p) ==
    /\ Executing(p, BILLING)
    /\ NeedsApproval(mem[p], BILLING)
    /\ Begin(p, APPROVE_BILLING, [mem[p] EXCEPT !.attempted = @ \cup {BILLING}])
    /\ UNCHANGED <<job, lock, disk, durable, world, announced, modelled, starts>>

ApproveBilling(p) ==
    /\ Executing(p, BILLING)
    /\ NeedsApproval(mem[p], BILLING)
    /\ Begin(p, APPROVE_BILLING, mem[p])
    /\ UNCHANGED <<job, lock, disk, durable, world, announced, modelled, starts>>

ExecuteChecked(p, s) ==
    /\ Executing(p, s)
    /\ ~NeedsApproval(mem[p], s)
    /\ Begin(p, EXECUTE(s), [mem[p] EXCEPT !.attempted = @ \cup {s}])
    /\ UNCHANGED <<job, lock, disk, durable, world, announced, modelled, starts>>

\* The end of prepareApproval() and, with all receipts, of run().
Return(p) ==
    LET m == mem[p] IN
    /\ Ready(p)
    /\ \/ /\ Prepared(p)
          /\ job[p].live => Planned(m, BILLING)
          /\ ProposedArguments(m, BILLING) = Expected(m)
          /\ announced' = [args |-> Expected(m), planned |-> Planned(m, BILLING)]
       \/ m.receipts = Stages /\ UNCHANGED announced
    /\ pc' = [pc EXCEPT ![p] = "done"]
    /\ UNCHANGED <<next, mem, job, lock, disk, durable, world, modelled, starts>>

-----------------------------------------------------------------------------
(* The call itself. *)

CallOf(p) == [proc |-> p, op |-> mem[p].pending,
              args |-> ProposedArguments(mem[p], mem[p].pending.stage),
              planned |-> Planned(mem[p], mem[p].pending.stage)]
Answered(r) == r \notin inflight /\ \E k \in 1..Len(performed) : performed[k] = r

Send(p) ==
    /\ pc[p] = "calling"
    /\ inflight' = inflight \cup {CallOf(p)}
    /\ pc' = [pc EXCEPT ![p] = "waiting"]
    /\ UNCHANGED <<next, mem, job, lock, disk, durable, performed, announced,
                   modelled, starts>>

\* The other side performs a request, perhaps after its client has given up.
Perform(r) ==
    /\ inflight' = inflight \ {r}
    /\ performed' = Append(performed, r)
    /\ UNCHANGED <<pc, next, mem, job, lock, disk, durable, announced, modelled, starts>>

\* ... or refuses it, or never receives it.
Lose(r) ==
    /\ inflight' = inflight \ {r}
    /\ UNCHANGED <<pc, next, mem, job, lock, disk, durable, performed, announced,
                   modelled, starts>>

\* The field that the answer to an operation fills.
Record(m, op) ==
    [m EXCEPT
      !.run       = @ \/ op = CREATE_RUN,
      !.envelopes = IF op.kind \in {"CREATE_RUN", "DELEGATE"} THEN @ \cup {op.stage} ELSE @,
      !.granted   = @ \/ op = APPROVE_BILLING,
      !.receipts  = IF op.kind = "EXECUTE" THEN @ \cup {op.stage} ELSE @]

\* A successful answer.  A receipt must be for the order of the workflow.
Complete(p) ==
    LET op == mem[p].pending IN
    /\ pc[p] = "waiting"
    /\ Answered(CallOf(p))
    /\ op.kind = "EXECUTE" => CallOf(p).args.order = OrderId
    /\ Checkpoint(p, [Record(mem[p], op) EXCEPT !.pending = None], "ready")
    /\ UNCHANGED <<job, lock, disk, durable, world, announced, modelled, starts>>

-----------------------------------------------------------------------------
(* Failures. *)

\* An exception: a refused or timed-out call, a lost answer, a file error, an
\* interrupt, a gateway that cannot start.  `failed` is set for good.
Fail(p) ==
    /\ pc[p] \notin {"off", "done", "failed"}
    /\ pc' = [pc EXCEPT ![p] = "failed"]
    /\ UNCHANGED <<next, mem, job, lock, disk, durable, world, announced, modelled, starts>>

Stop(S) ==
    /\ pc' = [p \in Procs |-> IF p \in S THEN "off" ELSE pc[p]]
    /\ mem' = [p \in Procs |-> IF p \in S THEN None ELSE mem[p]]
    /\ job' = [p \in Procs |-> IF p \in S THEN None ELSE job[p]]
    /\ next' = [p \in Procs |-> IF p \in S THEN "off" ELSE next[p]]
    /\ lock' = IF lock \in S THEN None ELSE lock
    /\ UNCHANGED <<world, announced, modelled, starts>>

\* close(), and the end of a killed process: either releases the lock.
Close(p) == pc[p] \in {"done", "failed"} /\ Stop({p}) /\ UNCHANGED <<disk, durable>>
Crash(p) == pc[p] # "off" /\ Stop({p}) /\ UNCHANGED <<disk, durable>>

\* The machine stops: a rename that was not synced may be undone.
PowerFailure ==
    /\ Stop(Procs)
    /\ disk' \in {disk, durable}
    /\ durable' = disk'

Progress(p) ==
    \/ Rename(p) \/ SyncDirectory(p) \/ Start(p)
    \/ \E s \in Stages : Transition(p, s) \/ ExecuteChecked(p, s)
    \/ \E s \in Stages, order \in Orders : Propose(p, s, order)
    \/ ApproveBilling(p) \/ Return(p) \/ Send(p) \/ Complete(p)

Next ==
    \/ \E p \in Procs :
        \/ \E amount \in Amounts, approve \in Approvals, live \in Models,
              mode \in {"prepare", "run"} : Create(p, amount, approve, mode, live)
        \/ \E live \in Models : Resume(p, live)
        \/ Progress(p) \/ Fail(p) \/ Close(p) \/ Crash(p)
    \/ \E r \in inflight : Perform(r) \/ Lose(r)
    \/ PowerFailure

Spec == Init /\ [][Next]_vars

\* Where the code throws whatever the outside does, or once a call has timed out.
Refused(p) ==
    \/ pc[p] = "waiting"
    \/ pc[p] = "opened" /\ ~job[p].live
    \/ /\ Ready(p) /\ Prepared(p)
       /\ ProposedArguments(mem[p], BILLING) # Expected(mem[p])

\* A process goes on by itself, and every call ends by its timeout (20 s for
\* the control API, 35 s for a tool).  Nothing else is promised.
FairSpec ==
    /\ Spec
    /\ \A p \in Procs : WF_vars(Progress(p)) /\ WF_vars(Refused(p) /\ Fail(p))

-----------------------------------------------------------------------------
(* Properties. *)

Places == {"off", "saving", "syncing", "opened", "ready", "calling", "waiting",
           "done", "failed"}

\* Every variable has its type, and the files hold snapshots.
TypeOK ==
    /\ pc \in [Procs -> Places] /\ next \in [Procs -> Places]
    /\ mem \in [Procs -> Snapshot \cup {None}]
    /\ job \in [Procs -> [mode : {"prepare", "run"}, live : BOOLEAN] \cup {None}]
    /\ lock \in Procs \cup {None}
    /\ disk \in Snapshot \cup {None} /\ durable \in Snapshot \cup {None}
    /\ inflight \subseteq Request
    /\ performed \in Seq(Request)
    /\ announced \in [args : Arguments, planned : BOOLEAN] \cup {None}
    /\ modelled \in BOOLEAN
    /\ starts \in 0..MaxStarts

\* However often processes crash and are started again, no run, child,
\* approval or tool call of the workflow happens twice (restore, begin and
\* complete, Workflow.java:305-323).
EachOperationOnce ==
    \A j, k \in 1..Len(performed) : performed[j].op = performed[k].op => j = k

Answers(saved, op) ==
    CASE op.kind = "CREATE_RUN" -> saved.run
      [] op.kind = "DELEGATE"   -> op.stage \in saved.envelopes
      [] op.kind = "APPROVE"    -> saved.granted
      [] op.kind = "EXECUTE"    -> op.stage \in saved.receipts

\* What was sent is never forgotten: the file, and what a power failure would
\* leave of it, holds the answer or the marker of every request, even of one
\* that is performed after its process has gone.
NothingSentIsForgotten ==
    \A r \in inflight \cup {performed[k] : k \in 1..Len(performed)} :
        \A saved \in {disk, durable} :
            saved # None /\ (Answers(saved, r.op) \/ saved.pending = r.op)

\* A checkpoint without a marker can be resumed: the process never writes one
\* that `restore` would refuse as inconsistent, at whatever step it dies.
UnmarkedCheckpointsResume ==
    \A saved \in {disk, durable} :
        saved # None /\ saved.pending = None => Restorable(saved)

Needs(op) ==
    CASE op = CREATE_RUN         -> {}
      [] op.kind = "DELEGATE"    -> {EXECUTE(op.stage - 1)}
      [] op = APPROVE_BILLING    -> {DELEGATE(BILLING)}
      [] op = EXECUTE(SUPPORT)   -> {CREATE_RUN}
      [] op = EXECUTE(BILLING)   -> {DELEGATE(BILLING)} \cup
                                    IF disk.approve THEN {APPROVE_BILLING} ELSE {}
      [] OTHER                   -> {DELEGATE(op.stage)}

\* Nothing is performed before what it depends on, across all processes: no
\* refund before its delegation, no delegation before the stage before it has
\* its receipt, no notification without a refund.
StagesInOrder ==
    \A k \in 1..Len(performed) : \A op \in Needs(performed[k].op) :
        \E j \in 1..k - 1 : performed[j].op = op

\* Other processes, started with other amounts, change nothing of the amount of
\* the first one.  A refund that a model has planned is executed as it was shown
\* to the operator, or approved through the API, although later processes ask
\* the model again (proposedArguments, Workflow.java:257-271).  Arguments that
\* no model has planned are not saved, and a later process with a model may
\* choose others.
ArgumentsArePinned ==
    \A k \in 1..Len(performed) :
        /\ performed[k].args.amount = disk.amount
        /\ performed[k].op = EXECUTE(BILLING) =>
             \A seen \in {announced} \cup {performed[j] : j \in
                            {j \in 1..Len(performed) : performed[j].op = APPROVE_BILLING}} :
                seen # None /\ seen.planned => performed[k].args = seen.args

\* A process that has started ends or is stopped; where it cannot go on the
\* code throws.
RunsEnd ==
    \A p \in Procs : pc[p] = "opened" ~> pc[p] \in {"done", "failed", "off"}

\* "A model workflow with unplanned stages cannot silently resume in
\* deterministic mode" (docs/live-model.md:62-63).
ModelWorkflowsKeepTheirModel ==
    \A p \in Procs :
        /\ modelled /\ pc[p] = "ready"
        /\ \E s \in Stages : s \notin mem[p].receipts /\ ~Planned(mem[p], s)
        => job[p].live
=============================================================================
