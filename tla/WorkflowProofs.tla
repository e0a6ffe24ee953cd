---------------------------- MODULE WorkflowProofs ----------------------------
(***************************************************************************)
(* The refund workflow keeps its promises for every number of processes,   *)
(* starts, amounts and orders, whatever crashes, is lost or comes late.    *)
(*                                                                         *)
(* The argument has three layers, each an inductive invariant that may use *)
(* those before it:                                                        *)
(*   PlaceInv  only the holder of the lock runs, and between two           *)
(*             checkpoints the file, what a power failure would leave of   *)
(*             it and the memory of the process are the same snapshot;     *)
(*             the answer to the call that a snapshot announces makes a    *)
(*             snapshot that can be resumed                                *)
(*   LogInv    every copy of the checkpoint agrees with what was sent and  *)
(*             performed (Faithful): it holds the answer or the marker of  *)
(*             every request, and no answer of what was not performed      *)
(*   PinInv    every copy of the checkpoint holds the planned arguments    *)
(*             that an operator has been shown or has approved             *)
(* The refund as a whole, where the workflow meets the console and the     *)
(* gateway, adds                                                           *)
(*   MarkInv    once the refund may have been made, every copy of the      *)
(*              checkpoint says so, and no process announces it again      *)
(*   RefundInv  there is one authorization at most, it is for the refund   *)
(*              the workflow was started with, has one effect at most, and *)
(*              MarkInv holds from then on                                 *)
(***************************************************************************)
EXTENDS Refund, FiniteSetTheorems, TLAPS

-----------------------------------------------------------------------------
(* Snapshots and places. *)

\* Every copy of the checkpoint there is: in the file, in what a power failure
\* would leave of it, and in the processes.
Snapshots == ({disk, durable} \cup {mem[p] : p \in Procs}) \ {None}

\* What a snapshot becomes when the call it announces is answered.
Settle(m, op) == [Record(m, op) EXCEPT !.pending = None]
Settled(m) == IF m.pending = None THEN m ELSE Settle(m, m.pending)

\* Where a process is, or goes once its checkpoint is saved.
Target(p) == IF pc[p] \in {"saving", "syncing"} THEN next[p] ELSE pc[p]

Job == [mode : {"prepare", "run"}, live : BOOLEAN]

\* Only the holder of the lock runs, and while it is not writing the file, the
\* file is what it has in memory.
Placed(p) ==
    /\ pc[p] = "off" <=> mem[p] = None
    /\ pc[p] # "off" => lock = p /\ job[p] \in Job
    /\ pc[p] \in {"saving", "syncing"} => next[p] \in {"opened", "ready", "calling"}
    /\ pc[p] \in {"syncing", "opened", "ready", "calling", "waiting"} => disk = mem[p]
    /\ pc[p] \in {"opened", "ready", "calling", "waiting"} => durable = mem[p]
    /\ Target(p) \in {"opened", "ready"} => mem[p].pending = None
    /\ Target(p) \in {"calling", "waiting"} => mem[p].pending # None
    /\ Target(p) = "ready" => mem[p].run

PlaceInv ==
    /\ TypeOK
    /\ \A p \in Procs : Placed(p)
    /\ \A m \in Snapshots : Consistent(Settled(m))

-----------------------------------------------------------------------------
(* The fields of a snapshot. *)

LEMMA OpsAre ==
    ASSUME NEW op \in Ops
    PROVE  /\ op \in [kind : {"CREATE_RUN", "DELEGATE", "APPROVE", "EXECUTE"}, stage : Stages]
           /\ op.kind = "CREATE_RUN" => op = CREATE_RUN
           /\ op.kind = "APPROVE" => op = APPROVE_BILLING
           /\ op.kind = "DELEGATE" => op = DELEGATE(op.stage) /\ op.stage # SUPPORT
           /\ op.kind = "EXECUTE" => op = EXECUTE(op.stage)
BY DEF Ops, CREATE_RUN, APPROVE_BILLING, DELEGATE, EXECUTE, Stages, SUPPORT, BILLING,
       NOTIFICATION

\* A snapshot with some of its fields changed.
LEMMA SnapshotFields ==
    ASSUME NEW m \in Snapshot
    PROVE  /\ m.amount \in Amounts /\ m.approve \in BOOLEAN /\ m.run \in BOOLEAN
           /\ m.envelopes \in SUBSET Stages /\ m.receipts \in SUBSET Stages
           /\ m.attempted \in SUBSET Stages /\ m.granted \in BOOLEAN
           /\ m.pending \in Ops \cup {None}
           /\ \E S \in SUBSET Stages : m.proposals \in [S -> Orders]
BY DEF Snapshot

LEMMA RecordFields ==
    ASSUME NEW m \in Snapshot, NEW op \in Ops
    PROVE  LET n == Settle(m, op) IN
           /\ n \in Snapshot /\ n.pending = None
           /\ n.amount = m.amount /\ n.approve = m.approve
           /\ n.attempted = m.attempted /\ n.proposals = m.proposals
           /\ n.run <=> (m.run \/ op = CREATE_RUN)
           /\ op.kind \in {"CREATE_RUN", "DELEGATE"} =>
                 n.envelopes = m.envelopes \cup {op.stage}
           /\ op.kind \notin {"CREATE_RUN", "DELEGATE"} => n.envelopes = m.envelopes
           /\ n.granted <=> (m.granted \/ op = APPROVE_BILLING)
           /\ op.kind = "EXECUTE" => n.receipts = m.receipts \cup {op.stage}
           /\ op.kind # "EXECUTE" => n.receipts = m.receipts
<1> DEFINE e == IF op.kind \in {"CREATE_RUN", "DELEGATE"}
                THEN m.envelopes \cup {op.stage} ELSE m.envelopes
           r == IF op.kind = "EXECUTE" THEN m.receipts \cup {op.stage} ELSE m.receipts
           run == m.run \/ op = CREATE_RUN
           g == m.granted \/ op = APPROVE_BILLING
           n == Settle(m, op)
<1>1. op.stage \in Stages
  BY OpsAre
<1>2. e \in SUBSET Stages /\ r \in SUBSET Stages /\ run \in BOOLEAN /\ g \in BOOLEAN
  BY <1>1, SnapshotFields
<1> DEFINE P == UNION {[S -> Orders] : S \in SUBSET Stages}
           R == [m EXCEPT !.run = run, !.envelopes = e, !.granted = g, !.receipts = r]
<1>3. n = [R EXCEPT !.pending = None]
  BY DEF Record, Settle
<1>4. Snapshot = [amount : Amounts, approve : BOOLEAN, run : BOOLEAN,
                  envelopes : SUBSET Stages, receipts : SUBSET Stages,
                  attempted : SUBSET Stages, granted : BOOLEAN,
                  pending : Ops \cup {None}, proposals : P]
  BY DEF Snapshot
<1> HIDE DEF e, r, run, g, n, P
<1>5. /\ R \in Snapshot
      /\ R.amount = m.amount /\ R.approve = m.approve /\ R.attempted = m.attempted
      /\ R.proposals = m.proposals /\ R.run = run /\ R.envelopes = e /\ R.granted = g
      /\ R.receipts = r
  BY <1>2, <1>4
<1> HIDE DEF R
<1>6. /\ n \in Snapshot /\ n.pending = None
      /\ n.amount = R.amount /\ n.approve = R.approve /\ n.attempted = R.attempted
      /\ n.proposals = R.proposals /\ n.run = R.run /\ n.envelopes = R.envelopes
      /\ n.granted = R.granted /\ n.receipts = R.receipts
  BY <1>3, <1>4, <1>5
<1> QED BY <1>5, <1>6 DEF e, r, run, g, n

LEMMA SettledFields ==
    ASSUME NEW m \in Snapshot
    PROVE  /\ Settled(m) \in Snapshot /\ Settled(m).pending = None
           /\ m.pending = None => Settled(m) = m
BY RecordFields, SnapshotFields DEF Settled

\* The stage that run() is at.
LEMMA CurrentStage ==
    ASSUME NEW m \in Snapshot, m.receipts # Stages
    PROVE  /\ Current(m) \in Stages \ m.receipts
           /\ \A t \in Stages : t < Current(m) => t \in m.receipts
<1>1. \E s \in Stages \ m.receipts : \A t \in Stages \ m.receipts : s <= t
  BY SnapshotFields DEF Stages, SUPPORT, BILLING, NOTIFICATION
<1>2. Current(m) \in Stages \ m.receipts /\ \A t \in Stages \ m.receipts : Current(m) <= t
  BY <1>1 DEF Current
<1> QED BY <1>2 DEF Stages, SUPPORT, BILLING, NOTIFICATION

\* The first stage has its envelope as soon as there is a run.
LEMMA RunHasSupport ==
    ASSUME NEW m \in Snapshot, Consistent(m), m.run
    PROVE  SUPPORT \in m.envelopes
BY SnapshotFields DEF Consistent, Stages, SUPPORT, BILLING, NOTIFICATION

\* Two snapshots that agree but for their marker, attempts and proposals.
Alike(m, n) ==
    /\ n.amount = m.amount /\ n.approve = m.approve /\ n.run = m.run
    /\ n.envelopes = m.envelopes /\ n.receipts = m.receipts /\ n.granted = m.granted

LEMMA MarkedFields ==
    ASSUME NEW m \in Snapshot, NEW op \in Ops
    PROVE  LET n == [m EXCEPT !.pending = op] IN
           /\ n \in Snapshot /\ n.pending = op /\ Alike(m, n)
           /\ n.attempted = m.attempted /\ n.proposals = m.proposals
BY SnapshotFields DEF Snapshot, Alike

LEMMA AttemptedFields ==
    ASSUME NEW m \in Snapshot, NEW s \in Stages
    PROVE  LET n == [m EXCEPT !.attempted = @ \cup {s}] IN
           /\ n \in Snapshot /\ Alike(m, n) /\ n.pending = m.pending
           /\ n.attempted = m.attempted \cup {s} /\ n.proposals = m.proposals
BY SnapshotFields DEF Snapshot, Alike

Proposed(m, s, order) ==
    [m EXCEPT !.proposals =
        [t \in DOMAIN @ \cup {s} |-> IF t = s THEN order ELSE @[t]]]

LEMMA ProposedFields ==
    ASSUME NEW m \in Snapshot, NEW s \in Stages, NEW order \in Orders
    PROVE  LET n == Proposed(m, s, order) IN
           /\ n \in Snapshot /\ Alike(m, n) /\ n.pending = m.pending
           /\ n.attempted = m.attempted
           /\ n.proposals = [t \in DOMAIN m.proposals \cup {s} |->
                                IF t = s THEN order ELSE m.proposals[t]]
<1> DEFINE q == [t \in DOMAIN m.proposals \cup {s} |->
                    IF t = s THEN order ELSE m.proposals[t]]
           P == UNION {[S -> Orders] : S \in SUBSET Stages}
<1>1. PICK S \in SUBSET Stages : m.proposals \in [S -> Orders]
  BY SnapshotFields
<1>2. q \in [S \cup {s} -> Orders]
  BY <1>1
<1>3. q \in P
  BY <1>2
<1>4. Snapshot = [amount : Amounts, approve : BOOLEAN, run : BOOLEAN,
                  envelopes : SUBSET Stages, receipts : SUBSET Stages,
                  attempted : SUBSET Stages, granted : BOOLEAN,
                  pending : Ops \cup {None}, proposals : P]
  BY DEF Snapshot
<1>5. Proposed(m, s, order) = [m EXCEPT !.proposals = q]
  BY DEF Proposed
<1> HIDE DEF q, P
<1>6. /\ [m EXCEPT !.proposals = q] \in Snapshot /\ Alike(m, [m EXCEPT !.proposals = q])
      /\ [m EXCEPT !.proposals = q].pending = m.pending
      /\ [m EXCEPT !.proposals = q].attempted = m.attempted
      /\ [m EXCEPT !.proposals = q].proposals = q
  BY <1>3, <1>4 DEF Alike
<1> QED BY <1>5, <1>6 DEF q

\* A new workflow's snapshot.
LEMMA FreshFields ==
    ASSUME NEW amount \in Amounts, NEW approve \in BOOLEAN
    PROVE  Fresh(amount, approve) \in Snapshot /\ Consistent(Fresh(amount, approve))
<1>1. [s \in {} |-> OrderId] \in [{} -> Orders]
  OBVIOUS
<1>2. [s \in {} |-> OrderId] \in UNION {[S -> Orders] : S \in SUBSET Stages}
  BY <1>1
<1> QED BY <1>2 DEF Fresh, Snapshot, Consistent

LEMMA SettledMarked ==
    ASSUME NEW m \in Snapshot, NEW n \in Snapshot, NEW op \in Ops, n.pending = op,
           Alike(m, n)
    PROVE  LET q == Settled(n) IN
           /\ q.run <=> (m.run \/ op.kind = "CREATE_RUN")
           /\ q.granted <=> (m.granted \/ op.kind = "APPROVE")
           /\ op.kind \in {"CREATE_RUN", "DELEGATE"} =>
                 q.envelopes = m.envelopes \cup {op.stage}
           /\ op.kind \notin {"CREATE_RUN", "DELEGATE"} => q.envelopes = m.envelopes
           /\ op.kind = "EXECUTE" => q.receipts = m.receipts \cup {op.stage}
           /\ op.kind # "EXECUTE" => q.receipts = m.receipts
           /\ q.attempted = n.attempted /\ q.approve = m.approve
<1>1. Settled(n) = Settle(n, op)
  BY NoneIsNoData DEF Settled
<1>2. (op = CREATE_RUN <=> op.kind = "CREATE_RUN") /\ (op = APPROVE_BILLING <=> op.kind = "APPROVE")
  BY OpsAre DEF CREATE_RUN, APPROVE_BILLING
<1> QED BY <1>1, <1>2, RecordFields DEF Alike

\* Once a call is answered there is a run: every call needs one or makes it.
LEMMA RunAfterCall ==
    ASSUME NEW m \in Snapshot, NEW op \in Ops, m.pending = op, Consistent(Settled(m))
    PROVE  Settled(m).run
<1>1. Alike(m, m)
  BY DEF Alike
<1> DEFINE q == Settled(m)
<1>2. /\ q.granted <=> (m.granted \/ op.kind = "APPROVE")
      /\ op.kind \in {"CREATE_RUN", "DELEGATE"} => q.envelopes = m.envelopes \cup {op.stage}
      /\ op.kind = "EXECUTE" => q.receipts = m.receipts \cup {op.stage}
  BY <1>1, SettledMarked
<1>3. op.kind \in {"CREATE_RUN", "DELEGATE", "APPROVE", "EXECUTE"}
  BY OpsAre
<1> HIDE DEF q
<1>4. q.envelopes # {}
  BY <1>2, <1>3 DEF Consistent, q
<1> QED BY <1>4 DEF Consistent, q

\* Each marker that run() sets announces a call whose answer leaves the snapshot
\* one that `restore` accepts.
LEMMA MarkerConsistent ==
    ASSUME NEW m \in Snapshot, NEW n \in Snapshot, NEW op \in Ops, n.pending = op,
           Alike(m, n), Consistent(m),
           \/ op = CREATE_RUN /\ ~m.run /\ n.attempted = m.attempted
           \/ /\ op = DELEGATE(op.stage) /\ m.run /\ op.stage - 1 \in m.receipts
              /\ n.attempted = m.attempted
           \/ /\ op = APPROVE_BILLING /\ m.approve /\ BILLING \in m.envelopes
              /\ n.attempted = m.attempted
           \/ /\ op = EXECUTE(op.stage) /\ op.stage \in m.envelopes
              /\ n.attempted = m.attempted \cup {op.stage}
    PROVE  Consistent(Settled(n))
<1> DEFINE q == Settled(n)
<1>1. Settled(n) \in Snapshot /\ op.stage \in Stages
  BY SettledFields, OpsAre
<1>2. /\ q.run <=> (m.run \/ op.kind = "CREATE_RUN")
      /\ q.granted <=> (m.granted \/ op.kind = "APPROVE")
      /\ op.kind \in {"CREATE_RUN", "DELEGATE"} =>
            q.envelopes = m.envelopes \cup {op.stage}
      /\ op.kind \notin {"CREATE_RUN", "DELEGATE"} => q.envelopes = m.envelopes
      /\ op.kind = "EXECUTE" => q.receipts = m.receipts \cup {op.stage}
      /\ op.kind # "EXECUTE" => q.receipts = m.receipts
      /\ q.attempted = n.attempted /\ q.approve = m.approve
  BY SettledMarked
<1> HIDE DEF q
<1>3. Consistent(q)
  <2>1. CASE op = CREATE_RUN /\ ~m.run /\ n.attempted = m.attempted
    <3>1. op.kind = "CREATE_RUN" /\ op.stage = SUPPORT
      BY <2>1 DEF CREATE_RUN
    <3> QED BY <1>2, <2>1, <3>1, SnapshotFields DEF Consistent
  <2>2. CASE /\ op = DELEGATE(op.stage) /\ m.run /\ op.stage - 1 \in m.receipts
             /\ n.attempted = m.attempted
    <3>1. op.kind = "DELEGATE"
      BY <2>2 DEF DELEGATE
    <3> QED BY <1>1, <1>2, <2>2, <3>1, SnapshotFields DEF Consistent
  <2>3. CASE /\ op = APPROVE_BILLING /\ m.approve /\ BILLING \in m.envelopes
             /\ n.attempted = m.attempted
    <3>1. op.kind = "APPROVE"
      BY <2>3 DEF APPROVE_BILLING
    <3> QED BY <1>2, <2>3, <3>1, SnapshotFields DEF Consistent
  <2>4. CASE /\ op = EXECUTE(op.stage) /\ op.stage \in m.envelopes
             /\ n.attempted = m.attempted \cup {op.stage}
    <3>1. op.kind = "EXECUTE"
      BY <2>4 DEF EXECUTE
    <3> QED BY <1>1, <1>2, <2>4, <3>1, SnapshotFields DEF Consistent
  <2> QED BY <2>1, <2>2, <2>3, <2>4
<1> QED BY <1>3 DEF q

-----------------------------------------------------------------------------
(* Where processes are, and that what they save can be resumed. *)

LEMMA OneRuns ==
    ASSUME PlaceInv, NEW p \in Procs, pc[p] # "off"
    PROVE  lock = p /\ \A q \in Procs \ {p} : pc[q] = "off"
BY DEF PlaceInv, Placed

LEMMA MemIsSnapshot ==
    ASSUME PlaceInv, NEW p \in Procs, pc[p] # "off"
    PROVE  mem[p] \in Snapshot /\ mem[p] # None /\ mem[p] \in Snapshots
BY DEF PlaceInv, Placed, TypeOK, Snapshots

\* A call is for arguments.
LEMMA CallIsRequest ==
    ASSUME PlaceInv, NEW p \in Procs, mem[p] \in Snapshot, mem[p].pending \in Ops
    PROVE  /\ CallOf(p) \in Request /\ CallOf(p).op = mem[p].pending
           /\ CallOf(p).args = ProposedArguments(mem[p], mem[p].pending.stage)
           /\ CallOf(p).args.amount = mem[p].amount
           /\ CallOf(p).planned = Planned(mem[p], mem[p].pending.stage)
<1> DEFINE m == mem[p]
           s == m.pending.stage
           a == ProposedArguments(m, s)
<1>1. m.amount \in Amounts /\ \E S \in SUBSET Stages : m.proposals \in [S -> Orders]
  BY SnapshotFields
<1>2. a \in Arguments /\ a.amount = m.amount
  <2>1. (IF Planned(m, s) THEN m.proposals[s] ELSE OrderId) \in Orders
    BY <1>1, WorkflowConstants DEF Planned
  <2>2. Expected(m) \in Arguments /\ Expected(m).amount = m.amount
    BY <1>1, WorkflowConstants DEF Expected, Arguments
  <2> HIDE DEF m, s
  <2> QED BY <2>1, <2>2 DEF ProposedArguments, Arguments
<1>3. Planned(m, s) \in BOOLEAN
  BY DEF Planned
<1> HIDE DEF a
<1>4. CallOf(p) = [proc |-> p, op |-> m.pending, args |-> a, planned |-> Planned(m, s)]
  BY DEF CallOf, a
<1> QED BY <1>2, <1>3, <1>4 DEF Request, a

\* A process saves a snapshot that can be resumed.
LEMMA CheckpointPlaces ==
    ASSUME PlaceInv, NEW p \in Procs, NEW m \in Snapshot,
           NEW then \in {"opened", "ready", "calling"},
           Checkpoint(p, m, then), Consistent(Settled(m)),
           then \in {"opened", "ready"} => m.pending = None,
           then = "calling" => m.pending # None,
           then = "ready" => m.run,
           lock' = p, \A q \in Procs \ {p} : pc[q] = "off",
           job' \in [Procs -> Job \cup {None}], job'[p] \in Job,
           UNCHANGED <<disk, durable, inflight, performed, announced>>,
           modelled' \in BOOLEAN, starts' \in 0..MaxStarts
    PROVE  PlaceInv'
<1>1. TypeOK'
  BY DEF PlaceInv, TypeOK, Checkpoint, Places, Job
<1>2. /\ pc'[p] = "saving" /\ mem'[p] = m /\ next'[p] = then
      /\ \A q \in Procs \ {p} : pc'[q] = pc[q] /\ mem'[q] = mem[q] /\ next'[q] = next[q]
  BY DEF PlaceInv, TypeOK, Checkpoint
<1>3. ASSUME NEW q \in Procs PROVE Placed(q)'
  <2>1. CASE q = p
    BY <1>2, <2>1, NoneIsNoData DEF Placed, Target
  <2>2. CASE q # p
    <3>1. Placed(q) /\ pc[q] = "off"
      BY <2>2 DEF PlaceInv
    <3> QED BY <1>2, <2>2, <3>1 DEF Placed, Target
  <2> QED BY <2>1, <2>2
<1>4. Snapshots' \subseteq Snapshots \cup {m}
  BY <1>2 DEF Snapshots
<1>5. \A x \in Snapshots' : Consistent(Settled(x))
  BY <1>4 DEF PlaceInv
<1> QED BY <1>1, <1>3, <1>5 DEF PlaceInv

\* A process that only moves.
LEMMA MovePlaces ==
    ASSUME PlaceInv, NEW p \in Procs, pc[p] # "off",
           NEW place \in {"waiting", "done", "failed"},
           place = "waiting" => pc[p] = "calling",
           pc' = [pc EXCEPT ![p] = place],
           UNCHANGED <<next, mem, job, lock, disk, durable, modelled, starts>>,
           inflight' \subseteq Request, performed' \in Seq(Request),
           announced' \in [args : Arguments, planned : BOOLEAN] \cup {None}
    PROVE  PlaceInv'
<1>1. TypeOK'
  BY DEF PlaceInv, TypeOK, Places
<1>2. pc'[p] = place /\ \A q \in Procs \ {p} : pc'[q] = pc[q]
  BY DEF PlaceInv, TypeOK
<1>3. ASSUME NEW q \in Procs PROVE Placed(q)'
  <2>1. Placed(q)
    BY DEF PlaceInv
  <2>2. CASE q = p
    BY <1>2, <2>1, <2>2 DEF Placed, Target
  <2>3. CASE q # p
    BY <1>2, <2>1, <2>3 DEF Placed, Target
  <2> QED BY <2>2, <2>3
<1>4. Snapshots' = Snapshots
  BY DEF Snapshots
<1> QED BY <1>1, <1>3, <1>4 DEF PlaceInv

\* Processes that stop, and a file that is one of its copies.
LEMMA StopPlaces ==
    ASSUME PlaceInv, NEW S \in SUBSET Procs, Stop(S),
           disk' \in {disk, durable}, durable' \in {disk, durable},
           \A p \in Procs \ S : disk' = disk /\ durable' = durable
    PROVE  PlaceInv' /\ Snapshots' \subseteq Snapshots
<1>1. TypeOK'
  BY DEF PlaceInv, TypeOK, Stop, Places, world
<1>2. /\ \A q \in S : pc'[q] = "off" /\ mem'[q] = None
      /\ \A q \in Procs \ S : pc'[q] = pc[q] /\ mem'[q] = mem[q] /\ job'[q] = job[q]
                              /\ next'[q] = next[q]
  BY DEF Stop
<1>3. ASSUME NEW q \in Procs PROVE Placed(q)'
  <2>1. Placed(q)
    BY DEF PlaceInv
  <2>2. CASE q \in S
    BY <1>2, <2>2 DEF Placed, Target
  <2>3. CASE q \notin S
    <3>1. pc[q] # "off" => lock' = lock
      BY <2>1, <2>3 DEF Placed, Stop
    <3> QED BY <1>2, <2>1, <2>3, <3>1 DEF Placed, Target
  <2> QED BY <2>2, <2>3
<1>4. Snapshots' \subseteq Snapshots
  BY <1>2 DEF Snapshots
<1> QED BY <1>1, <1>3, <1>4 DEF PlaceInv

LEMMA PlaceStep == PlaceInv /\ [Next]_vars => PlaceInv'
<1> SUFFICES ASSUME PlaceInv, [Next]_vars PROVE PlaceInv'
  OBVIOUS
<1>0. TypeOK
  BY DEF PlaceInv
<1>1. ASSUME NEW p \in Procs, Own(p)
      PROVE  \A q \in Procs : pc[q] = "off"
  BY <1>1, WorkflowConstants DEF PlaceInv, Placed, Own
<1>2. ASSUME NEW p \in Procs, NEW amount \in Amounts, NEW approve \in Approvals,
             NEW live \in Models, NEW mode \in {"prepare", "run"},
             Create(p, amount, approve, mode, live)
      PROVE  PlaceInv'
  <2> DEFINE m == Fresh(amount, approve)
  <2>1. m \in Snapshot /\ Consistent(m) /\ m.pending = None
    BY FreshFields, WorkflowConstants DEF Fresh
  <2>2. Settled(m) = m
    BY <2>1, SettledFields
  <2>3. /\ Own(p) /\ Checkpoint(p, m, "opened")
        /\ job' = [job EXCEPT ![p] = [mode |-> mode, live |-> live]]
        /\ modelled' = live
        /\ UNCHANGED <<disk, durable, inflight, performed, announced>>
    BY <1>2 DEF Create, world
  <2>4. job' \in [Procs -> Job \cup {None}] /\ job'[p] \in Job
    BY <1>0, <2>3, WorkflowConstants DEF TypeOK, Job
  <2>5. starts' \in 0..MaxStarts /\ lock' = p /\ modelled' \in BOOLEAN
    BY <1>0, <2>3, WorkflowConstants DEF TypeOK, Own
  <2> HIDE DEF m
  <2> QED BY <1>1, <2>1, <2>2, <2>3, <2>4, <2>5, CheckpointPlaces
<1>3. ASSUME NEW p \in Procs, NEW live \in Models, Resume(p, live)
      PROVE  PlaceInv'
  <2>1. disk \in Snapshot /\ Consistent(disk) /\ disk.pending = None
    BY <1>0, <1>3 DEF TypeOK, Resume, Restorable
  <2>2. Settled(disk) = disk
    BY <2>1, SettledFields
  <2>3. /\ Own(p) /\ Checkpoint(p, disk, "opened")
        /\ job' = [job EXCEPT ![p] = [mode |-> "run", live |-> live]]
        /\ UNCHANGED <<disk, durable, inflight, performed, announced, modelled>>
    BY <1>3 DEF Resume, world
  <2>4. job' \in [Procs -> Job \cup {None}] /\ job'[p] \in Job
    BY <1>0, <2>3, WorkflowConstants DEF TypeOK, Job
  <2>5. starts' \in 0..MaxStarts /\ lock' = p /\ modelled' \in BOOLEAN
    BY <1>0, <2>3, WorkflowConstants DEF TypeOK, Own
  <2> QED BY <1>1, <2>1, <2>2, <2>3, <2>4, <2>5, CheckpointPlaces
<1>4. ASSUME NEW p \in Procs, pc[p] # "off", NEW m \in Snapshot,
             NEW then \in {"opened", "ready", "calling"},
             Checkpoint(p, m, then), Consistent(Settled(m)),
             then \in {"opened", "ready"} => m.pending = None,
             then = "calling" => m.pending # None,
             then = "ready" => m.run,
             UNCHANGED <<job, lock, disk, durable, world, announced, modelled, starts>>
      PROVE  PlaceInv'
  <2>1. lock' = p /\ \A q \in Procs \ {p} : pc[q] = "off"
    BY <1>4, OneRuns
  <2>2. job' \in [Procs -> Job \cup {None}] /\ job'[p] \in Job
    BY <1>0, <1>4 DEF TypeOK, Job, PlaceInv, Placed
  <2>3. starts' \in 0..MaxStarts /\ modelled' \in BOOLEAN
        /\ UNCHANGED <<disk, durable, inflight, performed, announced>>
    BY <1>0, <1>4 DEF TypeOK, world
  <2> QED BY <1>4, <2>1, <2>2, <2>3, CheckpointPlaces
<1>5. ASSUME NEW p \in Procs, pc[p] # "off"
      PROVE  /\ mem[p] \in Snapshot /\ mem[p] # None /\ Placed(p)
             /\ Consistent(Settled(mem[p]))
             /\ mem[p].pending = None => Settled(mem[p]) = mem[p]
  BY <1>5, MemIsSnapshot, SettledFields DEF PlaceInv
<1>6. ASSUME NEW p \in Procs, pc[p] # "off", NEW op \in Ops, NEW n \in Snapshot,
             n.pending = None,
             Alike(mem[p], n), Consistent(mem[p]), Begin(p, op, n),
             UNCHANGED <<job, lock, disk, durable, world, announced, modelled, starts>>,
             \/ op = CREATE_RUN /\ ~mem[p].run /\ n.attempted = mem[p].attempted
             \/ /\ op = DELEGATE(op.stage) /\ mem[p].run
                /\ op.stage - 1 \in mem[p].receipts
                /\ n.attempted = mem[p].attempted
             \/ /\ op = APPROVE_BILLING /\ mem[p].approve /\ BILLING \in mem[p].envelopes
                /\ n.attempted = mem[p].attempted
             \/ /\ op = EXECUTE(op.stage) /\ op.stage \in mem[p].envelopes
                /\ n.attempted = mem[p].attempted \cup {op.stage}
      PROVE  PlaceInv'
  <2> DEFINE x == [n EXCEPT !.pending = op]
  <2>1. x \in Snapshot /\ x.pending = op /\ Alike(n, x) /\ x.attempted = n.attempted
    BY MarkedFields
  <2>2. Checkpoint(p, x, "calling")
    BY <1>6 DEF Begin
  <2> HIDE DEF x
  <2>3. Alike(mem[p], x)
    BY <1>6, <2>1 DEF Alike
  <2>4. Consistent(Settled(x))
    BY <1>5, <1>6, <2>1, <2>3, MarkerConsistent
  <2>5. x.pending # None
    BY <2>1, NoneIsNoData
  <2> QED BY <1>4, <1>6, <2>1, <2>2, <2>4, <2>5
<1>7. ASSUME NEW p \in Procs, Rename(p) PROVE PlaceInv'
  <2>1. pc[p] = "saving" /\ pc' = [pc EXCEPT ![p] = "syncing"] /\ disk' = mem[p]
        /\ UNCHANGED <<next, mem, job, lock, durable, inflight, performed, announced,
                       modelled, starts>>
    BY <1>7 DEF Rename, world
  <2>2. TypeOK'
    BY <1>0, <1>5, <2>1 DEF TypeOK, Places
  <2>3. ASSUME NEW q \in Procs PROVE Placed(q)'
    <3>1. CASE q = p
      BY <1>0, <1>5, <2>1, <3>1 DEF Placed, Target, TypeOK
    <3>2. CASE q # p
      <4>1. Placed(q) /\ pc[q] = "off" /\ pc'[q] = "off"
        BY <1>0, <2>1, <3>2, OneRuns DEF PlaceInv, TypeOK
      <4> QED BY <2>1, <4>1 DEF Placed, Target
    <3> QED BY <3>1, <3>2
  <2>4. Snapshots' \subseteq Snapshots
    BY <2>1 DEF Snapshots
  <2> QED BY <2>2, <2>3, <2>4 DEF PlaceInv
<1>8. ASSUME NEW p \in Procs, SyncDirectory(p) PROVE PlaceInv'
  <2>1. pc[p] = "syncing" /\ pc' = [pc EXCEPT ![p] = next[p]] /\ durable' = disk
        /\ UNCHANGED <<next, mem, job, lock, disk, inflight, performed, announced,
                       modelled, starts>>
    BY <1>8 DEF SyncDirectory, world
  <2>2. TypeOK'
    BY <1>0, <1>5, <2>1 DEF TypeOK, Places
  <2>3. ASSUME NEW q \in Procs PROVE Placed(q)'
    <3>1. CASE q = p
      BY <1>0, <1>5, <2>1, <3>1 DEF Placed, Target, TypeOK
    <3>2. CASE q # p
      <4>1. Placed(q) /\ pc[q] = "off" /\ pc'[q] = "off"
        BY <1>0, <2>1, <3>2, OneRuns DEF PlaceInv, TypeOK
      <4> QED BY <2>1, <4>1 DEF Placed, Target
    <3> QED BY <3>1, <3>2
  <2>4. Snapshots' \subseteq Snapshots
    BY <2>1 DEF Snapshots
  <2> QED BY <2>2, <2>3, <2>4 DEF PlaceInv
<1>10. ASSUME NEW p \in Procs, Start(p) PROVE PlaceInv'
  <2>1. pc[p] = "opened" /\ mem[p].pending = None
    BY <1>5, <1>10 DEF Start, Placed, Target
  <2>2. mem[p] \in Snapshot /\ Consistent(mem[p]) /\ Settled(mem[p]) = mem[p]
    BY <1>5, <2>1
  <2>3. CASE mem[p].run
    <3>1. Checkpoint(p, mem[p], "ready")
          /\ UNCHANGED <<job, lock, disk, durable, world, announced, modelled, starts>>
      BY <1>10, <2>3 DEF Start
    <3> QED BY <1>4, <2>1, <2>2, <2>3, <3>1
  <2>4. CASE ~mem[p].run
    <3>1. Begin(p, CREATE_RUN, mem[p])
          /\ UNCHANGED <<job, lock, disk, durable, world, announced, modelled, starts>>
      BY <1>10, <2>4 DEF Start
    <3>2. CREATE_RUN \in Ops /\ Alike(mem[p], mem[p])
      BY DEF Ops, Alike
    <3> QED BY <1>6, <2>1, <2>2, <2>4, <3>1, <3>2
  <2> QED BY <2>3, <2>4
<1>11. ASSUME NEW p \in Procs, Ready(p)
       PROVE  /\ pc[p] # "off" /\ mem[p] \in Snapshot /\ mem[p].pending = None
              /\ mem[p].run /\ Consistent(mem[p]) /\ Alike(mem[p], mem[p])
  <2>1. pc[p] = "ready" /\ pc[p] # "off"
    BY <1>11 DEF Ready
  <2> QED BY <1>5, <2>1 DEF Placed, Target, Alike
<1>12. ASSUME NEW p \in Procs, NEW s \in Stages, Transition(p, s) PROVE PlaceInv'
  <2>1. /\ Ready(p) /\ mem[p].receipts # Stages /\ s = Current(mem[p])
        /\ s \notin mem[p].envelopes /\ Begin(p, DELEGATE(s), mem[p])
        /\ UNCHANGED <<job, lock, disk, durable, world, announced, modelled, starts>>
    BY <1>12 DEF Transition, AtStage
  <2>2. /\ mem[p] \in Snapshot /\ mem[p].pending = None /\ mem[p].run
        /\ Consistent(mem[p]) /\ pc[p] # "off" /\ Alike(mem[p], mem[p])
    BY <1>11, <2>1
  <2>3. s # SUPPORT
    BY <2>1, <2>2, RunHasSupport
  <2>4. s - 1 \in mem[p].receipts
    <3>1. s - 1 \in Stages /\ s - 1 < s
      BY <2>3 DEF Stages, SUPPORT, BILLING, NOTIFICATION
    <3> QED BY <2>1, <2>2, <3>1, CurrentStage
  <2>5. DELEGATE(s) \in Ops /\ DELEGATE(s).stage = s
    BY <2>3 DEF Ops, DELEGATE
  <2> QED BY <1>6, <2>1, <2>2, <2>4, <2>5
<1>13. ASSUME NEW p \in Procs, NEW s \in Stages, NEW order \in Orders,
              Propose(p, s, order)
       PROVE  PlaceInv'
  <2> DEFINE n == Proposed(mem[p], s, order)
  <2>1. /\ Ready(p) /\ Checkpoint(p, n, "ready")
        /\ UNCHANGED <<job, lock, disk, durable, world, announced, modelled, starts>>
    BY <1>13 DEF Propose, Proposed
  <2>2. /\ mem[p] \in Snapshot /\ mem[p].pending = None /\ mem[p].run
        /\ Consistent(mem[p]) /\ pc[p] # "off"
    BY <1>11, <2>1
  <2>3. /\ n \in Snapshot /\ Alike(mem[p], n) /\ n.pending = None
        /\ n.attempted = mem[p].attempted
    <3>1. PICK m \in Snapshot : m = mem[p]
      BY <2>2
    <3>2. LET q == Proposed(m, s, order) IN
          /\ q \in Snapshot /\ Alike(m, q) /\ q.pending = m.pending
          /\ q.attempted = m.attempted
      BY ProposedFields
    <3> QED BY <2>2, <3>1, <3>2
  <2> HIDE DEF n
  <2>4. Consistent(n) /\ Settled(n) = n /\ n.run
    BY <2>2, <2>3, SettledFields DEF Consistent, Alike
  <2> QED BY <1>4, <2>1, <2>2, <2>3, <2>4
<1>14. ASSUME NEW p \in Procs, ApproveBilling(p) PROVE PlaceInv'
  <2>1. /\ Ready(p) /\ BILLING \in mem[p].envelopes /\ mem[p].approve
        /\ Begin(p, APPROVE_BILLING, mem[p])
        /\ UNCHANGED <<job, lock, disk, durable, world, announced, modelled, starts>>
    BY <1>14 DEF ApproveBilling, Executing, NeedsApproval
  <2>2. /\ mem[p] \in Snapshot /\ mem[p].pending = None /\ Consistent(mem[p])
        /\ pc[p] # "off" /\ Alike(mem[p], mem[p])
    BY <1>11, <2>1
  <2>3. APPROVE_BILLING \in Ops
    BY DEF Ops
  <2> QED BY <1>6, <2>1, <2>2, <2>3
<1>15. ASSUME NEW p \in Procs, NEW s \in Stages, ExecuteChecked(p, s) PROVE PlaceInv'
  <2> DEFINE n == [mem[p] EXCEPT !.attempted = @ \cup {s}]
  <2>1. /\ Ready(p) /\ s \in mem[p].envelopes /\ Begin(p, EXECUTE(s), n)
        /\ UNCHANGED <<job, lock, disk, durable, world, announced, modelled, starts>>
    BY <1>15 DEF ExecuteChecked, Executing
  <2>2. /\ mem[p] \in Snapshot /\ mem[p].pending = None /\ Consistent(mem[p])
        /\ pc[p] # "off"
    BY <1>11, <2>1
  <2>3. /\ n \in Snapshot /\ Alike(mem[p], n) /\ n.pending = None
        /\ n.attempted = mem[p].attempted \cup {s}
    BY <2>2, AttemptedFields
  <2>4. EXECUTE(s) \in Ops /\ EXECUTE(s).stage = s
    BY DEF Ops, EXECUTE
  <2> HIDE DEF n
  <2> QED BY <1>6, <2>1, <2>2, <2>3, <2>4
<1>16. ASSUME NEW p \in Procs, Return(p) PROVE PlaceInv'
  <2>1. /\ Ready(p) /\ pc' = [pc EXCEPT ![p] = "done"]
        /\ UNCHANGED <<next, mem, job, lock, disk, durable, world, modelled, starts>>
        /\ \/ announced' = announced
           \/ announced' = [args |-> Expected(mem[p]), planned |-> Planned(mem[p], BILLING)]
    BY <1>16 DEF Return
  <2>2. Expected(mem[p]) \in Arguments /\ Planned(mem[p], BILLING) \in BOOLEAN
    BY <1>11, <2>1, SnapshotFields, WorkflowConstants DEF Expected, Arguments, Planned
  <2>3. announced' \in [args : Arguments, planned : BOOLEAN] \cup {None}
    BY <1>0, <2>1, <2>2 DEF TypeOK
  <2>4. pc[p] # "off" /\ inflight' \subseteq Request /\ performed' \in Seq(Request)
    BY <1>0, <1>11, <2>1 DEF TypeOK, world
  <2> QED BY <2>1, <2>3, <2>4, MovePlaces
<1>17. ASSUME NEW p \in Procs, Send(p) PROVE PlaceInv'
  <2>1. pc[p] = "calling" /\ pc[p] # "off" /\ mem[p].pending # None
    BY <1>5, <1>17 DEF Send, Placed, Target
  <2>2. CallOf(p) \in Request
    BY <1>5, <2>1, SnapshotFields, CallIsRequest
  <2>3. inflight' \subseteq Request /\ performed' \in Seq(Request)
        /\ announced' \in [args : Arguments, planned : BOOLEAN] \cup {None}
    BY <1>0, <1>17, <2>2 DEF TypeOK, Send
  <2> QED BY <1>17, <2>1, <2>3, MovePlaces DEF Send
<1>18. ASSUME NEW p \in Procs, Complete(p) PROVE PlaceInv'
  <2> DEFINE n == Settle(mem[p], mem[p].pending)
  <2>1. /\ pc[p] = "waiting" /\ pc[p] # "off" /\ Checkpoint(p, n, "ready")
        /\ UNCHANGED <<job, lock, disk, durable, world, announced, modelled, starts>>
    BY <1>18 DEF Complete, Settle
  <2>2. mem[p] \in Snapshot /\ mem[p].pending \in Ops /\ mem[p].pending # None
        /\ Consistent(Settled(mem[p]))
    BY <1>5, <2>1, SnapshotFields DEF Placed, Target
  <2>3. n = Settled(mem[p])
    BY <2>2 DEF Settled
  <2> HIDE DEF n
  <2>4. n \in Snapshot /\ n.pending = None /\ Consistent(n) /\ Settled(n) = n
    BY <2>2, <2>3, SettledFields
  <2>5. n.run
    BY <2>2, <2>3, RunAfterCall
  <2> QED BY <1>4, <2>1, <2>4, <2>5
<1>19. ASSUME NEW p \in Procs, Fail(p) PROVE PlaceInv'
  <2>1. pc[p] # "off" /\ inflight' \subseteq Request /\ performed' \in Seq(Request)
        /\ announced' \in [args : Arguments, planned : BOOLEAN] \cup {None}
    BY <1>0, <1>19 DEF TypeOK, Fail, world
  <2> QED BY <1>19, <2>1, MovePlaces DEF Fail
<1>20. ASSUME NEW p \in Procs, Close(p) \/ Crash(p) PROVE PlaceInv'
  <2>1. Stop({p}) /\ UNCHANGED <<disk, durable>>
    BY <1>20 DEF Close, Crash
  <2> QED BY <2>1, StopPlaces
<1>21. CASE PowerFailure
  <2>1. PICK S \in SUBSET Procs : S = Procs
    OBVIOUS
  <2>2. Stop(S) /\ disk' \in {disk, durable} /\ durable' \in {disk, durable}
    BY <1>21, <2>1 DEF PowerFailure, Stop
  <2>3. \A p \in Procs \ S : disk' = disk /\ durable' = durable
    BY <2>1
  <2> QED BY <2>2, <2>3, StopPlaces
<1>22. ASSUME NEW r \in inflight, Perform(r) \/ Lose(r) PROVE PlaceInv'
  <2>1. r \in Request
    BY <1>0 DEF TypeOK
  <2>2. UNCHANGED <<pc, next, mem, job, lock, disk, durable, announced, modelled, starts>>
    BY <1>22 DEF Perform, Lose
  <2>3. TypeOK'
    <3>1. inflight \subseteq Request /\ performed \in Seq(Request)
      BY <1>0 DEF TypeOK
    <3>2. inflight' = inflight \ {r} /\ performed' \in {performed, Append(performed, r)}
      BY <1>22 DEF Perform, Lose
    <3>3. inflight' \subseteq Request /\ performed' \in Seq(Request)
      BY <2>1, <3>1, <3>2
    <3> QED BY <1>0, <2>2, <3>3 DEF TypeOK
  <2>4. Snapshots' = Snapshots /\ \A q \in Procs : Placed(q)' <=> Placed(q)
    BY <2>2 DEF Snapshots, Placed, Target
  <2> QED BY <2>3, <2>4 DEF PlaceInv
<1>23. CASE UNCHANGED vars
  <2>1. TypeOK'
    BY <1>0, <1>23 DEF TypeOK, vars
  <2>2. Snapshots' = Snapshots /\ \A q \in Procs : Placed(q)' <=> Placed(q)
    BY <1>23 DEF Snapshots, Placed, Target, vars
  <2> QED BY <2>1, <2>2 DEF PlaceInv
<1> QED
  BY <1>2, <1>3, <1>7, <1>8, <1>10, <1>12, <1>13, <1>14, <1>15, <1>16, <1>17, <1>18,
     <1>19, <1>20, <1>21, <1>22, <1>23
     DEF Next, Progress

LEMMA PlaceInvariant == Spec => []PlaceInv
<1>1. Init => PlaceInv
  <2> SUFFICES ASSUME Init PROVE PlaceInv
    OBVIOUS
  <2>1. TypeOK
    <3>1. inflight \subseteq Request /\ performed \in Seq(Request)
      BY DEF Init
    <3>2. starts \in 0..MaxStarts
      BY WorkflowConstants DEF Init
    <3>3. /\ pc \in [Procs -> Places] /\ next \in [Procs -> Places]
          /\ mem \in [Procs -> Snapshot \cup {None}]
          /\ job \in [Procs -> [mode : {"prepare", "run"}, live : BOOLEAN] \cup {None}]
      BY DEF Init, Places
    <3> QED BY <3>1, <3>2, <3>3 DEF Init, TypeOK
  <2>2. \A p \in Procs : Placed(p)
    BY DEF Init, Placed, Target
  <2>3. Snapshots = {}
    BY DEF Init, Snapshots
  <2> QED BY <2>1, <2>2, <2>3 DEF PlaceInv
<1> QED BY <1>1, PlaceStep, PTL DEF Spec

\* Every variable of the workflow stays in its type.
THEOREM WorkflowTypes == Spec => []TypeOK
<1>1. PlaceInv => TypeOK
  BY DEF PlaceInv
<1> QED BY <1>1, PlaceInvariant, PTL

\* At whatever step a process dies, a file without a marker is one that
\* `restore` accepts (Workflow.java:315-348): each marker announces a call whose
\* answer leaves such a snapshot.
THEOREM CheckpointsResume == Spec => []UnmarkedCheckpointsResume
<1>1. PlaceInv => UnmarkedCheckpointsResume
  <2> SUFFICES ASSUME PlaceInv, NEW saved \in {disk, durable}, saved # None,
                      saved.pending = None
               PROVE  Restorable(saved)
    BY DEF UnmarkedCheckpointsResume
  <2>1. saved \in Snapshot /\ Consistent(Settled(saved))
    BY DEF PlaceInv, TypeOK, Snapshots
  <2> QED BY <2>1, SettledFields DEF Restorable
<1> QED BY <1>1, PlaceInvariant, PTL

-----------------------------------------------------------------------------
(* Requests. *)

Sent == inflight \cup {performed[k] : k \in 1..Len(performed)}
Done(op) == \E k \in 1..Len(performed) : performed[k].op = op

\* What has to be done before op, as a snapshot says it.
NeedsOf(m, op) ==
    CASE op = CREATE_RUN         -> {}
      [] op.kind = "DELEGATE"    -> {EXECUTE(op.stage - 1)}
      [] op = APPROVE_BILLING    -> {DELEGATE(BILLING)}
      [] op = EXECUTE(SUPPORT)   -> {CREATE_RUN}
      [] op = EXECUTE(BILLING)   -> {DELEGATE(BILLING)} \cup
                                    IF m.approve THEN {APPROVE_BILLING} ELSE {}
      [] OTHER                   -> {DELEGATE(op.stage)}

LEMMA NeedsAre ==
    ASSUME NEW m, NEW op \in Ops
    PROVE  /\ op.kind = "CREATE_RUN" => NeedsOf(m, op) = {}
           /\ op.kind = "DELEGATE" => NeedsOf(m, op) = {EXECUTE(op.stage - 1)}
           /\ op.kind = "APPROVE" => NeedsOf(m, op) = {DELEGATE(BILLING)}
           /\ op.kind = "EXECUTE" /\ op.stage = SUPPORT => NeedsOf(m, op) = {CREATE_RUN}
           /\ op.kind = "EXECUTE" /\ op.stage # SUPPORT =>
                 NeedsOf(m, op) \subseteq {DELEGATE(op.stage)} \cup
                     IF op.stage = BILLING /\ m.approve THEN {APPROVE_BILLING} ELSE {}
<1>1. op.kind = "CREATE_RUN" \/ op.kind = "DELEGATE" \/ op.kind = "APPROVE"
        \/ op.kind = "EXECUTE"
  BY OpsAre
<1>2. CASE op.kind = "CREATE_RUN"
  <2>1. op = CREATE_RUN /\ op.kind # "DELEGATE" /\ op.kind # "APPROVE" /\ op.kind # "EXECUTE"
    BY <1>2, OpsAre
  <2>2. op # APPROVE_BILLING /\ op # EXECUTE(SUPPORT) /\ op # EXECUTE(BILLING)
    BY <1>2 DEF APPROVE_BILLING, EXECUTE
  <2>3. NeedsOf(m, op) = {}
    BY <2>1, <2>2 DEF NeedsOf
  <2> QED BY <2>1, <2>3
<1>3. CASE op.kind = "DELEGATE"
  <2>1. op # CREATE_RUN /\ op # APPROVE_BILLING /\ op # EXECUTE(SUPPORT)
          /\ op # EXECUTE(BILLING)
    BY <1>3 DEF CREATE_RUN, APPROVE_BILLING, EXECUTE
  <2>2. NeedsOf(m, op) = {EXECUTE(op.stage - 1)}
    BY <1>3, <2>1 DEF NeedsOf
  <2> QED BY <1>3, <2>2
<1>4. CASE op.kind = "APPROVE"
  <2>1. op = APPROVE_BILLING /\ op.kind # "DELEGATE"
    BY <1>4, OpsAre
  <2>2. op # CREATE_RUN /\ op # EXECUTE(SUPPORT) /\ op # EXECUTE(BILLING)
    BY <1>4 DEF CREATE_RUN, EXECUTE
  <2>3. NeedsOf(m, op) = {DELEGATE(BILLING)}
    BY <2>1, <2>2 DEF NeedsOf
  <2> QED BY <1>4, <2>3
<1>5. CASE op.kind = "EXECUTE"
  <2>1. op # CREATE_RUN /\ op.kind # "DELEGATE" /\ op # APPROVE_BILLING
    BY <1>5 DEF CREATE_RUN, APPROVE_BILLING
  <2>2. SUPPORT # BILLING
    BY DEF SUPPORT, BILLING
  <2>3. \A s : op = EXECUTE(s) => op.stage = s
    BY DEF EXECUTE
  <2>4. op = EXECUTE(op.stage)
    BY <1>5, OpsAre
  <2>5. CASE op.stage = SUPPORT
    <3>1. op = EXECUTE(SUPPORT) /\ op # EXECUTE(BILLING)
      BY <2>2, <2>3, <2>4, <2>5
    <3>2. NeedsOf(m, op) = {CREATE_RUN}
      BY <2>1, <3>1 DEF NeedsOf
    <3> QED BY <1>5, <2>5, <3>2
  <2>6. CASE op.stage = BILLING
    <3>1. op # EXECUTE(SUPPORT) /\ op = EXECUTE(BILLING)
      BY <2>2, <2>3, <2>4, <2>6
    <3>2. NeedsOf(m, op) = {DELEGATE(BILLING)} \cup
                              IF m.approve THEN {APPROVE_BILLING} ELSE {}
      BY <2>1, <3>1 DEF NeedsOf
    <3> QED BY <1>5, <2>2, <2>6, <3>2
  <2>7. CASE op.stage # SUPPORT /\ op.stage # BILLING
    <3>1. op # EXECUTE(SUPPORT) /\ op # EXECUTE(BILLING)
      BY <2>3, <2>7
    <3>2. NeedsOf(m, op) = {DELEGATE(op.stage)}
      BY <2>1, <3>1 DEF NeedsOf
    <3> QED BY <1>5, <2>7, <3>2
  <2> QED BY <2>5, <2>6, <2>7
<1> QED BY <1>1, <1>2, <1>3, <1>4, <1>5

\* A snapshot agrees with what was sent and performed.
Faithful(m) ==
    /\ \A r \in Sent : Answers(m, r.op) \/ m.pending = r.op
    /\ \A op \in Ops : Answers(m, op) => Done(op)
    /\ m.pending # None => /\ ~Answers(m, m.pending)
                           /\ \A op \in NeedsOf(m, m.pending) : Done(op)

LogInv ==
    /\ \A m \in Snapshots : Faithful(m)
    /\ \A m1, m2 \in Snapshots : m1.amount = m2.amount /\ m1.approve = m2.approve
    /\ disk = None => durable = None
    /\ Sent # {} => durable # None
    /\ \A p \in Procs : Target(p) = "calling" => \A r \in Sent : r.op # mem[p].pending
    /\ EachOperationOnce
    /\ \A r \in inflight : ~Done(r.op)
    /\ \A r1, r2 \in inflight : r1.op = r2.op => r1 = r2
    /\ \A r \in inflight : \A op \in Needs(r.op) : Done(op)
    /\ StagesInOrder

LEMMA AnswersOf ==
    ASSUME NEW m \in Snapshot, NEW op \in Ops
    PROVE  /\ op.kind = "CREATE_RUN" => (Answers(m, op) <=> m.run)
           /\ op.kind = "DELEGATE" => (Answers(m, op) <=> op.stage \in m.envelopes)
           /\ op.kind = "APPROVE" => (Answers(m, op) <=> m.granted)
           /\ op.kind = "EXECUTE" => (Answers(m, op) <=> op.stage \in m.receipts)
           /\ op.kind \in {"CREATE_RUN", "DELEGATE", "APPROVE", "EXECUTE"}
BY OpsAre DEF Answers

LEMMA AlikeAnswers ==
    ASSUME NEW m \in Snapshot, NEW n \in Snapshot, Alike(m, n), NEW op \in Ops
    PROVE  Answers(n, op) <=> Answers(m, op)
BY AnswersOf DEF Alike

\* An answer adds what it answers, and only that.
LEMMA SettledAnswers ==
    ASSUME NEW m \in Snapshot, NEW op \in Ops, m.pending = op, NEW other \in Ops
    PROVE  Answers(Settled(m), other) <=> Answers(m, other) \/ other = op
<1> DEFINE q == Settled(m)
<1>1. Alike(m, m)
  BY DEF Alike
<1>2. /\ q.run <=> (m.run \/ op.kind = "CREATE_RUN")
      /\ q.granted <=> (m.granted \/ op.kind = "APPROVE")
      /\ op.kind \in {"CREATE_RUN", "DELEGATE"} =>
            q.envelopes = m.envelopes \cup {op.stage}
      /\ op.kind \notin {"CREATE_RUN", "DELEGATE"} => q.envelopes = m.envelopes
      /\ op.kind = "EXECUTE" => q.receipts = m.receipts \cup {op.stage}
      /\ op.kind # "EXECUTE" => q.receipts = m.receipts
  BY <1>1, SettledMarked
<1>3. q \in Snapshot
  BY SettledFields
<1> HIDE DEF q
<1>4. CASE other.kind = "CREATE_RUN"
  BY <1>2, <1>3, <1>4, AnswersOf, OpsAre DEF q, CREATE_RUN
<1>5. CASE other.kind = "APPROVE"
  BY <1>2, <1>3, <1>5, AnswersOf, OpsAre DEF q, APPROVE_BILLING
<1>6. CASE other.kind = "DELEGATE"
  <2>1. other.stage \in q.envelopes <=> other.stage \in m.envelopes \/ other = op
    <3>1. CASE op.kind = "DELEGATE"
      <4>1. other.stage = op.stage <=> other = op
        BY <1>6, <3>1, OpsAre
      <4> QED BY <1>2, <3>1, <4>1
    <3>2. CASE op.kind = "CREATE_RUN"
      <4>1. other.stage # SUPPORT /\ op.stage = SUPPORT /\ other # op
        BY <1>6, <3>2, OpsAre DEF CREATE_RUN
      <4> QED BY <1>2, <3>2, <4>1
    <3>3. CASE op.kind \notin {"DELEGATE", "CREATE_RUN"}
      BY <1>2, <1>6, <3>3
    <3> QED BY <3>1, <3>2, <3>3
  <2> QED BY <1>3, <1>6, <2>1, AnswersOf DEF q
<1>7. CASE other.kind = "EXECUTE"
  <2>1. other.stage \in q.receipts <=> other.stage \in m.receipts \/ other = op
    <3>1. CASE op.kind = "EXECUTE"
      <4>1. other.stage = op.stage <=> other = op
        BY <1>7, <3>1, OpsAre
      <4> QED BY <1>2, <3>1, <4>1
    <3>2. CASE op.kind # "EXECUTE"
      BY <1>2, <1>7, <3>2
    <3> QED BY <3>1, <3>2
  <2> QED BY <1>3, <1>7, <2>1, AnswersOf DEF q
<1> QED BY <1>4, <1>5, <1>6, <1>7, OpsAre DEF q

LEMMA SentTyped ==
    ASSUME PlaceInv PROVE \A r \in Sent : r \in Request /\ r.op \in Ops
<1>1. inflight \subseteq Request /\ \A k \in 1..Len(performed) : performed[k] \in Request
  BY DEF PlaceInv, TypeOK
<1>2. \A r \in Request : r.op \in Ops
  BY DEF Request
<1> QED BY <1>1, <1>2 DEF Sent

\* What snapshots say stays in force while no request is sent or performed.
LEMMA LogFrame ==
    ASSUME LogInv, UNCHANGED world, NEW M, Snapshots' \subseteq Snapshots \cup M,
           \A m \in M : Faithful(m),
           \A m1 \in M, m2 \in Snapshots \cup M :
              m1.amount = m2.amount /\ m1.approve = m2.approve,
           disk' = None => durable' = None,
           Sent # {} => durable' # None,
           \A p \in Procs : Target(p)' = "calling" =>
              \A r \in Sent : r.op # mem'[p].pending
    PROVE  LogInv'
<1>1. Sent' = Sent /\ inflight' = inflight /\ performed' = performed
      /\ \A op : Done(op)' <=> Done(op)
  BY DEF world, Sent, Done
<1>2. \A m : Faithful(m)' <=> Faithful(m)
  BY <1>1 DEF Faithful
<1>3. \A m \in Snapshots' : Faithful(m)
  BY DEF LogInv
<1>4. \A m1, m2 \in Snapshots' : m1.amount = m2.amount /\ m1.approve = m2.approve
  <2>1. \A m1, m2 \in Snapshots \cup M : m1.amount = m2.amount /\ m1.approve = m2.approve
    BY DEF LogInv
  <2> QED BY <2>1
<1>5. ASSUME Sent # {} PROVE \A op : Needs(op)' = Needs(op)
  <2>1. disk \in Snapshots /\ disk' \in Snapshots \cup M
    BY <1>5 DEF LogInv, Snapshots
  <2>2. disk'.approve = disk.approve
    BY <2>1 DEF LogInv
  <2> QED BY <2>2 DEF Needs
<1>6. \A r \in inflight : \A op \in Needs(r.op)' : Done(op)
  <2>1. CASE Sent = {}
    BY <2>1 DEF Sent
  <2>2. CASE Sent # {}
    BY <1>5, <2>2 DEF LogInv
  <2> QED BY <2>1, <2>2
<1>7. StagesInOrder'
  <2>1. CASE Sent = {}
    BY <1>1, <2>1 DEF Sent, StagesInOrder
  <2>2. CASE Sent # {}
    BY <1>1, <1>5, <2>2 DEF LogInv, StagesInOrder
  <2> QED BY <2>1, <2>2
<1>8. EachOperationOnce' /\ \A r \in inflight' : ~Done(r.op)'
  BY <1>1 DEF LogInv, EachOperationOnce
<1>9. /\ \A m \in Snapshots' : Faithful(m)'
      /\ \A r \in inflight' : \A op \in Needs(r.op)' : Done(op)'
      /\ \A p \in Procs : Target(p)' = "calling" =>
            \A r \in Sent' : r.op # mem'[p].pending
      /\ Sent' # {} => durable' # None
      /\ \A r1, r2 \in inflight' : r1.op = r2.op => r1 = r2
  BY <1>1, <1>2, <1>3, <1>6 DEF LogInv
<1> QED BY <1>4, <1>7, <1>8, <1>9 DEF LogInv

LEMMA CheckpointMoves ==
    ASSUME PlaceInv, NEW p \in Procs, NEW m, NEW then, Checkpoint(p, m, then),
           \A q \in Procs \ {p} : pc[q] = "off", UNCHANGED <<disk, durable>>
    PROVE  /\ Target(p)' = then /\ mem'[p] = m
           /\ \A q \in Procs \ {p} : Target(q)' = "off" /\ mem'[q] = mem[q]
           /\ Snapshots' \subseteq Snapshots \cup {m}
<1>1. /\ pc'[p] = "saving" /\ mem'[p] = m /\ next'[p] = then
      /\ \A q \in Procs \ {p} : pc'[q] = pc[q] /\ mem'[q] = mem[q]
  BY DEF PlaceInv, TypeOK, Checkpoint
<1>2. Snapshots' \subseteq Snapshots \cup {m}
  BY <1>1 DEF Snapshots
<1> QED BY <1>1, <1>2 DEF Target

\* A process announces a call that no request was ever sent for.
LEMMA BeginLog ==
    ASSUME PlaceInv, LogInv, NEW p \in Procs, pc[p] \in {"opened", "ready"},
           NEW op \in Ops, NEW n \in Snapshot, Alike(mem[p], n), Begin(p, op, n),
           UNCHANGED <<disk, durable, world>>,
           ~Answers(mem[p], op),
           \A o \in NeedsOf(mem[p], op) : o \in Ops /\ Answers(mem[p], o)
    PROVE  LogInv'
<1> DEFINE m == mem[p]
           x == [n EXCEPT !.pending = op]
<1>1. m \in Snapshot /\ m \in Snapshots /\ m.pending = None
  BY MemIsSnapshot DEF PlaceInv, Placed, Target
<1>2. x \in Snapshot /\ x.pending = op /\ Alike(n, x)
  BY MarkedFields
<1>3. Checkpoint(p, x, "calling")
  BY DEF Begin
<1>4. \A q \in Procs \ {p} : pc[q] = "off"
  BY OneRuns
<1> HIDE DEF x
<1>5. Alike(m, x)
  BY <1>2 DEF Alike
<1>6. \A r \in Sent : r.op \in Ops /\ Answers(m, r.op)
  <2>1. \A r \in Sent : r.op \in Ops /\ r.op # None
    BY SentTyped, NoneIsNoData
  <2> QED BY <1>1, <2>1 DEF LogInv, Faithful
<1>7. Faithful(x)
  <2>1. \A o \in Ops : Answers(x, o) <=> Answers(m, o)
    BY <1>1, <1>2, <1>5, AlikeAnswers
  <2>2. \A o \in Ops : Answers(m, o) => Done(o)
    BY <1>1 DEF LogInv, Faithful
  <2>3. NeedsOf(x, op) = NeedsOf(m, op)
    BY <1>5 DEF NeedsOf, Alike
  <2> QED BY <1>2, <1>6, <2>1, <2>2, <2>3 DEF Faithful
<1>8. \A r \in Sent : r.op # op
  BY <1>6
<1>9. /\ Target(p)' = "calling" /\ mem'[p] = x
      /\ \A q \in Procs \ {p} : Target(q)' = "off"
      /\ Snapshots' \subseteq Snapshots \cup {x}
  BY <1>3, <1>4, CheckpointMoves
<1>10. \A q \in Procs : Target(q)' = "calling" => \A r \in Sent : r.op # mem'[q].pending
  BY <1>2, <1>8, <1>9
<1>11. \A y \in Snapshots \cup {x} : x.amount = y.amount /\ x.approve = y.approve
  BY <1>1, <1>5 DEF LogInv, Alike
<1>12. (disk' = None => durable' = None) /\ (Sent # {} => durable' # None)
  BY DEF LogInv
<1>13. PICK M : M = {x}
  OBVIOUS
<1>14. /\ Snapshots' \subseteq Snapshots \cup M
       /\ \A y \in M : Faithful(y)
       /\ \A y1 \in M, y2 \in Snapshots \cup M :
             y1.amount = y2.amount /\ y1.approve = y2.approve
  BY <1>7, <1>9, <1>11, <1>13
<1> QED BY <1>10, <1>12, <1>14, LogFrame

\* Another snapshot that answers what was answered, without a marker.
LEMMA QuietLog ==
    ASSUME PlaceInv, LogInv, NEW p \in Procs, NEW m \in Snapshot, NEW then,
           then # "calling", Checkpoint(p, m, then),
           \A q \in Procs \ {p} : pc[q] = "off", UNCHANGED <<disk, durable, world>>,
           Faithful(m),
           \A y \in Snapshots : m.amount = y.amount /\ m.approve = y.approve
    PROVE  LogInv'
<1>1. /\ Target(p)' = then
      /\ \A q \in Procs \ {p} : Target(q)' = "off"
      /\ Snapshots' \subseteq Snapshots \cup {m}
  BY CheckpointMoves
<1>2. \A q \in Procs : Target(q)' # "calling"
  BY <1>1
<1>3. \A y \in Snapshots \cup {m} : m.amount = y.amount /\ m.approve = y.approve
  OBVIOUS
<1>4. (disk' = None => durable' = None) /\ (Sent # {} => durable' # None)
  BY DEF LogInv
<1>5. PICK M : M = {m}
  OBVIOUS
<1>6. /\ Snapshots' \subseteq Snapshots \cup M
      /\ \A y \in M : Faithful(y)
      /\ \A y1 \in M, y2 \in Snapshots \cup M :
            y1.amount = y2.amount /\ y1.approve = y2.approve
  BY <1>1, <1>3, <1>5
<1> QED BY <1>2, <1>4, <1>6, LogFrame

\* Nothing but the places of processes and the copies that are kept.
LEMMA KeptLog ==
    ASSUME LogInv, UNCHANGED world, Snapshots' \subseteq Snapshots,
           disk' = None => durable' = None,
           durable = None \/ durable' # None,
           \A p \in Procs : Target(p)' = "calling" =>
              Target(p) = "calling" /\ mem'[p] = mem[p]
    PROVE  LogInv'
<1>1. PICK M : M = {}
  OBVIOUS
<1>2. Sent # {} => durable' # None
  BY DEF LogInv
<1>3. \A p \in Procs : Target(p)' = "calling" => \A r \in Sent : r.op # mem'[p].pending
  BY DEF LogInv
<1>4. /\ Snapshots' \subseteq Snapshots \cup M
      /\ \A y \in M : Faithful(y)
      /\ \A y1 \in M, y2 \in Snapshots \cup M :
            y1.amount = y2.amount /\ y1.approve = y2.approve
  BY <1>1
<1> QED BY <1>2, <1>3, <1>4, LogFrame

\* A request is sent once its announcement is safe.
LEMMA SendLog ==
    ASSUME PlaceInv, LogInv, NEW p \in Procs, Send(p)
    PROVE  LogInv'
<1> DEFINE m == mem[p]
           r == CallOf(p)
<1>1. /\ pc[p] = "calling" /\ inflight' = inflight \cup {r}
      /\ pc' = [pc EXCEPT ![p] = "waiting"]
      /\ UNCHANGED <<next, mem, job, lock, disk, durable, performed>>
  BY DEF Send
<1>2. /\ m \in Snapshot /\ m \in Snapshots /\ m # None /\ m.pending # None
      /\ disk = m /\ durable = m
  BY <1>1, MemIsSnapshot DEF PlaceInv, Placed, Target
<1>3. r.op = m.pending /\ m.pending \in Ops
  BY <1>2, SnapshotFields, CallIsRequest
<1> HIDE DEF r
<1>4. Snapshots = {m} /\ Snapshots' = {m}
  <2>1. \A q \in Procs \ {p} : mem[q] = None
    BY <1>1, OneRuns DEF PlaceInv, Placed
  <2> QED BY <1>1, <1>2, <2>1 DEF Snapshots
<1>5. Sent' = Sent \cup {r} /\ \A op : Done(op)' <=> Done(op)
  BY <1>1 DEF Sent, Done
<1>6. \A x \in Sent : x.op # r.op
  BY <1>1, <1>3 DEF LogInv, Target
<1>7. ~Done(r.op) /\ \A x \in inflight : x.op # r.op
  BY <1>6 DEF Sent, Done
<1>8. \A x \in Snapshots' : Faithful(x)'
  <2>1. Faithful(m)
    BY <1>4 DEF LogInv
  <2> QED BY <1>3, <1>4, <1>5, <2>1 DEF Faithful
<1>9. \A op : Needs(op)' = Needs(op)
  BY <1>1 DEF Needs
<1>10. Needs(r.op) = NeedsOf(m, r.op)
  BY <1>2 DEF Needs, NeedsOf
<1>11. \A op \in Needs(r.op) : Done(op)
  BY <1>2, <1>3, <1>4, <1>10 DEF LogInv, Faithful
<1>12. \A x \in inflight' : /\ ~Done(x.op)'
                            /\ \A op \in Needs(x.op)' : Done(op)'
                            /\ \A y \in inflight' : x.op = y.op => x = y
  BY <1>1, <1>5, <1>7, <1>9, <1>11 DEF LogInv
<1>13. EachOperationOnce' /\ StagesInOrder'
  BY <1>1, <1>9 DEF LogInv, EachOperationOnce, StagesInOrder
<1>14. \A q \in Procs : Target(q)' # "calling"
  <2>1. \A q \in Procs \ {p} : pc[q] = "off" /\ pc'[q] = "off"
    BY <1>1, OneRuns DEF PlaceInv, TypeOK
  <2>2. pc'[p] = "waiting"
    BY <1>1 DEF PlaceInv, TypeOK
  <2> QED BY <2>1, <2>2 DEF Target
<1>15. /\ \A m1, m2 \in Snapshots' : m1.amount = m2.amount /\ m1.approve = m2.approve
       /\ disk' = None => durable' = None
       /\ Sent' # {} => durable' # None
  BY <1>1, <1>2, <1>4
<1> QED BY <1>8, <1>12, <1>13, <1>14, <1>15 DEF LogInv

\* A performed request stays one of those that were sent.
LEMMA PerformSent ==
    ASSUME PlaceInv, NEW r \in inflight, Perform(r)
    PROVE  Sent' = Sent
<1> DEFINE n == Len(performed)
<1>1. inflight' = inflight \ {r} /\ performed' = Append(performed, r)
  BY DEF Perform
<1>2. /\ n \in Nat /\ Len(performed') = n + 1 /\ performed'[n + 1] = r
      /\ \A k \in 1..n : performed'[k] = performed[k]
  BY <1>1 DEF PlaceInv, TypeOK
<1> HIDE DEF n
<1>3. {performed'[k] : k \in 1..Len(performed')}
        = {performed[k] : k \in 1..Len(performed)} \cup {r}
  BY <1>2 DEF n
<1> QED BY <1>1, <1>3 DEF Sent

LEMMA PerformLog ==
    ASSUME PlaceInv, LogInv, NEW r \in inflight, Perform(r)
    PROVE  LogInv'
<1> DEFINE n == Len(performed)
<1>1. /\ inflight' = inflight \ {r} /\ performed' = Append(performed, r)
      /\ UNCHANGED <<pc, next, mem, disk, durable>>
  BY DEF Perform
<1>2. /\ n \in Nat /\ Len(performed') = n + 1 /\ performed'[n + 1] = r
      /\ \A k \in 1..n : performed'[k] = performed[k]
  BY <1>1 DEF PlaceInv, TypeOK
<1> HIDE DEF n
<1>3. n = Len(performed)
  BY DEF n
<1>4. \A op : Done(op)' <=> Done(op) \/ op = r.op
  BY <1>2, <1>3 DEF Done
<1>5. Sent' = Sent
  BY PerformSent
<1>6. ~Done(r.op) /\ \A x \in inflight' : x.op # r.op
  BY <1>1 DEF LogInv
<1>7. Snapshots' = Snapshots /\ \A q \in Procs : Target(q)' = Target(q)
  BY <1>1 DEF Snapshots, Target
<1>8. \A op : Needs(op)' = Needs(op)
  BY <1>1 DEF Needs
<1>9. EachOperationOnce'
  <2>1. \A k \in 1..n : performed'[k].op # r.op
    BY <1>2, <1>3, <1>6 DEF Done
  <2> QED BY <1>2, <1>3, <2>1 DEF LogInv, EachOperationOnce
<1>10. StagesInOrder'
  <2> SUFFICES ASSUME NEW k \in 1..(n + 1), NEW op \in Needs(performed'[k].op)
               PROVE  \E j \in 1..k - 1 : performed'[j].op = op
    BY <1>2, <1>8 DEF StagesInOrder
  <2>1. CASE k \in 1..n
    <3>1. \E j \in 1..k - 1 : performed[j].op = op
      BY <1>2, <1>3, <2>1 DEF LogInv, StagesInOrder
    <3> QED BY <1>2, <2>1, <3>1
  <2>2. CASE k = n + 1
    <3>1. Done(op)
      BY <1>2, <2>2 DEF LogInv
    <3> QED BY <1>2, <1>3, <2>2, <3>1 DEF Done
  <2> QED BY <1>2, <2>1, <2>2
<1>11. \A x \in inflight' : /\ ~Done(x.op)'
                            /\ \A op \in Needs(x.op)' : Done(op)'
                            /\ \A y \in inflight' : x.op = y.op => x = y
  BY <1>1, <1>4, <1>6, <1>8 DEF LogInv
<1>12. \A m \in Snapshots' : Faithful(m)'
  BY <1>4, <1>5, <1>7 DEF LogInv, Faithful
<1>13. /\ \A m1, m2 \in Snapshots' : m1.amount = m2.amount /\ m1.approve = m2.approve
       /\ disk' = None => durable' = None
       /\ Sent' # {} => durable' # None
       /\ \A p \in Procs : Target(p)' = "calling" =>
             \A x \in Sent' : x.op # mem'[p].pending
  BY <1>1, <1>5, <1>7 DEF LogInv
<1> QED BY <1>9, <1>10, <1>11, <1>12, <1>13 DEF LogInv

LEMMA LoseLog ==
    ASSUME LogInv, NEW r \in inflight, Lose(r)
    PROVE  LogInv'
<1>1. /\ inflight' = inflight \ {r} /\ performed' = performed
      /\ UNCHANGED <<pc, next, mem, disk, durable>>
  BY DEF Lose
<1>2. Sent' \subseteq Sent /\ \A op : Done(op)' <=> Done(op)
  BY <1>1 DEF Sent, Done
<1>3. Snapshots' = Snapshots /\ \A q \in Procs : Target(q)' = Target(q)
  BY <1>1 DEF Snapshots, Target
<1>4. \A op : Needs(op)' = Needs(op)
  BY <1>1 DEF Needs
<1>5. EachOperationOnce' /\ StagesInOrder'
  BY <1>1, <1>4 DEF LogInv, EachOperationOnce, StagesInOrder
<1>6. \A m \in Snapshots' : Faithful(m)'
  BY <1>2, <1>3 DEF LogInv, Faithful
<1>7. \A x \in inflight' : /\ ~Done(x.op)'
                           /\ \A op \in Needs(x.op)' : Done(op)'
                           /\ \A y \in inflight' : x.op = y.op => x = y
  BY <1>1, <1>2, <1>4 DEF LogInv
<1>8. /\ \A m1, m2 \in Snapshots' : m1.amount = m2.amount /\ m1.approve = m2.approve
      /\ disk' = None => durable' = None
      /\ Sent' # {} => durable' # None
      /\ \A p \in Procs : Target(p)' = "calling" =>
            \A x \in Sent' : x.op # mem'[p].pending
  BY <1>1, <1>2, <1>3 DEF LogInv
<1> QED BY <1>5, <1>6, <1>7, <1>8 DEF LogInv

LEMMA LogStep == PlaceInv /\ LogInv /\ [Next]_vars => LogInv'
<1> SUFFICES ASSUME PlaceInv, LogInv, [Next]_vars PROVE LogInv'
  OBVIOUS
<1>0. TypeOK
  BY DEF PlaceInv
<1>1. ASSUME NEW p \in Procs, Own(p)
      PROVE  \A q \in Procs : pc[q] = "off" /\ mem[q] = None
  BY <1>1, WorkflowConstants DEF PlaceInv, Placed, Own
<1>2. ASSUME NEW p \in Procs, NEW amount \in Amounts, NEW approve \in Approvals,
             NEW live \in Models, NEW mode \in {"prepare", "run"},
             Create(p, amount, approve, mode, live)
      PROVE  LogInv'
  <2> DEFINE m == Fresh(amount, approve)
  <2>1. m \in Snapshot
    BY FreshFields, WorkflowConstants
  <2>2. /\ Own(p) /\ Checkpoint(p, m, "opened") /\ disk = None
        /\ UNCHANGED <<disk, durable, world>>
    BY <1>2 DEF Create
  <2>3. durable = None /\ Sent = {} /\ Snapshots = {}
    BY <1>1, <2>2 DEF LogInv, Snapshots
  <2>4. Faithful(m)
    <3>1. \A op \in Ops : ~Answers(m, op)
      BY <2>1, AnswersOf DEF Fresh
    <3>2. m.pending = None
      BY DEF Fresh
    <3> QED BY <2>3, <3>1, <3>2 DEF Faithful
  <2> HIDE DEF m
  <2> QED BY <1>1, <2>1, <2>2, <2>3, <2>4, QuietLog
<1>3. ASSUME NEW p \in Procs, NEW live \in Models, Resume(p, live)
      PROVE  LogInv'
  <2>1. /\ Own(p) /\ Checkpoint(p, disk, "opened") /\ disk # None
        /\ UNCHANGED <<disk, durable, world>>
    BY <1>3 DEF Resume
  <2>2. disk \in Snapshots /\ disk \in Snapshot
    BY <1>0, <2>1 DEF Snapshots, TypeOK
  <2>3. Faithful(disk) /\ \A y \in Snapshots : disk.amount = y.amount /\ disk.approve = y.approve
    BY <2>2 DEF LogInv
  <2> QED BY <1>1, <2>1, <2>2, <2>3, QuietLog
<1>4. ASSUME NEW p \in Procs, pc[p] # "off"
      PROVE  /\ mem[p] \in Snapshot /\ mem[p] \in Snapshots /\ mem[p] # None /\ Placed(p)
             /\ Faithful(mem[p]) /\ Alike(mem[p], mem[p])
             /\ \A y \in Snapshots : mem[p].amount = y.amount /\ mem[p].approve = y.approve
             /\ \A q \in Procs \ {p} : pc[q] = "off"
  <2>1. mem[p] \in Snapshots
    BY <1>4, MemIsSnapshot
  <2> QED BY <1>4, <2>1, MemIsSnapshot, OneRuns DEF PlaceInv, LogInv, Alike
<1>5. ASSUME NEW p \in Procs, Rename(p) PROVE LogInv'
  <2>1. /\ pc[p] = "saving" /\ pc' = [pc EXCEPT ![p] = "syncing"] /\ disk' = mem[p]
        /\ UNCHANGED <<next, mem, durable, world>>
    BY <1>5 DEF Rename
  <2>2. mem[p] # None
    BY <1>4, <2>1
  <2>3. Snapshots' \subseteq Snapshots
    BY <2>1 DEF Snapshots
  <2>4. \A q \in Procs : Target(q)' = Target(q)
    BY <1>0, <2>1 DEF Target, TypeOK
  <2> QED BY <2>1, <2>2, <2>3, <2>4, KeptLog
<1>6. ASSUME NEW p \in Procs, SyncDirectory(p) PROVE LogInv'
  <2>1. /\ pc[p] = "syncing" /\ pc' = [pc EXCEPT ![p] = next[p]] /\ durable' = disk
        /\ UNCHANGED <<next, mem, disk, world>>
    BY <1>6 DEF SyncDirectory
  <2>2. disk # None
    BY <1>4, <2>1 DEF Placed
  <2>3. Snapshots' \subseteq Snapshots
    BY <2>1 DEF Snapshots
  <2>4. \A q \in Procs : Target(q)' = Target(q)
    <3>1. next[p] \in {"opened", "ready", "calling"}
      BY <1>4, <2>1 DEF Placed
    <3> QED BY <1>0, <2>1, <3>1 DEF Target, TypeOK
  <2> QED BY <2>1, <2>2, <2>3, <2>4, KeptLog
<1>7. ASSUME NEW p \in Procs, Start(p) PROVE LogInv'
  <2>1. pc[p] = "opened" /\ UNCHANGED <<disk, durable, world>>
    BY <1>7 DEF Start
  <2>2. CASE mem[p].run
    <3>1. Checkpoint(p, mem[p], "ready")
      BY <1>7, <2>2 DEF Start
    <3> QED BY <1>4, <2>1, <3>1, QuietLog
  <2>3. CASE ~mem[p].run
    <3>1. Begin(p, CREATE_RUN, mem[p])
      BY <1>7, <2>3 DEF Start
    <3>2. CREATE_RUN \in Ops /\ NeedsOf(mem[p], CREATE_RUN) = {}
      <4>1. CREATE_RUN \in Ops /\ CREATE_RUN.kind = "CREATE_RUN"
        BY DEF Ops, CREATE_RUN
      <4> QED BY <4>1, NeedsAre
    <3>3. ~Answers(mem[p], CREATE_RUN)
      BY <1>4, <2>1, <2>3, <3>2, AnswersOf DEF CREATE_RUN
    <3> QED BY <1>4, <2>1, <3>1, <3>2, <3>3, BeginLog
  <2> QED BY <2>2, <2>3
<1>8. ASSUME NEW p \in Procs, Ready(p)
      PROVE  /\ pc[p] = "ready" /\ pc[p] # "off" /\ mem[p].pending = None
             /\ mem[p].run /\ Consistent(mem[p])
  <2>1. pc[p] = "ready" /\ pc[p] # "off"
    BY <1>8 DEF Ready
  <2>2. mem[p].pending = None /\ mem[p].run
    BY <1>4, <2>1 DEF Placed, Target
  <2>3. Consistent(Settled(mem[p]))
    BY <1>4, <2>1 DEF PlaceInv
  <2> QED BY <1>4, <2>1, <2>2, <2>3, SettledFields
<1>9. ASSUME NEW p \in Procs, NEW s \in Stages, Transition(p, s) PROVE LogInv'
  <2>1. /\ Ready(p) /\ mem[p].receipts # Stages /\ s = Current(mem[p])
        /\ s \notin mem[p].envelopes /\ Begin(p, DELEGATE(s), mem[p])
        /\ UNCHANGED <<disk, durable, world>>
    BY <1>9 DEF Transition, AtStage
  <2>2. /\ mem[p] \in Snapshot /\ pc[p] = "ready" /\ Alike(mem[p], mem[p])
        /\ mem[p].run /\ Consistent(mem[p])
    BY <1>4, <1>8, <2>1
  <2>3. s # SUPPORT
    BY <2>1, <2>2, RunHasSupport
  <2>4. s - 1 \in Stages /\ s - 1 \in mem[p].receipts
    <3>1. s - 1 \in Stages /\ s - 1 < s
      BY <2>3 DEF Stages, SUPPORT, BILLING, NOTIFICATION
    <3> QED BY <2>1, <2>2, <3>1, CurrentStage
  <2>5. /\ DELEGATE(s) \in Ops /\ DELEGATE(s).stage = s /\ DELEGATE(s).kind = "DELEGATE"
        /\ EXECUTE(s - 1) \in Ops /\ EXECUTE(s - 1).kind = "EXECUTE"
        /\ EXECUTE(s - 1).stage = s - 1
    BY <2>3, <2>4 DEF Ops, DELEGATE, EXECUTE
  <2>6. NeedsOf(mem[p], DELEGATE(s)) = {EXECUTE(s - 1)}
    BY <2>5, NeedsAre
  <2>7. ~Answers(mem[p], DELEGATE(s)) /\ Answers(mem[p], EXECUTE(s - 1))
    BY <2>1, <2>2, <2>4, <2>5, AnswersOf
  <2> QED BY <2>1, <2>2, <2>5, <2>6, <2>7, BeginLog
<1>10. ASSUME NEW p \in Procs, NEW s \in Stages, NEW order \in Orders,
              Propose(p, s, order)
       PROVE  LogInv'
  <2> DEFINE n == Proposed(mem[p], s, order)
  <2>1. Ready(p) /\ Checkpoint(p, n, "ready") /\ UNCHANGED <<disk, durable, world>>
    BY <1>10 DEF Propose, Proposed
  <2>2. pc[p] # "off" /\ mem[p].pending = None /\ mem[p] \in Snapshot
    BY <1>4, <1>8, <2>1
  <2>3. n \in Snapshot /\ Alike(mem[p], n) /\ n.pending = None
    BY <2>2, ProposedFields
  <2> HIDE DEF n
  <2>4. Faithful(n)
    <3>1. \A op \in Ops : Answers(n, op) <=> Answers(mem[p], op)
      BY <2>2, <2>3, AlikeAnswers
    <3> QED BY <1>4, <2>2, <2>3, <3>1, SentTyped DEF Faithful
  <2>5. \A y \in Snapshots : n.amount = y.amount /\ n.approve = y.approve
    BY <1>4, <2>2, <2>3 DEF Alike
  <2> QED BY <1>4, <2>1, <2>2, <2>3, <2>4, <2>5, QuietLog
<1>11. ASSUME NEW p \in Procs, ApproveBilling(p) PROVE LogInv'
  <2>1. /\ Ready(p) /\ BILLING \in mem[p].envelopes /\ ~mem[p].granted
        /\ Begin(p, APPROVE_BILLING, mem[p])
        /\ UNCHANGED <<disk, durable, world>>
    BY <1>11 DEF ApproveBilling, Executing, NeedsApproval
  <2>2. mem[p] \in Snapshot /\ pc[p] = "ready" /\ Alike(mem[p], mem[p])
    BY <1>4, <1>8, <2>1
  <2>3. /\ APPROVE_BILLING \in Ops /\ APPROVE_BILLING.kind = "APPROVE"
        /\ DELEGATE(BILLING) \in Ops /\ DELEGATE(BILLING).kind = "DELEGATE"
        /\ DELEGATE(BILLING).stage = BILLING
    BY DEF Ops, APPROVE_BILLING, DELEGATE, Stages, SUPPORT, BILLING, NOTIFICATION
  <2>4. NeedsOf(mem[p], APPROVE_BILLING) = {DELEGATE(BILLING)}
    BY <2>3, NeedsAre
  <2>5. ~Answers(mem[p], APPROVE_BILLING) /\ Answers(mem[p], DELEGATE(BILLING))
    BY <2>1, <2>2, <2>3, AnswersOf
  <2> QED BY <2>1, <2>2, <2>3, <2>4, <2>5, BeginLog
<1>12. ASSUME NEW p \in Procs, NEW s \in Stages, ExecuteChecked(p, s) PROVE LogInv'
  <2> DEFINE n == [mem[p] EXCEPT !.attempted = @ \cup {s}]
  <2>1. /\ Ready(p) /\ s \in mem[p].envelopes /\ s = Current(mem[p])
        /\ mem[p].receipts # Stages /\ Begin(p, EXECUTE(s), n)
        /\ s = BILLING /\ mem[p].approve => mem[p].granted
        /\ UNCHANGED <<disk, durable, world>>
    BY <1>12 DEF ExecuteChecked, Executing, AtStage, NeedsApproval
  <2>2. mem[p] \in Snapshot /\ pc[p] = "ready" /\ mem[p].run
    BY <1>4, <1>8, <2>1
  <2>3. n \in Snapshot /\ Alike(mem[p], n)
    BY <2>2, AttemptedFields
  <2>4. s \notin mem[p].receipts
    BY <2>1, <2>2, CurrentStage
  <2>5. /\ EXECUTE(s) \in Ops /\ EXECUTE(s).kind = "EXECUTE" /\ EXECUTE(s).stage = s
        /\ CREATE_RUN \in Ops /\ CREATE_RUN.kind = "CREATE_RUN"
        /\ APPROVE_BILLING \in Ops /\ APPROVE_BILLING.kind = "APPROVE"
        /\ s # SUPPORT => /\ DELEGATE(s) \in Ops /\ DELEGATE(s).kind = "DELEGATE"
                          /\ DELEGATE(s).stage = s
    BY DEF Ops, EXECUTE, CREATE_RUN, APPROVE_BILLING, DELEGATE
  <2> HIDE DEF n
  <2>6. ~Answers(mem[p], EXECUTE(s))
    BY <2>2, <2>4, <2>5, AnswersOf
  <2>7. \A o \in NeedsOf(mem[p], EXECUTE(s)) : o \in Ops /\ Answers(mem[p], o)
    <3>1. CASE s = SUPPORT
      <4>1. NeedsOf(mem[p], EXECUTE(s)) = {CREATE_RUN}
        BY <2>5, <3>1, NeedsAre
      <4> QED BY <2>2, <2>5, <4>1, AnswersOf
    <3>2. CASE s # SUPPORT
      <4>1. NeedsOf(mem[p], EXECUTE(s)) \subseteq {DELEGATE(s)} \cup
               IF s = BILLING /\ mem[p].approve THEN {APPROVE_BILLING} ELSE {}
        BY <2>5, <3>2, NeedsAre
      <4>2. /\ Answers(mem[p], DELEGATE(s))
            /\ s = BILLING /\ mem[p].approve => Answers(mem[p], APPROVE_BILLING)
        BY <2>1, <2>2, <2>5, <3>2, AnswersOf
      <4> QED BY <2>5, <3>2, <4>1, <4>2
    <3> QED BY <3>1, <3>2
  <2> QED BY <2>1, <2>2, <2>3, <2>5, <2>6, <2>7, BeginLog
<1>13. ASSUME NEW p \in Procs, pc[p] # "off", NEW place \in {"done", "failed"},
              pc' = [pc EXCEPT ![p] = place],
              UNCHANGED <<next, mem, disk, durable, world>>
       PROVE  LogInv'
  <2>1. Snapshots' \subseteq Snapshots
    BY <1>13 DEF Snapshots
  <2>2. \A q \in Procs : Target(q)' = "calling" => Target(q) = "calling"
    BY <1>0, <1>13 DEF Target, TypeOK
  <2>3. (disk = None => durable = None) /\ disk' = disk /\ durable' = durable /\ mem' = mem
    BY <1>13 DEF LogInv
  <2> QED BY <1>13, <2>1, <2>2, <2>3, KeptLog
<1>14. ASSUME NEW p \in Procs, Return(p) PROVE LogInv'
  <2>1. pc[p] # "off"
    BY <1>8, <1>14 DEF Return
  <2> QED BY <1>13, <1>14, <2>1 DEF Return
<1>15. ASSUME NEW p \in Procs, Complete(p) PROVE LogInv'
  <2> DEFINE op == mem[p].pending
             n == Settle(mem[p], op)
  <2>1. /\ pc[p] = "waiting" /\ pc[p] # "off" /\ Checkpoint(p, n, "ready")
        /\ Answered(CallOf(p))
        /\ UNCHANGED <<disk, durable, world>>
    BY <1>15 DEF Complete, Settle
  <2>2. mem[p] \in Snapshot /\ op \in Ops /\ op # None
    BY <1>4, <2>1, SnapshotFields DEF Placed, Target
  <2>3. n = Settled(mem[p])
    BY <2>2 DEF Settled
  <2>4. CallOf(p).op = op
    BY <2>2, CallIsRequest
  <2>5. Done(op)
    BY <2>1, <2>4 DEF Answered, Done
  <2> HIDE DEF n
  <2>6. n \in Snapshot /\ n.pending = None
    BY <2>2, <2>3, SettledFields
  <2>7. n.amount = mem[p].amount /\ n.approve = mem[p].approve
    BY <2>2, RecordFields DEF n
  <2> HIDE DEF op
  <2>8. \A o \in Ops : Answers(n, o) <=> Answers(mem[p], o) \/ o = op
    BY <2>2, <2>3, SettledAnswers DEF op
  <2>9. Faithful(n)
    <3>1. \A o \in Ops : Answers(n, o) => Done(o)
      BY <1>4, <2>1, <2>5, <2>8 DEF Faithful
    <3>2. \A r \in Sent : Answers(n, r.op)
      BY <1>4, <2>1, <2>8, SentTyped DEF Faithful, op
    <3> QED BY <2>6, <3>1, <3>2 DEF Faithful
  <2>10. \A y \in Snapshots : n.amount = y.amount /\ n.approve = y.approve
    BY <1>4, <2>1, <2>7
  <2> QED BY <1>4, <2>1, <2>6, <2>9, <2>10, QuietLog
<1>16. ASSUME NEW p \in Procs, Fail(p) PROVE LogInv'
  BY <1>13, <1>16 DEF Fail
<1>17. ASSUME NEW S \in SUBSET Procs, Stop(S), disk' \in {disk, durable},
              durable' \in {disk, durable},
              \A p \in Procs \ S : disk' = disk /\ durable' = durable,
              disk' = None => durable' = None,
              durable = None \/ durable' # None
       PROVE  LogInv'
  <2>1. Snapshots' \subseteq Snapshots /\ UNCHANGED world
    BY <1>17, StopPlaces DEF Stop
  <2>2. \A q \in Procs : Target(q)' = "calling" => Target(q) = "calling" /\ mem'[q] = mem[q]
    BY <1>17 DEF Stop, Target
  <2> QED BY <1>17, <2>1, <2>2, KeptLog
<1>18. ASSUME NEW p \in Procs, Close(p) \/ Crash(p) PROVE LogInv'
  <2>1. Stop({p}) /\ UNCHANGED <<disk, durable>>
    BY <1>18 DEF Close, Crash
  <2>2. disk = None => durable = None
    BY DEF LogInv
  <2> QED BY <1>17, <2>1, <2>2
<1>19. CASE PowerFailure
  <2>1. PICK S \in SUBSET Procs : S = Procs
    OBVIOUS
  <2>2. Stop(S) /\ disk' \in {disk, durable} /\ durable' = disk'
    BY <1>19, <2>1 DEF PowerFailure, Stop
  <2>3. durable = None \/ durable' # None
    BY <2>2 DEF LogInv
  <2>4. \A p \in Procs \ S : disk' = disk /\ durable' = durable
    BY <2>1
  <2> QED BY <1>17, <2>2, <2>3, <2>4
<1>20. CASE UNCHANGED vars
  <2>1. Snapshots' \subseteq Snapshots /\ \A q \in Procs : Target(q)' = Target(q)
    BY <1>20 DEF Snapshots, Target, vars
  <2>2. /\ UNCHANGED world /\ mem' = mem /\ durable' = durable
        /\ disk' = None => durable' = None
    BY <1>20 DEF LogInv, vars, world
  <2> QED BY <2>1, <2>2, KeptLog
<1> QED
  BY <1>2, <1>3, <1>5, <1>6, <1>7, <1>9, <1>10, <1>11, <1>12, <1>14, <1>15, <1>16,
     <1>18, <1>19, <1>20, SendLog, PerformLog, LoseLog
     DEF Next, Progress

LEMMA LogInvariant == Spec => []LogInv
<1>1. Init => LogInv
  <2> SUFFICES ASSUME Init PROVE LogInv
    OBVIOUS
  <2>1. inflight = {} /\ Len(performed) = 0 /\ disk = None /\ durable = None
    BY DEF Init
  <2>2. Sent = {} /\ Snapshots = {} /\ \A p \in Procs : Target(p) # "calling"
    BY <2>1 DEF Init, Sent, Snapshots, Target
  <2> QED BY <2>1, <2>2 DEF LogInv, EachOperationOnce, StagesInOrder
<1> QED BY <1>1, LogStep, PlaceInvariant, PTL DEF Spec

\* However often processes crash, are started again or are started at once, and
\* whatever is lost or late, no run, child, approval or tool call happens twice
\* (Workflow.java:305-313): a call is announced only by a process whose file
\* knows the outcome of every call that was ever sent.
THEOREM EachOnce == Spec => []EachOperationOnce
<1>1. LogInv => EachOperationOnce
  BY DEF LogInv
<1> QED BY <1>1, LogInvariant, PTL

\* The file, and what a power failure leaves of it, holds the answer or the
\* marker of every request, since checkpoint() has synced the marker before
\* the request is sent (Workflow.java:305-312, WorkflowStore.java:75-95).
THEOREM NothingForgotten == Spec => []NothingSentIsForgotten
<1>1. PlaceInv /\ LogInv => NothingSentIsForgotten
  <2> SUFFICES ASSUME PlaceInv, LogInv, NEW r \in Sent, NEW saved \in {disk, durable}
               PROVE  saved # None /\ (Answers(saved, r.op) \/ saved.pending = r.op)
    BY DEF NothingSentIsForgotten, Sent
  <2>1. disk # None /\ durable # None
    BY DEF LogInv
  <2>2. saved \in Snapshots
    BY <2>1 DEF Snapshots
  <2> QED BY <2>1, <2>2 DEF LogInv, Faithful
<1> QED BY <1>1, PlaceInvariant, LogInvariant, PTL

\* Nothing is performed before what it depends on, across all processes: the
\* order of run() (Workflow.java:73-87) survives every crash and restart.
THEOREM InOrder == Spec => []StagesInOrder
<1>1. LogInv => StagesInOrder
  BY DEF LogInv
<1> QED BY <1>1, LogInvariant, PTL

-----------------------------------------------------------------------------
(* Arguments. *)

\* What an operator has been shown or has approved, and a model has planned.
SeenPlanned ==
    {seen \in {announced} \cup {r \in Sent : r.op = APPROVE_BILLING} :
        seen # None /\ seen.planned}

\* A snapshot holds what was shown, and the amount of what was sent.
Pins(m) ==
    /\ \A seen \in SeenPlanned :
          Planned(m, BILLING) /\ ProposedArguments(m, BILLING) = seen.args
    /\ \A r \in Sent : r.args.amount = m.amount

\* prepareApproval() never reaches the approval or the refund.
Unrefunded == \A r \in Sent : r.op # EXECUTE(BILLING)
Prepares(p) == pc[p] # "off" /\ job[p].mode = "prepare"

PinInv ==
    /\ \A m \in Snapshots : Pins(m)
    /\ announced # None => durable # None
    /\ \A r \in Sent : r.op = EXECUTE(BILLING) =>
          \A seen \in SeenPlanned : r.args = seen.args
    /\ \A p \in Procs : Prepares(p) =>
          mem[p].pending \notin {APPROVE_BILLING, EXECUTE(BILLING)} /\ Unrefunded

\* The arguments of Billing depend on two fields of a snapshot.
LEMMA SamePins ==
    ASSUME NEW m, NEW n, Pins(m), n.amount = m.amount,
           \/ n.proposals = m.proposals
           \/ /\ Planned(m, BILLING) => Planned(n, BILLING)
              /\ Planned(m, BILLING) => n.proposals[BILLING] = m.proposals[BILLING]
    PROVE  Pins(n)
<1> SUFFICES ASSUME NEW seen \in SeenPlanned
             PROVE  Planned(n, BILLING) /\ ProposedArguments(n, BILLING) = seen.args
  BY DEF Pins
<1>1. Planned(m, BILLING) /\ ProposedArguments(m, BILLING) = seen.args
  BY DEF Pins
<1>2. Planned(n, BILLING) /\ n.proposals[BILLING] = m.proposals[BILLING]
  BY <1>1 DEF Planned
<1>3. Expected(n) = Expected(m)
  BY DEF Expected
<1> QED BY <1>1, <1>2, <1>3 DEF ProposedArguments

\* Fewer requests, and no other snapshots.
LEMMA KeptPins ==
    ASSUME PinInv, Sent' \subseteq Sent, announced' = announced,
           Snapshots' \subseteq Snapshots, durable = None \/ durable' # None,
           \A p \in Procs : pc'[p] # "off" =>
              pc[p] # "off" /\ mem'[p] = mem[p] /\ job'[p] = job[p]
    PROVE  PinInv'
<1>1. SeenPlanned' \subseteq SeenPlanned
  BY DEF SeenPlanned
<1>2. \A m : Pins(m) => Pins(m)'
  BY <1>1 DEF Pins
<1>3. /\ \A m \in Snapshots' : Pins(m)'
      /\ announced' # None => durable' # None
      /\ \A r \in Sent' : r.op = EXECUTE(BILLING) =>
            \A seen \in SeenPlanned' : r.args = seen.args
  BY <1>1, <1>2 DEF PinInv
<1>4. Unrefunded => Unrefunded'
  BY DEF Unrefunded
<1>5. \A p \in Procs : Prepares(p)' =>
         mem'[p].pending \notin {APPROVE_BILLING, EXECUTE(BILLING)} /\ Unrefunded'
  BY <1>4 DEF PinInv, Prepares
<1> QED BY <1>3, <1>5 DEF PinInv

\* A process writes another snapshot.
LEMMA CheckpointPins ==
    ASSUME PlaceInv, PinInv, NEW p \in Procs, NEW m, NEW then, Checkpoint(p, m, then),
           \A q \in Procs \ {p} : pc[q] = "off",
           UNCHANGED <<disk, durable, world, announced>>, Pins(m),
           job'[p].mode = "prepare" =>
              m.pending \notin {APPROVE_BILLING, EXECUTE(BILLING)} /\ Unrefunded
    PROVE  PinInv'
<1>1. /\ mem'[p] = m /\ Snapshots' \subseteq Snapshots \cup {m}
      /\ \A q \in Procs \ {p} : pc'[q] = "off"
  <2>1. \A q \in Procs \ {p} : pc'[q] = pc[q]
    BY DEF Checkpoint, PlaceInv, TypeOK
  <2> QED BY <2>1, CheckpointMoves
<1>2. Sent' = Sent /\ announced' = announced /\ durable' = durable
  BY DEF Sent, world
<1>3. SeenPlanned' = SeenPlanned /\ (Unrefunded' <=> Unrefunded)
  BY <1>2 DEF SeenPlanned, Unrefunded
<1>4. \A x : Pins(x)' <=> Pins(x)
  BY <1>2, <1>3 DEF Pins
<1>5. \A x \in Snapshots' : Pins(x)'
  BY <1>1, <1>4 DEF PinInv
<1>6. \A q \in Procs : Prepares(q)' =>
         mem'[q].pending \notin {APPROVE_BILLING, EXECUTE(BILLING)} /\ Unrefunded'
  BY <1>1, <1>3 DEF Prepares
<1> QED BY <1>2, <1>3, <1>5, <1>6 DEF PinInv

\* An approval that is about to be sent comes before the refund.
LEMMA ApprovalComesFirst ==
    ASSUME PlaceInv, LogInv, NEW p \in Procs, pc[p] = "calling",
           mem[p].pending = APPROVE_BILLING
    PROVE  Unrefunded
<1> SUFFICES ASSUME NEW r \in Sent, r.op = EXECUTE(BILLING) PROVE FALSE
  BY DEF Unrefunded
<1>1. mem[p] \in Snapshot /\ mem[p] \in Snapshots /\ disk = mem[p]
  BY MemIsSnapshot DEF PlaceInv, Placed
<1>2. \A x \in Sent : x.op # APPROVE_BILLING
  BY DEF LogInv, Target
<1>3. APPROVE_BILLING \in Ops /\ APPROVE_BILLING.kind = "APPROVE"
  BY DEF Ops, APPROVE_BILLING
<1>4. mem[p].approve
  <2>1. Consistent(Settled(mem[p]))
    BY <1>1 DEF PlaceInv
  <2>2. Alike(mem[p], mem[p])
    BY DEF Alike
  <2> QED BY <1>1, <1>3, <2>1, <2>2, SettledMarked DEF Consistent
<1>5. APPROVE_BILLING \in Needs(EXECUTE(BILLING))
  <2> DEFINE op == EXECUTE(BILLING)
  <2>1. /\ op # CREATE_RUN /\ op.kind # "DELEGATE" /\ op # APPROVE_BILLING
        /\ op # EXECUTE(SUPPORT)
    BY DEF CREATE_RUN, APPROVE_BILLING, EXECUTE, SUPPORT, BILLING
  <2> HIDE DEF op
  <2>2. Needs(op) = {DELEGATE(BILLING)} \cup {APPROVE_BILLING}
    BY <1>1, <1>4, <2>1 DEF Needs, op
  <2> QED BY <2>2 DEF op
<1>6. Done(APPROVE_BILLING)
  <2>1. CASE r \in inflight
    BY <1>5, <2>1 DEF LogInv
  <2>2. CASE r \notin inflight
    <3>1. PICK k \in 1..Len(performed) : performed[k] = r
      BY <2>2 DEF Sent
    <3>2. PICK j \in 1..k - 1 : performed[j].op = APPROVE_BILLING
      <4>1. APPROVE_BILLING \in Needs(performed[k].op)
        BY <1>5, <3>1
      <4>2. StagesInOrder
        BY DEF LogInv
      <4> QED BY <4>1, <4>2 DEF StagesInOrder
    <3>3. j \in 1..Len(performed)
      BY <3>1, <3>2 DEF PlaceInv, TypeOK
    <3> QED BY <3>2, <3>3 DEF Done
  <2> QED BY <2>1, <2>2
<1> QED BY <1>2, <1>6 DEF Done, Sent

LEMMA BeginPins ==
    ASSUME PlaceInv, PinInv, NEW p \in Procs, pc[p] # "off", NEW op \in Ops,
           NEW n \in Snapshot, n.amount = mem[p].amount, n.proposals = mem[p].proposals,
           Begin(p, op, n), UNCHANGED <<job, disk, durable, world, announced>>,
           job[p].mode = "prepare" => op \notin {APPROVE_BILLING, EXECUTE(BILLING)}
    PROVE  PinInv'
<1> DEFINE x == [n EXCEPT !.pending = op]
<1>1. x.pending = op /\ x.amount = mem[p].amount /\ x.proposals = mem[p].proposals
  BY MarkedFields DEF Alike
<1>2. Checkpoint(p, x, "calling") /\ \A q \in Procs \ {p} : pc[q] = "off"
  BY OneRuns DEF Begin
<1> HIDE DEF x
<1>3. Pins(mem[p])
  BY MemIsSnapshot DEF PinInv
<1>4. Pins(x)
  BY <1>1, <1>3, SamePins
<1>5. job'[p].mode = "prepare" => x.pending \notin {APPROVE_BILLING, EXECUTE(BILLING)} /\ Unrefunded
  BY <1>1 DEF PinInv, Prepares
<1> QED BY <1>2, <1>4, <1>5, CheckpointPins

\* What is announced or asked for is what every copy of the checkpoint holds.
LEMMA GrownPins ==
    ASSUME PinInv, NEW p \in Procs, NEW m, Snapshots = {m}, Snapshots' = {m}, durable' # None,
           UNCHANGED <<mem, job>>,
           \A q \in Procs : pc'[q] # "off" => pc[q] # "off",
           \A seen \in SeenPlanned' : seen \in SeenPlanned
              \/ (Planned(m, BILLING) /\ ProposedArguments(m, BILLING) = seen.args),
           \A r \in Sent' : r \in Sent \/ r.args.amount = m.amount,
           \A r \in Sent' : r.op = EXECUTE(BILLING) =>
              r \in Sent \/ r.args = ProposedArguments(m, BILLING),
           SeenPlanned' \subseteq SeenPlanned \/ Unrefunded',
           \A q \in Procs : Prepares(q)' => (Unrefunded => Unrefunded')
    PROVE  PinInv'
<1>1. Pins(m)
  BY DEF PinInv
<1>2. Pins(m)'
  BY <1>1 DEF Pins
<1>3. \A r \in Sent' : r.op = EXECUTE(BILLING) => \A seen \in SeenPlanned' : r.args = seen.args
  <2>1. CASE Unrefunded'
    BY <2>1 DEF Unrefunded
  <2>2. CASE SeenPlanned' \subseteq SeenPlanned
    BY <1>1, <2>2 DEF PinInv, Pins
  <2> QED BY <2>1, <2>2
<1>4. \A q \in Procs : Prepares(q)' =>
         mem'[q].pending \notin {APPROVE_BILLING, EXECUTE(BILLING)} /\ Unrefunded'
  BY DEF PinInv, Prepares
<1> QED BY <1>2, <1>3, <1>4 DEF PinInv

LEMMA SendPins ==
    ASSUME PlaceInv, LogInv, PinInv, NEW p \in Procs, Send(p)
    PROVE  PinInv'
<1> DEFINE m == mem[p]
           r == CallOf(p)
<1>1. /\ pc[p] = "calling" /\ inflight' = inflight \cup {r}
      /\ pc' = [pc EXCEPT ![p] = "waiting"]
      /\ UNCHANGED <<mem, job, disk, durable, performed, announced>>
  BY DEF Send
<1>2. /\ m \in Snapshot /\ m # None /\ m.pending # None /\ disk = m /\ durable = m
  BY <1>1, MemIsSnapshot DEF PlaceInv, Placed, Target
<1>3. /\ r.op = m.pending /\ m.pending \in Ops
      /\ r.args = ProposedArguments(m, m.pending.stage) /\ r.args.amount = m.amount
      /\ r.planned = Planned(m, m.pending.stage)
  BY <1>2, SnapshotFields, CallIsRequest
<1> HIDE DEF r
<1>4. \A q \in Procs \ {p} : pc[q] = "off"
  BY <1>1, OneRuns
<1>5. Snapshots = {m} /\ Snapshots' = {m}
  <2>1. \A q \in Procs \ {p} : mem[q] = None
    BY <1>4 DEF PlaceInv, Placed
  <2> QED BY <1>1, <1>2, <2>1 DEF Snapshots
<1>6. Sent' = Sent \cup {r}
  BY <1>1 DEF Sent
<1>7. /\ APPROVE_BILLING.stage = BILLING /\ EXECUTE(BILLING).stage = BILLING
      /\ APPROVE_BILLING # EXECUTE(BILLING)
  BY DEF APPROVE_BILLING, EXECUTE
<1>8. \A seen \in SeenPlanned' : seen \in SeenPlanned
         \/ (Planned(m, BILLING) /\ ProposedArguments(m, BILLING) = seen.args)
  BY <1>1, <1>3, <1>6, <1>7 DEF SeenPlanned
<1>9. SeenPlanned' \subseteq SeenPlanned \/ Unrefunded'
  <2>1. CASE r.op = APPROVE_BILLING
    BY <1>1, <1>3, <1>6, <1>7, <2>1, ApprovalComesFirst DEF Unrefunded
  <2>2. CASE r.op # APPROVE_BILLING
    BY <1>1, <1>6, <2>2 DEF SeenPlanned
  <2> QED BY <2>1, <2>2
<1>10. \A q \in Procs : Prepares(q)' => (Unrefunded => Unrefunded')
  <2> SUFFICES ASSUME Prepares(p)' PROVE Unrefunded => Unrefunded'
    BY <1>1, <1>4 DEF Prepares, PlaceInv, TypeOK
  <2>1. Prepares(p)
    BY <1>1 DEF Prepares
  <2>2. r.op # EXECUTE(BILLING)
    BY <1>3, <2>1 DEF PinInv
  <2> QED BY <1>6, <2>2 DEF Unrefunded
<1>11. \A q \in Procs : pc'[q] # "off" => pc[q] # "off"
  BY <1>1 DEF PlaceInv, TypeOK
<1> HIDE DEF m
<1>12. /\ \A x \in Sent' : x \in Sent \/ x.args.amount = m.amount
       /\ \A x \in Sent' : x.op = EXECUTE(BILLING) =>
             x \in Sent \/ x.args = ProposedArguments(m, BILLING)
  BY <1>3, <1>6, <1>7
<1> QED BY <1>1, <1>2, <1>5, <1>8, <1>9, <1>10, <1>11, <1>12, GrownPins

\* What prepareApproval() shows is what is saved.
LEMMA ReturnPins ==
    ASSUME PlaceInv, LogInv, PinInv, NEW p \in Procs, Return(p)
    PROVE  PinInv'
<1> DEFINE m == mem[p]
<1>1. /\ pc[p] = "ready" /\ pc' = [pc EXCEPT ![p] = "done"]
      /\ UNCHANGED <<mem, job, disk, durable, world>>
  BY DEF Return, Ready
<1>2. /\ m \in Snapshot /\ m # None /\ disk = m /\ durable = m
  BY <1>1, MemIsSnapshot DEF PlaceInv, Placed
<1>3. Snapshots = {m} /\ Snapshots' = {m}
  <2>1. \A q \in Procs \ {p} : mem[q] = None
    BY <1>1, OneRuns DEF PlaceInv, Placed
  <2> QED BY <1>1, <1>2, <2>1 DEF Snapshots
<1>4. Sent' = Sent /\ (Unrefunded' <=> Unrefunded)
  <2>1. Sent' = Sent
    BY <1>1 DEF Sent, world
  <2> QED BY <2>1 DEF Unrefunded
<1>5. \A q \in Procs : pc'[q] # "off" => pc[q] # "off"
  BY <1>1 DEF PlaceInv, TypeOK
<1>6. CASE announced' = announced
  <2>1. SeenPlanned' = SeenPlanned
    BY <1>4, <1>6 DEF SeenPlanned
  <2> HIDE DEF m
  <2> QED BY <1>1, <1>2, <1>3, <1>4, <1>5, <2>1, GrownPins
<1>7. CASE /\ Prepared(p) /\ ProposedArguments(m, BILLING) = Expected(m)
           /\ announced' = [args |-> Expected(m), planned |-> Planned(m, BILLING)]
  <2>1. \A seen \in SeenPlanned' : seen \in SeenPlanned
           \/ (Planned(m, BILLING) /\ ProposedArguments(m, BILLING) = seen.args)
    <3>1. announced'.args = Expected(m) /\ announced'.planned = Planned(m, BILLING)
      BY <1>7
    <3> QED BY <1>4, <1>7, <3>1 DEF SeenPlanned
  <2>2. Unrefunded
    BY <1>1, <1>7 DEF PinInv, Prepares, Prepared
  <2> HIDE DEF m
  <2> QED BY <1>1, <1>2, <1>3, <1>4, <1>5, <2>1, <2>2, GrownPins
<1> QED BY <1>6, <1>7 DEF Return

LEMMA PinStep == PlaceInv /\ LogInv /\ PinInv /\ [Next]_vars => PinInv'
<1> SUFFICES ASSUME PlaceInv, LogInv, PinInv, [Next]_vars PROVE PinInv'
  OBVIOUS
<1>1. ASSUME NEW p \in Procs, Own(p)
      PROVE  \A q \in Procs : pc[q] = "off" /\ mem[q] = None
  BY <1>1, WorkflowConstants DEF PlaceInv, Placed, Own
<1>2. ASSUME NEW p \in Procs, NEW amount \in Amounts, NEW approve \in Approvals,
             NEW live \in Models, NEW mode \in {"prepare", "run"},
             Create(p, amount, approve, mode, live)
      PROVE  PinInv'
  <2> DEFINE m == Fresh(amount, approve)
  <2>1. /\ Own(p) /\ Checkpoint(p, m, "opened") /\ disk = None
        /\ UNCHANGED <<disk, durable, world, announced>>
    BY <1>2 DEF Create
  <2>2. Sent = {} /\ announced = None
    BY <2>1 DEF LogInv, PinInv
  <2>3. Pins(m) /\ Unrefunded
    BY <2>2 DEF Pins, SeenPlanned, Unrefunded
  <2>4. m.pending = None
    BY DEF Fresh
  <2>5. APPROVE_BILLING \in Ops /\ EXECUTE(BILLING) \in Ops
    BY DEF Ops, Stages
  <2> HIDE DEF m
  <2> QED BY <1>1, <2>1, <2>3, <2>4, <2>5, NoneIsNoData, CheckpointPins
<1>3. ASSUME NEW p \in Procs, NEW live \in Models, Resume(p, live)
      PROVE  PinInv'
  <2>1. /\ Own(p) /\ Checkpoint(p, disk, "opened") /\ disk # None
        /\ job' = [job EXCEPT ![p] = [mode |-> "run", live |-> live]]
        /\ UNCHANGED <<disk, durable, world, announced>>
    BY <1>3 DEF Resume
  <2>2. Pins(disk)
    BY <2>1 DEF Snapshots, PinInv
  <2>3. job'[p].mode # "prepare"
    BY <2>1 DEF PlaceInv, TypeOK
  <2> QED BY <1>1, <2>1, <2>2, <2>3, CheckpointPins
<1>4. ASSUME NEW p \in Procs, pc[p] # "off"
      PROVE  /\ mem[p] \in Snapshot /\ mem[p] # None /\ Pins(mem[p])
             /\ \A q \in Procs \ {p} : pc[q] = "off"
             /\ pc[p] = "ready" \/ pc[p] = "opened" => mem[p].pending = None
             /\ pc[p] = "waiting" => mem[p].pending \in Ops
             /\ job[p].mode = "prepare" => Unrefunded
             /\ None \notin {APPROVE_BILLING, EXECUTE(BILLING)}
  <2>1. /\ mem[p] \in Snapshot /\ mem[p] # None /\ Pins(mem[p])
        /\ \A q \in Procs \ {p} : pc[q] = "off"
    BY <1>4, MemIsSnapshot, OneRuns DEF PinInv
  <2>2. /\ pc[p] = "ready" \/ pc[p] = "opened" => mem[p].pending = None
        /\ pc[p] = "waiting" => mem[p].pending # None
    BY DEF PlaceInv, Placed, Target
  <2>3. APPROVE_BILLING \in Ops /\ EXECUTE(BILLING) \in Ops
    BY DEF Ops, Stages
  <2> QED BY <1>4, <2>1, <2>2, <2>3, SnapshotFields, NoneIsNoData DEF PinInv, Prepares
<1>5. ASSUME NEW p \in Procs, Rename(p) \/ SyncDirectory(p) \/ Fail(p) PROVE PinInv'
  <2>1. /\ pc[p] # "off" /\ UNCHANGED <<mem, job, world, announced>>
        /\ \A q \in Procs : pc'[q] # "off" => pc[q] # "off"
        /\ disk' \in {disk, mem[p]} /\ durable' \in {durable, disk}
        /\ durable' = durable \/ disk # None
    <3>1. CASE Rename(p)
      BY <3>1 DEF Rename, PlaceInv, TypeOK
    <3>2. CASE SyncDirectory(p)
      <4>1. disk # None
        BY <1>4, <3>2 DEF SyncDirectory, PlaceInv, Placed
      <4> QED BY <3>2, <4>1 DEF SyncDirectory, PlaceInv, TypeOK
    <3>3. CASE Fail(p)
      BY <3>3 DEF Fail, PlaceInv, TypeOK
    <3> QED BY <1>5, <3>1, <3>2, <3>3
  <2>2. Snapshots' \subseteq Snapshots
    BY <2>1 DEF Snapshots
  <2>3. Sent' = Sent
    BY <2>1 DEF Sent, world
  <2> QED BY <2>1, <2>2, <2>3, KeptPins
<1>6. ASSUME NEW p \in Procs, Start(p) PROVE PinInv'
  <2>1. pc[p] = "opened" /\ UNCHANGED <<job, disk, durable, world, announced>>
    BY <1>6 DEF Start
  <2>2. CASE mem[p].run
    <3>1. Checkpoint(p, mem[p], "ready")
      BY <1>6, <2>2 DEF Start
    <3> QED BY <1>4, <2>1, <3>1, CheckpointPins
  <2>3. CASE ~mem[p].run
    <3>1. Begin(p, CREATE_RUN, mem[p])
      BY <1>6, <2>3 DEF Start
    <3>2. CREATE_RUN \in Ops /\ CREATE_RUN \notin {APPROVE_BILLING, EXECUTE(BILLING)}
      BY DEF Ops, CREATE_RUN, APPROVE_BILLING, EXECUTE
    <3> QED BY <1>4, <2>1, <3>1, <3>2, BeginPins
  <2> QED BY <2>2, <2>3
<1>7. ASSUME NEW p \in Procs, NEW s \in Stages, Transition(p, s) PROVE PinInv'
  <2>1. /\ pc[p] = "ready" /\ s \notin mem[p].envelopes /\ Begin(p, DELEGATE(s), mem[p])
        /\ UNCHANGED <<job, disk, durable, world, announced>>
    BY <1>7 DEF Transition, Ready
  <2>2. s # SUPPORT
    <3>1. mem[p].run /\ mem[p].pending = None
      BY <2>1 DEF PlaceInv, Placed, Target
    <3>2. Consistent(mem[p])
      <4>1. Consistent(Settled(mem[p]))
        BY <2>1, MemIsSnapshot DEF PlaceInv
      <4> QED BY <1>4, <2>1, <3>1, <4>1, SettledFields
    <3> QED BY <1>4, <2>1, <3>1, <3>2, RunHasSupport
  <2>3. DELEGATE(s) \in Ops /\ DELEGATE(s) \notin {APPROVE_BILLING, EXECUTE(BILLING)}
    BY <2>2 DEF Ops, DELEGATE, APPROVE_BILLING, EXECUTE
  <2> QED BY <1>4, <2>1, <2>3, BeginPins
<1>8. ASSUME NEW p \in Procs, NEW s \in Stages, NEW order \in Orders,
             Propose(p, s, order)
      PROVE  PinInv'
  <2> DEFINE n == Proposed(mem[p], s, order)
  <2>1. /\ pc[p] = "ready" /\ ~Planned(mem[p], s) /\ Checkpoint(p, n, "ready")
        /\ UNCHANGED <<job, disk, durable, world, announced>>
    BY <1>8 DEF Propose, Proposed, Ready
  <2>2. /\ n.amount = mem[p].amount /\ n.pending = mem[p].pending
        /\ n.proposals = [t \in DOMAIN mem[p].proposals \cup {s} |->
                             IF t = s THEN order ELSE mem[p].proposals[t]]
    BY <1>4, <2>1, ProposedFields DEF Alike
  <2> HIDE DEF n
  <2>3. Pins(n)
    <3>1. Planned(mem[p], BILLING) =>
             Planned(n, BILLING) /\ n.proposals[BILLING] = mem[p].proposals[BILLING]
      BY <2>1, <2>2 DEF Planned
    <3> QED BY <1>4, <2>1, <2>2, <3>1, SamePins
  <2> QED BY <1>4, <2>1, <2>2, <2>3, CheckpointPins
<1>9. ASSUME NEW p \in Procs, ApproveBilling(p) PROVE PinInv'
  <2>1. /\ pc[p] = "ready" /\ job[p].mode # "prepare"
        /\ Begin(p, APPROVE_BILLING, mem[p])
        /\ UNCHANGED <<job, disk, durable, world, announced>>
    BY <1>9 DEF ApproveBilling, Executing, Prepared, Ready
  <2>2. APPROVE_BILLING \in Ops
    BY DEF Ops
  <2> QED BY <1>4, <2>1, <2>2, BeginPins
<1>10. ASSUME NEW p \in Procs, NEW s \in Stages, ExecuteChecked(p, s) PROVE PinInv'
  <2> DEFINE n == [mem[p] EXCEPT !.attempted = @ \cup {s}]
  <2>1. /\ pc[p] = "ready" /\ Begin(p, EXECUTE(s), n)
        /\ job[p].mode = "prepare" => s # BILLING
        /\ UNCHANGED <<job, disk, durable, world, announced>>
    BY <1>10 DEF ExecuteChecked, Executing, Prepared, Ready
  <2>2. n \in Snapshot /\ n.amount = mem[p].amount /\ n.proposals = mem[p].proposals
    BY <1>4, <2>1, AttemptedFields DEF Alike
  <2>3. /\ EXECUTE(s) \in Ops
        /\ s # BILLING => EXECUTE(s) \notin {APPROVE_BILLING, EXECUTE(BILLING)}
    BY DEF Ops, EXECUTE, APPROVE_BILLING
  <2> HIDE DEF n
  <2> QED BY <2>1, <2>2, <2>3, BeginPins
<1>11. ASSUME NEW p \in Procs, Complete(p) PROVE PinInv'
  <2> DEFINE n == Settle(mem[p], mem[p].pending)
  <2>1. /\ pc[p] = "waiting" /\ Checkpoint(p, n, "ready")
        /\ UNCHANGED <<job, disk, durable, world, announced>>
    BY <1>11 DEF Complete, Settle
  <2>2. n.amount = mem[p].amount /\ n.proposals = mem[p].proposals /\ n.pending = None
    BY <1>4, <2>1, RecordFields
  <2> HIDE DEF n
  <2>3. Pins(n)
    BY <1>4, <2>1, <2>2, SamePins
  <2> QED BY <1>4, <2>1, <2>2, <2>3, CheckpointPins
<1>12. ASSUME NEW r \in inflight, Perform(r) \/ Lose(r) PROVE PinInv'
  <2>1. UNCHANGED <<pc, mem, job, disk, durable, announced>>
    BY <1>12 DEF Perform, Lose
  <2>2. Sent' \subseteq Sent
    <3>1. CASE Perform(r)
      BY <3>1, PerformSent
    <3>2. CASE Lose(r)
      BY <3>2 DEF Lose, Sent
    <3> QED BY <1>12, <3>1, <3>2
  <2>3. Snapshots' = Snapshots
    BY <2>1 DEF Snapshots
  <2> QED BY <2>1, <2>2, <2>3, KeptPins
<1>13. ASSUME NEW S \in SUBSET Procs, Stop(S), disk' \in {disk, durable},
              durable' \in {disk, durable}, durable = None \/ durable' # None,
              \A p \in Procs \ S : disk' = disk /\ durable' = durable
       PROVE  PinInv'
  <2>1. Snapshots' \subseteq Snapshots
    BY <1>13, StopPlaces
  <2>2. Sent' = Sent /\ announced' = announced
    BY <1>13 DEF Stop, Sent, world
  <2>3. \A q \in Procs : pc'[q] # "off" =>
           pc[q] # "off" /\ mem'[q] = mem[q] /\ job'[q] = job[q]
    BY <1>13 DEF Stop
  <2> QED BY <1>13, <2>1, <2>2, <2>3, KeptPins
<1>14. ASSUME NEW p \in Procs, Close(p) \/ Crash(p) PROVE PinInv'
  <2>1. Stop({p}) /\ UNCHANGED <<disk, durable>>
    BY <1>14 DEF Close, Crash
  <2> QED BY <1>13, <2>1
<1>15. CASE PowerFailure
  <2>1. PICK S \in SUBSET Procs : S = Procs
    OBVIOUS
  <2>2. Stop(S) /\ disk' \in {disk, durable} /\ durable' = disk'
    BY <1>15, <2>1 DEF PowerFailure, Stop
  <2>3. durable = None \/ durable' # None
    BY <2>2 DEF LogInv
  <2> QED BY <1>13, <2>1, <2>2, <2>3
<1>16. CASE UNCHANGED vars
  <2>1. Snapshots' = Snapshots /\ Sent' = Sent
    BY <1>16 DEF Snapshots, Sent, vars
  <2> QED BY <1>16, <2>1, KeptPins DEF vars
<1> QED
  BY <1>2, <1>3, <1>5, <1>6, <1>7, <1>8, <1>9, <1>10, <1>11, <1>12, <1>14, <1>15,
     <1>16, SendPins, ReturnPins
     DEF Next, Progress

LEMMA PinInvariant == Spec => []PinInv
<1>1. Init => PinInv
  <2> SUFFICES ASSUME Init PROVE PinInv
    OBVIOUS
  <2>1. Sent = {} /\ Snapshots = {} /\ announced = None /\ \A p \in Procs : pc[p] = "off"
    BY DEF Init, Sent, Snapshots
  <2> QED BY <2>1 DEF PinInv, Prepares
<1> QED BY <1>1, PinStep, PlaceInvariant, LogInvariant, PTL DEF Spec

\* Whatever later processes are started with, and whatever a model proposes to
\* them, the amount stays, and a refund that a model had planned when it was
\* shown or approved is executed as it was seen (proposedArguments,
\* Workflow.java:257-271): the proposal is in every copy of the checkpoint by
\* then.
THEOREM ArgumentsPinned == Spec => []ArgumentsArePinned
<1>1. LogInv /\ PinInv => ArgumentsArePinned
  <2> SUFFICES ASSUME LogInv, PinInv, NEW k \in 1..Len(performed)
               PROVE  /\ performed[k].args.amount = disk.amount
                      /\ performed[k].op = EXECUTE(BILLING) =>
                           \A seen \in {announced} \cup {performed[j] : j \in
                                {j \in 1..Len(performed) : performed[j].op = APPROVE_BILLING}} :
                              seen # None /\ seen.planned => performed[k].args = seen.args
    BY DEF ArgumentsArePinned
  <2>1. performed[k] \in Sent
    BY DEF Sent
  <2>2. disk # None
    BY <2>1 DEF LogInv
  <2>3. disk \in Snapshots
    BY <2>2 DEF Snapshots
  <2>4. performed[k].args.amount = disk.amount
    BY <2>1, <2>3 DEF PinInv, Pins
  <2>5. ASSUME NEW seen \in {announced} \cup {performed[j] : j \in
                     {j \in 1..Len(performed) : performed[j].op = APPROVE_BILLING}},
               seen # None, seen.planned
        PROVE  seen \in SeenPlanned
    BY <2>5 DEF SeenPlanned, Sent
  <2> QED BY <2>1, <2>4, <2>5 DEF PinInv
<1> QED BY <1>1, LogInvariant, PinInvariant, PTL

-----------------------------------------------------------------------------
(* The whole refund. *)

\* What a snapshot says once the refund may have been made.
Marked(m) == m.pending = REFUND \/ BILLING \in m.receipts

\* No copy of the checkpoint has forgotten it, and no process announces it anew.
MarkInv ==
    /\ durable # None
    /\ \A m \in Snapshots : Marked(m)
    /\ \A p \in Procs : Target(p) = "calling" => mem[p].pending # REFUND

LEMMA MarkFrame ==
    ASSUME MarkInv, NEW M, Snapshots' \subseteq Snapshots \cup M,
           \A m \in M : Marked(m), durable' # None,
           \A p \in Procs : Target(p)' = "calling" =>
              \/ mem'[p].pending # REFUND
              \/ Target(p) = "calling" /\ mem'[p] = mem[p]
    PROVE  MarkInv'
<1>1. \A m \in Snapshots' : Marked(m)
  BY DEF MarkInv
<1>2. \A p \in Procs : Target(p)' = "calling" => mem'[p].pending # REFUND
  BY DEF MarkInv
<1> QED BY <1>1, <1>2 DEF MarkInv, Marked

\* A process writes another snapshot.
LEMMA CheckpointMark ==
    ASSUME PlaceInv, MarkInv, NEW p \in Procs, NEW m, NEW then, Checkpoint(p, m, then),
           \A q \in Procs \ {p} : pc[q] = "off", UNCHANGED <<disk, durable>>,
           Marked(m), then = "calling" => m.pending # REFUND
    PROVE  MarkInv'
<1>1. /\ Target(p)' = then /\ mem'[p] = m
      /\ \A q \in Procs \ {p} : Target(q)' = "off" /\ mem'[q] = mem[q]
      /\ Snapshots' \subseteq Snapshots \cup {m}
  BY CheckpointMoves
<1>2. \A q \in Procs : Target(q)' = "calling" => mem'[q].pending # REFUND
  BY <1>1
<1>3. durable' # None
  BY DEF MarkInv
<1>4. PICK M : M = {m}
  OBVIOUS
<1>5. Snapshots' \subseteq Snapshots \cup M /\ \A x \in M : Marked(x)
  BY <1>1, <1>4
<1> QED BY <1>2, <1>3, <1>5, MarkFrame

\* A process announces another call.
LEMMA BeginMark ==
    ASSUME PlaceInv, MarkInv, NEW p \in Procs, pc[p] # "off", NEW op \in Ops, op # REFUND,
           NEW n \in Snapshot, BILLING \in n.receipts, Begin(p, op, n),
           UNCHANGED <<disk, durable>>
    PROVE  MarkInv'
<1> DEFINE x == [n EXCEPT !.pending = op]
<1>1. x.pending = op /\ x.receipts = n.receipts
  BY MarkedFields DEF Alike
<1>2. Checkpoint(p, x, "calling") /\ \A q \in Procs \ {p} : pc[q] = "off"
  BY OneRuns DEF Begin
<1>3. Marked(x)
  BY <1>1 DEF Marked
<1> HIDE DEF x
<1> QED BY <1>1, <1>2, <1>3, CheckpointMark

LEMMA MarkStep == PlaceInv /\ MarkInv /\ (disk = None => durable = None) /\ [Next]_vars => MarkInv'
<1> SUFFICES ASSUME PlaceInv, MarkInv, disk = None => durable = None, [Next]_vars
             PROVE  MarkInv'
  OBVIOUS
<1>0. TypeOK /\ durable # None /\ disk # None
  BY DEF PlaceInv, MarkInv
<1>1. ASSUME NEW p \in Procs, Own(p)
      PROVE  \A q \in Procs : pc[q] = "off" /\ mem[q] = None
  BY <1>1, WorkflowConstants DEF PlaceInv, Placed, Own
<1>2. ASSUME NEW p \in Procs, NEW amount, NEW approve, NEW live, NEW mode,
             Create(p, amount, approve, mode, live)
      PROVE  MarkInv'
  BY <1>0, <1>2 DEF Create
<1>3. ASSUME NEW p \in Procs, NEW live \in Models, Resume(p, live) PROVE MarkInv'
  <2>1. /\ Own(p) /\ Checkpoint(p, disk, "opened") /\ UNCHANGED <<disk, durable>>
    BY <1>3 DEF Resume
  <2>2. Marked(disk)
    BY <1>0 DEF MarkInv, Snapshots
  <2> QED BY <1>1, <2>1, <2>2, CheckpointMark
<1>4. ASSUME NEW p \in Procs, pc[p] # "off"
      PROVE  /\ mem[p] \in Snapshot /\ mem[p] # None /\ Marked(mem[p])
             /\ \A q \in Procs \ {p} : pc[q] = "off"
             /\ pc[p] = "ready" \/ pc[p] = "opened" =>
                  mem[p].pending = None /\ BILLING \in mem[p].receipts
             /\ pc[p] = "waiting" => mem[p].pending \in Ops
  <2>1. /\ mem[p] \in Snapshot /\ mem[p] # None /\ Marked(mem[p])
        /\ \A q \in Procs \ {p} : pc[q] = "off"
    BY <1>4, MemIsSnapshot, OneRuns DEF MarkInv
  <2>2. /\ pc[p] = "ready" \/ pc[p] = "opened" => mem[p].pending = None
        /\ pc[p] = "waiting" => mem[p].pending # None
    BY DEF PlaceInv, Placed, Target
  <2>3. REFUND # None
    <3>1. REFUND \in Ops
      BY DEF REFUND, Ops, Stages
    <3> QED BY <3>1, NoneIsNoData
  <2> QED BY <2>1, <2>2, <2>3, SnapshotFields DEF Marked
<1>5. ASSUME NEW p \in Procs, Rename(p) \/ SyncDirectory(p) \/ Fail(p) \/ Return(p) \/ Send(p)
      PROVE  MarkInv'
  <2>1. /\ mem' = mem /\ disk' \in {disk, mem[p]} /\ durable' \in {disk, durable}
        /\ \A q \in Procs : Target(q)' = "calling" => Target(q) = "calling"
    <3>1. CASE Rename(p)
      BY <1>0, <3>1 DEF Rename, Target, TypeOK
    <3>2. CASE SyncDirectory(p)
      BY <1>0, <3>2 DEF SyncDirectory, Target, TypeOK
    <3>3. CASE Fail(p)
      BY <1>0, <3>3 DEF Fail, Target, TypeOK
    <3>4. CASE Return(p)
      BY <1>0, <3>4 DEF Return, Target, TypeOK
    <3>5. CASE Send(p)
      BY <1>0, <3>5 DEF Send, Target, TypeOK
    <3> QED BY <1>5, <3>1, <3>2, <3>3, <3>4, <3>5
  <2>2. PICK M : M = {}
    OBVIOUS
  <2>3. Snapshots' \subseteq Snapshots \cup M /\ \A x \in M : Marked(x)
    BY <2>1, <2>2 DEF Snapshots
  <2> QED BY <1>0, <2>1, <2>3, MarkFrame
<1>6. ASSUME NEW p \in Procs, Start(p) PROVE MarkInv'
  <2>1. pc[p] = "opened" /\ pc[p] # "off" /\ UNCHANGED <<disk, durable>>
    BY <1>6 DEF Start
  <2>2. CASE mem[p].run
    <3>1. Checkpoint(p, mem[p], "ready")
      BY <1>6, <2>2 DEF Start
    <3> QED BY <1>4, <2>1, <3>1, CheckpointMark
  <2>3. CASE ~mem[p].run
    <3>1. Begin(p, CREATE_RUN, mem[p])
      BY <1>6, <2>3 DEF Start
    <3>2. CREATE_RUN \in Ops /\ CREATE_RUN # REFUND
      BY DEF Ops, CREATE_RUN, REFUND, EXECUTE
    <3> QED BY <1>4, <2>1, <3>1, <3>2, BeginMark
  <2> QED BY <2>2, <2>3
<1>7. ASSUME NEW p \in Procs, NEW s \in Stages, Transition(p, s) PROVE MarkInv'
  <2>1. /\ pc[p] = "ready" /\ pc[p] # "off" /\ s \notin mem[p].envelopes
        /\ Begin(p, DELEGATE(s), mem[p]) /\ UNCHANGED <<disk, durable>>
    BY <1>7 DEF Transition, Ready
  <2>2. s # SUPPORT
    <3>1. mem[p].run /\ mem[p].pending = None
      BY <2>1 DEF PlaceInv, Placed, Target
    <3>2. Consistent(mem[p])
      <4>1. Consistent(Settled(mem[p]))
        BY <2>1, MemIsSnapshot DEF PlaceInv
      <4> QED BY <1>4, <2>1, <3>1, <4>1, SettledFields
    <3> QED BY <1>4, <2>1, <3>1, <3>2, RunHasSupport
  <2>3. DELEGATE(s) \in Ops /\ DELEGATE(s) # REFUND
    BY <2>2 DEF Ops, DELEGATE, REFUND, EXECUTE
  <2> QED BY <1>4, <2>1, <2>3, BeginMark
<1>8. ASSUME NEW p \in Procs, NEW s \in Stages, NEW order \in Orders, Propose(p, s, order)
      PROVE  MarkInv'
  <2> DEFINE n == Proposed(mem[p], s, order)
  <2>1. /\ pc[p] = "ready" /\ pc[p] # "off" /\ Checkpoint(p, n, "ready")
        /\ UNCHANGED <<disk, durable>>
    BY <1>8 DEF Propose, Proposed, Ready
  <2>2. n.receipts = mem[p].receipts
    BY <1>4, <2>1, ProposedFields DEF Alike
  <2> HIDE DEF n
  <2>3. Marked(n)
    BY <1>4, <2>1, <2>2 DEF Marked
  <2> QED BY <1>4, <2>1, <2>3, CheckpointMark
<1>9. ASSUME NEW p \in Procs, ApproveBilling(p) PROVE MarkInv'
  <2>1. /\ pc[p] = "ready" /\ pc[p] # "off" /\ Begin(p, APPROVE_BILLING, mem[p])
        /\ UNCHANGED <<disk, durable>>
    BY <1>9 DEF ApproveBilling, Executing, Ready
  <2>2. APPROVE_BILLING \in Ops /\ APPROVE_BILLING # REFUND
    BY DEF Ops, APPROVE_BILLING, REFUND, EXECUTE
  <2> QED BY <1>4, <2>1, <2>2, BeginMark
<1>10. ASSUME NEW p \in Procs, NEW s \in Stages, ExecuteChecked(p, s) PROVE MarkInv'
  <2> DEFINE n == [mem[p] EXCEPT !.attempted = @ \cup {s}]
  <2>1. /\ pc[p] = "ready" /\ pc[p] # "off" /\ mem[p].receipts # Stages
        /\ s = Current(mem[p]) /\ Begin(p, EXECUTE(s), n) /\ UNCHANGED <<disk, durable>>
    BY <1>10 DEF ExecuteChecked, Executing, AtStage, Ready
  <2>2. n \in Snapshot /\ n.receipts = mem[p].receipts
    BY <1>4, <2>1, AttemptedFields DEF Alike
  <2>3. s # BILLING
    <3>1. s \notin mem[p].receipts
      BY <1>4, <2>1, CurrentStage
    <3> QED BY <1>4, <2>1, <3>1
  <2>4. EXECUTE(s) \in Ops /\ EXECUTE(s) # REFUND
    BY <2>3 DEF Ops, EXECUTE, REFUND
  <2> HIDE DEF n
  <2> QED BY <1>4, <2>1, <2>2, <2>4, BeginMark
<1>11. ASSUME NEW p \in Procs, Complete(p) PROVE MarkInv'
  <2> DEFINE op == mem[p].pending
             n == Settle(mem[p], op)
  <2>1. /\ pc[p] = "waiting" /\ pc[p] # "off" /\ Checkpoint(p, n, "ready")
        /\ UNCHANGED <<disk, durable>>
    BY <1>11 DEF Complete, Settle
  <2>2. mem[p] \in Snapshot /\ op \in Ops /\ Marked(mem[p])
    BY <1>4, <2>1
  <2>3. BILLING \in n.receipts
    <3>1. /\ op.kind = "EXECUTE" => n.receipts = mem[p].receipts \cup {op.stage}
          /\ op.kind # "EXECUTE" => n.receipts = mem[p].receipts
      BY <2>2, RecordFields
    <3>2. op = REFUND => op.kind = "EXECUTE" /\ op.stage = BILLING
      BY DEF REFUND, EXECUTE
    <3> QED BY <2>2, <3>1, <3>2 DEF Marked
  <2> HIDE DEF n
  <2>4. Marked(n)
    BY <2>3 DEF Marked
  <2> QED BY <1>4, <2>1, <2>4, CheckpointMark
<1>12. ASSUME UNCHANGED <<pc, next, mem, disk, durable>> PROVE MarkInv'
  BY <1>12 DEF MarkInv, Snapshots, Target, Marked
<1>13. ASSUME NEW r \in inflight, Perform(r) \/ Lose(r) PROVE MarkInv'
  BY <1>12, <1>13 DEF Perform, Lose
<1>14. ASSUME NEW S \in SUBSET Procs, Stop(S), disk' \in {disk, durable},
              durable' \in {disk, durable},
              \A p \in Procs \ S : disk' = disk /\ durable' = durable
       PROVE  MarkInv'
  <2>1. Snapshots' \subseteq Snapshots
    BY <1>14, StopPlaces
  <2>2. \A q \in Procs : Target(q)' = "calling" => Target(q) = "calling" /\ mem'[q] = mem[q]
    BY <1>14 DEF Stop, Target
  <2>3. PICK M : M = {}
    OBVIOUS
  <2>4. Snapshots' \subseteq Snapshots \cup M /\ \A x \in M : Marked(x)
    BY <2>1, <2>3
  <2>5. durable' # None
    BY <1>0, <1>14
  <2> QED BY <2>2, <2>4, <2>5, MarkFrame
<1>15. ASSUME NEW p \in Procs, Close(p) \/ Crash(p) PROVE MarkInv'
  <2>1. Stop({p}) /\ UNCHANGED <<disk, durable>>
    BY <1>15 DEF Close, Crash
  <2> QED BY <1>14, <2>1
<1>16. CASE PowerFailure
  <2>1. PICK S \in SUBSET Procs : S = Procs
    OBVIOUS
  <2>2. Stop(S) /\ disk' \in {disk, durable} /\ durable' = disk'
    BY <1>16, <2>1 DEF PowerFailure, Stop
  <2> QED BY <1>14, <2>1, <2>2
<1>17. CASE UNCHANGED vars
  BY <1>12, <1>17 DEF vars
<1> QED
  BY <1>2, <1>3, <1>5, <1>6, <1>7, <1>8, <1>9, <1>10, <1>11, <1>13, <1>15, <1>16, <1>17
     DEF Next, Progress

\* Approvals are counted, and only what was approved has any.
ApprovedInv ==
    /\ unused \in [Refunds -> Nat]
    /\ \A op \in Refunds : unused[op] > 0 => op \in approved

\* An authorization is for the refund that the workflow was started with.
AsStarted(op) ==
    /\ op \in Refunds /\ op.args.order = OrderId
    /\ \A m \in Snapshots : op.args.amount = m.amount
    /\ op.args.amount \in Large => op \in approved

\* There is one authorization at most, it has one effect at most, and once it is
\* given every copy of the checkpoint is marked and no other refund is asked for.
RefundInv ==
    /\ DOMAIN allowed \subseteq {1}
    /\ \A id \in DOMAIN allowed : AsStarted(allowed[id])
    /\ DOMAIN allowed # {} =>
         MarkInv /\ \A r \in inflight : r.op = REFUND => r \in DOMAIN cleared
    /\ \A r \in DOMAIN cleared : r \in inflight /\ r.op = REFUND /\ cleared[r] \in DOMAIN allowed
    /\ effects \in Seq([id : {1}, op : Refunds]) /\ Len(effects) <= 1
    /\ \A k \in 1..Len(effects) : 1 \in DOMAIN allowed /\ effects[k].op = allowed[1]

refundVars == <<vars, gateway, approved, cleared>>

\* The rest of the system takes no step that the workflow alone might not take.
LEMMA WorkflowSteps ==
    ASSUME [RefundNext]_refundVars
    PROVE  [Next]_vars
<1>1. CASE Elsewhere
  BY <1>1 DEF Elsewhere
<1>2. ASSUME NEW s \in Stages, NEW amount \in Amounts, Console(s, amount) PROVE [Next]_vars
  BY <1>2 DEF Console
<1>3. ASSUME NEW r \in inflight, Authorize(r) PROVE [Next]_vars
  BY <1>3 DEF Authorize
<1>4. ASSUME NEW r \in inflight, ApproveBySelf(r) \/ Pay(r) PROVE [Next]_vars
  <2>1. Perform(r)
    BY <1>4 DEF ApproveBySelf, Pay
  <2> QED BY <2>1 DEF Next
<1>5. CASE UNCHANGED refundVars
  BY <1>5 DEF refundVars
<1> QED BY <1>1, <1>2, <1>3, <1>4, <1>5 DEF RefundNext

\* A request that is sent is the one that its process has announced.
LEMMA NewlySent ==
    ASSUME PlaceInv, [Next]_vars
    PROVE  \A r \in inflight' \ inflight :
              \E p \in Procs : Target(p) = "calling" /\ r.op = mem[p].pending
<1>1. ASSUME NEW p \in Procs, Send(p)
      PROVE  \A r \in inflight' \ inflight : Target(p) = "calling" /\ r.op = mem[p].pending
  <2>1. Target(p) = "calling" /\ inflight' = inflight \cup {CallOf(p)}
    BY <1>1 DEF Send, Target
  <2> QED BY <2>1 DEF CallOf
<1>2. ASSUME NEW r \in inflight, Perform(r) \/ Lose(r) PROVE inflight' \subseteq inflight
  BY <1>2 DEF Perform, Lose
<1>3. ASSUME UNCHANGED inflight PROVE inflight' \subseteq inflight
  BY <1>3
<1>4. ASSUME NEW p \in Procs, NEW S, Stop(S) PROVE UNCHANGED inflight
  BY <1>4 DEF Stop, world
<1>5. ASSUME NEW p \in Procs, NEW amount, NEW approve, NEW live, NEW mode,
             Create(p, amount, approve, mode, live)
      PROVE  UNCHANGED inflight
  BY <1>5 DEF Create, world
<1>6. ASSUME NEW p \in Procs, NEW live, Resume(p, live) PROVE UNCHANGED inflight
  BY <1>6 DEF Resume, world
<1>7. ASSUME NEW p \in Procs, NEW s \in Stages,
             Transition(p, s) \/ ExecuteChecked(p, s) \/ \E order \in Orders : Propose(p, s, order)
      PROVE  UNCHANGED inflight
  BY <1>7 DEF Transition, ExecuteChecked, Propose, world
<1>8. ASSUME NEW p \in Procs,
             Rename(p) \/ SyncDirectory(p) \/ Start(p) \/ ApproveBilling(p) \/ Return(p)
               \/ Complete(p) \/ Fail(p)
      PROVE  UNCHANGED inflight
  BY <1>8 DEF Rename, SyncDirectory, Start, ApproveBilling, Return, Complete, Fail, world
<1>9. ASSUME NEW p \in Procs, Close(p) \/ Crash(p) PROVE UNCHANGED inflight
  BY <1>4, <1>9 DEF Close, Crash
<1>10. CASE PowerFailure
  BY <1>10 DEF PowerFailure, Stop, world
<1>11. CASE UNCHANGED vars
  BY <1>11 DEF vars
<1>12. CASE Next
  BY <1>1, <1>2, <1>5, <1>6, <1>7, <1>8, <1>9, <1>10, <1>12 DEF Next, Progress
<1> QED BY <1>11, <1>12

\* What is synced is what was in the file or synced before.
LEMMA DurableStep ==
    ASSUME [Next]_vars
    PROVE  durable' \in {disk, durable}
<1>1. ASSUME NEW p \in Procs, NEW amount, NEW approve, NEW live, NEW mode,
             Create(p, amount, approve, mode, live)
      PROVE  UNCHANGED durable
  BY <1>1 DEF Create
<1>2. ASSUME NEW p \in Procs, NEW live, Resume(p, live) PROVE UNCHANGED durable
  BY <1>2 DEF Resume
<1>3. ASSUME NEW p \in Procs, NEW s \in Stages,
             Transition(p, s) \/ ExecuteChecked(p, s) \/ \E order \in Orders : Propose(p, s, order)
      PROVE  UNCHANGED durable
  BY <1>3 DEF Transition, ExecuteChecked, Propose
<1>4. ASSUME NEW p \in Procs,
             Rename(p) \/ Start(p) \/ ApproveBilling(p) \/ Return(p) \/ Send(p)
               \/ Complete(p) \/ Fail(p) \/ Close(p) \/ Crash(p)
      PROVE  UNCHANGED durable
  BY <1>4 DEF Rename, Start, ApproveBilling, Return, Send, Complete, Fail, Close, Crash
<1>5. ASSUME NEW p \in Procs, SyncDirectory(p) PROVE durable' = disk
  BY <1>5 DEF SyncDirectory
<1>6. ASSUME NEW r \in inflight, Perform(r) \/ Lose(r) PROVE UNCHANGED durable
  BY <1>6 DEF Perform, Lose
<1>7. CASE PowerFailure
  BY <1>7 DEF PowerFailure
<1>8. CASE UNCHANGED vars
  BY <1>8 DEF vars
<1>9. CASE Next
  BY <1>1, <1>2, <1>3, <1>4, <1>5, <1>6, <1>7, <1>9 DEF Next, Progress
<1> QED BY <1>8, <1>9

LEMMA ApprovedStep ==
    ASSUME PlaceInv, ApprovedInv, [RefundNext]_refundVars
    PROVE  ApprovedInv'
<1>1. ASSUME UNCHANGED <<unused, approved>> PROVE ApprovedInv'
  BY <1>1 DEF ApprovedInv
<1>2. ASSUME NEW op \in Refunds, Approves(op) PROVE ApprovedInv'
  <2>1. unused' = [unused EXCEPT ![op] = @ + 1] /\ approved' = approved \cup {op}
    BY <1>2 DEF Approves, Gateway!Approve
  <2>2. unused' \in [Refunds -> Nat]
    BY <2>1 DEF ApprovedInv
  <2>3. \A o \in Refunds : o # op => unused'[o] = unused[o]
    BY <2>1 DEF ApprovedInv
  <2> QED BY <2>1, <2>2, <2>3 DEF ApprovedInv
<1>3. CASE Elsewhere
  BY <1>1, <1>3 DEF Elsewhere, gateway
<1>4. ASSUME NEW st \in Stages, NEW amount \in Amounts, Console(st, amount) PROVE ApprovedInv'
  <2> DEFINE op == [envelope |-> st, args |-> [order |-> OrderId, amount |-> amount]]
  <2>1. op \in Refunds
    BY WorkflowConstants DEF Refunds, Arguments
  <2>2. Approves(op)
    BY <1>4 DEF Console
  <2> HIDE DEF op
  <2> QED BY <1>2, <2>1, <2>2
<1>5. ASSUME NEW r \in inflight PROVE OperationOf(r) \in Refunds
  <2>1. r.args \in Arguments
    BY DEF PlaceInv, TypeOK, Request
  <2> QED BY <2>1 DEF OperationOf, Refunds, Stages
<1>6. ASSUME NEW r \in inflight, ApproveBySelf(r) PROVE ApprovedInv'
  BY <1>2, <1>5, <1>6 DEF ApproveBySelf
<1>7. ASSUME NEW r \in inflight, Authorize(r) PROVE ApprovedInv'
  <2> DEFINE op == OperationOf(r)
  <2>1. /\ approved' = approved
        /\ \/ unused' = unused
           \/ unused[op] > 0 /\ unused' = [unused EXCEPT ![op] = @ - 1]
    BY <1>7 DEF Authorize, Gateway!Allow
  <2>2. op \in Refunds
    BY <1>5
  <2> HIDE DEF op
  <2>3. CASE unused' = unused
    BY <1>1, <2>1, <2>3
  <2>4. CASE unused[op] > 0 /\ unused' = [unused EXCEPT ![op] = @ - 1]
    <3>1. unused' \in [Refunds -> Nat]
      BY <2>2, <2>4 DEF ApprovedInv
    <3>2. \A o \in Refunds : o # op => unused'[o] = unused[o]
      BY <2>4 DEF ApprovedInv
    <3> QED BY <2>1, <2>4, <3>1, <3>2 DEF ApprovedInv
  <2> QED BY <2>1, <2>3, <2>4
<1>8. ASSUME NEW r \in inflight, Pay(r) PROVE ApprovedInv'
  BY <1>1, <1>8 DEF Pay, Gateway!Effect
<1>9. CASE UNCHANGED refundVars
  BY <1>1, <1>9 DEF refundVars, gateway
<1> QED BY <1>3, <1>4, <1>6, <1>7, <1>8, <1>9 DEF RefundNext

\* The amount of the workflow stays, and approvals are not forgotten.
LEMMA StillAsStarted ==
    ASSUME MarkInv, MarkInv', disk = None => durable = None, LogInv', [Next]_vars,
           approved \subseteq approved', NEW op, AsStarted(op)
    PROVE  AsStarted(op)'
<1>1. durable' # None /\ durable' \in Snapshots'
  BY DEF MarkInv, Snapshots
<1>2. durable' \in Snapshots
  BY <1>1, DurableStep DEF MarkInv, Snapshots
<1>3. \A m \in Snapshots' : m.amount = durable'.amount
  BY <1>1 DEF LogInv
<1>4. \A m \in Snapshots' : op.args.amount = m.amount
  BY <1>2, <1>3 DEF AsStarted
<1> QED BY <1>4 DEF AsStarted

\* The control API authorizes a refund: no copy of the checkpoint misses it.
LEMMA AuthorizedMark ==
    ASSUME PlaceInv, LogInv, NEW r \in inflight, r.op = REFUND
    PROVE  MarkInv /\ \A q \in inflight : q.op = REFUND => q = r
<1>1. r \in Sent /\ r.op \in Ops
  BY SentTyped DEF Sent
<1>2. durable # None
  BY <1>1 DEF LogInv
<1>3. ASSUME NEW m \in Snapshots PROVE Marked(m)
  <2>1. m \in Snapshot
    BY DEF Snapshots, PlaceInv, TypeOK
  <2>2. Answers(m, REFUND) \/ m.pending = REFUND
    BY <1>1 DEF LogInv, Faithful
  <2>3. Answers(m, REFUND) <=> BILLING \in m.receipts
    BY <1>1, <2>1, AnswersOf DEF REFUND, EXECUTE
  <2> QED BY <2>2, <2>3 DEF Marked
<1>4. \A p \in Procs : Target(p) = "calling" => mem[p].pending # REFUND
  BY <1>1 DEF LogInv
<1>5. \A q \in inflight : q.op = REFUND => q = r
  BY DEF LogInv
<1> QED BY <1>2, <1>3, <1>4, <1>5 DEF MarkInv

\* A step that authorizes nothing.
LEMMA RefundFrame ==
    ASSUME PlaceInv, LogInv, LogInv', RefundInv, [Next]_vars, approved \subseteq approved',
           allowed' = allowed,
           \A q \in DOMAIN cleared' : q \in DOMAIN cleared \cap inflight' /\ cleared'[q] = cleared[q],
           DOMAIN cleared \cap inflight' \subseteq DOMAIN cleared',
           effects' \in Seq([id : {1}, op : Refunds]), Len(effects') <= 1,
           \A k \in 1..Len(effects') : 1 \in DOMAIN allowed /\ effects'[k].op = allowed[1]
    PROVE  RefundInv'
<1>1. /\ DOMAIN allowed \subseteq {1}
      /\ \A id \in DOMAIN allowed : AsStarted(allowed[id])
      /\ DOMAIN allowed # {} =>
           MarkInv /\ \A r \in inflight : r.op = REFUND => r \in DOMAIN cleared
      /\ \A r \in DOMAIN cleared : r \in inflight /\ r.op = REFUND /\ cleared[r] \in DOMAIN allowed
  BY DEF RefundInv
<1>2. disk = None => durable = None
  BY DEF LogInv
<1>3. ASSUME DOMAIN allowed # {} PROVE MarkInv'
  BY <1>1, <1>2, <1>3, MarkStep
<1>4. ASSUME NEW id \in DOMAIN allowed PROVE AsStarted(allowed[id])'
  <2>1. PICK op : op = allowed[id]
    OBVIOUS
  <2>2. AsStarted(op) /\ MarkInv /\ MarkInv'
    BY <1>1, <1>3, <2>1
  <2>3. AsStarted(op)'
    BY <1>2, <2>2, StillAsStarted
  <2> QED BY <2>1, <2>3
<1>5. ASSUME DOMAIN allowed # {}, NEW r \in inflight', r.op = REFUND PROVE r \in DOMAIN cleared'
  <2>1. CASE r \in inflight
    BY <1>1, <1>5, <2>1
  <2>2. CASE r \notin inflight
    <3>1. PICK p \in Procs : Target(p) = "calling" /\ r.op = mem[p].pending
      BY <1>5, <2>2, NewlySent
    <3> QED BY <1>1, <1>5, <3>1 DEF MarkInv
  <2> QED BY <2>1, <2>2
<1>6. \A r \in DOMAIN cleared' :
         r \in inflight' /\ r.op = REFUND /\ cleared'[r] \in DOMAIN allowed
  BY <1>1
<1> QED BY <1>1, <1>3, <1>4, <1>5, <1>6 DEF RefundInv

LEMMA RefundStep ==
    ASSUME PlaceInv, LogInv, LogInv', PinInv, ApprovedInv, ApprovedInv', RefundInv,
           [RefundNext]_refundVars
    PROVE  RefundInv'
<1>0. [Next]_vars
  BY WorkflowSteps
<1>1. /\ DOMAIN allowed \subseteq {1}
      /\ \A id \in DOMAIN allowed : AsStarted(allowed[id])
      /\ DOMAIN allowed # {} =>
           MarkInv /\ \A r \in inflight : r.op = REFUND => r \in DOMAIN cleared
      /\ \A r \in DOMAIN cleared : r \in inflight /\ r.op = REFUND /\ cleared[r] \in DOMAIN allowed
      /\ effects \in Seq([id : {1}, op : Refunds]) /\ Len(effects) <= 1
      /\ \A k \in 1..Len(effects) : 1 \in DOMAIN allowed /\ effects[k].op = allowed[1]
  BY DEF RefundInv
<1>2. CASE Elsewhere
  <2>1. /\ allowed' = allowed /\ effects' = effects /\ approved' = approved
        /\ cleared' = [r \in DOMAIN cleared \cap inflight' |-> cleared[r]]
    BY <1>2 DEF Elsewhere, gateway
  <2>2. /\ DOMAIN cleared' = DOMAIN cleared \cap inflight'
        /\ \A q \in DOMAIN cleared' : cleared'[q] = cleared[q]
    BY <2>1
  <2> QED BY <1>0, <1>1, <2>1, <2>2, RefundFrame
<1>3. ASSUME NEW op, Approves(op), UNCHANGED cleared,
             \A q \in DOMAIN cleared : q \in inflight'
      PROVE  RefundInv'
  <2>1. allowed' = allowed /\ effects' = effects /\ approved \subseteq approved'
    BY <1>3 DEF Approves, Gateway!Approve
  <2> QED BY <1>0, <1>1, <1>3, <2>1, RefundFrame
<1>4. ASSUME NEW st \in Stages, NEW amount \in Amounts, Console(st, amount) PROVE RefundInv'
  <2>1. UNCHANGED cleared /\ inflight' = inflight
    BY <1>4 DEF Console, vars
  <2>2. PICK op : Approves(op)
    BY <1>4 DEF Console
  <2> QED BY <1>1, <1>3, <2>1, <2>2
<1>5. ASSUME NEW r \in inflight, ApproveBySelf(r) PROVE RefundInv'
  <2>1. UNCHANGED cleared /\ inflight' = inflight \ {r} /\ r.op # REFUND
    BY <1>5 DEF ApproveBySelf, Perform, APPROVE_BILLING, REFUND, EXECUTE
  <2>2. PICK op : Approves(op)
    BY <1>5 DEF ApproveBySelf
  <2> QED BY <1>1, <1>3, <2>1, <2>2
<1>6. ASSUME NEW r \in inflight, Pay(r) PROVE RefundInv'
  <2>1. /\ r \in DOMAIN cleared /\ cleared' = [q \in DOMAIN cleared \ {r} |-> cleared[q]]
        /\ inflight' = inflight \ {r} /\ approved' = approved
    BY <1>6 DEF Pay, Perform
  <2>2. cleared[r] = 1 /\ 1 \in DOMAIN allowed
    BY <1>1, <2>1
  <2>3. /\ allowed' = allowed
        /\ \A k \in 1..Len(effects) : effects[k].id # 1
        /\ effects' = Append(effects, [id |-> 1, op |-> allowed[1]])
    BY <1>6, <2>2 DEF Pay, Gateway!Effect
  <2>4. Len(effects) = 0
    <3>1. \A k \in 1..Len(effects) : effects[k].id = 1
      <4>1. effects \in Seq([id : {1}, op : Refunds])
        BY <1>1
      <4>2. PICK S : S = [id : {1}, op : Refunds]
        OBVIOUS
      <4>3. effects \in Seq(S)
        BY <4>1, <4>2
      <4>4. \A k \in 1..Len(effects) : effects[k] \in S
        BY <4>3
      <4> QED BY <4>2, <4>4
    <3>2. Len(effects) \in Nat /\ (1 <= Len(effects) => 1 \in 1..Len(effects))
      BY <1>1
    <3> QED BY <2>3, <3>1, <3>2
  <2>5. [id |-> 1, op |-> allowed[1]] \in [id : {1}, op : Refunds]
    BY <1>1, <2>2 DEF AsStarted
  <2>6. /\ effects' \in Seq([id : {1}, op : Refunds]) /\ Len(effects') = 1
        /\ effects'[1] = [id |-> 1, op |-> allowed[1]]
    BY <1>1, <2>3, <2>4, <2>5
  <2>7. \A k \in 1..Len(effects') : effects'[k].op = allowed[1]
    BY <2>6
  <2>8. /\ DOMAIN cleared' = DOMAIN cleared \ {r}
        /\ \A q \in DOMAIN cleared' : cleared'[q] = cleared[q]
        /\ DOMAIN cleared \cap inflight' = DOMAIN cleared \ {r}
    BY <1>1, <2>1
  <2> QED BY <1>0, <2>1, <2>2, <2>3, <2>6, <2>7, <2>8, RefundFrame
<1>7. ASSUME NEW r \in inflight, Authorize(r) PROVE RefundInv'
  <2>1. /\ r.op = REFUND /\ r \notin DOMAIN cleared /\ r.args.order = OrderId
        /\ UNCHANGED <<vars, approved>>
    BY <1>7 DEF Authorize, InScope
  <2>2. DOMAIN allowed = {} /\ DOMAIN cleared = {}
    BY <1>1, <2>1
  <2>3. Cardinality(DOMAIN allowed) + 1 = 1
    BY <2>2, FS_EmptySet
  <2> DEFINE op == OperationOf(r)
  <2>4. /\ allowed' = [i \in {1} |-> op]
        /\ cleared' = [q \in {r} |-> 1]
        /\ effects' = effects
        /\ op.args.amount \in Large => unused[op] > 0 \/ op \notin Refunds
    BY <1>7, <2>2, <2>3 DEF Authorize, Gateway!Allow
  <2>5. /\ op = [envelope |-> BILLING, args |-> r.args]
        /\ op \in Refunds /\ op.args = r.args
    <3>1. r.args \in Arguments
      BY DEF PlaceInv, TypeOK, Request
    <3> QED BY <3>1 DEF OperationOf, Refunds, Stages
  <2> HIDE DEF op
  <2>6. MarkInv /\ \A q \in inflight : q.op = REFUND => q = r
    BY <2>1, AuthorizedMark
  <2>7. AsStarted(op)
    <3>1. \A m \in Snapshots : r.args.amount = m.amount
      BY DEF PinInv, Pins, Sent
    <3>2. op.args.amount \in Large => op \in approved
      BY <2>4, <2>5 DEF ApprovedInv
    <3> QED BY <2>1, <2>5, <3>1, <3>2 DEF AsStarted
  <2>8. inflight' = inflight /\ disk' = disk /\ durable' = durable /\ mem' = mem
        /\ pc' = pc /\ next' = next /\ approved' = approved
    BY <2>1 DEF vars
  <2>9. MarkInv'
    BY <2>6, <2>8 DEF MarkInv, Snapshots, Target, Marked
  <2>10. AsStarted(op)'
    BY <2>7, <2>8 DEF AsStarted, Snapshots
  <2>11. \A id \in DOMAIN allowed' : AsStarted(allowed[id])'
    <3>1. SUFFICES ASSUME NEW id \in DOMAIN allowed' PROVE AsStarted(allowed[id])'
      OBVIOUS
    <3>2. allowed'[id] = op
      BY <2>4
    <3> QED BY <2>10, <3>2
  <2>12. DOMAIN allowed' = {1} /\ DOMAIN cleared' = {r} /\ cleared'[r] = 1
    BY <2>4
  <2>13. /\ effects' \in Seq([id : {1}, op : Refunds]) /\ Len(effects') <= 1
         /\ \A k \in 1..Len(effects') : 1 \in DOMAIN allowed' /\ effects'[k].op = allowed'[1]
    BY <1>1, <2>2, <2>4
  <2> QED BY <2>1, <2>6, <2>8, <2>9, <2>11, <2>12, <2>13 DEF RefundInv
<1>8. CASE UNCHANGED refundVars
  <2>1. /\ allowed' = allowed /\ effects' = effects /\ approved' = approved
        /\ cleared' = cleared /\ inflight' = inflight
    BY <1>8 DEF refundVars, gateway, vars
  <2> QED BY <1>0, <1>1, <2>1, RefundFrame
<1> QED BY <1>2, <1>4, <1>5, <1>6, <1>7, <1>8 DEF RefundNext

\* The workflow keeps its promises beside the console and the gateway.
LEMMA RefundIsWorkflow == RefundSpec => Spec
<1>1. RefundInit => Init
  BY DEF RefundInit
<1>2. [RefundNext]_refundVars => [Next]_vars
  BY WorkflowSteps
<1> QED BY <1>1, <1>2, PTL DEF RefundSpec, Spec, refundVars

\* Answers get lost after an approval was spent, processes crash and are started
\* again, and operators approve other amounts meanwhile: the money moves at most
\* once, as the workflow was started with and, if it is much, as was approved;
\* and no second approval is spent on a refund whose outcome is unknown, since
\* no copy of the checkpoint has forgotten that it was asked for (begin and
\* restore, Workflow.java:305-348; action, actions.go:183-199).
THEOREM RefundOnce == RefundSpec => []RefundOnceAsApproved
<1>1. RefundInit => ApprovedInv /\ RefundInv
  <2> SUFFICES ASSUME RefundInit PROVE ApprovedInv /\ RefundInv
    OBVIOUS
  <2>1. /\ unused = [op \in Refunds |-> 0] /\ DOMAIN allowed = {} /\ effects = << >>
        /\ DOMAIN cleared = {}
    BY DEF RefundInit, Gateway!Init
  <2> QED BY <2>1 DEF ApprovedInv, RefundInv
<1>2. /\ PlaceInv /\ LogInv /\ LogInv' /\ PinInv /\ ApprovedInv /\ RefundInv
      /\ [RefundNext]_refundVars
      => ApprovedInv' /\ RefundInv'
  BY ApprovedStep, RefundStep
<1>3. LogInv /\ RefundInv => RefundOnceAsApproved
  <2> SUFFICES ASSUME LogInv, RefundInv PROVE RefundOnceAsApproved
    OBVIOUS
  <2>1. Cardinality(DOMAIN allowed) <= 1
    <3>1. DOMAIN allowed = {} \/ DOMAIN allowed = {1}
      <4>1. DOMAIN allowed \subseteq {1}
        BY DEF RefundInv
      <4> QED BY <4>1
    <3>2. Cardinality({}) = 0 /\ Cardinality({1}) = 1
      BY FS_EmptySet, FS_Singleton
    <3> QED BY <3>1, <3>2
  <2>2. DOMAIN allowed # {} => disk # None /\ disk \in Snapshots /\ Marked(disk)
    BY DEF RefundInv, MarkInv, LogInv, Snapshots
  <2>3. ASSUME NEW k \in 1..Len(effects)
        PROVE  LET op == effects[k].op IN
               /\ op.args = [order |-> OrderId, amount |-> disk.amount]
               /\ op.args.amount \in Large => op \in approved
    <3>1. PICK op : op = effects[k].op
      OBVIOUS
    <3>2. AsStarted(op) /\ disk \in Snapshots
      BY <2>2, <3>1 DEF RefundInv
    <3>3. op.args \in [order : Orders, amount : Amounts]
      BY <3>2 DEF AsStarted, Refunds, Arguments
    <3>4. op.args.order = OrderId /\ op.args.amount = disk.amount
      BY <3>2 DEF AsStarted
    <3>5. op.args = [order |-> OrderId, amount |-> disk.amount]
      BY <3>3, <3>4
    <3> QED BY <3>1, <3>2, <3>5 DEF AsStarted
  <2> QED BY <2>1, <2>2, <2>3 DEF RefundOnceAsApproved, RefundInv, Marked
<1>4. RefundSpec => [](ApprovedInv /\ RefundInv)
  <2>1. RefundSpec => [](PlaceInv /\ LogInv /\ PinInv)
    BY RefundIsWorkflow, PlaceInvariant, LogInvariant, PinInvariant, PTL
  <2> QED BY <1>1, <1>2, <2>1, PTL DEF RefundSpec, refundVars
<1>5. RefundSpec => []LogInv
  BY RefundIsWorkflow, LogInvariant, PTL
<1> QED BY <1>3, <1>4, <1>5, PTL
=============================================================================
