----------------------------- MODULE AuditChain -----------------------------
(***************************************************************************)
(* The audit log of one run (internal/server/audit.go): the hash chain     *)
(* that appendAudit extends, what verifyAudit makes of the stored rows     *)
(* after the storage has been damaged or its chain rewritten, and the head *)
(* hash that an auditor may keep outside the database.                     *)
(*                                                                         *)
(* An operator named X_Deviation is a plausible wrong version of X, which  *)
(* nothing uses: some property fails when it takes the place of X.         *)
(***************************************************************************)
EXTENDS Naturals, Sequences, Functions

CONSTANTS
    EnvIds,
    Bodies,         \* what a document says beside its id and its parent
    Drafts,         \* bound: the bodies that clients send
    None,           \* "", null, an absent field
    Times,          \* readings of time.Now(), in half microseconds
    MaxEvents, MaxDamage    \* bounds

VARIABLES
    events,         \* audit_events in seq order: [header, payload, hash]
    envelopes,      \* id -> [document, parent_id]
    issued,         \* history: the rows of envelopes as they were inserted
    genuine,        \* history: the logs made of appended events, each on the head it read
    retained,       \* the head hash an auditor kept, and the log it stood for
    damage,         \* how often the storage was changed from outside
    rewritten       \* whether that included hashes computed anew

vars == <<events, envelopes, issued, genuine, retained, damage, rewritten>>
storage == <<events, envelopes>>
history == <<issued, genuine>>

\* What Ed25519 makes of an id, a parent and a body.
Signature == [ed25519 : EnvIds \X (EnvIds \cup {None}) \X Bodies]
Documents == [id : EnvIds, parent : EnvIds \cup {None}, body : Bodies,
              signature : Signature \cup {None}]

ASSUME AuditConstants ==
    /\ None \notin EnvIds /\ Drafts \subseteq Bodies
    /\ Times \subseteq Nat /\ MaxEvents \in Nat /\ MaxDamage \in Nat
    /\ None \notin Signature \cup Documents

-----------------------------------------------------------------------------
(* Hashes and signatures: different contents never have the same.          *)

digest(content) == [sha256 |-> content]

\* "", the link of the first event.
NoHash == [empty |-> TRUE]

\* The Ed25519 signature by the server's key of all the rest of a document.
Sign(doc) == [ed25519 |-> <<doc.id, doc.parent, doc.body>>]
Signed(doc) == [doc EXCEPT !.signature = Sign(doc)]

\* Any signature will do.
Authentic_Unsigned(doc) == TRUE
Authentic(doc) == doc.signature = Sign(doc)

\* Document: unsigned, as proposed.
Document(id, parent, body) ==
    [id |-> id, parent |-> parent, body |-> body, signature |-> None]

\* PostgreSQL keeps microseconds.
Stored(t) == t - (t % 2)

\* The event is dated to the nanosecond.
Truncate_Nothing(t) == t
Truncate(t) == t - (t % 2)

-----------------------------------------------------------------------------
(* The server. *)

Init ==
    /\ events = << >> /\ envelopes = [id \in {} |-> None]
    /\ issued = {} /\ genuine = {<< >>}
    /\ retained = None /\ damage = 0 /\ rewritten = FALSE

HeadHash(log) == IF log = << >> THEN NoHash ELSE log[Len(log)].hash

\* The hash does not cover the link to the event before.
Covered_Unlinked(header) == [header EXCEPT !.previous = NoHash]

\* What the hash of an event covers.
Covered(header) == header

\* payload: the envelope that the event is about, if any, and the flag of a handoff.
appendAudit(type, doc, persisted, t) ==
    LET payload == [doc |-> doc, persisted |-> persisted]
        header  == [id |-> Len(events) + damage, type |-> type, timestamp |-> Truncate(t),
                    payload_hash |-> digest(payload), previous |-> HeadHash(events)]
    IN
    /\ Len(events) < MaxEvents
    /\ events' = Append(events, [header  |-> [header EXCEPT !.timestamp = Stored(@)],
                                 payload |-> payload,
                                 hash    |-> digest(Covered(header))])
    /\ genuine' = genuine \cup
          {Append(log, events'[Len(events')]) :
                log \in {log \in genuine : HeadHash(log) = HeadHash(events)}}

With(table, id, row) == [x \in DOMAIN table \cup {id} |-> IF x = id THEN row ELSE table[x]]
Save(doc) ==
    LET row == [document |-> doc, parent_id |-> doc.parent] IN
    /\ doc.id \notin DOMAIN envelopes
    /\ envelopes' = With(envelopes, doc.id, row)
    /\ issued' = issued \cup {row}

\* The root of the run.
Create(id, body, t) ==
    LET doc == Signed(Document(id, None, body)) IN
    /\ issued = {}
    /\ Save(doc)
    /\ appendAudit("envelope.created", doc, FALSE, t)
    /\ UNCHANGED <<retained, damage, rewritten>>

\* An evaluation, which may be refused or not meant to be stored.  The verdict is
\* left open but for what damage to the parent's row may spoil; ControlPlane gives it.
EvaluateHandoff(parent, id, body, saved, t) ==
    LET child == Document(id, parent, body) IN
    /\ parent \in DOMAIN envelopes /\ envelopes[parent].document.id = parent
    /\ IF saved
       THEN /\ Authentic(envelopes[parent].document)
            /\ envelopes[parent].parent_id = envelopes[parent].document.parent
            /\ Save(Signed(child))
            /\ appendAudit("handoff.evaluated", Signed(child), TRUE, t)
       ELSE /\ appendAudit("handoff.evaluated", child, FALSE, t)
            /\ UNCHANGED <<envelopes, issued>>
    /\ UNCHANGED <<retained, damage, rewritten>>

\* A revocation, an approval or the evaluation of an action.
OtherEvent(id, t) ==
    /\ id \in DOMAIN envelopes /\ envelopes[id].document.id = id
    /\ appendAudit("other", None, FALSE, t)
    /\ UNCHANGED <<envelopes, issued, retained, damage, rewritten>>

-----------------------------------------------------------------------------
(* verifyAudit. *)

Rows == DOMAIN events

\* The hashes of a row are right, wherever it stands.
Linked_Anywhere(k) ==
    /\ events[k].hash = digest(Covered(events[k].header))
    /\ events[k].header.payload_hash = digest(events[k].payload)

\* A row continues the one before it and its hashes are right.
Linked(k) ==
    /\ events[k].header.previous = HeadHash(SubSeq(events, 1, k - 1))
    /\ events[k].hash = digest(Covered(events[k].header))
    /\ events[k].header.payload_hash = digest(events[k].payload)

\* The rows that hold the snapshot of an envelope as it was created; a payload
\* without a document is an invalid one in the first case, none in the second.
HoldsSnapshot(k) ==
    \/ events[k].header.type = "envelope.created"
    \/ /\ events[k].header.type = "handoff.evaluated"
       /\ events[k].payload.persisted /\ events[k].payload.doc # None

ValidSnapshot(k) ==
    LET doc == events[k].payload.doc IN
    doc # None /\ doc.id # None /\ doc.signature # None

\* id -> the signature in its last snapshot.
Snapshots ==
    LET good == {k \in Rows : HoldsSnapshot(k) /\ ValidSnapshot(k)}
        last(id) == CHOOSE k \in good :
            /\ events[k].payload.doc.id = id
            /\ \A j \in good : events[j].payload.doc.id = id => j <= k
    IN [id \in {events[k].payload.doc.id : k \in good} |-> events[last(id)].payload.doc.signature]

\* What verifyAudit looks for, and whether it is there.
Findings ==
    LET snapshots == Snapshots IN
    [event_modified    |-> \E k \in Rows : ~Linked(k),
     invalid_snapshot  |-> \E k \in Rows : HoldsSnapshot(k) /\ ~ValidSnapshot(k),
     missing_events    |-> events = << >>,
     missing_envelope  |-> \E id \in DOMAIN snapshots :
          \/ id \notin DOMAIN envelopes
          \/ envelopes[id].document.signature # snapshots[id],
     missing_creation  |-> ~(DOMAIN envelopes \subseteq DOMAIN snapshots),
     signature_invalid |-> \E id \in DOMAIN envelopes :
          ~Authentic(envelopes[id].document) \/ envelopes[id].document.id # id,
     parent_modified   |-> \E id \in DOMAIN envelopes :
          envelopes[id].parent_id # envelopes[id].document.parent,
     missing_parent    |-> \E id \in DOMAIN envelopes :
          envelopes[id].document.parent \notin DOMAIN envelopes \cup {None}]

Failures ==
    LET found == Findings IN {failure \in DOMAIN found : found[failure]}

Valid == Failures = {}

\* The auditor keeps the head_hash of a VALID report.
Retain ==
    /\ retained = None /\ Valid
    /\ retained' = [head |-> HeadHash(events), log |-> events]
    /\ UNCHANGED <<storage, history, damage, rewritten>>

-----------------------------------------------------------------------------
(* The storage is changed from outside: a row is edited, lost, or put in the  *)
(* place of another.                                                          *)

Damage ==
    /\ damage < MaxDamage /\ damage' = damage + 1
    /\ UNCHANGED <<history, retained>>

EditedRow(row) ==
    LET hashes == {NoHash} \cup {events[k].hash : k \in Rows} IN
    {[row EXCEPT !.header.type = x] : x \in {"other", "handoff.evaluated"}}
    \cup {[row EXCEPT !.header.previous = x] : x \in hashes}
    \cup {[row EXCEPT !.hash = x] : x \in hashes}
    \cup {[row EXCEPT !.payload.doc = x] : x \in {None} \cup {events[k].payload.doc : k \in Rows}}
    \cup {[row EXCEPT !.payload.persisted = ~@]}

EditEvent(k) ==
    /\ Damage
    /\ \E row \in EditedRow(events[k]) \ {events[k]} : events' = [events EXCEPT ![k] = row]
    /\ UNCHANGED <<envelopes, rewritten>>

LoseEvent(k) ==
    /\ Damage
    /\ events' = SubSeq(events, 1, k - 1) \o SubSeq(events, k + 1, Len(events))
    /\ UNCHANGED <<envelopes, rewritten>>

SwapEvents(j, k) ==
    /\ Damage
    /\ events' = [events EXCEPT ![j] = events[k], ![k] = events[j]]
    /\ UNCHANGED <<envelopes, rewritten>>

Relinked(k, previous) ==
    [events[k].header EXCEPT !.payload_hash = digest(events[k].payload), !.previous = previous]

Rehash[k \in 0..Len(events)] ==
    IF k = 0 THEN NoHash ELSE digest(Covered(Relinked(k, Rehash[k - 1])))

\* All hashes of the rows are computed anew.
Rewrite ==
    /\ Damage
    /\ rewritten' = TRUE
    /\ events' = [k \in Rows |->
          [events[k] EXCEPT !.header = Relinked(k, Rehash[k - 1]), !.hash = Rehash[k]]]
    /\ UNCHANGED envelopes

EditEnvelope(id) ==
    /\ Damage
    /\ \E row \in {[envelopes[id] EXCEPT !.document.body = x] : x \in Bodies}
                  \cup {[envelopes[id] EXCEPT !.document.signature = None]}
                  \cup {[envelopes[id] EXCEPT !.parent_id = x] : x \in EnvIds \cup {None}}
                  \cup {envelopes[x] : x \in DOMAIN envelopes} :
          row # envelopes[id] /\ envelopes' = [envelopes EXCEPT ![id] = row]
    /\ UNCHANGED <<events, rewritten>>

LoseEnvelope(id) ==
    /\ Damage
    /\ envelopes' = Restrict(envelopes, DOMAIN envelopes \ {id})
    /\ UNCHANGED <<events, rewritten>>

Next ==
    \/ \E t \in Times :
        \/ \E id \in EnvIds, body \in Drafts :
            \/ Create(id, body, t)
            \/ \E parent \in EnvIds, saved \in BOOLEAN :
                  EvaluateHandoff(parent, id, body, saved, t)
        \/ \E id \in EnvIds : OtherEvent(id, t)
    \/ Retain
    \/ \E k \in Rows : EditEvent(k) \/ LoseEvent(k) \/ \E j \in 1..k - 1 : SwapEvents(j, k)
    \/ Rewrite
    \/ \E id \in DOMAIN envelopes : EditEnvelope(id) \/ LoseEnvelope(id)

Spec == Init /\ [][Next]_vars

-----------------------------------------------------------------------------
(* Properties. *)

\* A storage that nobody touched verifies after every transaction: refused and
\* unstored proposals, later revocations and the rounding of timestamps by the
\* database included (audit.go:45, 98-111).
NoFalseAlarm == damage = 0 /\ events # << >> => Valid

\* Unless the hashes were computed anew, a log that verifies is one that the
\* server wrote, event by event; at most a tail of it is lost, as the limits in
\* docs/server.md:186 say, even if the server has gone on after the damage.
ValidLogsAreGenuine == Valid /\ ~rewritten => events \in genuine

\* The signatures bind the envelopes whatever became of the log: each one in a
\* run that verifies is one that was issued under its id, below the same parent
\* (a client may choose the id again once the row is lost); and the log and the
\* table agree on which there are.
ValidEnvelopesAreIssued ==
    Valid =>
        /\ \A id \in DOMAIN envelopes :
              envelopes[id] \in issued /\ envelopes[id].document.id = id
        /\ DOMAIN envelopes =
              {events[k].payload.doc.id : k \in {k \in Rows : HoldsSnapshot(k)}}

\* "The returned head_hash can be retained outside the database as a checkpoint"
\* (docs/server.md:183): as long as a log that verifies contains it, everything up
\* to it is as it was, even if the whole chain was rewritten.
CheckpointPinsThePast ==
    retained # None /\ Valid =>
        \A k \in Rows : events[k].hash = retained.head => SubSeq(events, 1, k) = retained.log
=============================================================================
