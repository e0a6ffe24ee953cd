--------------------------- MODULE SignatureProofs ---------------------------
(***************************************************************************)
(* Theorems about the audit log of a run and about the keys of its         *)
(* signatures, for any number of events, envelopes, changes from outside   *)
(* and runs of keygen.                                                     *)
(*   LogInv     the logs that the server has written and the one that an   *)
(*              auditor kept are chains of hashes, and unless hashes were  *)
(*              computed anew, every hash in the log is one of theirs      *)
(*   TableInv   no row bears a signature that was not issued               *)
(*   CleanInv   as long as nobody touches the storage, the log is a chain  *)
(*              and tells of the same documents as the table               *)
(*   KeyFilesInv   what the next system call of a keygen implies about the *)
(*              two files (Holds), and what the files imply about the keys *)
(*              that were used (PairInv)                                   *)
(* No hash is the hash of two things, so a hash in a chain determines all  *)
(* that precedes it (SamePast): of the places where two such chains could  *)
(* differ, take the one nearest to the hash that they share.               *)
(***************************************************************************)
EXTENDS AuditChain, KeyFiles, WellFoundedInduction, TLAPS

-----------------------------------------------------------------------------
(* Chains of hashes. *)

IsRow(row) == row = [header |-> row.header, payload |-> row.payload, hash |-> row.hash]
IsLog(log) == (\E S : log \in Seq(S)) /\ \A k \in 1..Len(log) : IsRow(log[k])

\* A row continues the one before it and its hashes are right.
Continued(log, k) ==
    /\ log[k].header.previous = IF k = 1 THEN NoHash ELSE log[k - 1].hash
    /\ log[k].hash = digest(log[k].header)
    /\ log[k].header.payload_hash = digest(log[k].payload)

IsChain(log) == IsLog(log) /\ \A k \in 1..Len(log) : Continued(log, k)

\* A hash is the hash of one thing, and of something.
LEMMA Digests ==
    /\ \A x, y : digest(x) = digest(y) => x = y
    /\ \A x : digest(x) # NoHash
<1>1. \A x, y : digest(x) = digest(y) => x = y
  BY DEF digest
<1>2. ASSUME NEW x PROVE digest(x) # NoHash
  BY DEF digest, NoHash
<1> QED BY <1>1, <1>2

\* Lengths and heads.
LEMMA LogFacts ==
    ASSUME NEW log, IsLog(log)
    PROVE  /\ Len(log) \in Nat /\ DOMAIN log = 1..Len(log)
           /\ log = << >> <=> Len(log) = 0
           /\ HeadHash(log) = IF Len(log) = 0 THEN NoHash ELSE log[Len(log)].hash
<1>1. PICK S : log \in Seq(S)
  BY DEF IsLog
<1>2. Len(log) \in Nat /\ DOMAIN log = 1..Len(log) /\ (log = << >> <=> Len(log) = 0)
  BY <1>1
<1> QED BY <1>2 DEF HeadHash

\* A set of numbers has a least one.
LEMMA SmallestIn ==
    ASSUME NEW T \in SUBSET Nat, T # {}
    PROVE  \E x \in T : \A y \in T : x <= y
<1> DEFINE Below == {ss \in Nat \X Nat : ss[1] < ss[2]}
<1>1. IsWellFoundedOn(Below, Nat)
  BY NatLessThanWellFounded DEF OpToRel
<1>2. \A x, y \in Nat : x < y => <<x, y>> \in Below
  OBVIOUS
<1> HIDE DEF Below
<1>3. PICK x \in T : \A y \in T : ~ (<<y, x>> \in Below)
  BY <1>1, WFMin
<1>4. ASSUME NEW y \in T PROVE x <= y
  <2>1. x \in Nat /\ y \in Nat /\ ~ (y < x)
    BY <1>2, <1>3
  <2> QED BY <2>1
<1> QED BY <1>4

\* The hashes of a row determine it and, through its link, the row before it.
LEMMA SameRow ==
    ASSUME NEW a, NEW b, IsChain(a), IsChain(b), NEW i \in 1..Len(a), NEW j \in 1..Len(b),
           a[i].hash = b[j].hash
    PROVE  a[i] = b[j] /\ a[i].header.previous = b[j].header.previous
<1>1. a[i].header = b[j].header
  BY Digests DEF IsChain, Continued
<1>2. a[i].payload = b[j].payload
  BY <1>1, Digests DEF IsChain, Continued
<1> QED BY <1>1, <1>2 DEF IsChain, IsLog, IsRow

\* A hash that two chains contain stands for the same past in both.
LEMMA SamePast ==
    ASSUME NEW a, NEW b, IsChain(a), IsChain(b), NEW i \in 1..Len(a), NEW j \in 1..Len(b),
           a[i].hash = b[j].hash
    PROVE  i = j /\ \A k \in 1..i : a[k] = b[k]
<1>n. Len(a) \in Nat /\ Len(b) \in Nat
  BY LogFacts DEF IsChain
<1> DEFINE Differ == {d \in Nat : d < i /\ d < j /\ a[i - d].hash # b[j - d].hash}
<1>1. Differ = {}
  <2> SUFFICES ASSUME Differ # {} PROVE FALSE
    OBVIOUS
  <2>0. PICK D : D = Differ
    OBVIOUS
  <2>1. PICK d \in D : \A y \in D : d <= y
    BY <2>0, SmallestIn
  <2>d. d \in Nat /\ d < i /\ d < j /\ a[i - d].hash # b[j - d].hash
    BY <2>0, <2>1
  <2>2. d # 0
    BY <1>n, <2>d
  <2>3. d - 1 \notin D /\ d - 1 \in Nat /\ d - 1 < d
    <3>1. d - 1 \in Nat /\ d - 1 < d /\ ~ (d <= d - 1)
      BY <2>2, <2>d
    <3> QED BY <2>1, <3>1
  <2>4. a[i - (d - 1)].hash = b[j - (d - 1)].hash
    BY <1>n, <2>0, <2>3, <2>d
  <2>5. PICK p, q : p = i - (d - 1) /\ q = j - (d - 1)
    OBVIOUS
  <2>6. p - 1 = i - d /\ q - 1 = j - d
    BY <1>n, <2>5, <2>d
  <2>7. p \in 1..Len(a) /\ p # 1
    BY <1>n, <2>2, <2>5, <2>d
  <2>8. q \in 1..Len(b) /\ q # 1
    BY <1>n, <2>2, <2>5, <2>d
  <2>e. p \in 1..Len(a) /\ q \in 1..Len(b) /\ p # 1 /\ q # 1 /\ a[p].hash = b[q].hash
    BY <2>4, <2>5, <2>7, <2>8
  <2>9. a[p].header.previous = b[q].header.previous
    BY <2>e, SameRow
  <2>10. a[p - 1].hash = b[q - 1].hash
    <3>1. Continued(a, p) /\ Continued(b, q)
      BY <2>e DEF IsChain
    <3> QED BY <2>9, <2>e, <3>1 DEF Continued
  <2> QED BY <2>6, <2>10, <2>d
<1>2. ASSUME NEW d \in Nat, d < i, d < j PROVE a[i - d].hash = b[j - d].hash
  BY <1>1, <1>2
<1> HIDE DEF Differ
<1>3. i = j
  <2>1. ASSUME i < j PROVE FALSE
    <3>1. a[1].hash = b[j - i + 1].hash
      <4>1. i - 1 \in Nat /\ i - 1 < i /\ i - 1 < j
        BY <1>n, <2>1
      <4>2. i - (i - 1) = 1 /\ j - (i - 1) = j - i + 1
        BY <1>n
      <4> QED BY <1>2, <4>1, <4>2
    <3>2. PICK q : q = j - i + 1
      OBVIOUS
    <3>3. q \in 2..Len(b) /\ 1 \in 1..Len(a)
      BY <1>n, <2>1, <3>2
    <3>4. a[1].header.previous = b[q].header.previous
      BY <1>n, <3>1, <3>2, <3>3, SameRow
    <3>5. a[1].header.previous = NoHash
      BY <3>3 DEF IsChain, Continued
    <3>6. b[q].header.previous = b[q - 1].hash /\ b[q - 1].hash = digest(b[q - 1].header)
      BY <1>n, <3>3 DEF IsChain, Continued
    <3> QED BY <3>4, <3>5, <3>6, Digests
  <2>2. ASSUME j < i PROVE FALSE
    <3>1. b[1].hash = a[i - j + 1].hash
      <4>1. j - 1 \in Nat /\ j - 1 < i /\ j - 1 < j
        BY <1>n, <2>2
      <4>2. j - (j - 1) = 1 /\ i - (j - 1) = i - j + 1
        BY <1>n
      <4> QED BY <1>2, <4>1, <4>2
    <3>2. PICK q : q = i - j + 1
      OBVIOUS
    <3>3. q \in 2..Len(a) /\ 1 \in 1..Len(b)
      BY <1>n, <2>2, <3>2
    <3>4. b[1].header.previous = a[q].header.previous
      BY <1>n, <3>1, <3>2, <3>3, SameRow
    <3>5. b[1].header.previous = NoHash
      BY <3>3 DEF IsChain, Continued
    <3>6. a[q].header.previous = a[q - 1].hash /\ a[q - 1].hash = digest(a[q - 1].header)
      BY <1>n, <3>3 DEF IsChain, Continued
    <3> QED BY <3>4, <3>5, <3>6, Digests
  <2> QED BY <1>n, <2>1, <2>2
<1>4. ASSUME NEW k \in 1..i PROVE a[k] = b[k]
  <2>1. i - k \in Nat /\ i - k < i /\ i - (i - k) = k
    BY <1>n
  <2>2. a[k].hash = b[k].hash
    BY <1>2, <1>3, <2>1
  <2> QED BY <1>n, <1>3, <2>2, SameRow
<1> QED BY <1>3, <1>4

\* Two chains with the same head are the same.
LEMMA SameHead ==
    ASSUME NEW a, NEW b, IsChain(a), IsChain(b), Len(a) > 0, Len(b) > 0,
           HeadHash(a) = HeadHash(b)
    PROVE  a = b
<1>1. /\ Len(a) \in 1..Len(a) /\ HeadHash(a) = a[Len(a)].hash
      /\ Len(b) \in 1..Len(b) /\ HeadHash(b) = b[Len(b)].hash
  BY LogFacts DEF IsChain
<1>2. Len(a) = Len(b) /\ \A k \in 1..Len(a) : a[k] = b[k]
  <2>1. PICK i, j : i = Len(a) /\ j = Len(b)
    OBVIOUS
  <2>2. i \in 1..Len(a) /\ j \in 1..Len(b) /\ a[i].hash = b[j].hash
    BY <1>1, <2>1
  <2>3. i = j /\ \A k \in 1..i : a[k] = b[k]
    BY <2>2, SamePast
  <2> QED BY <2>1, <2>3
<1>3. PICK S, T : a \in Seq(S) /\ b \in Seq(T)
  BY DEF IsChain, IsLog
<1> QED BY <1>2, <1>3

\* One event more, on any log and on a chain whose head it names.
LEMMA AppendRow ==
    ASSUME NEW log, IsLog(log), NEW e, IsRow(e)
    PROVE  /\ IsLog(Append(log, e)) /\ Len(Append(log, e)) = Len(log) + 1
           /\ \A k \in 1..Len(log) : Append(log, e)[k] = log[k]
           /\ Append(log, e)[Len(log) + 1] = e
<1>1. PICK S : log \in Seq(S)
  BY DEF IsLog
<1>2. PICK T : T = S \cup {e}
  OBVIOUS
<1>3. log \in Seq(T) /\ e \in T
  BY <1>1, <1>2
<1>4. /\ Append(log, e) \in Seq(T) /\ Len(log) \in Nat /\ Len(Append(log, e)) = Len(log) + 1
      /\ \A k \in 1..Len(log) : Append(log, e)[k] = log[k]
      /\ Append(log, e)[Len(log) + 1] = e
  BY <1>3
<1>5. \A k \in 1..Len(log) + 1 : k \in 1..Len(log) \/ k = Len(log) + 1
  BY <1>4
<1>6. \A k \in 1..Len(Append(log, e)) : IsRow(Append(log, e)[k])
  BY <1>4, <1>5 DEF IsLog
<1> QED BY <1>4, <1>6 DEF IsLog

LEMMA AppendChain ==
    ASSUME NEW log, IsChain(log), NEW e, IsRow(e), e.header.previous = HeadHash(log),
           e.hash = digest(e.header), e.header.payload_hash = digest(e.payload)
    PROVE  IsChain(Append(log, e)) /\ HeadHash(Append(log, e)) = e.hash
<1> DEFINE n == Len(log)
           new == Append(log, e)
<1>1. /\ IsLog(new) /\ Len(new) = n + 1 /\ n \in Nat
      /\ \A k \in 1..n : new[k] = log[k]
      /\ new[n + 1] = e
  BY AppendRow, LogFacts DEF IsChain
<1>2. HeadHash(log) = IF n = 0 THEN NoHash ELSE log[n].hash
  BY LogFacts DEF IsChain
<1> HIDE DEF new, n
<1>3. HeadHash(new) = e.hash
  <2>1. HeadHash(new) = IF Len(new) = 0 THEN NoHash ELSE new[Len(new)].hash
    BY <1>1, LogFacts
  <2> QED BY <1>1, <2>1
<1>4. ASSUME NEW k \in 1..n PROVE Continued(new, k)
  <2>1. Continued(log, k)
    BY <1>4 DEF IsChain, n
  <2>2. k # 1 => new[k - 1] = log[k - 1]
    BY <1>1, <1>4
  <2> QED BY <1>1, <1>4, <2>1, <2>2 DEF Continued
<1>5. Continued(new, n + 1)
  <2>1. n # 0 => new[n] = log[n]
    BY <1>1
  <2>2. (n + 1 = 1 <=> n = 0) /\ (n + 1) - 1 = n
    BY <1>1
  <2> QED BY <1>1, <1>2, <2>1, <2>2 DEF Continued
<1>6. \A k \in 1..n + 1 : k \in 1..n \/ k = n + 1
  BY <1>1
<1>7. \A k \in 1..Len(new) : Continued(new, k)
  BY <1>1, <1>4, <1>5, <1>6
<1> QED BY <1>1, <1>3, <1>7 DEF IsChain, new

\* A run is VALID when nothing was found.
LEMMA NothingFound ==
    ASSUME NEW found, {x \in DOMAIN found : found[x]} = {}, NEW y \in DOMAIN found
    PROVE  ~found[y]
BY Zenon

LEMMA ValidMeans ==
    ASSUME Valid
    PROVE  /\ \A k \in Rows : Linked(k) /\ (HoldsSnapshot(k) => ValidSnapshot(k))
           /\ events # << >>
           /\ \A id \in DOMAIN Snapshots :
                 id \in DOMAIN envelopes /\ envelopes[id].document.signature = Snapshots[id]
           /\ DOMAIN envelopes \subseteq DOMAIN Snapshots
           /\ \A id \in DOMAIN envelopes :
                 /\ Authentic(envelopes[id].document) /\ envelopes[id].document.id = id
                 /\ envelopes[id].parent_id = envelopes[id].document.parent
<1> DEFINE found == Findings
<1>1. {x \in DOMAIN found : found[x]} = {}
  BY DEF Valid, Failures
<1>2. /\ ~found["event_modified"] /\ ~found["invalid_snapshot"] /\ ~found["missing_events"]
      /\ ~found["missing_envelope"] /\ ~found["missing_creation"]
      /\ ~found["signature_invalid"] /\ ~found["parent_modified"]
  <2>1. {"event_modified", "invalid_snapshot", "missing_events", "missing_envelope",
         "missing_creation", "signature_invalid", "parent_modified"} \subseteq DOMAIN found
    BY DEF Findings
  <2> HIDE DEF found
  <2> QED BY <1>1, <2>1, NothingFound
<1>3. /\ ~ \E k \in Rows : ~Linked(k)
      /\ ~ \E k \in Rows : HoldsSnapshot(k) /\ ~ValidSnapshot(k)
  BY <1>2 DEF Findings
<1>4. events # << >>
  BY <1>2 DEF Findings
<1>5. ~ \E id \in DOMAIN Snapshots :
          \/ id \notin DOMAIN envelopes
          \/ envelopes[id].document.signature # Snapshots[id]
  BY <1>2 DEF Findings
<1>6. DOMAIN envelopes \subseteq DOMAIN Snapshots
  BY <1>2 DEF Findings
<1>7. ~ \E id \in DOMAIN envelopes :
          ~Authentic(envelopes[id].document) \/ envelopes[id].document.id # id
  BY <1>2 DEF Findings
<1>8. ~ \E id \in DOMAIN envelopes : envelopes[id].parent_id # envelopes[id].document.parent
  BY <1>2 DEF Findings
<1> QED BY <1>3, <1>4, <1>5, <1>6, <1>7, <1>8

\* The link that verifyAudit checks is to the row before.
LEMMA LinkedMeans ==
    ASSUME IsLog(events), NEW k \in 1..Len(events)
    PROVE  Linked(k) <=> Continued(events, k)
<1>1. Len(events) \in Nat
  BY LogFacts
<1>2. PICK S : events \in Seq(S)
  BY DEF IsLog
<1>3. PICK s : s = SubSeq(events, 1, k - 1)
  OBVIOUS
<1>4. /\ s \in Seq(S) /\ Len(s) = k - 1
      /\ \A m \in 1..k - 1 : s[m] = events[m]
  BY <1>1, <1>2, <1>3
<1>5. s = << >> <=> k = 1
  BY <1>1, <1>4
<1>6. k # 1 => s[k - 1] = events[k - 1]
  BY <1>1, <1>4
<1>7. HeadHash(s) = IF k = 1 THEN NoHash ELSE events[k - 1].hash
  BY <1>4, <1>5, <1>6 DEF HeadHash
<1> QED BY <1>3, <1>7 DEF Linked, Continued, Covered

\* What verifyAudit checks of the rows is that they are a chain.
LEMMA ValidIsChain ==
    ASSUME IsLog(events), Valid
    PROVE  IsChain(events) /\ Len(events) > 0
<1>1. \A k \in Rows : Linked(k)
  BY ValidMeans
<1>2. events # << >>
  BY ValidMeans
<1>3. Len(events) \in Nat /\ DOMAIN events = 1..Len(events) /\ Len(events) # 0
  BY <1>2, LogFacts
<1>4. ASSUME NEW k \in 1..Len(events) PROVE Continued(events, k)
  BY <1>1, <1>3, LinkedMeans DEF Rows
<1> QED BY <1>3, <1>4 DEF IsChain

-----------------------------------------------------------------------------
(* The log. *)

Heads == {HeadHash(log) : log \in genuine}

\* The genuine logs and the one that an auditor kept are chains, and as long as
\* nobody computed hashes anew, every hash in the log is the head of a genuine one.
LogInv ==
    /\ IsLog(events)
    /\ << >> \in genuine /\ \A log \in genuine : IsChain(log)
    /\ retained # None => /\ IsChain(retained.log) /\ Len(retained.log) > 0
                          /\ retained.head = HeadHash(retained.log)
    /\ rewritten \in BOOLEAN
    /\ ~rewritten => \A k \in 1..Len(events) : events[k].hash \in Heads

\* The event that a transaction adds.
Extends(e) ==
    /\ IsRow(e) /\ e.header.previous = HeadHash(events)
    /\ e.hash = digest(e.header) /\ e.header.payload_hash = digest(e.payload)
    /\ events' = Append(events, e)
    /\ genuine' = genuine \cup
          {Append(log, e) : log \in {log \in genuine : HeadHash(log) = HeadHash(events)}}

\* The database keeps the microseconds that were hashed.
LEMMA Rounded ==
    ASSUME NEW t \in Nat
    PROVE  Stored(Truncate(t)) = Truncate(t)
BY DEF Stored, Truncate

\* What appendAudit adds is a link of the chain, as it is read back.
LEMMA AppendedEvent ==
    ASSUME IsLog(events), NEW type, NEW doc, NEW persisted, NEW t \in Times,
           appendAudit(type, doc, persisted, t)
    PROVE  \E e : /\ Extends(e) /\ e.header.type = type
                  /\ e.payload = [doc |-> doc, persisted |-> persisted]
<1> DEFINE payload == [doc |-> doc, persisted |-> persisted]
           header  == [id |-> Len(events) + damage, type |-> type, timestamp |-> Truncate(t),
                       payload_hash |-> digest(payload), previous |-> HeadHash(events)]
           stored  == [header EXCEPT !.timestamp = Stored(@)]
           e       == [header |-> stored, payload |-> payload, hash |-> digest(Covered(header))]
<1>1. stored = header
  <2>1. Stored(Truncate(t)) = Truncate(t)
    BY AuditConstants, Rounded
  <2> QED BY <2>1
<1>2. IsRow(e) /\ e.header = stored /\ e.payload = payload /\ e.hash = digest(Covered(header))
  BY DEF IsRow
<1>3. header.type = type /\ header.payload_hash = digest(payload) /\ header.previous = HeadHash(events)
  OBVIOUS
<1>4. /\ events' = Append(events, e)
      /\ genuine' = genuine \cup
           {Append(log, events'[Len(events')]) :
                log \in {log \in genuine : HeadHash(log) = HeadHash(events)}}
  BY DEF appendAudit
<1> HIDE DEF e, header, stored, payload
<1>5. events'[Len(events')] = e
  BY <1>2, <1>4, AppendRow, LogFacts
<1>6. Extends(e)
  BY <1>1, <1>2, <1>3, <1>4, <1>5 DEF Extends, Covered
<1>7. e.header.type = type /\ e.payload = payload
  BY <1>1, <1>2, <1>3
<1> QED BY <1>6, <1>7 DEF payload

LEMMA ExtendLog ==
    ASSUME LogInv, NEW e, Extends(e), UNCHANGED <<retained, rewritten>>
    PROVE  LogInv'
<1>1. IsLog(events)
  BY DEF LogInv
<1>2. /\ IsLog(events') /\ Len(events') = Len(events) + 1 /\ Len(events) \in Nat
      /\ \A k \in 1..Len(events) : events'[k] = events[k]
      /\ events'[Len(events) + 1] = e
  BY <1>1, AppendRow, LogFacts DEF Extends
<1>3. ASSUME NEW log \in genuine, HeadHash(log) = HeadHash(events)
      PROVE  IsChain(Append(log, e)) /\ HeadHash(Append(log, e)) = e.hash
  <2>1. IsChain(log)
    BY DEF LogInv
  <2> QED BY <1>3, <2>1, AppendChain DEF Extends
<1>4. << >> \in genuine' /\ \A log \in genuine' : IsChain(log)
  BY <1>3 DEF LogInv, Extends
<1>5. ASSUME ~rewritten PROVE \A k \in 1..Len(events') : events'[k].hash \in Heads'
  <2>1. Heads \subseteq Heads'
    BY DEF Heads, Extends
  <2>2. HeadHash(events) \in Heads
    <3>1. HeadHash(<< >>) = NoHash /\ << >> \in genuine
      BY DEF HeadHash, LogInv
    <3>2. NoHash \in Heads
      BY <3>1 DEF Heads
    <3>3. Len(events) # 0 => events[Len(events)].hash \in Heads
      BY <1>2, <1>5 DEF LogInv
    <3> QED BY <1>1, <3>2, <3>3, LogFacts
  <2>3. e.hash \in Heads'
    <3>1. PICK log \in genuine : HeadHash(log) = HeadHash(events)
      BY <2>2 DEF Heads
    <3>2. Append(log, e) \in genuine'
      BY <3>1 DEF Extends
    <3> QED BY <1>3, <3>1, <3>2 DEF Heads
  <2>4. \A k \in 1..Len(events) : events'[k].hash \in Heads'
    BY <1>2, <1>5, <2>1 DEF LogInv
  <2>5. \A k \in 1..Len(events') : k \in 1..Len(events) \/ k = Len(events) + 1
    BY <1>2
  <2> QED BY <1>2, <2>3, <2>4, <2>5
<1> QED BY <1>2, <1>4, <1>5 DEF LogInv

\* A change from outside that invents no hash.
Rearranged ==
    /\ IsLog(events')
    /\ \A k \in 1..Len(events') :
          \/ events'[k].hash = NoHash
          \/ \E j \in 1..Len(events) : events'[k].hash = events[j].hash

LEMMA RearrangeLog ==
    ASSUME LogInv, Rearranged, UNCHANGED <<genuine, retained, rewritten>>
    PROVE  LogInv'
<1>1. NoHash \in Heads /\ Heads' = Heads
  <2>1. HeadHash(<< >>) = NoHash /\ << >> \in genuine
    BY DEF HeadHash, LogInv
  <2> QED BY <2>1 DEF Heads
<1>2. ASSUME ~rewritten, NEW k \in 1..Len(events') PROVE events'[k].hash \in Heads'
  BY <1>1, <1>2 DEF LogInv, Rearranged
<1>3. IsLog(events')
  BY DEF Rearranged
<1> QED BY <1>2, <1>3 DEF LogInv

\* A row of the log with another content.
LEMMA RowFields ==
    ASSUME NEW row, IsRow(row), NEW x
    PROVE  /\ IsRow([row EXCEPT !.header = x]) /\ [row EXCEPT !.header = x].hash = row.hash
           /\ IsRow([row EXCEPT !.payload = x]) /\ [row EXCEPT !.payload = x].hash = row.hash
           /\ IsRow([row EXCEPT !.hash = x]) /\ [row EXCEPT !.hash = x].hash = x
<1>1. PICK h, p, d : row = [header |-> h, payload |-> p, hash |-> d]
  BY DEF IsRow
<1>2. /\ [row EXCEPT !.header = x] = [header |-> x, payload |-> p, hash |-> d]
      /\ [row EXCEPT !.payload = x] = [header |-> h, payload |-> x, hash |-> d]
      /\ [row EXCEPT !.hash = x] = [header |-> h, payload |-> p, hash |-> x]
  BY <1>1
<1>3. ASSUME NEW a, NEW b, NEW c
      PROVE  IsRow([header |-> a, payload |-> b, hash |-> c])
  BY DEF IsRow
<1> QED BY <1>1, <1>2, <1>3

LEMMA EditedRows ==
    ASSUME IsLog(events), NEW k \in Rows, NEW row \in EditedRow(events[k])
    PROVE  /\ IsRow(row)
           /\ row.hash = NoHash \/ \E j \in 1..Len(events) : row.hash = events[j].hash
<1> DEFINE old == events[k]
<1>1. k \in 1..Len(events) /\ IsRow(old) /\ Rows = 1..Len(events)
  BY LogFacts DEF Rows, IsLog
<1>2. \/ \E x : row = [old EXCEPT !.header = x]
      \/ \E x : row = [old EXCEPT !.payload = x]
      \/ \E x \in {NoHash} \cup {events[j].hash : j \in Rows} : row = [old EXCEPT !.hash = x]
  BY DEF EditedRow
<1> HIDE DEF old
<1>3. CASE \E x : row = [old EXCEPT !.header = x]
  <2>1. PICK x : row = [old EXCEPT !.header = x]
    BY <1>3
  <2>2. IsRow(row) /\ row.hash = old.hash
    BY <1>1, <2>1, RowFields
  <2> QED BY <1>1, <2>2 DEF old
<1>4. CASE \E x : row = [old EXCEPT !.payload = x]
  <2>1. PICK x : row = [old EXCEPT !.payload = x]
    BY <1>4
  <2>2. IsRow(row) /\ row.hash = old.hash
    BY <1>1, <2>1, RowFields
  <2> QED BY <1>1, <2>2 DEF old
<1>5. CASE \E x \in {NoHash} \cup {events[j].hash : j \in Rows} : row = [old EXCEPT !.hash = x]
  <2>1. PICK x \in {NoHash} \cup {events[j].hash : j \in Rows} : row = [old EXCEPT !.hash = x]
    BY <1>5
  <2>2. IsRow(row) /\ row.hash = x
    BY <1>1, <2>1, RowFields
  <2> QED BY <1>1, <2>1, <2>2
<1> QED BY <1>2, <1>3, <1>4, <1>5

\* Sequences put together and taken apart.
LEMMA Joined ==
    ASSUME NEW S, NEW a \in Seq(S), NEW b \in Seq(S)
    PROVE  /\ a \o b \in Seq(S) /\ Len(a \o b) = Len(a) + Len(b)
           /\ \A i \in 1..Len(a) + Len(b) :
                 (a \o b)[i] = IF i <= Len(a) THEN a[i] ELSE b[i - Len(a)]
OBVIOUS

LEMMA Parts ==
    ASSUME NEW S, NEW s \in Seq(S), NEW m \in Nat, NEW n \in Nat, n <= Len(s), m <= n,
           NEW part, part = SubSeq(s, m + 1, n)
    PROVE  /\ part \in Seq(S) /\ Len(part) = n - m
           /\ \A i \in 1..n - m : part[i] = s[m + i]
<1>1. Len(s) \in Nat
  OBVIOUS
<1>2. part \in Seq(S) /\ Len(part) = n - m
  BY <1>1
<1>3. ASSUME NEW i \in 1..n - m PROVE part[i] = s[m + i]
  <2>1. part[i] = s[m + 1 + i - 1]
    BY <1>1
  <2>2. m + 1 + i - 1 = m + i
    OBVIOUS
  <2> QED BY <2>1, <2>2
<1> QED BY <1>2, <1>3

\* A sequence without its k-th element.
Without(s, k) == SubSeq(s, 1, k - 1) \o SubSeq(s, k + 1, Len(s))

LEMMA WithoutOne ==
    ASSUME NEW S, NEW s \in Seq(S), NEW k \in 1..Len(s)
    PROVE  /\ Without(s, k) \in Seq(S) /\ Len(Without(s, k)) = Len(s) - 1
           /\ \A i \in 1..Len(s) - 1 :
                 Without(s, k)[i] = IF i < k THEN s[i] ELSE s[i + 1]
<1>1. PICK a, b, m, n, t : /\ a = SubSeq(s, 0 + 1, m) /\ b = SubSeq(s, k + 1, n)
                           /\ m = k - 1 /\ n = Len(s) /\ t = a \o b /\ t = Without(s, k)
  <2>1. 0 + 1 = 1
    OBVIOUS
  <2> QED BY <2>1 DEF Without
<1>2. /\ m \in Nat /\ n \in Nat /\ n = Len(s) /\ m <= n /\ k \in Nat /\ k <= n
      /\ 0 \in Nat /\ 0 <= m /\ m - 0 = m
  BY <1>1
<1>3. a \in Seq(S) /\ Len(a) = m - 0 /\ \A i \in 1..m - 0 : a[i] = s[0 + i]
  BY <1>1, <1>2, Parts
<1>4. b \in Seq(S) /\ Len(b) = n - k /\ \A i \in 1..n - k : b[i] = s[k + i]
  BY <1>1, <1>2, Parts
<1>5. /\ a \o b \in Seq(S) /\ Len(a \o b) = Len(a) + Len(b)
      /\ \A i \in 1..Len(a) + Len(b) :
            (a \o b)[i] = IF i <= Len(a) THEN a[i] ELSE b[i - Len(a)]
  BY <1>3, <1>4, Joined
<1>6. Len(a) = m /\ Len(b) = n - k /\ m + (n - k) = n - 1
  BY <1>1, <1>2, <1>3, <1>4
<1>7. t \in Seq(S) /\ Len(t) = n - 1
  BY <1>1, <1>5, <1>6
<1>8. \A i \in 1..m + (n - k) : t[i] = IF i <= m THEN a[i] ELSE b[i - m]
  <2>1. t = a \o b /\ Len(a) = m /\ Len(b) = n - k
    BY <1>1, <1>6
  <2> QED BY <1>5, <2>1
<1>9. ASSUME NEW i \in 1..n - 1 PROVE t[i] = IF i < k THEN s[i] ELSE s[i + 1]
  <2>1. CASE i < k
    <3>1. i <= m /\ i \in 1..m - 0 /\ 0 + i = i
      BY <1>1, <2>1
    <3>2. t[i] = a[i]
      BY <1>6, <1>8, <3>1
    <3> QED BY <1>3, <2>1, <3>1, <3>2
  <2>2. CASE ~(i < k)
    <3>1. ~(i <= m) /\ i - m \in 1..n - k /\ k + (i - m) = i + 1
      BY <1>1, <2>2
    <3>2. t[i] = b[i - m]
      BY <1>6, <1>8, <3>1
    <3> QED BY <1>4, <2>2, <3>1, <3>2
  <2> QED BY <2>1, <2>2
<1> QED BY <1>1, <1>7, <1>9

\* A row that is edited, lost or put in the place of another brings no new hash.
LEMMA DamagedLog ==
    ASSUME IsLog(events), NEW k \in Rows,
           EditEvent(k) \/ LoseEvent(k) \/ \E j \in 1..k - 1 : SwapEvents(j, k)
    PROVE  Rearranged
<1>1. /\ Rows = 1..Len(events) /\ Len(events) \in Nat /\ k \in 1..Len(events)
      /\ \A j \in 1..Len(events) : IsRow(events[j])
  BY LogFacts DEF Rows, IsLog
<1>2. PICK S : events \in Seq(S)
  BY DEF IsLog
<1>3. CASE EditEvent(k)
  <2>1. PICK row \in EditedRow(events[k]) : events' = [events EXCEPT ![k] = row]
    BY <1>3 DEF EditEvent
  <2>2. PICK T : T = S \cup {row}
    OBVIOUS
  <2>3. events \in Seq(T) /\ row \in T
    BY <1>2, <2>2
  <2>4. /\ events' \in Seq(T) /\ Len(events') = Len(events)
        /\ \A j \in 1..Len(events) : events'[j] = IF j = k THEN row ELSE events[j]
    BY <1>1, <2>1, <2>3
  <2>5. /\ IsRow(row)
        /\ row.hash = NoHash \/ \E j \in 1..Len(events) : row.hash = events[j].hash
    BY EditedRows
  <2>6. IsLog(events')
    BY <1>1, <2>4, <2>5 DEF IsLog
  <2> QED BY <2>4, <2>5, <2>6 DEF Rearranged
<1>4. CASE LoseEvent(k)
  <2>1. PICK log : log = events
    OBVIOUS
  <2>2. /\ events' \in Seq(S) /\ Len(events') = Len(events) - 1
        /\ \A i \in 1..Len(events) - 1 : events'[i] = IF i < k THEN events[i] ELSE events[i + 1]
    <3>1. log \in Seq(S) /\ k \in 1..Len(log)
      BY <1>1, <1>2, <2>1
    <3>2. PICK t : t = Without(log, k)
      OBVIOUS
    <3>3. /\ t \in Seq(S) /\ Len(t) = Len(log) - 1
          /\ \A i \in 1..Len(log) - 1 : t[i] = IF i < k THEN log[i] ELSE log[i + 1]
      BY <3>1, <3>2, WithoutOne
    <3>4. events' = t
      BY <1>4, <2>1, <3>2 DEF LoseEvent, Without
    <3> QED BY <2>1, <3>3, <3>4
  <2>3. ASSUME NEW i \in 1..Len(events) - 1
        PROVE  \E j \in 1..Len(events) : events'[i] = events[j]
    <3>1. i \in 1..Len(events) /\ i + 1 \in 1..Len(events)
      BY <1>1
    <3> QED BY <2>2, <3>1
  <2>4. IsLog(events')
    BY <1>1, <2>2, <2>3 DEF IsLog
  <2> QED BY <2>2, <2>3, <2>4 DEF Rearranged
<1>5. ASSUME NEW j \in 1..k - 1, SwapEvents(j, k) PROVE Rearranged
  <2>1. j \in 1..Len(events) /\ events[j] \in S /\ events[k] \in S
    BY <1>1, <1>2
  <2>2. events' = [events EXCEPT ![j] = events[k], ![k] = events[j]]
    BY <1>5 DEF SwapEvents
  <2>3. /\ events' \in Seq(S) /\ Len(events') = Len(events)
        /\ \A i \in 1..Len(events) :
              events'[i] = IF i = k THEN events[j] ELSE IF i = j THEN events[k] ELSE events[i]
    BY <1>1, <1>2, <2>1, <2>2
  <2>4. IsLog(events')
    BY <1>1, <2>1, <2>3 DEF IsLog
  <2> QED BY <1>1, <2>1, <2>3, <2>4 DEF Rearranged
<1> QED BY <1>3, <1>4, <1>5

LEMMA RewrittenLog ==
    ASSUME IsLog(events), Rewrite
    PROVE  IsLog(events') /\ rewritten' = TRUE
<1>1. events' = [k \in Rows |->
          [events[k] EXCEPT !.header = Relinked(k, Rehash[k - 1]), !.hash = Rehash[k]]]
  BY DEF Rewrite
<1>2. Rows = 1..Len(events) /\ Len(events) \in Nat /\ \A k \in Rows : IsRow(events[k])
  BY LogFacts DEF Rows, IsLog
<1>3. ASSUME NEW k \in Rows PROVE IsRow(events'[k])
  <2>1. PICK h, x : events'[k] = [events[k] EXCEPT !.header = h, !.hash = x]
    BY <1>1
  <2>2. PICK row : row = [events[k] EXCEPT !.header = h]
    OBVIOUS
  <2>3. IsRow(row)
    BY <1>2, <2>2, RowFields
  <2>4. events'[k] = [row EXCEPT !.hash = x]
    BY <2>1, <2>2
  <2>5. IsRow([row EXCEPT !.hash = x])
    BY <2>3, RowFields
  <2> QED BY <2>4, <2>5
<1>4. PICK S : S = {events'[k] : k \in Rows}
  OBVIOUS
<1>5. events' \in [1..Len(events) -> S]
  BY <1>1, <1>2, <1>4
<1>6. events' \in Seq(S) /\ Len(events') = Len(events)
  BY <1>2, <1>5
<1> QED BY <1>2, <1>3, <1>6 DEF Rewrite, IsLog

LEMMA LogStep ==
    ASSUME LogInv, [Next]_vars
    PROVE  LogInv'
<1>0. IsLog(events)
  BY DEF LogInv
<1>1. ASSUME NEW type, NEW doc, NEW persisted, NEW t \in Times,
             appendAudit(type, doc, persisted, t), UNCHANGED <<retained, rewritten>>
      PROVE  LogInv'
  <2>1. PICK e : Extends(e)
    BY <1>0, <1>1, AppendedEvent
  <2> QED BY <1>1, <2>1, ExtendLog
<1>2. ASSUME NEW id \in EnvIds, NEW body \in Drafts, NEW t \in Times, Create(id, body, t)
      PROVE  LogInv'
  BY <1>1, <1>2 DEF Create
<1>3. ASSUME NEW id \in EnvIds, NEW body \in Drafts, NEW t \in Times, NEW parent \in EnvIds,
             NEW saved \in BOOLEAN, EvaluateHandoff(parent, id, body, saved, t)
      PROVE  LogInv'
  <2>1. UNCHANGED <<retained, rewritten>>
    BY <1>3 DEF EvaluateHandoff
  <2>2. CASE saved
    BY <1>1, <1>3, <2>1, <2>2 DEF EvaluateHandoff
  <2>3. CASE ~saved
    BY <1>1, <1>3, <2>1, <2>3 DEF EvaluateHandoff
  <2> QED BY <2>2, <2>3
<1>4. ASSUME NEW id \in EnvIds, NEW t \in Times, OtherEvent(id, t) PROVE LogInv'
  BY <1>1, <1>4 DEF OtherEvent
<1>5. CASE Retain
  <2>1. /\ IsChain(events) /\ Len(events) > 0
        /\ retained' = [head |-> HeadHash(events), log |-> events]
        /\ UNCHANGED <<events, genuine, rewritten>>
    BY <1>0, <1>5, ValidIsChain DEF Retain, storage, history
  <2>2. retained'.log = events /\ retained'.head = HeadHash(events)
    BY <2>1
  <2> QED BY <2>1, <2>2 DEF LogInv, Heads
<1>6. ASSUME NEW k \in Rows,
             EditEvent(k) \/ LoseEvent(k) \/ \E j \in 1..k - 1 : SwapEvents(j, k)
      PROVE  LogInv'
  <2>1. UNCHANGED <<genuine, retained, rewritten>>
    BY <1>6 DEF EditEvent, LoseEvent, SwapEvents, Damage, history
  <2> QED BY <1>0, <1>6, <2>1, DamagedLog, RearrangeLog
<1>7. CASE Rewrite
  <2>1. UNCHANGED <<genuine, retained>> /\ IsLog(events') /\ rewritten' = TRUE
    BY <1>0, <1>7, RewrittenLog DEF Rewrite, Damage, history
  <2> QED BY <2>1 DEF LogInv
<1>8. ASSUME UNCHANGED <<events, genuine, retained, rewritten>> PROVE LogInv'
  BY <1>8 DEF LogInv, Heads
<1>9. ASSUME NEW id \in DOMAIN envelopes, EditEnvelope(id) \/ LoseEnvelope(id) PROVE LogInv'
  BY <1>8, <1>9 DEF EditEnvelope, LoseEnvelope, Damage, history
<1>10. CASE UNCHANGED vars
  BY <1>8, <1>10 DEF vars
<1> QED BY <1>2, <1>3, <1>4, <1>5, <1>6, <1>7, <1>9, <1>10 DEF Next

LEMMA LogInvariant == Spec => []LogInv
<1>1. Init => LogInv
  <2> SUFFICES ASSUME Init PROVE LogInv
    OBVIOUS
  <2>1. events = << >> /\ genuine = {<< >>} /\ retained = None /\ rewritten = FALSE
    BY DEF Init
  <2>2. << >> \in Seq({}) /\ Len(<< >>) = 0
    OBVIOUS
  <2>3. IsLog(<< >>) /\ IsChain(<< >>)
    BY <2>2 DEF IsChain, IsLog
  <2>4. IsLog(events) /\ << >> \in genuine /\ \A log \in genuine : IsChain(log)
    BY <2>1, <2>3
  <2>5. \A k \in 1..Len(events) : events[k].hash \in Heads
    BY <2>1, <2>2
  <2> QED BY <2>1, <2>4, <2>5 DEF LogInv
<1> QED BY <1>1, LogStep, PTL DEF Spec

\* The first rows of a log.
LEMMA Prefix ==
    ASSUME NEW log, IsLog(log), NEW kept, IsLog(kept), NEW k \in 1..Len(log), k = Len(kept),
           \A i \in 1..k : log[i] = kept[i]
    PROVE  SubSeq(log, 1, k) = kept
<1>1. PICK S, T : log \in Seq(S) /\ kept \in Seq(T)
  BY DEF IsLog
<1>2. PICK s : s = SubSeq(log, 1, k)
  OBVIOUS
<1>3. s \in Seq(S) /\ Len(s) = k /\ \A i \in 1..k : s[i] = log[i]
  BY <1>1, <1>2
<1>4. s = kept
  BY <1>1, <1>3
<1> QED BY <1>2, <1>4

\* While a log that verifies contains a head hash that somebody kept, everything
\* up to it is as it was, whatever was rewritten (the comparison of hashes and
\* links in verifyAudit, audit.go:82-113).
THEOREM PastIsPinned == Spec => []CheckpointPinsThePast
<1>1. LogInv => CheckpointPinsThePast
  <2> SUFFICES ASSUME LogInv, retained # None, Valid, NEW k \in Rows,
                      events[k].hash = retained.head
               PROVE  SubSeq(events, 1, k) = retained.log
    BY DEF CheckpointPinsThePast
  <2>1. PICK kept : kept = retained.log
    OBVIOUS
  <2>2. IsChain(events) /\ Rows = 1..Len(events)
    BY ValidIsChain, LogFacts DEF LogInv, Rows
  <2>3. IsChain(kept) /\ Len(kept) > 0 /\ retained.head = HeadHash(kept)
    BY <2>1 DEF LogInv
  <2>4. PICK j : j = Len(kept)
    OBVIOUS
  <2>5. j \in 1..Len(kept) /\ HeadHash(kept) = kept[j].hash
    BY <2>3, <2>4, LogFacts DEF IsChain
  <2>6. k = j /\ \A i \in 1..k : events[i] = kept[i]
    BY <2>2, <2>3, <2>5, SamePast
  <2> QED BY <2>1, <2>2, <2>3, <2>4, <2>6, Prefix DEF IsChain
<1> QED BY <1>1, LogInvariant, PTL

\* Unless hashes were computed anew, a log that verifies is one that appendAudit
\* wrote, event by event (audit.go:41-50, 87-95).
THEOREM GenuineLogs == Spec => []ValidLogsAreGenuine
<1>1. LogInv => ValidLogsAreGenuine
  <2> SUFFICES ASSUME LogInv, Valid, ~rewritten PROVE events \in genuine
    BY DEF ValidLogsAreGenuine
  <2>1. IsChain(events) /\ Len(events) > 0
    BY ValidIsChain DEF LogInv
  <2>2. PICK n : n = Len(events)
    OBVIOUS
  <2>3. n \in 1..Len(events) /\ HeadHash(events) = events[n].hash
    BY <2>1, <2>2, LogFacts DEF IsChain
  <2>4. events[n].hash \in Heads
    BY <2>3 DEF LogInv
  <2>5. PICK log \in genuine : HeadHash(log) = HeadHash(events)
    BY <2>3, <2>4 DEF Heads
  <2>6. IsChain(log) /\ IsLog(log)
    BY DEF LogInv, IsChain
  <2>7. Len(log) > 0
    <3>1. events[n].hash # NoHash
      BY <2>1, <2>3, Digests DEF IsChain, Continued
    <3> QED BY <2>3, <2>5, <2>6, <3>1, LogFacts
  <2>8. events = log
    BY <2>1, <2>5, <2>6, <2>7, SameHead
  <2> QED BY <2>8
<1> QED BY <1>1, LogInvariant, PTL

-----------------------------------------------------------------------------
(* The table. *)

TableRows == [document : Documents, parent_id : EnvIds \cup {None}]

\* A row bears no signature but one that was issued.
Borne(row) ==
    row.document.signature = None
    \/ \E other \in issued : row.document.signature = other.document.signature

TableInv ==
    /\ issued \subseteq TableRows
    /\ \A row \in issued : Authentic(row.document) /\ row.parent_id = row.document.parent
    /\ \A id \in DOMAIN envelopes : envelopes[id] \in TableRows /\ Borne(envelopes[id])

\* What the server stores it has signed.
LEMMA SignedDocument ==
    ASSUME NEW id \in EnvIds, NEW parent \in EnvIds \cup {None}, NEW body \in Bodies,
           NEW doc, doc = Signed(Document(id, parent, body))
    PROVE  /\ doc \in Documents /\ Authentic(doc)
           /\ doc.id = id /\ doc.parent = parent /\ doc.body = body
<1>1. doc = [id |-> id, parent |-> parent, body |-> body,
             signature |-> [ed25519 |-> <<id, parent, body>>]]
  BY DEF Signed, Document, Sign
<1>2. [ed25519 |-> <<id, parent, body>>] \in Signature
  BY DEF Signature
<1> QED BY <1>1, <1>2 DEF Documents, Authentic, Sign

\* The signature says all the rest of the document.
LEMMA SameDocument ==
    ASSUME NEW a \in Documents, NEW b \in Documents, Authentic(a), Authentic(b),
           a.signature = b.signature
    PROVE  a = b
<1>1. Sign(a) = Sign(b)
  BY DEF Authentic
<1>2. <<a.id, a.parent, a.body>> = <<b.id, b.parent, b.body>>
  BY <1>1 DEF Sign
<1>3. a.id = b.id /\ a.parent = b.parent /\ a.body = b.body
  BY <1>2
<1> QED BY <1>3 DEF Documents

LEMMA SignatureIsSome ==
    ASSUME NEW doc \in Documents, Authentic(doc)
    PROVE  doc.signature # None
<1>1. Sign(doc) \in Signature
  BY DEF Sign, Signature, Documents
<1> QED BY <1>1, AuditConstants DEF Authentic

LEMMA WithRow ==
    ASSUME NEW table, NEW id, NEW row, NEW x \in DOMAIN With(table, id, row)
    PROVE  \/ With(table, id, row)[x] = row
           \/ x \in DOMAIN table /\ With(table, id, row)[x] = table[x]
BY DEF With

LEMMA SavedRow ==
    ASSUME TableInv, NEW id \in EnvIds, NEW parent \in EnvIds \cup {None}, NEW body \in Bodies,
           NEW doc, doc = Signed(Document(id, parent, body)), Save(doc)
    PROVE  TableInv'
<1>1. doc \in Documents /\ Authentic(doc) /\ doc.parent = parent
  BY SignedDocument
<1>2. PICK row : row = [document |-> doc, parent_id |-> doc.parent]
  OBVIOUS
<1>3. /\ row \in TableRows /\ row.document = doc /\ row.parent_id = doc.parent
  BY <1>1, <1>2 DEF TableRows
<1>4. issued' = issued \cup {row} /\ envelopes' = With(envelopes, doc.id, row)
  BY <1>2 DEF Save
<1>5. /\ issued' \subseteq TableRows
      /\ \A other \in issued' : Authentic(other.document) /\ other.parent_id = other.document.parent
  BY <1>1, <1>3, <1>4 DEF TableInv
<1>6. ASSUME NEW x \in DOMAIN envelopes' PROVE envelopes'[x] \in TableRows /\ Borne(envelopes[x])'
  <2>1. envelopes'[x] = row \/ (x \in DOMAIN envelopes /\ envelopes'[x] = envelopes[x])
    <3>1. PICK table, id1 : table = envelopes /\ id1 = doc.id
      OBVIOUS
    <3>2. envelopes' = With(table, id1, row)
      BY <1>4, <3>1
    <3>3. x \in DOMAIN With(table, id1, row)
      BY <3>2
    <3>4. \/ With(table, id1, row)[x] = row
          \/ x \in DOMAIN table /\ With(table, id1, row)[x] = table[x]
      BY <3>3, WithRow
    <3>5. envelopes'[x] = With(table, id1, row)[x]
          /\ table[x] = envelopes[x] /\ DOMAIN table = DOMAIN envelopes
      BY <3>1, <3>2
    <3> QED BY <3>1, <3>4, <3>5
  <2>2. CASE envelopes'[x] = row
    BY <1>3, <1>4, <2>2 DEF Borne
  <2>3. CASE x \in DOMAIN envelopes /\ envelopes'[x] = envelopes[x]
    BY <1>4, <2>3 DEF Borne, TableInv
  <2> QED BY <2>1, <2>2, <2>3
<1> QED BY <1>5, <1>6 DEF TableInv

\* A change of the rows that signs nothing.
LEMMA DamagedTable ==
    ASSUME TableInv, UNCHANGED issued,
           \A x \in DOMAIN envelopes' :
              /\ envelopes'[x] \in TableRows
              /\ \/ envelopes'[x].document.signature = None
                 \/ \E y \in DOMAIN envelopes :
                      envelopes'[x].document.signature = envelopes[y].document.signature
    PROVE  TableInv'
<1>1. ASSUME NEW x \in DOMAIN envelopes' PROVE envelopes'[x] \in TableRows /\ Borne(envelopes[x])'
  BY DEF Borne, TableInv
<1> QED BY <1>1 DEF TableInv

\* A row of the table with another content.
EditedColumns(old, row) ==
    \/ \E x \in Bodies : row = [old EXCEPT !.document.body = x]
    \/ row = [old EXCEPT !.document.signature = None]
    \/ \E x \in EnvIds \cup {None} : row = [old EXCEPT !.parent_id = x]

LEMMA RowColumns ==
    ASSUME NEW old \in TableRows, NEW row, EditedColumns(old, row)
    PROVE  /\ row \in TableRows
           /\ row.document.signature = None \/ row.document.signature = old.document.signature
<1>1. PICK doc \in Documents, parent \in EnvIds \cup {None} :
          old = [document |-> doc, parent_id |-> parent]
  BY DEF TableRows
<1>2. ASSUME NEW x
      PROVE  /\ [old EXCEPT !.document.body = x]
                   = [document |-> [doc EXCEPT !.body = x], parent_id |-> parent]
             /\ [old EXCEPT !.document.signature = x]
                   = [document |-> [doc EXCEPT !.signature = x], parent_id |-> parent]
             /\ [old EXCEPT !.parent_id = x] = [document |-> doc, parent_id |-> x]
  BY <1>1
<1>3. CASE \E x \in Bodies : row = [old EXCEPT !.document.body = x]
  <2>1. PICK x \in Bodies : row = [document |-> [doc EXCEPT !.body = x], parent_id |-> parent]
    BY <1>2, <1>3
  <2>2. [doc EXCEPT !.body = x] \in Documents /\ [doc EXCEPT !.body = x].signature = doc.signature
    BY DEF Documents
  <2> QED BY <1>1, <2>1, <2>2 DEF TableRows
<1>4. CASE row = [old EXCEPT !.document.signature = None]
  <2>1. row = [document |-> [doc EXCEPT !.signature = None], parent_id |-> parent]
    BY <1>2, <1>4
  <2>2. [doc EXCEPT !.signature = None] \in Documents /\ [doc EXCEPT !.signature = None].signature = None
    BY DEF Documents
  <2> QED BY <2>1, <2>2 DEF TableRows
<1>5. CASE \E x \in EnvIds \cup {None} : row = [old EXCEPT !.parent_id = x]
  <2>1. PICK x \in EnvIds \cup {None} : row = [document |-> doc, parent_id |-> x]
    BY <1>2, <1>5
  <2> QED BY <1>1, <2>1 DEF TableRows
<1> QED BY <1>3, <1>4, <1>5 DEF EditedColumns

LEMMA EditedEnvelope ==
    ASSUME TableInv, NEW id \in DOMAIN envelopes, EditEnvelope(id)
    PROVE  TableInv'
<1>1. PICK row : /\ envelopes' = [envelopes EXCEPT ![id] = row]
                 /\ \/ EditedColumns(envelopes[id], row)
                    \/ \E x \in DOMAIN envelopes : row = envelopes[x]
  BY DEF EditEnvelope, EditedColumns
<1>2. /\ row \in TableRows
      /\ \/ row.document.signature = None
         \/ \E y \in DOMAIN envelopes :
              row.document.signature = envelopes[y].document.signature
  <2>1. CASE EditedColumns(envelopes[id], row)
    <3>1. envelopes[id] \in TableRows
      BY DEF TableInv
    <3> QED BY <2>1, <3>1, RowColumns
  <2>2. CASE \E x \in DOMAIN envelopes : row = envelopes[x]
    BY <2>2 DEF TableInv
  <2> QED BY <1>1, <2>1, <2>2
<1>3. ASSUME NEW x \in DOMAIN envelopes'
      PROVE  /\ envelopes'[x] \in TableRows
             /\ \/ envelopes'[x].document.signature = None
                \/ \E y \in DOMAIN envelopes :
                      envelopes'[x].document.signature = envelopes[y].document.signature
  <2>1. x \in DOMAIN envelopes /\ envelopes'[x] = IF x = id THEN row ELSE envelopes[x]
    BY <1>1
  <2> QED BY <1>2, <2>1 DEF TableInv
<1>4. UNCHANGED issued
  BY DEF EditEnvelope, Damage, history
<1> QED BY <1>3, <1>4, DamagedTable

LEMMA TableStep ==
    ASSUME TableInv, [Next]_vars
    PROVE  TableInv'
<1>1. ASSUME NEW id \in EnvIds, NEW body \in Drafts, NEW t \in Times, Create(id, body, t)
      PROVE  TableInv'
  <2>1. PICK doc : doc = Signed(Document(id, None, body)) /\ Save(doc)
    BY <1>1 DEF Create
  <2> QED BY <2>1, SavedRow, AuditConstants
<1>2. ASSUME NEW id \in EnvIds, NEW body \in Drafts, NEW t \in Times, NEW parent \in EnvIds,
             NEW saved \in BOOLEAN, EvaluateHandoff(parent, id, body, saved, t)
      PROVE  TableInv'
  <2>1. CASE saved
    <3>1. PICK doc : doc = Signed(Document(id, parent, body)) /\ Save(doc)
      BY <1>2, <2>1 DEF EvaluateHandoff
    <3> QED BY <3>1, SavedRow, AuditConstants
  <2>2. CASE ~saved
    BY <1>2, <2>2 DEF EvaluateHandoff, TableInv, Borne
  <2> QED BY <2>1, <2>2
<1>3. ASSUME UNCHANGED <<envelopes, issued>> PROVE TableInv'
  BY <1>3 DEF TableInv, Borne
<1>4. ASSUME NEW id \in EnvIds, NEW t \in Times, OtherEvent(id, t) PROVE TableInv'
  BY <1>3, <1>4 DEF OtherEvent
<1>5. CASE Retain
  BY <1>3, <1>5 DEF Retain, storage, history
<1>6. ASSUME NEW k \in Rows,
             EditEvent(k) \/ LoseEvent(k) \/ \E j \in 1..k - 1 : SwapEvents(j, k)
      PROVE  TableInv'
  BY <1>3, <1>6 DEF EditEvent, LoseEvent, SwapEvents, Damage, history
<1>7. CASE Rewrite
  BY <1>3, <1>7 DEF Rewrite, Damage, history
<1>8. ASSUME NEW id \in DOMAIN envelopes, LoseEnvelope(id) PROVE TableInv'
  <2>1. envelopes' = [x \in DOMAIN envelopes \ {id} |-> envelopes[x]] /\ UNCHANGED issued
    BY <1>8 DEF LoseEnvelope, Damage, history, Restrict
  <2>2. ASSUME NEW x \in DOMAIN envelopes'
        PROVE  x \in DOMAIN envelopes /\ envelopes'[x] = envelopes[x]
    BY <2>1
  <2> QED BY <2>1, <2>2, DamagedTable DEF TableInv
<1>9. CASE UNCHANGED vars
  BY <1>3, <1>9 DEF vars
<1> QED BY <1>1, <1>2, <1>4, <1>5, <1>6, <1>7, <1>8, <1>9, EditedEnvelope DEF Next

LEMMA TableInvariant == Spec => []TableInv
<1>1. Init => TableInv
  BY DEF Init, TableInv
<1> QED BY <1>1, TableStep, PTL DEF Spec

\* The envelopes of a run that verifies are as they were issued, and the log and
\* the table agree on which there are (audit.go:96-111, 153-167).
THEOREM IssuedEnvelopes == Spec => []ValidEnvelopesAreIssued
<1>1. TableInv => ValidEnvelopesAreIssued
  <2> SUFFICES ASSUME TableInv, Valid PROVE ValidEnvelopesAreIssued
    BY DEF ValidEnvelopesAreIssued
  <2>1. ASSUME NEW id \in DOMAIN envelopes
        PROVE  envelopes[id] \in issued /\ envelopes[id].document.id = id
    <3>1. /\ Authentic(envelopes[id].document) /\ envelopes[id].document.id = id
          /\ envelopes[id].parent_id = envelopes[id].document.parent
      BY ValidMeans
    <3>2. PICK row : row = envelopes[id]
      OBVIOUS
    <3>3. row \in TableRows /\ row.document \in Documents /\ Borne(row)
      BY <3>2 DEF TableInv, TableRows
    <3>4. row.document.signature # None
      BY <3>1, <3>2, <3>3, SignatureIsSome
    <3>5. PICK other \in issued : row.document.signature = other.document.signature
      BY <3>3, <3>4 DEF Borne
    <3>6. /\ other \in TableRows /\ other.document \in Documents
          /\ Authentic(other.document) /\ other.parent_id = other.document.parent
      BY DEF TableInv, TableRows
    <3>7. row.document = other.document
      BY <3>1, <3>2, <3>3, <3>5, <3>6, SameDocument
    <3>8. row = other
      BY <3>1, <3>2, <3>3, <3>6, <3>7 DEF TableRows
    <3> QED BY <3>1, <3>2, <3>8
  <2>2. DOMAIN envelopes = {events[k].payload.doc.id : k \in {k \in Rows : HoldsSnapshot(k)}}
    <3>1. {k \in Rows : HoldsSnapshot(k) /\ ValidSnapshot(k)} = {k \in Rows : HoldsSnapshot(k)}
      BY ValidMeans
    <3>2. DOMAIN Snapshots = {events[k].payload.doc.id :
                                 k \in {k \in Rows : HoldsSnapshot(k) /\ ValidSnapshot(k)}}
      BY DEF Snapshots
    <3>3. DOMAIN Snapshots = DOMAIN envelopes
      BY ValidMeans
    <3> QED BY <3>1, <3>2, <3>3
  <2> QED BY <2>1, <2>2 DEF ValidEnvelopesAreIssued
<1> QED BY <1>1, TableInvariant, PTL

-----------------------------------------------------------------------------
(* A storage that nobody touched. *)

\* What HoldsSnapshot says of a row.
IsSnapshot(row) ==
    \/ row.header.type = "envelope.created"
    \/ /\ row.header.type = "handoff.evaluated"
       /\ row.payload.persisted /\ row.payload.doc # None

Sound(table) ==
    \A id \in DOMAIN table :
        /\ table[id] \in TableRows /\ Authentic(table[id].document)
        /\ table[id].document.id = id /\ table[id].parent_id = table[id].document.parent
        /\ table[id].document.parent \in DOMAIN table \cup {None}

\* The log and the table tell of the same documents.
Recorded(log, table) ==
    /\ \A k \in 1..Len(log) : IsSnapshot(log[k]) =>
          /\ log[k].payload.doc.id \in DOMAIN table
          /\ table[log[k].payload.doc.id].document = log[k].payload.doc
    /\ \A id \in DOMAIN table :
          \E k \in 1..Len(log) : IsSnapshot(log[k]) /\ log[k].payload.doc.id = id

CleanInv ==
    /\ damage \in Nat
    /\ damage = 0 => IsChain(events) /\ Sound(envelopes) /\ Recorded(events, envelopes)

\* One envelope more, below one that is there, with its event; or another event.
LEMMA SavedTable ==
    ASSUME NEW table, Sound(table), NEW id \in EnvIds, id \notin DOMAIN table,
           NEW parent \in DOMAIN table \cup {None}, NEW row \in TableRows,
           Authentic(row.document), row.document.id = id, row.document.parent = parent,
           row.parent_id = parent
    PROVE  Sound(With(table, id, row))
<1> DEFINE new == With(table, id, row)
<1>1. /\ DOMAIN new = DOMAIN table \cup {id} /\ new[id] = row
      /\ \A x \in DOMAIN table : new[x] = table[x]
  BY DEF With
<1> HIDE DEF new
<1>2. ASSUME NEW x \in DOMAIN table
      PROVE  /\ new[x] \in TableRows /\ Authentic(new[x].document)
             /\ new[x].document.id = x /\ new[x].parent_id = new[x].document.parent
             /\ new[x].document.parent \in DOMAIN new \cup {None}
  BY <1>1 DEF Sound
<1>3. Sound(new)
  BY <1>1, <1>2 DEF Sound
<1> QED BY <1>3 DEF new

LEMMA SavedRecord ==
    ASSUME NEW log, IsLog(log), NEW table, Recorded(log, table), NEW id, id \notin DOMAIN table,
           NEW row, NEW e, IsRow(e), IsSnapshot(e), e.payload.doc = row.document, row.document.id = id
    PROVE  Recorded(Append(log, e), With(table, id, row))
<1> DEFINE new == With(table, id, row)
           more == Append(log, e)
<1>1. /\ DOMAIN new = DOMAIN table \cup {id} /\ new[id] = row
      /\ \A x \in DOMAIN table : new[x] = table[x]
  BY DEF With
<1>2. /\ Len(more) = Len(log) + 1 /\ Len(log) \in Nat
      /\ \A k \in 1..Len(log) : more[k] = log[k]
      /\ more[Len(log) + 1] = e
  BY AppendRow, LogFacts
<1> HIDE DEF new, more
<1>3. \A k \in 1..Len(more) : k \in 1..Len(log) \/ k = Len(log) + 1
  BY <1>2
<1>4. 1..Len(log) \subseteq 1..Len(more) /\ Len(log) + 1 \in 1..Len(more)
  BY <1>2
<1>5. ASSUME NEW k \in 1..Len(log), IsSnapshot(log[k])
      PROVE  log[k].payload.doc.id \in DOMAIN new /\ new[log[k].payload.doc.id].document = log[k].payload.doc
  BY <1>1, <1>5 DEF Recorded
<1>6. ASSUME NEW k \in 1..Len(more), IsSnapshot(more[k])
      PROVE  more[k].payload.doc.id \in DOMAIN new /\ new[more[k].payload.doc.id].document = more[k].payload.doc
  BY <1>1, <1>2, <1>3, <1>5, <1>6
<1>7. ASSUME NEW x \in DOMAIN new
      PROVE  \E k \in 1..Len(more) : IsSnapshot(more[k]) /\ more[k].payload.doc.id = x
  <2>1. CASE x = id
    BY <1>2, <1>4, <2>1
  <2>2. CASE x # id
    <3>1. PICK k \in 1..Len(log) : IsSnapshot(log[k]) /\ log[k].payload.doc.id = x
      BY <1>1, <2>2 DEF Recorded
    <3> QED BY <1>2, <1>4, <3>1
  <2> QED BY <2>1, <2>2
<1>8. Recorded(more, new)
  BY <1>6, <1>7 DEF Recorded
<1> QED BY <1>8 DEF more, new

LEMMA OtherRecord ==
    ASSUME NEW log, IsLog(log), NEW table, Recorded(log, table), NEW e, IsRow(e), ~IsSnapshot(e)
    PROVE  Recorded(Append(log, e), table)
<1> DEFINE more == Append(log, e)
<1>1. /\ Len(more) = Len(log) + 1 /\ Len(log) \in Nat
      /\ \A k \in 1..Len(log) : more[k] = log[k]
      /\ more[Len(log) + 1] = e
  BY AppendRow, LogFacts
<1> HIDE DEF more
<1>2. \A k \in 1..Len(more) : k \in 1..Len(log) \/ k = Len(log) + 1
  BY <1>1
<1>3. 1..Len(log) \subseteq 1..Len(more)
  BY <1>1
<1>4. ASSUME NEW k \in 1..Len(more), IsSnapshot(more[k])
      PROVE  more[k].payload.doc.id \in DOMAIN table /\ table[more[k].payload.doc.id].document = more[k].payload.doc
  BY <1>1, <1>2, <1>4 DEF Recorded
<1>5. ASSUME NEW x \in DOMAIN table
      PROVE  \E k \in 1..Len(more) : IsSnapshot(more[k]) /\ more[k].payload.doc.id = x
  BY <1>1, <1>3 DEF Recorded
<1>6. Recorded(more, table)
  BY <1>4, <1>5 DEF Recorded
<1> QED BY <1>6 DEF more

LEMMA ExtendChain ==
    ASSUME IsChain(events), NEW e, Extends(e)
    PROVE  IsChain(events') /\ events' = Append(events, e) /\ IsRow(e)
BY AppendChain DEF Extends

\* The row and the event of an envelope that is saved.
LEMMA CleanSave ==
    ASSUME IsChain(events), Sound(envelopes), Recorded(events, envelopes),
           NEW id \in EnvIds, NEW parent \in EnvIds \cup {None},
           parent \in DOMAIN envelopes \cup {None}, NEW body \in Bodies,
           NEW doc, doc = Signed(Document(id, parent, body)), Save(doc),
           NEW e, Extends(e), IsSnapshot(e), e.payload.doc = doc
    PROVE  IsChain(events') /\ Sound(envelopes') /\ Recorded(events', envelopes')
<1>1. doc \in Documents /\ Authentic(doc) /\ doc.id = id /\ doc.parent = parent
  BY SignedDocument
<1>2. PICK row : row = [document |-> doc, parent_id |-> doc.parent]
  OBVIOUS
<1>3. /\ row \in TableRows /\ row.document = doc /\ row.parent_id = parent
  BY <1>1, <1>2 DEF TableRows
<1>4. id \notin DOMAIN envelopes /\ envelopes' = With(envelopes, id, row)
  BY <1>1, <1>2 DEF Save
<1>5. IsChain(events') /\ events' = Append(events, e) /\ IsRow(e)
  BY ExtendChain
<1>6. Sound(With(envelopes, id, row))
  BY <1>1, <1>3, <1>4, SavedTable
<1>7. Recorded(Append(events, e), With(envelopes, id, row))
  BY <1>1, <1>3, <1>4, <1>5, SavedRecord DEF IsChain
<1> QED BY <1>4, <1>5, <1>6, <1>7

LEMMA CleanOther ==
    ASSUME IsChain(events), Sound(envelopes), Recorded(events, envelopes), UNCHANGED envelopes,
           NEW e, Extends(e), ~IsSnapshot(e)
    PROVE  IsChain(events') /\ Sound(envelopes') /\ Recorded(events', envelopes')
<1>1. IsChain(events') /\ events' = Append(events, e) /\ IsRow(e)
  BY ExtendChain
<1>2. Recorded(Append(events, e), envelopes)
  BY <1>1, OtherRecord DEF IsChain
<1>3. PICK log, table : log = Append(events, e) /\ table = envelopes
  OBVIOUS
<1>4. events' = log /\ envelopes' = table /\ Recorded(log, table) /\ Sound(table)
  BY <1>1, <1>2, <1>3
<1> QED BY <1>1, <1>4

LEMMA DocumentIsSome ==
    ASSUME NEW doc \in Documents
    PROVE  doc # None
BY AuditConstants

LEMMA CleanStep ==
    ASSUME CleanInv, [Next]_vars
    PROVE  CleanInv'
<1>1. ASSUME damage = 0, NEW id \in EnvIds, NEW body \in Drafts, NEW t \in Times, Create(id, body, t)
      PROVE  CleanInv'
  <2>1. PICK doc : /\ doc = Signed(Document(id, None, body)) /\ Save(doc)
                   /\ appendAudit("envelope.created", doc, FALSE, t)
    BY <1>1 DEF Create
  <2>f. PICK flag : flag = FALSE
    OBVIOUS
  <2>g. appendAudit("envelope.created", doc, flag, t)
    BY <2>1, <2>f
  <2>2. IsChain(events) /\ Sound(envelopes) /\ Recorded(events, envelopes) /\ UNCHANGED damage
    BY <1>1 DEF CleanInv, Create
  <2>3. PICK e : /\ Extends(e) /\ e.header.type = "envelope.created"
                 /\ e.payload = [doc |-> doc, persisted |-> flag]
    BY <2>g, <2>2, AppendedEvent DEF IsChain
  <2>4. IsSnapshot(e) /\ e.payload.doc = doc
    BY <2>f, <2>3 DEF IsSnapshot
  <2>5. body \in Bodies
    BY AuditConstants
  <2>6. IsChain(events') /\ Sound(envelopes') /\ Recorded(events', envelopes')
    BY <2>1, <2>2, <2>3, <2>4, <2>5, CleanSave
  <2> QED BY <2>2, <2>6 DEF CleanInv
<1>2. ASSUME damage = 0, NEW id \in EnvIds, NEW body \in Drafts, NEW t \in Times,
             NEW parent \in EnvIds, NEW saved \in BOOLEAN,
             EvaluateHandoff(parent, id, body, saved, t)
      PROVE  CleanInv'
  <2>1. IsChain(events) /\ Sound(envelopes) /\ Recorded(events, envelopes) /\ UNCHANGED damage
    BY <1>2 DEF CleanInv, EvaluateHandoff
  <2>2. CASE saved
    <3>1. PICK doc : /\ doc = Signed(Document(id, parent, body)) /\ Save(doc)
                     /\ appendAudit("handoff.evaluated", doc, TRUE, t)
      BY <1>2, <2>2 DEF EvaluateHandoff
    <3>f. PICK flag : flag = TRUE
      OBVIOUS
    <3>g. appendAudit("handoff.evaluated", doc, flag, t)
      BY <3>1, <3>f
    <3>2. PICK e : /\ Extends(e) /\ e.header.type = "handoff.evaluated"
                   /\ e.payload = [doc |-> doc, persisted |-> flag]
      BY <2>1, <3>g, AppendedEvent DEF IsChain
    <3>3. body \in Bodies /\ parent \in DOMAIN envelopes
      BY <1>2, AuditConstants DEF EvaluateHandoff
    <3>4. doc # None
      BY <3>1, <3>3, SignedDocument, DocumentIsSome
    <3>5. IsSnapshot(e) /\ e.payload.doc = doc
      BY <3>2, <3>4, <3>f DEF IsSnapshot
    <3>6. IsChain(events') /\ Sound(envelopes') /\ Recorded(events', envelopes')
      BY <2>1, <3>1, <3>2, <3>3, <3>5, CleanSave
    <3> QED BY <2>1, <3>6 DEF CleanInv
  <2>3. CASE ~saved
    <3>1. PICK doc : appendAudit("handoff.evaluated", doc, FALSE, t)
      BY <1>2, <2>3 DEF EvaluateHandoff
    <3>f. PICK flag : flag = FALSE
      OBVIOUS
    <3>g. appendAudit("handoff.evaluated", doc, flag, t)
      BY <3>1, <3>f
    <3>2. PICK e : /\ Extends(e) /\ e.header.type = "handoff.evaluated"
                   /\ e.payload = [doc |-> doc, persisted |-> flag]
      BY <2>1, <3>g, AppendedEvent DEF IsChain
    <3>3. ~IsSnapshot(e)
      BY <3>2, <3>f DEF IsSnapshot
    <3>4. UNCHANGED envelopes
      BY <1>2, <2>3 DEF EvaluateHandoff
    <3>5. IsChain(events') /\ Sound(envelopes') /\ Recorded(events', envelopes')
      BY <2>1, <3>2, <3>3, <3>4, CleanOther
    <3> QED BY <2>1, <3>5 DEF CleanInv
  <2> QED BY <2>2, <2>3
<1>3. ASSUME damage = 0, NEW id \in EnvIds, NEW t \in Times, OtherEvent(id, t)
      PROVE  CleanInv'
  <2>1. /\ IsChain(events) /\ Sound(envelopes) /\ Recorded(events, envelopes)
        /\ UNCHANGED <<damage, envelopes>>
    BY <1>3 DEF CleanInv, OtherEvent
  <2>f. PICK flag : flag = FALSE
    OBVIOUS
  <2>g. appendAudit("other", None, flag, t)
    BY <1>3, <2>f DEF OtherEvent
  <2>2. PICK e : Extends(e) /\ e.header.type = "other"
    BY <2>1, <2>g, AppendedEvent DEF IsChain
  <2>3. ~IsSnapshot(e)
    BY <2>2 DEF IsSnapshot
  <2>4. IsChain(events') /\ Sound(envelopes') /\ Recorded(events', envelopes')
    BY <2>1, <2>2, <2>3, CleanOther
  <2> QED BY <2>1, <2>4 DEF CleanInv
<1>4. ASSUME UNCHANGED <<events, envelopes, damage>> PROVE CleanInv'
  BY <1>4 DEF CleanInv
<1>5. CASE Retain
  BY <1>4, <1>5 DEF Retain, storage
<1>6. ASSUME damage # 0, damage' = damage PROVE CleanInv'
  BY <1>6 DEF CleanInv
<1>7. ASSUME Damage PROVE CleanInv'
  <2>1. damage \in Nat /\ damage' = damage + 1
    BY <1>7 DEF Damage, CleanInv
  <2>2. damage' \in Nat /\ damage' # 0
    BY <2>1
  <2> QED BY <2>2 DEF CleanInv
<1>8. ASSUME NEW k \in Rows,
             EditEvent(k) \/ LoseEvent(k) \/ \E j \in 1..k - 1 : SwapEvents(j, k)
      PROVE  CleanInv'
  BY <1>7, <1>8 DEF EditEvent, LoseEvent, SwapEvents
<1>9. CASE Rewrite
  BY <1>7, <1>9 DEF Rewrite
<1>10. ASSUME NEW id \in DOMAIN envelopes, EditEnvelope(id) \/ LoseEnvelope(id) PROVE CleanInv'
  BY <1>7, <1>10 DEF EditEnvelope, LoseEnvelope
<1>11. CASE UNCHANGED vars
  BY <1>4, <1>11 DEF vars
<1>12. ASSUME NEW id \in EnvIds, NEW body \in Drafts, NEW t \in Times, Create(id, body, t)
       PROVE  CleanInv'
  BY <1>1, <1>6, <1>12 DEF Create
<1>13. ASSUME NEW id \in EnvIds, NEW body \in Drafts, NEW t \in Times,
              NEW parent \in EnvIds, NEW saved \in BOOLEAN,
              EvaluateHandoff(parent, id, body, saved, t)
       PROVE  CleanInv'
  BY <1>2, <1>6, <1>13 DEF EvaluateHandoff
<1>14. ASSUME NEW id \in EnvIds, NEW t \in Times, OtherEvent(id, t) PROVE CleanInv'
  BY <1>3, <1>6, <1>14 DEF OtherEvent
<1> QED BY <1>5, <1>8, <1>9, <1>10, <1>11, <1>12, <1>13, <1>14 DEF Next

LEMMA CleanInvariant == Spec => []CleanInv
<1>1. Init => CleanInv
  <2> SUFFICES ASSUME Init PROVE CleanInv
    OBVIOUS
  <2>1. events = << >> /\ envelopes = [id \in {} |-> None] /\ damage = 0
    BY DEF Init
  <2>2. << >> \in Seq({}) /\ Len(<< >>) = 0
    OBVIOUS
  <2>3. IsChain(<< >>)
    BY <2>2 DEF IsChain, IsLog
  <2>4. DOMAIN envelopes = {}
    BY <2>1
  <2>5. Sound(envelopes) /\ Recorded(events, envelopes)
    BY <2>1, <2>2, <2>4 DEF Sound, Recorded
  <2> QED BY <2>1, <2>3, <2>5 DEF CleanInv
<1> QED BY <1>1, CleanStep, PTL DEF Spec

\* The last snapshot of an envelope.
LEMMA GreatestIn ==
    ASSUME NEW n \in Nat, NEW T \in SUBSET (1..n), T # {}
    PROVE  \E x \in T : \A y \in T : y <= x
<1> DEFINE Depths == {d \in Nat : d <= n /\ n - d \in T}
<1>1. Depths # {}
  <2>1. PICK x \in T : TRUE
    OBVIOUS
  <2>2. x \in Nat /\ n - x \in Nat /\ n - x <= n /\ n - (n - x) = x
    OBVIOUS
  <2> QED BY <2>2
<1>2. PICK D : D = Depths
  OBVIOUS
<1>3. PICK d \in D : \A y \in D : d <= y
  BY <1>1, <1>2, SmallestIn
<1>4. d \in Nat /\ d <= n /\ n - d \in T
  BY <1>2, <1>3
<1>5. ASSUME NEW y \in T PROVE y <= n - d
  <2>1. y \in Nat /\ n - y \in Nat /\ n - y <= n /\ n - (n - y) = y
    OBVIOUS
  <2>2. n - y \in D
    BY <1>2, <2>1
  <2>3. d <= n - y
    BY <1>3, <2>2
  <2> QED BY <1>4, <2>1, <2>3
<1> QED BY <1>4, <1>5

\* What the report says of the snapshots when the log and the table agree.
LEMMA SnapshotsOfTable ==
    ASSUME IsLog(events), Sound(envelopes), Recorded(events, envelopes)
    PROVE  /\ \A k \in Rows : HoldsSnapshot(k) => ValidSnapshot(k)
           /\ DOMAIN Snapshots = DOMAIN envelopes
           /\ \A id \in DOMAIN envelopes : Snapshots[id] = envelopes[id].document.signature
<1> DEFINE G == {k \in Rows : HoldsSnapshot(k) /\ ValidSnapshot(k)}
           Last(id) == CHOOSE k \in G :
               /\ events[k].payload.doc.id = id
               /\ \A j \in G : events[j].payload.doc.id = id => j <= k
<1>1. Rows = 1..Len(events) /\ Len(events) \in Nat
  BY LogFacts DEF Rows
<1>2. \A k \in Rows : HoldsSnapshot(k) <=> IsSnapshot(events[k])
  BY DEF HoldsSnapshot, IsSnapshot
<1>3. ASSUME NEW k \in Rows, HoldsSnapshot(k)
      PROVE  /\ events[k].payload.doc.id \in DOMAIN envelopes
             /\ envelopes[events[k].payload.doc.id].document = events[k].payload.doc
             /\ ValidSnapshot(k)
  <2>1. PICK doc : doc = events[k].payload.doc
    OBVIOUS
  <2>2. doc.id \in DOMAIN envelopes /\ envelopes[doc.id].document = doc
    BY <1>1, <1>2, <1>3, <2>1 DEF Recorded
  <2>3. doc \in Documents /\ Authentic(doc)
    BY <2>2 DEF Sound, TableRows
  <2>4. doc.id \in EnvIds /\ doc.id # None
    BY <2>3, AuditConstants DEF Documents
  <2>5. doc # None /\ doc.signature # None
    BY <2>3, DocumentIsSome, SignatureIsSome
  <2> QED BY <2>1, <2>2, <2>4, <2>5 DEF ValidSnapshot
<1>4. G \subseteq 1..Len(events) /\ \A k \in G : k \in Rows /\ HoldsSnapshot(k)
  BY <1>1
<1>5. \A id \in DOMAIN envelopes : \E k \in G : events[k].payload.doc.id = id
  BY <1>1, <1>2, <1>3 DEF Recorded
<1>6. Snapshots = [id \in {events[k].payload.doc.id : k \in G} |->
                     events[Last(id)].payload.doc.signature]
  BY DEF Snapshots
<1> HIDE DEF G
<1>7. {events[k].payload.doc.id : k \in G} = DOMAIN envelopes
  BY <1>3, <1>4, <1>5
<1>8. ASSUME NEW id \in DOMAIN envelopes
      PROVE  events[Last(id)].payload.doc = envelopes[id].document
  <2>1. PICK T : T = {k \in G : events[k].payload.doc.id = id}
    OBVIOUS
  <2>2. T \in SUBSET (1..Len(events)) /\ T # {}
    BY <1>4, <1>5, <2>1
  <2>3. PICK m : m = Len(events) /\ m \in Nat
    BY <1>1
  <2>4. PICK x \in T : \A y \in T : y <= x
    BY <2>2, <2>3, GreatestIn
  <2>5. /\ x \in G /\ events[x].payload.doc.id = id
        /\ \A j \in G : events[j].payload.doc.id = id => j <= x
    BY <2>1, <2>4
  <2>6. Last(id) \in G /\ events[Last(id)].payload.doc.id = id
    BY <2>5
  <2> QED BY <1>3, <1>4, <2>6
<1> HIDE DEF Last
<1>9. DOMAIN Snapshots = DOMAIN envelopes
  BY <1>6, <1>7
<1>10. \A id \in DOMAIN envelopes : Snapshots[id] = envelopes[id].document.signature
  BY <1>6, <1>7, <1>8
<1> QED BY <1>3, <1>9, <1>10

LEMMA NothingToFind ==
    ASSUME NEW found, \A y \in DOMAIN found : ~found[y]
    PROVE  {x \in DOMAIN found : found[x]} = {}
BY Zenon

\* A storage that only the server wrote verifies after every transaction: what
\* appendAudit hashes is what verifyAudit reads (audit.go:45, 53-180).
THEOREM CleanStorageVerifies == Spec => []NoFalseAlarm
<1>1. CleanInv => NoFalseAlarm
  <2> SUFFICES ASSUME CleanInv, damage = 0, events # << >> PROVE Valid
    BY DEF NoFalseAlarm
  <2>1. IsChain(events) /\ IsLog(events) /\ Sound(envelopes) /\ Recorded(events, envelopes)
    BY DEF CleanInv, IsChain
  <2>2. \A k \in Rows : Linked(k)
    BY <2>1, LinkedMeans, LogFacts DEF Rows, IsChain
  <2>3. /\ \A k \in Rows : HoldsSnapshot(k) => ValidSnapshot(k)
        /\ DOMAIN Snapshots = DOMAIN envelopes
        /\ \A id \in DOMAIN envelopes : Snapshots[id] = envelopes[id].document.signature
    BY <2>1, SnapshotsOfTable
  <2>4. DOMAIN Findings = {"event_modified", "invalid_snapshot", "missing_events",
            "missing_envelope", "missing_creation", "signature_invalid", "parent_modified",
            "missing_parent"}
    BY DEF Findings
  <2>5. ~Findings["event_modified"] /\ ~Findings["invalid_snapshot"] /\ ~Findings["missing_events"]
    BY <2>2, <2>3 DEF Findings
  <2>6. ~Findings["missing_envelope"] /\ ~Findings["missing_creation"]
    BY <2>3 DEF Findings
  <2>7. ~Findings["signature_invalid"] /\ ~Findings["parent_modified"] /\ ~Findings["missing_parent"]
    BY <2>1 DEF Findings, Sound
  <2>8. PICK found : found = Findings
    OBVIOUS
  <2>9. \A y \in DOMAIN found : ~found[y]
    BY <2>4, <2>5, <2>6, <2>7, <2>8
  <2>10. {x \in DOMAIN found : found[x]} = {}
    BY <2>9, NothingToFind
  <2> QED BY <2>8, <2>10 DEF Valid, Failures
<1> QED BY <1>1, CleanInvariant, PTL

-----------------------------------------------------------------------------
(* The keys. *)

Part(r) == [key |-> r, whole |-> FALSE]
Full(r) == [key |-> r, whole |-> TRUE]
Own(r) == {Part(r), Full(r)}

Calls == {<<"create", "priv">>, <<"create", "pub">>, <<"write", "priv">>, <<"write", "pub">>,
          <<"undo", "priv">>, <<"undo", "pub">>, <<"clean", "priv">>}

KeyFilesOK ==
    /\ files \in [Paths -> {Absent} \cup UNION {Own(r) : r \in Runs}]
    /\ stage \in [Runs -> Calls \cup Ended]
    /\ signed \subseteq Runs /\ leaks \subseteq Runs

\* A run that is under way has its files to itself.
Holds(r) ==
    /\ stage[r] = <<"write", "priv">> => files["priv"] = Part(r)
    /\ stage[r] = <<"undo", "priv">> => files["priv"] \in Own(r)
    /\ stage[r] \in {<<"create", "pub">>, <<"write", "pub">>, <<"undo", "pub">>,
                     <<"clean", "priv">>, <<"done">>} => files["priv"] = Full(r)
    /\ stage[r] \in {<<"write", "pub">>, <<"undo", "pub">>} => files["pub"] \in Own(r)
    /\ stage[r] = <<"done">> => files["pub"] = Full(r)
    /\ stage[r] \in {<<"create", "priv">>, <<"write", "priv">>, <<"undo", "priv">>,
                     <<"create", "pub">>} => files["pub"] \notin Own(r)
    /\ stage[r] = <<"clean", "priv">> => files["pub"] \notin Own(r) \/ r \in leaks

\* A key that was used is still there or its keygen has failed, and a public
\* key lies beside its private key or its keygen has reported a leak.
PairInv ==
    /\ \A k \in signed : files["priv"] = Full(k) \/ stage[k] = <<"failed">>
    /\ \A k \in Runs : files["pub"] \in Own(k) => files["priv"] = Full(k) \/ k \in leaks

KeyFilesInv == KeyFilesOK /\ (\A r \in Runs : Holds(r)) /\ PairInv

LEMMA FileFacts ==
    /\ \A r \in Runs : Absent \notin Own(r) /\ Part(r) # Full(r)
    /\ \A q, r \in Runs : q # r => Own(q) \cap Own(r) = {}
<1>1. \A r : Part(r).key = r /\ Full(r).key = r /\ ~Part(r).whole /\ Full(r).whole
  BY DEF Part, Full
<1>2. \A r \in Runs : Part(r) \in [key : Runs, whole : BOOLEAN] /\ Full(r) \in [key : Runs, whole : BOOLEAN]
  BY DEF Part, Full
<1> QED BY <1>1, <1>2, KeyFilesConstants DEF Own

LEMMA KeyFilesInit == KeygenInit => KeyFilesInv
<1> SUFFICES ASSUME KeygenInit PROVE KeyFilesInv
  OBVIOUS
<1>1. KeyFilesOK
  BY DEF KeygenInit, KeyFilesOK, Calls
<1>2. files["priv"] = Absent /\ files["pub"] = Absent
  BY DEF KeygenInit, Paths
<1> QED BY <1>1, <1>2, FileFacts DEF KeygenInit, KeyFilesInv, Holds, PairInv

\* A run changes only its own stage, and of the files only what is free or its
\* own: the other runs do not notice.
LEMMA OthersHold ==
    ASSUME KeyFilesInv, NEW r \in Runs,
           \A q \in Runs \ {r} : stage'[q] = stage[q],
           \A path \in Paths : \/ files'[path] = files[path]
                               \/ /\ files[path] \in {Absent} \cup Own(r)
                                  /\ files'[path] \in {Absent} \cup Own(r),
           leaks \subseteq leaks'
    PROVE  \A q \in Runs \ {r} : Holds(q)'
<1> SUFFICES ASSUME NEW q \in Runs \ {r} PROVE Holds(q)'
  OBVIOUS
<1>1. Holds(q) /\ stage'[q] = stage[q]
  BY DEF KeyFilesInv
<1>2. \A path \in {"priv", "pub"} : files[path] \in Own(q) <=> files'[path] \in Own(q)
  BY FileFacts DEF Paths
<1>3. \A path \in {"priv", "pub"} : files[path] \in Own(q) => files'[path] = files[path]
  BY FileFacts DEF Paths
<1>4. Part(q) \in Own(q) /\ Full(q) \in Own(q)
  BY DEF Own
<1> QED BY <1>1, <1>2, <1>3, <1>4 DEF Holds

LEMMA KeyFilesStep == KeyFilesInv /\ [KeygenNext]_fileVars => KeyFilesInv'
<1> SUFFICES ASSUME KeyFilesInv, [KeygenNext]_fileVars PROVE KeyFilesInv'
  OBVIOUS
<1>t. KeyFilesOK /\ (\A r \in Runs : Holds(r)) /\ PairInv
  BY DEF KeyFilesInv
<1>o. \A r \in Runs : Part(r) \in Own(r) /\ Full(r) \in Own(r)
  BY DEF Own
\* What it is enough to know of a step of one run.
<1>s. ASSUME NEW r \in Runs, NEW call \in Calls \cup Ended, Goto(r, call),
             NEW path \in Paths, NEW content \in {files[path], Absent} \cup Own(r), Put(path, content),
             files[path] \in {Absent} \cup Own(r) \/ content = files[path],
             signed' = signed, leaks' \in {leaks, leaks \cup {r}},
             Holds(r)', PairInv'
      PROVE  KeyFilesInv'
  <2>1. \A q \in Runs \ {r} : stage'[q] = stage[q]
    BY <1>s, <1>t DEF Goto, KeyFilesOK
  <2>2. \A p \in Paths : p # path => files'[p] = files[p]
    BY <1>s, <1>t DEF Put, KeyFilesOK
  <2>3. files'[path] = content
    BY <1>s, <1>t DEF Put, KeyFilesOK
  <2>4. \A q \in Runs \ {r} : Holds(q)'
    BY <1>s, <2>1, <2>2, <2>3, OthersHold
  <2>5. KeyFilesOK'
    <3>1. content \in {Absent} \cup UNION {Own(q) : q \in Runs}
      BY <1>t, <1>s DEF KeyFilesOK
    <3> QED BY <1>t, <1>s, <3>1 DEF KeyFilesOK, Put, Goto
  <2> QED BY <1>s, <2>4, <2>5 DEF KeyFilesInv
<1>p. "priv" \in Paths /\ "pub" \in Paths /\ "priv" # "pub" /\ Paths = {"priv", "pub"}
  BY DEF Paths
<1>c. /\ {<<"done">>, <<"failed">>, <<"dead">>} \subseteq Calls \cup Ended
      /\ \A r \in Runs : files["priv"] \in {files["priv"]} /\ stage[r] \in Calls \cup Ended
  BY <1>t DEF Calls, Ended, KeyFilesOK
\* The values of stage and of the two files after a step of r at path.
<1>v. ASSUME NEW r \in Runs, NEW call, Goto(r, call)
      PROVE  stage'[r] = call /\ \A q \in Runs \ {r} : stage'[q] = stage[q]
  BY <1>v, <1>t DEF Goto, KeyFilesOK
<1>f. ASSUME NEW path \in Paths, NEW content, Put(path, content)
      PROVE  files'[path] = content /\ \A p \in Paths \ {path} : files'[p] = files[p]
  BY <1>f, <1>t DEF Put, KeyFilesOK
<1>n. ASSUME NEW r \in Runs, NEW call \in Calls \cup Ended, Goto(r, call), files' = files,
             signed' = signed, leaks' \in {leaks, leaks \cup {r}}, Holds(r)', PairInv'
      PROVE  KeyFilesInv'
  <2>1. \A q \in Runs \ {r} : Holds(q)'
    BY <1>n, <1>v, OthersHold
  <2>2. KeyFilesOK'
    BY <1>t, <1>n DEF KeyFilesOK, Goto
  <2> QED BY <1>n, <2>1, <2>2 DEF KeyFilesInv
<1>1. ASSUME NEW r \in Runs, CreateFile(r, "priv") PROVE KeyFilesInv'
  <2>1. /\ stage[r] = <<"create", "priv">> /\ files["priv"] = Absent /\ Put("priv", Part(r))
        /\ Goto(r, <<"write", "priv">>) /\ signed' = signed /\ leaks' = leaks
    BY <1>1 DEF CreateFile, Free, Part
  <2>2. /\ stage'[r] = <<"write", "priv">> /\ \A q \in Runs \ {r} : stage'[q] = stage[q]
        /\ files'["priv"] = Part(r) /\ files'["pub"] = files["pub"]
    BY <1>f, <1>p, <1>v, <2>1
  <2>3. Holds(r)'
    BY <1>t, <2>1, <2>2 DEF Holds
  <2>4. PairInv'
    BY <1>t, <1>o, <2>1, <2>2, FileFacts DEF PairInv, KeyFilesOK
  <2> QED BY <1>s, <1>o, <1>p, <2>1, <2>3, <2>4 DEF Calls
<1>2. ASSUME NEW r \in Runs, CreateFile(r, "pub") PROVE KeyFilesInv'
  <2>1. /\ stage[r] = <<"create", "pub">> /\ files["pub"] = Absent /\ Put("pub", Part(r))
        /\ Goto(r, <<"write", "pub">>) /\ signed' = signed /\ leaks' = leaks
    BY <1>2 DEF CreateFile, Free, Part
  <2>2. /\ stage'[r] = <<"write", "pub">> /\ \A q \in Runs \ {r} : stage'[q] = stage[q]
        /\ files'["pub"] = Part(r) /\ files'["priv"] = files["priv"]
    BY <1>f, <1>p, <1>v, <2>1
  <2>3. Holds(r)'
    BY <1>t, <1>o, <2>1, <2>2 DEF Holds
  <2>4. PairInv'
    BY <1>t, <1>o, <2>1, <2>2, FileFacts DEF PairInv, KeyFilesOK, Holds
  <2> QED BY <1>s, <1>o, <1>p, <2>1, <2>3, <2>4 DEF Calls
<1>3. ASSUME NEW r \in Runs, NEW path \in Paths, CreateFails(r, path) PROVE KeyFilesInv'
  <2>1. /\ stage[r] = <<"create", path>> /\ files' = files /\ signed' = signed /\ leaks' = leaks
        /\ \/ path = "priv" /\ Goto(r, <<"failed">>)
           \/ path = "pub" /\ Goto(r, <<"clean", "priv">>)
    BY <1>3, <1>p DEF CreateFails, After
  <2>2. PICK call \in {<<"failed">>, <<"clean", "priv">>} :
           Goto(r, call) /\ (call = <<"clean", "priv">> => path = "pub")
    BY <2>1
  <2>3. stage'[r] = call /\ \A q \in Runs \ {r} : stage'[q] = stage[q]
    BY <1>v, <2>2
  <2>4. Holds(r)'
    BY <1>t, <2>1, <2>2, <2>3 DEF Holds
  <2>5. PairInv'
    BY <1>t, <2>1, <2>3 DEF PairInv, KeyFilesOK
  <2> QED BY <1>n, <2>1, <2>2, <2>4, <2>5 DEF Calls, Ended
<1>4. ASSUME NEW r \in Runs, Write(r, "priv") PROVE KeyFilesInv'
  <2>1. /\ stage[r] = <<"write", "priv">> /\ Put("priv", Full(r))
        /\ Goto(r, <<"create", "pub">>) /\ signed' = signed /\ leaks' = leaks
    BY <1>4 DEF Write, Full
  <2>2. /\ stage'[r] = <<"create", "pub">> /\ \A q \in Runs \ {r} : stage'[q] = stage[q]
        /\ files'["priv"] = Full(r) /\ files'["pub"] = files["pub"]
    BY <1>f, <1>p, <1>v, <2>1
  <2>3. Holds(r)' /\ files["priv"] = Part(r)
    BY <1>t, <2>1, <2>2 DEF Holds
  <2>4. PairInv'
    BY <1>t, <1>o, <2>1, <2>2, <2>3, FileFacts DEF PairInv, KeyFilesOK
  <2> QED BY <1>s, <1>o, <1>p, <2>1, <2>3, <2>4 DEF Calls
<1>5. ASSUME NEW r \in Runs, Write(r, "pub") PROVE KeyFilesInv'
  <2>1. /\ stage[r] = <<"write", "pub">> /\ Put("pub", Full(r))
        /\ Goto(r, <<"done">>) /\ signed' = signed /\ leaks' = leaks
    BY <1>5, <1>p DEF Write, Full
  <2>2. /\ stage'[r] = <<"done">> /\ \A q \in Runs \ {r} : stage'[q] = stage[q]
        /\ files'["pub"] = Full(r) /\ files'["priv"] = files["priv"]
    BY <1>f, <1>p, <1>v, <2>1
  <2>3. Holds(r)' /\ files["priv"] = Full(r) /\ files["pub"] \in Own(r)
    <3>1. files["priv"] = Full(r) /\ files["pub"] \in Own(r)
      BY <1>t, <2>1 DEF Holds
    <3>2. Holds(r)'
      BY <2>2, <3>1 DEF Holds
    <3> QED BY <3>1, <3>2
  <2>4. PairInv'
    BY <1>t, <1>o, <2>1, <2>2, <2>3, FileFacts DEF PairInv, KeyFilesOK
  <2> QED BY <1>s, <1>o, <1>p, <1>c, <2>1, <2>3, <2>4
<1>6. ASSUME NEW r \in Runs, NEW path \in Paths, WriteFails(r, path) PROVE KeyFilesInv'
  <2>1. PICK content \in Own(r) : Put(path, content)
    BY <1>6 DEF WriteFails, Own, Part, Full
  <2>2. /\ stage[r] = <<"write", path>> /\ Goto(r, <<"undo", path>>)
        /\ signed' = signed /\ leaks' = leaks
    BY <1>6 DEF WriteFails
  <2>3. stage'[r] = <<"undo", path>> /\ \A q \in Runs \ {r} : stage'[q] = stage[q]
    BY <1>v, <2>2
  <2>4. files'[path] = content /\ \A p \in Paths \ {path} : files'[p] = files[p]
    BY <1>f, <2>1
  <2>5. CASE path = "priv"
    <3>1. Holds(r)' /\ files["priv"] = Part(r)
      BY <1>t, <1>p, <2>1, <2>2, <2>3, <2>4, <2>5 DEF Holds
    <3>2. PairInv'
      BY <1>t, <1>o, <1>p, <2>2, <2>3, <2>4, <2>5, <3>1, FileFacts DEF PairInv, KeyFilesOK
    <3> QED BY <1>s, <1>o, <1>p, <2>1, <2>2, <2>5, <3>1, <3>2 DEF Calls
  <2>6. CASE path = "pub"
    <3>0. files["priv"] = Full(r) /\ files["pub"] \in Own(r)
      BY <1>t, <2>2, <2>6 DEF Holds
    <3>1. Holds(r)' /\ files["priv"] = Full(r) /\ files["pub"] \in Own(r)
      BY <1>p, <2>1, <2>3, <2>4, <2>6, <3>0 DEF Holds
    <3>2. PairInv'
      BY <1>t, <1>o, <1>p, <2>1, <2>2, <2>3, <2>4, <2>6, <3>1, FileFacts DEF PairInv, KeyFilesOK
    <3> QED BY <1>s, <1>o, <1>p, <2>1, <2>2, <2>6, <3>1, <3>2 DEF Calls
  <2> QED BY <1>p, <2>5, <2>6
<1>7. ASSUME NEW r \in Runs, Undo(r, "priv") PROVE KeyFilesInv'
  <2>1. /\ stage[r] = <<"undo", "priv">> /\ Goto(r, <<"failed">>) /\ signed' = signed
        /\ \/ Put("priv", Absent) /\ leaks' = leaks
           \/ leaks' = leaks \cup {r} /\ files' = files
    BY <1>7 DEF Undo, After
  <2>2. stage'[r] = <<"failed">> /\ \A q \in Runs \ {r} : stage'[q] = stage[q]
    BY <1>v, <2>1
  <2>3. files["priv"] \in Own(r) /\ files["pub"] \notin Own(r) /\ Holds(r)'
    <3>1. files["priv"] \in Own(r) /\ files["pub"] \notin Own(r)
      BY <1>t, <2>1 DEF Holds
    <3>2. Holds(r)'
      BY <2>2 DEF Holds
    <3> QED BY <3>1, <3>2
  <2>4. CASE Put("priv", Absent) /\ leaks' = leaks
    <3>1. files'["priv"] = Absent /\ files'["pub"] = files["pub"]
      BY <1>f, <1>p, <2>4
    <3>2. PairInv'
      BY <1>t, <1>o, <2>1, <2>2, <2>3, <2>4, <3>1, FileFacts DEF PairInv, KeyFilesOK
    <3> QED BY <1>s, <1>o, <1>p, <1>c, <2>1, <2>3, <2>4, <3>2
  <2>5. CASE leaks' = leaks \cup {r} /\ files' = files
    <3>1. PairInv'
      BY <1>t, <2>1, <2>2, <2>5 DEF PairInv, KeyFilesOK
    <3> QED BY <1>n, <1>c, <2>1, <2>3, <2>5, <3>1
  <2> QED BY <2>1, <2>4, <2>5
<1>8. ASSUME NEW r \in Runs, Undo(r, "pub") PROVE KeyFilesInv'
  <2>1. /\ stage[r] = <<"undo", "pub">> /\ Goto(r, <<"clean", "priv">>) /\ signed' = signed
        /\ \/ Put("pub", Absent) /\ leaks' = leaks
           \/ leaks' = leaks \cup {r} /\ files' = files
    BY <1>8 DEF Undo, After
  <2>2. stage'[r] = <<"clean", "priv">> /\ \A q \in Runs \ {r} : stage'[q] = stage[q]
    BY <1>v, <2>1
  <2>3. files["priv"] = Full(r) /\ files["pub"] \in Own(r)
    BY <1>t, <2>1 DEF Holds
  <2>4. CASE Put("pub", Absent) /\ leaks' = leaks
    <3>1. files'["pub"] = Absent /\ files'["priv"] = files["priv"]
      BY <1>f, <1>p, <2>4
    <3>2. Holds(r)'
      BY <2>2, <2>3, <3>1, FileFacts DEF Holds
    <3>3. PairInv'
      BY <1>t, <1>o, <2>1, <2>2, <2>3, <2>4, <3>1, FileFacts DEF PairInv, KeyFilesOK
    <3> QED BY <1>s, <1>o, <1>p, <2>1, <2>3, <2>4, <3>2, <3>3 DEF Calls
  <2>5. CASE leaks' = leaks \cup {r} /\ files' = files
    <3>1. Holds(r)'
      BY <2>2, <2>3, <2>5 DEF Holds
    <3>2. PairInv'
      BY <1>t, <2>1, <2>2, <2>3, <2>5 DEF PairInv, KeyFilesOK
    <3> QED BY <1>n, <2>1, <2>5, <3>1, <3>2 DEF Calls
  <2> QED BY <2>1, <2>4, <2>5
<1>9. ASSUME NEW r \in Runs, Clean(r) PROVE KeyFilesInv'
  <2>1. /\ stage[r] = <<"clean", "priv">> /\ Goto(r, <<"failed">>) /\ signed' = signed
        /\ \/ Put("priv", Absent) /\ leaks' = leaks
           \/ leaks' = leaks \cup {r} /\ files' = files
    BY <1>9 DEF Clean
  <2>2. stage'[r] = <<"failed">> /\ \A q \in Runs \ {r} : stage'[q] = stage[q]
    BY <1>v, <2>1
  <2>3. files["priv"] = Full(r) /\ (files["pub"] \notin Own(r) \/ r \in leaks) /\ Holds(r)'
    <3>1. files["priv"] = Full(r) /\ (files["pub"] \notin Own(r) \/ r \in leaks)
      BY <1>t, <2>1 DEF Holds
    <3>2. Holds(r)'
      BY <2>2 DEF Holds
    <3> QED BY <3>1, <3>2
  <2>4. CASE Put("priv", Absent) /\ leaks' = leaks
    <3>1. files'["priv"] = Absent /\ files'["pub"] = files["pub"]
      BY <1>f, <1>p, <2>4
    <3>2. PairInv'
      BY <1>t, <1>o, <2>1, <2>2, <2>3, <2>4, <3>1, FileFacts DEF PairInv, KeyFilesOK
    <3> QED BY <1>s, <1>o, <1>p, <1>c, <2>1, <2>3, <2>4, <3>2
  <2>5. CASE leaks' = leaks \cup {r} /\ files' = files
    <3>1. PairInv'
      BY <1>t, <2>1, <2>2, <2>5 DEF PairInv, KeyFilesOK
    <3> QED BY <1>n, <1>c, <2>1, <2>3, <2>5, <3>1
  <2> QED BY <2>1, <2>4, <2>5
<1>10. ASSUME NEW r \in Runs, Die(r) PROVE KeyFilesInv'
  <2>1. /\ stage[r] # <<"failed">> /\ Goto(r, <<"dead">>)
        /\ files' = files /\ signed' = signed /\ leaks' = leaks
    BY <1>10 DEF Die, Ended
  <2>2. stage'[r] = <<"dead">> /\ \A q \in Runs \ {r} : stage'[q] = stage[q]
    BY <1>v, <2>1
  <2>3. Holds(r)'
    BY <2>2 DEF Holds
  <2>4. PairInv'
    BY <1>t, <2>1, <2>2 DEF PairInv, KeyFilesOK
  <2> QED BY <1>n, <1>c, <2>1, <2>3, <2>4
<1>11. ASSUME CreateEnvelope PROVE KeyFilesInv'
  <2>1. PICK k \in Runs : files["priv"] = Full(k) /\ signed' = signed \cup {k}
    <3>1. files["priv"] # Absent /\ files["priv"].whole /\ signed' = signed \cup {files["priv"].key}
      BY <1>11 DEF CreateEnvelope, Loads
    <3>2. PICK k \in Runs : files["priv"] \in Own(k)
      BY <1>t, <1>p, <3>1 DEF KeyFilesOK
    <3>3. files["priv"] = Full(k)
      BY <3>1, <3>2 DEF Own, Part
    <3>4. files["priv"].key = k
      BY <3>3 DEF Full
    <3> QED BY <3>1, <3>3, <3>4
  <2>2. files' = files /\ stage' = stage /\ leaks' = leaks
    BY <1>11 DEF CreateEnvelope
  <2> QED BY <1>t, <2>1, <2>2 DEF KeyFilesInv, KeyFilesOK, Holds, PairInv
<1>12. CASE UNCHANGED fileVars
  BY <1>12 DEF fileVars, KeyFilesInv, KeyFilesOK, Holds, PairInv
<1> QED
  BY <1>1, <1>2, <1>3, <1>4, <1>5, <1>6, <1>7, <1>8, <1>9, <1>10, <1>11, <1>12, <1>p DEF KeygenNext

LEMMA KeyFilesInvariant == KeygenSpec => []KeyFilesInv
BY KeyFilesInit, KeyFilesStep, PTL DEF KeygenSpec

\* A pair that keygen has announced is there, whole, and stays, however many
\* others generate keys on its prefix, fail, clean up after themselves or die
\* (O_EXCL in writeBase64 and the removals of Generate).
THEOREM PairsStay == KeygenSpec => []AnnouncedPairsStay
<1>1. KeyFilesInv => AnnouncedPairsStay
  BY DEF KeyFilesInv, Holds, AnnouncedPairsStay, Paths, Full
<1> QED BY <1>1, KeyFilesInvariant, PTL

\* What was signed with the private key found on the disk verifies with the
\* public key found beside it, unless a keygen has reported a failure that
\* explains it (Generate writes .priv first and removes it when .pub fails).
THEOREM KeysVerify == KeygenSpec => []SignaturesVerify
<1>1. KeyFilesInv => SignaturesVerify
  <2> SUFFICES ASSUME KeyFilesInv, NEW k \in signed, Loads("pub"), leaks = {},
                      stage[k] # <<"failed">>
               PROVE  Verifies(k)
    BY DEF SignaturesVerify
  <2>1. files["priv"] = Full(k) /\ k \in Runs
    BY DEF KeyFilesInv, PairInv, KeyFilesOK
  <2>2. PICK p \in Runs : files["pub"] \in Own(p)
    BY DEF Loads, KeyFilesInv, KeyFilesOK, Paths
  <2>3. files["priv"] = Full(p)
    BY <2>2 DEF KeyFilesInv, PairInv
  <2>4. p = k
    BY <2>1, <2>3 DEF Full
  <2> QED BY <2>2, <2>4 DEF Verifies, Own, Part, Full
<1> QED BY <1>1, KeyFilesInvariant, PTL
=============================================================================
