---------------------------- MODULE ServiceProofs ----------------------------
(***************************************************************************)
(* Theorems about the processes of the control API, for any processes,     *)
(* keys, requests and starts.  Four invariants carry them:                 *)
(*                                                                         *)
(*   RequestInv  what a process believes of a request agrees with what     *)
(*               PostgreSQL made of its transaction (Sound);               *)
(*   KeyInv      whoever serves has the one pinned key, and so has every   *)
(*               signature, also one whose COMMIT is still under way;      *)
(*   LockInv     one transaction at a time has got beyond the lock;        *)
(*   CountInv    each counter is the number of the answers it stands for.  *)
(*                                                                         *)
(* The first one is enough to map every step to AtomicRequests.            *)
(***************************************************************************)
EXTENDS Service, FiniteSetTheorems, TLAPS

Phases == {"down", "opened", "serving", "draining", "closing"}
Taken == {"waiting", "running", "committing", "answering", "answered"}
Stages == Taken \cup {"unsent", "over"}
Answers == Works \cup {"none", "rejected", "error"}
Request == [stage : Stages, at : Servers, kind : {"action", "create"},
            answer : Answers]

TypeOK ==
    /\ proc \in [Servers -> [phase : Phases, key : Keys]]
    /\ metrics \in [Servers -> [Outcomes \cup {"count"} -> Nat]]
    /\ req \in [Requests -> Request]
    /\ session \in [Requests -> {"none", "waiting", "held"} \cup Works]
    /\ log \in [Requests -> {"none"} \cup Works]
    /\ pinned \subseteq Keys
    /\ starts \in Nat

-----------------------------------------------------------------------------
(* A request, from both of its ends. *)

Sound(r) ==
    /\ session[r] # "none" => log[r] = "none"
    /\ req[r].answer \in Works => log[r] = req[r].answer
    /\ req[r].answer = "rejected" => log[r] = "none" /\ session[r] \notin Works
    /\ req[r].stage \in {"unsent", "waiting", "running", "committing"} => req[r].answer = "none"
    /\ req[r].stage \in {"unsent", "waiting", "running"} => log[r] = "none" /\ session[r] \notin Works
    /\ req[r].stage = "unsent" => session[r] = "none"
    /\ req[r].stage \in {"answering", "answered"} => req[r].answer # "none"
    /\ req[r].stage \in Taken /\ req[r].kind = "action" => session[r] \notin Keys /\ log[r] \notin Keys

RequestInv == TypeOK /\ \A r \in Requests : Sound(r)

LEMMA KeysAreNoWords ==
    \A w \in {"none", "waiting", "held", "allow", "deny", "rejected", "error"} : w \notin Keys
BY ServiceConstants

LEMMA WorksAreNoWords ==
    \A w \in {"none", "waiting", "held", "rejected", "error"} : w \notin Works
BY KeysAreNoWords DEF Works, Decisions

LEMMA UnsentIs ==
    /\ Unsent \in Request /\ Unsent.stage = "unsent" /\ Unsent.answer = "none"
    /\ Unsent.kind = "action"
<1>1. (CHOOSE s \in Servers : TRUE) \in Servers
  BY ServiceConstants
<1>2. /\ "unsent" \in Stages /\ "none" \in Answers
  BY DEF Stages, Answers
<1> QED BY <1>1, <1>2 DEF Unsent, Request

\* The fields of a request after each kind of change.
LEMMA MoveFields ==
    ASSUME TypeOK, NEW r \in Requests, NEW stage \in Stages, Move(r, stage)
    PROVE  /\ req' \in [Requests -> Request]
           /\ \A q \in Requests \ {r} : req'[q] = req[q]
           /\ req'[r].stage = stage /\ req'[r].at = req[r].at /\ req'[r].kind = req[r].kind
           /\ req'[r].answer = req[r].answer
<1>1. req[r] \in Request
  BY DEF TypeOK
<1> DEFINE x == [req[r] EXCEPT !.stage = stage]
<1>2. /\ x \in Request /\ x.stage = stage /\ x.at = req[r].at /\ x.kind = req[r].kind
      /\ x.answer = req[r].answer
  BY <1>1 DEF Request
<1>3. req' = [req EXCEPT ![r] = x]
  BY DEF Move
<1> HIDE DEF x
<1> QED BY <1>2, <1>3 DEF TypeOK

LEMMA AnsweringFields ==
    ASSUME TypeOK, NEW r \in Requests, NEW a \in Answers, Answering(r, a)
    PROVE  /\ req' \in [Requests -> Request]
           /\ \A q \in Requests \ {r} : req'[q] = req[q]
           /\ req'[r].stage = "answering" /\ req'[r].at = req[r].at
           /\ req'[r].kind = req[r].kind /\ req'[r].answer = a
<1>1. req[r] \in Request /\ "answering" \in Stages
  BY DEF TypeOK, Stages, Taken
<1> DEFINE x == [req[r] EXCEPT !.stage = "answering", !.answer = a]
<1>2. /\ x \in Request /\ x.stage = "answering" /\ x.at = req[r].at /\ x.kind = req[r].kind
      /\ x.answer = a
  BY <1>1 DEF Request
<1>3. req' = [req EXCEPT ![r] = x]
  BY <1>1 DEF Answering, Request
<1> HIDE DEF x
<1> QED BY <1>2, <1>3 DEF TypeOK

\* A request that has just arrived, and one that is refused at once.
Arrived(s, kind) == [Unsent EXCEPT !.stage = "waiting", !.at = s, !.kind = kind]
Refused(s, kind) == [Unsent EXCEPT !.stage = "answering", !.at = s, !.kind = kind, !.answer = "rejected"]

LEMMA ArrivalFields ==
    ASSUME NEW s \in Servers, NEW kind \in {"action", "create"}
    PROVE  /\ Arrived(s, kind) \in Request /\ Refused(s, kind) \in Request
           /\ Arrived(s, kind).stage = "waiting" /\ Refused(s, kind).stage = "answering"
           /\ Arrived(s, kind).at = s /\ Refused(s, kind).at = s
           /\ Arrived(s, kind).kind = kind /\ Refused(s, kind).kind = kind
           /\ Arrived(s, kind).answer = "none" /\ Refused(s, kind).answer = "rejected"
<1> DEFINE u == Unsent
<1>1. u \in Request /\ u.answer = "none"
  BY UnsentIs
<1>2. "waiting" \in Stages /\ "answering" \in Stages /\ "rejected" \in Answers
  BY DEF Stages, Taken, Answers
<1>3. /\ Arrived(s, kind) = [u EXCEPT !.stage = "waiting", !.at = s, !.kind = kind]
      /\ Refused(s, kind) = [u EXCEPT !.stage = "answering", !.at = s, !.kind = kind,
                                      !.answer = "rejected"]
  BY DEF Arrived, Refused
<1> HIDE DEF u
<1> QED BY <1>1, <1>2, <1>3 DEF Request

\* The end of a process: what it had not answered is over.
LEMMA EndFields ==
    ASSUME TypeOK, NEW s \in Servers, End(s)
    PROVE  /\ req' \in [Requests -> Request]
           /\ \A r \in Requests :
                IF r \in Of(s, InProgress \cup {"answered"})
                THEN req'[r].stage = "over" /\ req'[r].answer = req[r].answer
                ELSE req'[r] = req[r]
<1> DEFINE u == Unsent
<1>1. u \in Request /\ "over" \in Stages
  BY UnsentIs DEF Stages
<1> HIDE DEF u
<1>3. ASSUME NEW r \in Requests, r \in Of(s, InProgress \cup {"answered"})
      PROVE  /\ req'[r] \in Request /\ req'[r].stage = "over" /\ req'[r].answer = req[r].answer
  <2>2. req[r].answer \in Answers
    BY DEF TypeOK, Request
  <2> DEFINE x == [u EXCEPT !.stage = "over", !.answer = req[r].answer]
  <2>3. x \in Request /\ x.stage = "over" /\ x.answer = req[r].answer
    BY <1>1, <2>2 DEF Request
  <2>4. req'[r] = x
    BY <1>3 DEF End, u
  <2> HIDE DEF x
  <2> QED BY <2>3, <2>4
<1>4. ASSUME NEW r \in Requests, r \notin Of(s, InProgress \cup {"answered"})
      PROVE  req'[r] = req[r] /\ req'[r] \in Request
  BY <1>4 DEF End, TypeOK
<1>5. req' = [r \in Requests |-> req'[r]]
  BY DEF End
<1>6. req' \in [Requests -> Request]
  BY <1>3, <1>4, <1>5
<1> QED BY <1>3, <1>4, <1>6

-----------------------------------------------------------------------------
(* RequestInv is inductive. *)

LEMMA RequestInit == Init => RequestInv
<1> SUFFICES ASSUME Init PROVE RequestInv
  OBVIOUS
<1>1. AnyKey \in Keys
  BY ServiceConstants DEF AnyKey
<1>2. Down \in [phase : Phases, key : Keys]
  BY <1>1 DEF Down, Phases
<1>3. Zero \in [Outcomes \cup {"count"} -> Nat]
  BY DEF Zero
<1>4. TypeOK
  BY <1>2, <1>3, UnsentIs DEF Init, TypeOK
<1>5. ASSUME NEW r \in Requests PROVE Sound(r)
  BY UnsentIs, WorksAreNoWords, KeysAreNoWords DEF Init, Sound, Taken
<1> QED BY <1>4, <1>5 DEF RequestInv

\* What one request keeps when nothing about it changes.
LEMMA SoundStays ==
    ASSUME NEW q \in Requests, Sound(q), req'[q] = req[q], session'[q] = session[q],
           log'[q] = log[q]
    PROVE  Sound(q)'
BY DEF Sound

\* One answer more is counted, and only for the requests that are counted.
LEMMA ObservedCounts ==
    ASSUME NEW m \in [Outcomes \cup {"count"} -> Nat], NEW outcome \in Outcomes, NEW n,
           n = Observed(m, "action", outcome)
    PROVE  /\ n \in [Outcomes \cup {"count"} -> Nat]
           /\ n[outcome] = m[outcome] + 1 /\ n["count"] = m["count"] + 1
           /\ \A o \in Outcomes \ {outcome} : n[o] = m[o]
<1>1. "count" \notin Outcomes
  BY DEF Outcomes, Decisions
<1> DEFINE S == Outcomes \cup {"count"}
<1>2. outcome \in S /\ "count" \in S /\ outcome # "count" /\ \A o \in Outcomes : o \in S /\ o # "count"
  BY <1>1
<1>3. m \in [S -> Nat]
  OBVIOUS
<1>4. n = [m EXCEPT ![outcome] = @ + 1, !["count"] = @ + 1]
  BY DEF Observed
<1> HIDE DEF S
<1>5. /\ n \in [S -> Nat]
      /\ n[outcome] = m[outcome] + 1 /\ n["count"] = m["count"] + 1
      /\ \A o \in S \ {outcome, "count"} : n[o] = m[o]
  BY <1>2, <1>3, <1>4
<1> QED BY <1>2, <1>5 DEF S

\* What an answer to an action can be.
LEMMA AnswersToActions ==
    ASSUME TypeOK, NEW r \in Requests, Sound(r), req[r].stage \in {"answering", "answered"},
           req[r].kind = "action"
    PROVE  req[r].answer \in Outcomes
<1>1. req[r].answer \in Answers /\ req[r].answer # "none" /\ log[r] \notin Keys
  BY DEF TypeOK, Request, Sound, Taken
<1>2. req[r].answer \in Works => req[r].answer \in Decisions
  BY <1>1 DEF Sound, Works
<1> QED BY <1>1, <1>2 DEF Answers, Outcomes

LEMMA RequestStep == RequestInv /\ [Next]_vars => RequestInv'
<1> SUFFICES ASSUME RequestInv, [Next]_vars PROVE RequestInv'
  OBVIOUS
<1> USE DEF RequestInv
<1>t. TypeOK /\ \A q \in Requests : Sound(q)
  OBVIOUS
<1>w. "none" \notin Works /\ "waiting" \notin Works /\ "held" \notin Works /\ "rejected" \notin Works /\ "error" \notin Works
  BY WorksAreNoWords
<1>k. /\ Keys \subseteq Works /\ Decisions \subseteq Works /\ Works = Decisions \cup Keys
      /\ \A w \in {"none", "waiting", "held", "allow", "deny"} : w \notin Keys
  BY KeysAreNoWords DEF Works
<1>d. /\ Down \in [phase : Phases, key : Keys]
      /\ Zero \in [Outcomes \cup {"count"} -> Nat]
  BY ServiceConstants DEF Down, Zero, AnyKey, Phases
\* It is enough to know the types and what becomes of the request that moved.
<1>s. ASSUME NEW r \in Requests, TypeOK',
             \A q \in Requests \ {r} : req'[q] = req[q] /\ session'[q] = session[q] /\ log'[q] = log[q],
             Sound(r)'
      PROVE  RequestInv'
  <2>1. \A q \in Requests : Sound(q)'
    BY <1>t, <1>s DEF Sound
  <2> QED BY <1>s, <2>1
\* The same for the steps that do not concern any request.
<1>u. ASSUME TypeOK', req' = req, session' = session, log' = log
      PROVE  RequestInv'
  <2>1. \A q \in Requests : Sound(q)'
    BY <1>t, <1>u DEF Sound
  <2> QED BY <1>u, <2>1
<1>e. ASSUME NEW s \in Servers, End(s)
      PROVE  RequestInv'
  <2>1. /\ req' \in [Requests -> Request]
        /\ \A r \in Requests :
                IF r \in Of(s, InProgress \cup {"answered"})
                THEN req'[r].stage = "over" /\ req'[r].answer = req[r].answer
                ELSE req'[r] = req[r]
    BY <1>t, <1>e, EndFields
  <2>2. session' = session /\ log' = log /\ pinned' = pinned /\ starts' = starts
    BY <1>e DEF End, database
  <2>3. TypeOK'
    BY <1>t, <1>d, <1>e, <2>1, <2>2 DEF End, TypeOK
  <2>4. ASSUME NEW r \in Requests PROVE Sound(r)'
    <3>1. CASE r \in Of(s, InProgress \cup {"answered"})
      BY <1>t, <2>1, <2>2, <3>1 DEF Sound, Taken
    <3>2. CASE r \notin Of(s, InProgress \cup {"answered"})
      BY <1>t, <2>1, <2>2, <3>2 DEF Sound
    <3> QED BY <3>1, <3>2
  <2> QED BY <2>3, <2>4
\* A step that changes one request, or one session, and nothing else.
<1>m. ASSUME NEW r \in Requests, req' \in [Requests -> Request],
             \A q \in Requests \ {r} : req'[q] = req[q],
             proc' = proc, pinned' = pinned, log' = log, starts' = starts,
             metrics' \in [Servers -> [Outcomes \cup {"count"} -> Nat]],
             session' \in [Requests -> {"none", "waiting", "held"} \cup Works],
             \A q \in Requests \ {r} : session'[q] = session[q],
             Sound(r)'
      PROVE  RequestInv'
  <2>1. TypeOK'
    BY <1>t, <1>m DEF TypeOK
  <2> QED BY <1>m, <1>s, <2>1
<1>1. ASSUME NEW s \in Servers, NEW k \in Keys, Open(s, k) PROVE RequestInv'
  <2>1. TypeOK'
    <3>1. proc' \in [Servers -> [phase : Phases, key : Keys]]
      BY <1>t, <1>1 DEF Open, TypeOK, Phases
    <3>2. starts' \in Nat
      BY <1>t, <1>1 DEF Open, TypeOK
    <3> QED BY <1>t, <1>1, <3>1, <3>2 DEF Open, database, TypeOK
  <2> QED BY <1>1, <1>u, <2>1 DEF Open, database
<1>2. ASSUME NEW s \in Servers, StartFails(s) \/ Drained(s) \/ Closed(s) \/ Die(s) PROVE RequestInv'
  BY <1>2, <1>e DEF StartFails, Drained, Closed, Die
<1>3. ASSUME NEW s \in Servers, Serve(s) PROVE RequestInv'
  <2>1. proc[s] \in [phase : Phases, key : Keys]
    BY <1>t DEF TypeOK
  <2>2. pinned' \subseteq Keys
    BY <1>t, <1>3, <2>1 DEF Serve, Pinned, TypeOK
  <2>3. proc' \in [Servers -> [phase : Phases, key : Keys]]
    BY <1>t, <1>d, <1>3, <2>1 DEF Serve, Enter, TypeOK, Phases
  <2>4. TypeOK'
    BY <1>t, <1>3, <2>2, <2>3 DEF Serve, TypeOK
  <2> QED BY <1>3, <1>u, <2>4 DEF Serve
<1>4. ASSUME NEW s \in Servers, Signal(s) \/ GiveUp(s) PROVE RequestInv'
  <2>1. proc' \in [Servers -> [phase : Phases, key : Keys]]
    <3>1. PICK phase \in {"draining", "closing"} : proc' = [proc EXCEPT ![s].phase = phase]
      BY <1>4 DEF Signal, GiveUp, Enter
    <3>2. proc \in [Servers -> [phase : Phases, key : Keys]] /\ phase \in Phases
      BY <1>t DEF TypeOK, Phases
    <3>3. proc[s] \in [phase : Phases, key : Keys]
      BY <3>2
    <3>4. [proc[s] EXCEPT !.phase = phase] \in [phase : Phases, key : Keys]
      BY <3>2, <3>3
    <3> QED BY <3>1, <3>2, <3>4
  <2>2. TypeOK'
    BY <1>t, <1>4, <2>1 DEF Signal, GiveUp, database, TypeOK
  <2> QED BY <1>4, <1>u, <2>2 DEF Signal, GiveUp, database
<1>5. ASSUME NEW s \in Servers, NEW r \in Requests, NEW kind \in Kinds[r], Accept(s, r, kind)
      PROVE  RequestInv'
  <2>1. kind \in {"action", "create"}
    BY ServiceConstants DEF Requests
  <2>2. PICK x \in {Arrived(s, kind), Refused(s, kind)} :
           /\ req' = [req EXCEPT ![r] = x]
           /\ \/ x = Arrived(s, kind) /\ session' = [session EXCEPT ![r] = "waiting"]
              \/ x = Refused(s, kind) /\ session' = session
    BY <1>5 DEF Accept, Arrived, Refused
  <2>3. req[r].stage = "unsent" /\ session[r] = "none" /\ log[r] = "none" /\ log' = log
    BY <1>t, <1>5 DEF Accept, Sound
  <2>4. /\ x \in Request /\ x.answer \notin Works
        /\ x = Arrived(s, kind) => x.stage = "waiting" /\ x.answer = "none"
        /\ x = Refused(s, kind) => x.stage = "answering" /\ x.answer = "rejected"
    BY <1>w, <2>1, <2>2, ArrivalFields
  <2>5. /\ req' \in [Requests -> Request] /\ req'[r] = x
        /\ \A q \in Requests \ {r} : req'[q] = req[q]
    BY <1>t, <2>2, <2>4 DEF TypeOK
  <2>6. /\ session' \in [Requests -> {"none", "waiting", "held"} \cup Works]
        /\ session'[r] = "none" \/ (session'[r] = "waiting" /\ x = Arrived(s, kind))
        /\ \A q \in Requests \ {r} : session'[q] = session[q]
    BY <1>t, <2>2, <2>3 DEF TypeOK
  <2>7. Sound(r)'
    BY <1>w, <1>k, <2>2, <2>3, <2>4, <2>5, <2>6 DEF Sound
  <2> QED BY <1>5, <1>m, <1>t, <2>4, <2>5, <2>6, <2>7 DEF Accept, TypeOK
<1>6. ASSUME NEW r \in Requests, Locked(r) PROVE RequestInv'
  <2>1. "running" \in Stages
    BY DEF Stages, Taken
  <2>2. /\ req' \in [Requests -> Request]
        /\ \A q \in Requests \ {r} : req'[q] = req[q]
        /\ req'[r].stage = "running" /\ req'[r].kind = req[r].kind
        /\ req'[r].answer = req[r].answer
    BY <1>t, <1>6, <2>1, MoveFields DEF Locked
  <2>3. session' = session /\ log' = log
    BY <1>6 DEF Locked, database
  <2>4. Sound(r)'
    BY <1>t, <1>6, <1>w, <1>k, <2>2, <2>3 DEF Locked, Sound, Taken
  <2> QED BY <1>6, <1>m, <1>t, <2>2, <2>4 DEF Locked, database, TypeOK
<1>7. ASSUME NEW r \in Requests, NEW w \in Works, Complete(r, w) PROVE RequestInv'
  <2>1. "committing" \in Stages
    BY DEF Stages, Taken
  <2>2. /\ req' \in [Requests -> Request]
        /\ \A q \in Requests \ {r} : req'[q] = req[q]
        /\ req'[r].stage = "committing" /\ req'[r].kind = req[r].kind
        /\ req'[r].answer = req[r].answer
    BY <1>t, <1>7, <2>1, MoveFields DEF Complete
  <2>3. /\ session' \in [Requests -> {"none", "waiting", "held"} \cup Works] /\ session'[r] = w
        /\ \A q \in Requests \ {r} : session'[q] = session[q]
    BY <1>t, <1>7 DEF Complete, TypeOK
  <2>4. req[r].kind = "action" => w \notin Keys
    BY <1>7, <1>k DEF Complete, Decisions
  <2>5. log' = log /\ log[r] = "none" /\ req[r].answer = "none"
    BY <1>t, <1>7 DEF Complete, Sound
  <2>6. Sound(r)'
    BY <1>w, <1>k, <2>2, <2>3, <2>4, <2>5 DEF Sound
  <2> QED BY <1>7, <1>m, <1>t, <2>2, <2>3, <2>6 DEF Complete, TypeOK
<1>8. ASSUME NEW r \in Requests, Refuse(r) PROVE RequestInv'
  <2>1. "rejected" \in Answers
    BY DEF Answers
  <2>2. /\ req' \in [Requests -> Request]
        /\ \A q \in Requests \ {r} : req'[q] = req[q]
        /\ req'[r].stage = "answering" /\ req'[r].kind = req[r].kind
        /\ req'[r].answer = "rejected"
    BY <1>t, <1>8, <2>1, AnsweringFields DEF Refuse
  <2>3. /\ session' \in [Requests -> {"none", "waiting", "held"} \cup Works]
        /\ session'[r] \in {session[r], "none"}
        /\ \A q \in Requests \ {r} : session'[q] = session[q]
    BY <1>t, <1>8 DEF Refuse, TypeOK
  <2>4. session[r] \notin Works
    BY <1>t, <1>8 DEF Refuse, Sound
  <2>5. log' = log /\ log[r] = "none"
    BY <1>t, <1>8 DEF Refuse, Sound
  <2>6. Sound(r)'
    BY <1>w, <1>k, <2>2, <2>3, <2>4, <2>5 DEF Sound
  <2> QED BY <1>8, <1>m, <1>t, <2>2, <2>3, <2>6 DEF Refuse, TypeOK
<1>9. ASSUME NEW r \in Requests, Fail(r) PROVE RequestInv'
  <2>1. "error" \in Answers
    BY DEF Answers
  <2>2. /\ req' \in [Requests -> Request]
        /\ \A q \in Requests \ {r} : req'[q] = req[q]
        /\ req'[r].stage = "answering" /\ req'[r].kind = req[r].kind
        /\ req'[r].answer = "error"
    BY <1>t, <1>9, <2>1, AnsweringFields DEF Fail
  <2>3. session' = session /\ log' = log /\ req[r].stage \in Taken
    BY <1>9 DEF Fail, FailedAt, OnConnection, database, Taken
  <2>6. Sound(r)'
    BY <1>t, <1>w, <1>k, <2>2, <2>3 DEF Sound
  <2> QED BY <1>9, <1>m, <1>t, <2>2, <2>3, <2>6 DEF Fail, database, TypeOK
<1>10. ASSUME NEW r \in Requests, Committed(r) PROVE RequestInv'
  <2>1. log[r] # "none" /\ session[r] = "none"
    BY <1>t, <1>10 DEF Committed, Confirmed, Sound
  <2>2. Result(r) = log[r] /\ log[r] \in Works
    BY <1>t, <1>w, <2>1 DEF Result, TypeOK
  <2>3. PICK a \in Answers : a = log[r]
    BY <2>2 DEF Answers
  <2>4. Answering(r, a)
    BY <1>10, <2>2, <2>3 DEF Committed
  <2>5. /\ req' \in [Requests -> Request]
        /\ \A q \in Requests \ {r} : req'[q] = req[q]
        /\ req'[r].stage = "answering" /\ req'[r].kind = req[r].kind
        /\ req'[r].answer = a
    BY <1>t, <2>4, AnsweringFields
  <2>6. session' = session /\ log' = log /\ req[r].stage \in Taken
    BY <1>10 DEF Committed, database, Taken
  <2>7. Sound(r)'
    BY <1>t, <1>w, <1>k, <2>1, <2>2, <2>3, <2>5, <2>6 DEF Sound
  <2> QED BY <1>10, <1>m, <1>t, <2>5, <2>6, <2>7 DEF Committed, database, TypeOK
<1>11. ASSUME NEW r \in Requests, Observe(r) PROVE RequestInv'
  <2>1. "answered" \in Stages
    BY DEF Stages, Taken
  <2>2. /\ req' \in [Requests -> Request]
        /\ \A q \in Requests \ {r} : req'[q] = req[q]
        /\ req'[r].stage = "answered" /\ req'[r].kind = req[r].kind
        /\ req'[r].answer = req[r].answer
    BY <1>t, <1>11, <2>1, MoveFields DEF Observe
  <2>3. session' = session /\ log' = log /\ req[r].stage \in Taken
    BY <1>11 DEF Observe, database, Taken
  <2>4. metrics' = [metrics EXCEPT ![req[r].at] = Observed(@, req[r].kind, req[r].answer)]
    BY <1>11 DEF Observe
  <2>5. metrics' \in [Servers -> [Outcomes \cup {"count"} -> Nat]]
    <3>1. req[r].at \in Servers /\ metrics[req[r].at] \in [Outcomes \cup {"count"} -> Nat]
      BY <1>t DEF TypeOK, Request
    <3>2. CASE req[r].kind # "action"
      BY <1>t, <2>4, <3>1, <3>2 DEF Observed, TypeOK
    <3>3. CASE req[r].kind = "action"
      <4>1. PICK n : n = Observed(metrics[req[r].at], "action", req[r].answer)
        OBVIOUS
      <4>2. n \in [Outcomes \cup {"count"} -> Nat]
        BY <1>t, <1>11, <3>1, <3>3, <4>1, AnswersToActions, ObservedCounts DEF Observe
      <4>3. metrics' = [metrics EXCEPT ![req[r].at] = n]
        BY <2>4, <3>3, <4>1
      <4> QED BY <1>t, <3>1, <4>2, <4>3 DEF TypeOK
    <3> QED BY <3>2, <3>3
  <2>6. Sound(r)'
    BY <1>t, <1>11, <1>w, <1>k, <2>2, <2>3 DEF Observe, Sound
  <2> QED BY <1>11, <1>m, <1>t, <2>2, <2>3, <2>5, <2>6 DEF Observe, database, TypeOK
<1>12. ASSUME NEW r \in Requests, Grant(r) \/ Abort(r) PROVE RequestInv'
  <2>1. PICK to \in {"held", "none"} :
          /\ session' = [session EXCEPT ![r] = to] /\ (to = "held" => session[r] = "waiting")
    BY <1>12 DEF Grant, Abort, Session
  <2>2. req' = req /\ log' = log /\ proc' = proc /\ metrics' = metrics /\ pinned' = pinned /\ starts' = starts
    BY <1>12 DEF Grant, Abort, Session
  <2>3. /\ session' \in [Requests -> {"none", "waiting", "held"} \cup Works] /\ session'[r] = to
        /\ \A q \in Requests \ {r} : session'[q] = session[q]
    BY <1>t, <2>1 DEF TypeOK
  <2>4. session[r] # "none"
    BY <1>12, <1>w DEF Grant, Abort, Session
  <2>5. Sound(r)'
    BY <1>t, <1>w, <1>k, <2>1, <2>2, <2>3, <2>4 DEF Sound
  <2> QED BY <1>m, <1>t, <2>2, <2>3, <2>5 DEF TypeOK
<1>13. ASSUME NEW r \in Requests, Commit(r) PROVE RequestInv'
  <2>1. /\ session[r] \in Works /\ session' = [session EXCEPT ![r] = "none"]
        /\ log' = [log EXCEPT ![r] = session[r]]
        /\ req' = req /\ proc' = proc /\ metrics' = metrics /\ pinned' = pinned /\ starts' = starts
    BY <1>13 DEF Commit, Session
  <2>2. /\ session'[r] = "none" /\ log'[r] = session[r]
        /\ \A q \in Requests \ {r} : session'[q] = session[q] /\ log'[q] = log[q]
    BY <1>t, <2>1 DEF TypeOK
  <2>3. TypeOK'
    BY <1>t, <2>1 DEF TypeOK
  <2>4. Sound(r)'
    BY <1>t, <1>w, <1>k, <2>1, <2>2 DEF Sound
  <2> QED BY <1>s, <1>t, <2>1, <2>2, <2>3, <2>4
<1>14. CASE UNCHANGED vars
  BY <1>14, <1>t, <1>u DEF vars, TypeOK
<1> QED
  BY <1>1, <1>2, <1>3, <1>4, <1>5, <1>6, <1>7, <1>8, <1>9, <1>10, <1>11, <1>12, <1>13, <1>14 DEF Next

LEMMA RequestInvariant == Spec => []RequestInv
BY RequestInit, RequestStep, PTL DEF Spec

-----------------------------------------------------------------------------
(* Answers follow commits: every step is a step of AtomicRequests. *)

answers == [r \in Requests |-> req[r].answer]

LEMMA ClientInit == Init => Client!Init
BY UnsentIs DEF Init, Client!Init

LEMMA ClientStep == RequestInv /\ [Next]_vars => [Client!Next]_(Client!vars)
<1> SUFFICES ASSUME RequestInv, [Next]_vars PROVE [Client!Next]_(Client!vars)
  OBVIOUS
<1>t. /\ TypeOK /\ \A q \in Requests : Sound(q)
      /\ req \in [Requests -> Request] /\ log \in [Requests -> {"none"} \cup Works]
  BY DEF RequestInv, TypeOK
<1>w. "none" \notin Works /\ "rejected" \notin Works /\ "error" \notin Works
  BY WorksAreNoWords
\* A step that neither answers nor commits.
<1>s. ASSUME log' = log, \A r \in Requests : req'[r].answer = req[r].answer
      PROVE  [Client!Next]_(Client!vars)
  <2>1. answers' = answers
    BY <1>s DEF answers
  <2> QED BY <1>s, <2>1 DEF Client!vars, answers
\* An answer.
<1>a. ASSUME NEW r \in Requests, NEW a \in Works \cup {"rejected", "error"}, Answering(r, a),
             log' = log, req[r].answer = "none",
             a \in Works => log[r] = a, a = "rejected" => log[r] = "none"
      PROVE  [Client!Next]_(Client!vars)
  <2>1. a \in Answers
    BY DEF Answers
  <2>2. req'[r].answer = a /\ \A q \in Requests \ {r} : req'[q] = req[q]
    BY <1>t, <1>a, <2>1, AnsweringFields
  <2>3. answers' = [answers EXCEPT ![r] = a] /\ answers[r] = "none"
    BY <1>a, <2>2 DEF answers
  <2>4. Client!Answer(r, a)
    BY <1>a, <2>3 DEF Client!Answer, answers
  <2> QED BY <2>4 DEF Client!Next
\* Only the stage of one request changes.
<1>m. ASSUME NEW r \in Requests, NEW stage \in Stages, Move(r, stage), log' = log
      PROVE  [Client!Next]_(Client!vars)
  <2>1. \A q \in Requests : req'[q].answer = req[q].answer
    BY <1>t, <1>m, MoveFields
  <2> QED BY <1>m, <1>s, <2>1
<1>e. ASSUME NEW s \in Servers, End(s)
      PROVE  [Client!Next]_(Client!vars)
  <2>1. \A r \in Requests : req'[r].answer = req[r].answer
    BY <1>t, <1>e, EndFields
  <2> QED BY <1>e, <1>s, <2>1 DEF End, database
<1>1. ASSUME NEW s \in Servers,
             \/ \E k \in Keys : Open(s, k)
             \/ StartFails(s) \/ Serve(s)
             \/ Signal(s) \/ Drained(s) \/ GiveUp(s) \/ Closed(s) \/ Die(s)
      PROVE  [Client!Next]_(Client!vars)
  <2>1. CASE StartFails(s) \/ Drained(s) \/ Closed(s) \/ Die(s)
    BY <1>e, <2>1 DEF StartFails, Drained, Closed, Die
  <2>2. CASE (\E k \in Keys : Open(s, k)) \/ Serve(s) \/ Signal(s) \/ GiveUp(s)
    BY <1>s, <2>2 DEF Open, Serve, Signal, GiveUp, database
  <2> QED BY <1>1, <2>1, <2>2
<1>2. ASSUME NEW s \in Servers, NEW r \in Requests, NEW kind \in Kinds[r], Accept(s, r, kind)
      PROVE  [Client!Next]_(Client!vars)
  <2>1. kind \in {"action", "create"}
    BY ServiceConstants DEF Requests
  <2>2. req[r].answer = "none" /\ log[r] = "none" /\ log' = log
    BY <1>2, <1>t DEF Accept, Sound
  <2>3. CASE req' = [req EXCEPT ![r] = Arrived(s, kind)]
    BY <1>s, <1>t, <2>1, <2>2, <2>3, ArrivalFields
  <2>4. CASE req' = [req EXCEPT ![r] = Refused(s, kind)]
    <3>0. req'[r].answer = "rejected" /\ \A q \in Requests \ {r} : req'[q] = req[q]
      BY <1>t, <2>1, <2>4, ArrivalFields
    <3>1. answers' = [answers EXCEPT ![r] = "rejected"] /\ answers[r] = "none"
      BY <2>2, <3>0 DEF answers
    <3>2. Client!Answer(r, "rejected")
      BY <2>2, <3>1 DEF Client!Answer, answers
    <3> QED BY <3>2 DEF Client!Next
  <2> QED BY <1>2, <2>3, <2>4 DEF Accept, Arrived, Refused
<1>3. ASSUME NEW r \in Requests, Locked(r) \/ Observe(r) \/ (\E w \in Works : Complete(r, w))
      PROVE  [Client!Next]_(Client!vars)
  <2>1. {"running", "committing", "answered"} \subseteq Stages
    BY DEF Stages, Taken
  <2> QED BY <1>3, <1>m, <2>1 DEF Locked, Observe, Complete, database
<1>4. ASSUME NEW r \in Requests, Refuse(r) PROVE [Client!Next]_(Client!vars)
  BY <1>4, <1>a, <1>t, <1>w DEF Refuse, Sound
<1>5. ASSUME NEW r \in Requests, Fail(r) PROVE [Client!Next]_(Client!vars)
  BY <1>5, <1>a, <1>t, <1>w DEF Fail, FailedAt, OnConnection, Sound, database
<1>6. ASSUME NEW r \in Requests, Committed(r) PROVE [Client!Next]_(Client!vars)
  <2>1. log[r] # "none" /\ session[r] = "none" /\ req[r].answer = "none" /\ log' = log
    BY <1>t, <1>6 DEF Committed, Confirmed, Sound, database
  <2>2. PICK a \in Works : a = Result(r) /\ a = log[r]
    BY <1>t, <1>w, <2>1 DEF Result
  <2>3. Answering(r, a)
    BY <1>6, <2>2 DEF Committed
  <2> QED BY <1>a, <1>w, <2>1, <2>2, <2>3
<1>7. ASSUME NEW r \in Requests, Commit(r) PROVE [Client!Next]_(Client!vars)
  <2>1. PICK e \in Works : e = session[r]
    BY <1>7 DEF Commit, Session
  <2>2. log' = [log EXCEPT ![r] = e] /\ req' = req
    BY <1>7, <2>1 DEF Commit, Session
  <2>3. log[r] = "none" /\ req[r].answer \in {"none", "error"}
    <3>1. req[r].answer \in Answers
      BY <1>t DEF Request
    <3> QED BY <1>t, <1>w, <2>1, <3>1 DEF Sound, Answers
  <2>4. answers' = answers /\ answers[r] \in {"none", "error"}
    BY <2>2, <2>3 DEF answers
  <2>5. Client!TakeEffect(r, e)
    BY <2>2, <2>3, <2>4 DEF Client!TakeEffect, answers
  <2> QED BY <2>5 DEF Client!Next
<1>8. ASSUME NEW r \in Requests, Grant(r) \/ Abort(r) PROVE [Client!Next]_(Client!vars)
  BY <1>8, <1>s DEF Grant, Abort, Session
<1>9. CASE UNCHANGED vars
  BY <1>9, <1>s DEF vars
<1> QED BY <1>1, <1>2, <1>3, <1>4, <1>5, <1>6, <1>7, <1>8, <1>9 DEF Next

\* To a client, requests are atomic (wrapEndpoint answers after
\* store.Transaction returned): whatever the processes and the sessions of
\* PostgreSQL do, a result is answered only when it is in the database for
\* good, and what was refused never gets there.
THEOREM AnswersFollow == Spec => AnswersFollowCommits
BY ClientInit, ClientStep, RequestInvariant, PTL DEF Spec, AnswersFollowCommits, Client!Spec

-----------------------------------------------------------------------------
(* The signing key. *)

Up == {"serving", "draining", "closing"}

\* At most one key is pinned; every process that serves has it, every request
\* in a process is in one that serves, and what was signed was signed with it.
KeyInv ==
    /\ \A k, l \in pinned : k = l
    /\ \A s \in Servers : proc[s].phase \in Up => proc[s].key \in pinned
    /\ \A r \in Requests : req[r].stage \in Taken => proc[req[r].at].phase \in Up
    /\ \A r \in Requests : (session[r] \in Keys => session[r] \in pinned)
                        /\ (log[r] \in Keys => log[r] \in pinned)

LEMMA KeyInit == Init => KeyInv
BY UnsentIs, KeysAreNoWords DEF Init, KeyInv, Down, Up, Taken

LEMMA KeyStep == RequestInv /\ KeyInv /\ [Next]_vars => KeyInv'
<1> SUFFICES ASSUME RequestInv, KeyInv, [Next]_vars PROVE KeyInv'
  OBVIOUS
<1>t. /\ TypeOK /\ req \in [Requests -> Request] /\ proc \in [Servers -> [phase : Phases, key : Keys]]
      /\ session \in [Requests -> {"none", "waiting", "held"} \cup Works]
      /\ log \in [Requests -> {"none"} \cup Works]
  BY DEF RequestInv, TypeOK
<1>k. "none" \notin Keys /\ "waiting" \notin Keys /\ "held" \notin Keys
  BY KeysAreNoWords
\* A step that takes a request no further than it was, in a process that stays.
<1>m. ASSUME NEW r \in Requests, proc' = proc, pinned' = pinned,
             \A q \in Requests \ {r} : req'[q] = req[q] /\ session'[q] = session[q] /\ log'[q] = log[q],
             req'[r].stage \in Taken => proc[req'[r].at].phase \in Up,
             session'[r] \in Keys => session'[r] \in pinned,
             log'[r] \in Keys => log'[r] \in pinned
      PROVE  KeyInv'
  <2>1. \A q \in Requests : req'[q].stage \in Taken => proc'[req'[q].at].phase \in Up
    BY <1>m DEF KeyInv
  <2>2. \A q \in Requests : (session'[q] \in Keys => session'[q] \in pinned')
                         /\ (log'[q] \in Keys => log'[q] \in pinned')
    BY <1>m DEF KeyInv
  <2> QED BY <1>m, <2>1, <2>2 DEF KeyInv
<1>e. ASSUME NEW s \in Servers, End(s)
      PROVE  KeyInv'
  <2>1. proc' = [proc EXCEPT ![s] = Down] /\ session' = session /\ log' = log /\ pinned' = pinned
    BY <1>e DEF End, database
  <2>2. proc'[s].phase = "down" /\ \A q \in Servers \ {s} : proc'[q] = proc[q]
    BY <1>t, <2>1 DEF Down
  <2>3. ASSUME NEW r \in Requests, req'[r].stage \in Taken PROVE proc'[req'[r].at].phase \in Up
    <3>1. r \notin Of(s, InProgress \cup {"answered"}) /\ req'[r] = req[r]
      BY <1>t, <1>e, <2>3, EndFields DEF Taken
    <3>2. req[r].at \in Servers \ {s}
      BY <1>t, <2>3, <3>1 DEF Of, Taken, InProgress, OnConnection, Request
    <3> QED BY <2>2, <2>3, <3>1, <3>2 DEF KeyInv
  <2> QED BY <2>1, <2>2, <2>3 DEF KeyInv, Up
<1>1. ASSUME NEW s \in Servers, NEW k \in Keys, Open(s, k) PROVE KeyInv'
  <2>1. /\ proc[s].phase = "down" /\ proc' = [proc EXCEPT ![s] = [phase |-> "opened", key |-> k]]
        /\ req' = req /\ session' = session /\ log' = log /\ pinned' = pinned
    BY <1>1 DEF Open, database
  <2>2. proc'[s].phase = "opened" /\ \A q \in Servers \ {s} : proc'[q] = proc[q]
    BY <1>t, <2>1
  <2>3. \A r \in Requests : req[r].stage \in Taken => req[r].at \in Servers \ {s}
    BY <1>t, <2>1 DEF KeyInv, Request, Up
  <2> QED BY <2>1, <2>2, <2>3 DEF KeyInv, Up
<1>2. ASSUME NEW s \in Servers, StartFails(s) \/ Drained(s) \/ Closed(s) \/ Die(s) PROVE KeyInv'
  BY <1>2, <1>e DEF StartFails, Drained, Closed, Die
<1>3. ASSUME NEW s \in Servers, Serve(s) PROVE KeyInv'
  <2>1. /\ proc[s].phase = "opened" /\ pinned' = Pinned(proc[s].key) /\ proc[s].key \in pinned'
        /\ req' = req /\ session' = session /\ log' = log
        /\ proc' = [proc EXCEPT ![s].phase = "serving"] \/ proc' = [proc EXCEPT ![s] = Down]
    BY <1>3 DEF Serve, Enter
  <2>2. pinned \subseteq pinned' /\ \A k, l \in pinned' : k = l
    BY <2>1 DEF Pinned, KeyInv
  <2>3. /\ proc'[s].phase \in Up => proc'[s].key = proc[s].key
        /\ \A q \in Servers \ {s} : proc'[q] = proc[q]
    BY <1>t, <2>1 DEF Down, Up
  <2>4. \A r \in Requests : req[r].stage \in Taken => req[r].at \in Servers \ {s}
    BY <1>t, <2>1 DEF KeyInv, Request, Up
  <2>5. \A q \in Servers : proc'[q].phase \in Up => proc'[q].key \in pinned'
    BY <2>1, <2>2, <2>3 DEF KeyInv
  <2> QED BY <2>1, <2>2, <2>3, <2>4, <2>5 DEF KeyInv
<1>4. ASSUME NEW s \in Servers, Signal(s) \/ GiveUp(s) PROVE KeyInv'
  <2>1. /\ proc[s].phase \in Up /\ req' = req /\ session' = session /\ log' = log /\ pinned' = pinned
        /\ \E p \in Up : proc' = [proc EXCEPT ![s].phase = p]
    BY <1>4 DEF Signal, GiveUp, Enter, Up, database
  <2>2. proc'[s].phase \in Up /\ proc'[s].key = proc[s].key /\ \A q \in Servers \ {s} : proc'[q] = proc[q]
    BY <1>t, <2>1
  <2>3. \A r \in Requests : req[r].at \in Servers
    BY <1>t DEF Request
  <2> QED BY <2>1, <2>2, <2>3 DEF KeyInv
<1>5. ASSUME NEW s \in Servers, NEW r \in Requests, NEW kind \in Kinds[r], Accept(s, r, kind)
      PROVE  KeyInv'
  <2>1. kind \in {"action", "create"}
    BY ServiceConstants DEF Requests
  <2>2. PICK x \in {Arrived(s, kind), Refused(s, kind)} : req' = [req EXCEPT ![r] = x]
    BY <1>5 DEF Accept, Arrived, Refused
  <2>3. req'[r].at = s /\ \A q \in Requests \ {r} : req'[q] = req[q]
    BY <1>t, <2>1, <2>2, ArrivalFields
  <2>4. /\ session'[r] \in {session[r], "waiting"} /\ \A q \in Requests \ {r} : session'[q] = session[q]
        /\ log' = log /\ proc' = proc /\ pinned' = pinned /\ proc[s].phase \in Up
    BY <1>t, <1>5 DEF Accept, Up
  <2> QED BY <1>k, <1>m, <2>3, <2>4 DEF KeyInv
<1>6. ASSUME NEW r \in Requests, NEW stage \in Stages, Move(r, stage), req[r].stage \in Taken,
             proc' = proc, pinned' = pinned, log' = log, session' = session
      PROVE  KeyInv'
  <2>1. req'[r].at = req[r].at /\ \A q \in Requests \ {r} : req'[q] = req[q]
    BY <1>t, <1>6, MoveFields
  <2> QED BY <1>6, <1>m, <2>1 DEF KeyInv
<1>7. ASSUME NEW r \in Requests, NEW a \in Answers, Answering(r, a), req[r].stage \in Taken,
             proc' = proc, pinned' = pinned, log' = log,
             session'[r] \in {session[r], "none"}, \A q \in Requests \ {r} : session'[q] = session[q]
      PROVE  KeyInv'
  <2>1. req'[r].at = req[r].at /\ \A q \in Requests \ {r} : req'[q] = req[q]
    BY <1>t, <1>7, AnsweringFields
  <2> QED BY <1>7, <1>k, <1>m, <2>1 DEF KeyInv
<1>8. ASSUME NEW r \in Requests, Locked(r) \/ Observe(r) PROVE KeyInv'
  <2>1. {"running", "answered"} \subseteq Stages
    BY DEF Stages, Taken
  <2> QED BY <1>6, <1>8, <2>1 DEF Locked, Observe, database, Taken
<1>9. ASSUME NEW r \in Requests, Refuse(r) \/ Fail(r) \/ Committed(r) PROVE KeyInv'
  <2>1. req[r].stage \in Taken /\ proc' = proc /\ pinned' = pinned /\ log' = log
    BY <1>9 DEF Refuse, Fail, FailedAt, Committed, OnConnection, database, Taken
  <2>2. session'[r] \in {session[r], "none"} /\ \A q \in Requests \ {r} : session'[q] = session[q]
    BY <1>9, <1>t DEF Refuse, Fail, Committed, database
  <2>3. "rejected" \in Answers /\ "error" \in Answers /\ Result(r) \in Answers
    BY <1>t DEF Answers, Result
  <2>4. PICK a \in Answers : Answering(r, a)
    <3>1. CASE Refuse(r) \/ Fail(r)
      BY <2>3, <3>1 DEF Refuse, Fail
    <3>2. CASE Committed(r)
      <4>1. PICK a \in Answers : a = Result(r)
        BY <2>3
      <4> QED BY <3>2, <4>1 DEF Committed
    <3> QED BY <1>9, <3>1, <3>2
  <2> QED BY <1>7, <2>1, <2>2, <2>4
<1>10. ASSUME NEW r \in Requests, NEW w \in Works, Complete(r, w) PROVE KeyInv'
  <2>1. "committing" \in Stages /\ "running" \in Taken
    BY DEF Stages, Taken
  <2>2. req'[r].at = req[r].at /\ \A q \in Requests \ {r} : req'[q] = req[q]
    BY <1>t, <1>10, <2>1, MoveFields DEF Complete
  <2>3. /\ session'[r] = w /\ \A q \in Requests \ {r} : session'[q] = session[q]
        /\ log' = log /\ proc' = proc /\ pinned' = pinned
    BY <1>10, <1>t DEF Complete
  <2>4. proc[req[r].at].phase \in Up /\ proc[req[r].at].key \in pinned
    BY <1>10, <1>t, <2>1 DEF Complete, KeyInv, Request
  <2>5. w \in Keys => w \in pinned
    BY <1>10, <2>4, KeysAreNoWords DEF Complete, Decisions
  <2> QED BY <1>m, <2>2, <2>3, <2>4, <2>5 DEF KeyInv
<1>11. ASSUME NEW r \in Requests, Grant(r) \/ Abort(r) PROVE KeyInv'
  <2>1. /\ session'[r] \in {"none", "held"} /\ \A q \in Requests \ {r} : session'[q] = session[q]
        /\ req' = req /\ log' = log /\ proc' = proc /\ pinned' = pinned
    BY <1>11, <1>t DEF Grant, Abort, Session
  <2> QED BY <1>k, <1>m, <2>1 DEF KeyInv
<1>12. ASSUME NEW r \in Requests, Commit(r) PROVE KeyInv'
  <2>1. /\ session'[r] = "none" /\ log'[r] = session[r]
        /\ \A q \in Requests \ {r} : session'[q] = session[q] /\ log'[q] = log[q]
        /\ req' = req /\ proc' = proc /\ pinned' = pinned
    BY <1>12, <1>t DEF Commit, Session
  <2> QED BY <1>k, <1>m, <2>1 DEF KeyInv
<1>13. CASE UNCHANGED vars
  BY <1>13 DEF vars, KeyInv
<1> QED BY <1>1, <1>2, <1>3, <1>4, <1>5, <1>8, <1>9, <1>10, <1>11, <1>12, <1>13 DEF Next

\* What a server serves it can verify (server.New refuses a key that is not
\* the pinned one): every envelope in the database is signed with the key of
\* every process that serves, for any number of processes, keys and starts.
THEOREM EnvelopesVerify == Spec => []EveryEnvelopeVerifies
<1>1. RequestInv /\ KeyInv => EveryEnvelopeVerifies
  BY DEF KeyInv, EveryEnvelopeVerifies, Stopping, Up
<1>2. Spec => []KeyInv
  BY KeyInit, KeyStep, RequestInvariant, PTL DEF Spec
<1> QED BY <1>1, <1>2, RequestInvariant, PTL

-----------------------------------------------------------------------------
(* The lock. *)

Holds(r) == session[r] \notin {"none", "waiting"}

LockInv == \A q, r \in Requests : Holds(q) /\ Holds(r) => q = r

LEMMA LockInit == Init => LockInv
BY DEF Init, LockInv, Holds

\* Only Grant gives the lock to anyone, and only when nobody holds it.
LEMMA LockStep == RequestInv /\ LockInv /\ [Next]_vars => LockInv'
<1> SUFFICES ASSUME RequestInv, LockInv, [Next]_vars PROVE LockInv'
  OBVIOUS
<1>t. session \in [Requests -> {"none", "waiting", "held"} \cup Works]
  BY DEF RequestInv, TypeOK
<1>k. ASSUME \A q \in Requests : Holds(q)' => Holds(q) PROVE LockInv'
  BY <1>k DEF LockInv
<1>s. ASSUME session' = session PROVE LockInv'
  BY <1>k, <1>s DEF Holds
<1>1. ASSUME NEW s \in Servers,
             \/ \E k \in Keys : Open(s, k)
             \/ StartFails(s) \/ Serve(s)
             \/ Signal(s) \/ Drained(s) \/ GiveUp(s) \/ Closed(s) \/ Die(s)
      PROVE  LockInv'
  <2>1. session' = session
    BY <1>1 DEF Open, StartFails, Serve, Signal, Drained, GiveUp, Closed, Die, End, database
  <2> QED BY <1>s, <2>1
<1>2. ASSUME NEW s \in Servers, NEW r \in Requests, NEW kind \in Kinds[r], Accept(s, r, kind)
      PROVE  LockInv'
  <2>1. session' = session \/ session' = [session EXCEPT ![r] = "waiting"]
    BY <1>2 DEF Accept
  <2>2. \A q \in Requests : session'[q] \in {session[q], "waiting"}
    BY <1>t, <2>1
  <2> QED BY <1>k, <2>2 DEF Holds
<1>3. ASSUME NEW r \in Requests, Locked(r) \/ Fail(r) \/ Committed(r) \/ Observe(r) PROVE LockInv'
  BY <1>3, <1>s DEF Locked, Fail, Committed, Observe, database
<1>4. ASSUME NEW r \in Requests, Refuse(r) PROVE LockInv'
  <2>1. \A q \in Requests : session'[q] \in {session[q], "none"}
    BY <1>4, <1>t DEF Refuse
  <2> QED BY <1>k, <2>1 DEF Holds
<1>5. ASSUME NEW r \in Requests, NEW w \in Works, Complete(r, w) PROVE LockInv'
  <2>1. session[r] = "held" /\ \A q \in Requests \ {r} : session'[q] = session[q]
    BY <1>5, <1>t DEF Complete
  <2> QED BY <1>k, <2>1 DEF Holds
<1>6. ASSUME NEW r \in Requests, Grant(r) PROVE LockInv'
  <2>1. /\ \A q \in Requests : session[q] \in {"none", "waiting"}
        /\ \A q \in Requests \ {r} : session'[q] = session[q]
    BY <1>6, <1>t DEF Grant, Session, LockIsFree
  <2> QED BY <2>1 DEF LockInv, Holds
<1>7. ASSUME NEW r \in Requests, Commit(r) \/ Abort(r) PROVE LockInv'
  <2>1. session' = [session EXCEPT ![r] = "none"]
    BY <1>7 DEF Commit, Abort, Session
  <2>2. \A q \in Requests : session'[q] \in {session[q], "none"}
    BY <1>t, <2>1
  <2> QED BY <1>k, <2>2 DEF Holds
<1>8. CASE UNCHANGED vars
  BY <1>8, <1>s DEF vars
<1> QED BY <1>1, <1>2, <1>3, <1>4, <1>5, <1>6, <1>7, <1>8 DEF Next

\* What takes effect while a transaction has the lock is its own.
LEMMA OvertakingStep ==
    ASSUME RequestInv, LockInv, [Next]_vars,
           NEW r \in Requests, session[r] \in {"held"} \cup Works
    PROVE  pinned' = pinned /\ \A q \in Requests \ {r} : log'[q] = log[q]
<1>h. Holds(r) /\ ~LockIsFree
  BY WorksAreNoWords DEF Holds, LockIsFree
<1>1. ASSUME NEW s \in Servers, Serve(s) PROVE FALSE
  BY <1>1, <1>h DEF Serve
<1>2. ASSUME NEW q \in Requests, Commit(q)
      PROVE  pinned' = pinned /\ \A x \in Requests \ {r} : log'[x] = log[x]
  <2>1. session[q] \in Works /\ log' = [log EXCEPT ![q] = session[q]] /\ pinned' = pinned
    BY <1>2 DEF Commit, Session
  <2>2. q = r
    BY <1>h, <2>1, WorksAreNoWords DEF LockInv, Holds
  <2>3. log \in [Requests -> {"none"} \cup Works]
    BY DEF RequestInv, TypeOK
  <2> QED BY <2>1, <2>2, <2>3
<1>3. ASSUME NEW s \in Servers,
             \/ \E k \in Keys : Open(s, k)
             \/ StartFails(s) \/ Signal(s) \/ Drained(s) \/ GiveUp(s) \/ Closed(s) \/ Die(s)
             \/ \E q \in Requests : \E kind \in Kinds[q] : Accept(s, q, kind)
      PROVE  pinned' = pinned /\ log' = log
  BY <1>3 DEF Open, StartFails, Signal, Drained, GiveUp, Closed, Die, End, Accept, database
<1>4. ASSUME NEW q \in Requests,
             \/ Locked(q) \/ Refuse(q) \/ Fail(q) \/ Committed(q) \/ Observe(q)
             \/ \E w \in Works : Complete(q, w)
             \/ Grant(q) \/ Abort(q)
      PROVE  pinned' = pinned /\ log' = log
  BY <1>4 DEF Locked, Refuse, Fail, Committed, Observe, Complete, Grant, Abort, Session, database
<1>5. CASE UNCHANGED vars
  BY <1>5 DEF vars
<1> QED BY <1>1, <1>2, <1>3, <1>4, <1>5 DEF Next

\* What a transaction decides on still holds when it takes effect
\* (pg_advisory_xact_lock in store.Transaction, before fn): for any number of
\* processes and requests, although a COMMIT may arrive when its sender is dead.
THEOREM NotOvertaken == Spec => DecisionsAreNotOvertaken
<1> DEFINE Undisturbed ==
      \A r \in Requests : session[r] \in {"held"} \cup Works =>
          /\ pinned' = pinned
          /\ \A q \in Requests \ {r} : log'[q] = log[q]
<1>1. Spec => []LockInv
  BY LockInit, LockStep, RequestInvariant, PTL DEF Spec
<1>2. RequestInv /\ LockInv /\ [Next]_vars => [Undisturbed]_vars
  BY OvertakingStep
<1> QED BY <1>1, <1>2, RequestInvariant, PTL DEF Spec, DecisionsAreNotOvertaken

-----------------------------------------------------------------------------
(* The counters. *)

Counted(s) == {r \in Of(s, {"answered"}) : req[r].kind = "action"}
As(s, outcome) == {r \in Counted(s) : req[r].answer = outcome}

\* A process counts the answers to actions, each once and as what it was.
CountInv ==
    \A s \in Servers :
        /\ metrics[s]["count"] = Cardinality(Counted(s))
        /\ \A o \in Outcomes : metrics[s][o] = Cardinality(As(s, o))

LEMMA RequestsAreFinite == \A T \in SUBSET Requests : IsFiniteSet(T) /\ Cardinality(T) \in Nat
<1>1. Len(Kinds) \in Int
  BY ServiceConstants
<1>2. IsFiniteSet(Requests)
  BY <1>1, FS_Interval DEF Requests
<1> QED BY <1>2, FS_Subset, FS_CardinalityType

LEMMA CountInit == Init => CountInv
<1> SUFFICES ASSUME Init, NEW s \in Servers
             PROVE  /\ metrics[s]["count"] = Cardinality(Counted(s))
                    /\ \A o \in Outcomes : metrics[s][o] = Cardinality(As(s, o))
  BY DEF CountInv
<1>1. Counted(s) = {} /\ \A o \in Outcomes : As(s, o) = {}
  BY UnsentIs DEF Init, Counted, As, Of
<1>2. metrics[s]["count"] = 0 /\ \A o \in Outcomes : metrics[s][o] = 0
  BY DEF Init, Zero
<1> QED BY <1>1, <1>2, FS_EmptySet

\* Nothing is counted anew while the same requests are answered, in the same way.
LEMMA CountStays ==
    ASSUME CountInv, metrics' = metrics,
           \A r \in Requests : \/ req'[r] = req[r]
                               \/ req[r].stage # "answered" /\ req'[r].stage # "answered"
    PROVE  CountInv'
<1>1. \A s \in Servers : Counted(s)' = Counted(s)
  BY DEF Counted, Of
<1>2. \A s \in Servers : \A o \in Outcomes : As(s, o)' = As(s, o)
  BY DEF Counted, As, Of
<1> QED BY <1>1, <1>2 DEF CountInv

LEMMA CountStep == RequestInv /\ CountInv /\ [Next]_vars => CountInv'
<1> SUFFICES ASSUME RequestInv, CountInv, [Next]_vars PROVE CountInv'
  OBVIOUS
<1>t. /\ TypeOK /\ req \in [Requests -> Request] /\ \A r \in Requests : Sound(r)
      /\ metrics \in [Servers -> [Outcomes \cup {"count"} -> Nat]]
  BY DEF RequestInv, TypeOK
<1>e. ASSUME NEW s \in Servers, End(s)
      PROVE  CountInv'
  <2>1. \A r \in Requests : IF r \in Of(s, InProgress \cup {"answered"})
                            THEN req'[r].stage = "over" ELSE req'[r] = req[r]
    BY <1>e, <1>t, EndFields
  <2>2. metrics'[s] = Zero /\ \A q \in Servers \ {s} : metrics'[q] = metrics[q]
    BY <1>e, <1>t DEF End
  <2>3. Counted(s)' = {} /\ \A o \in Outcomes : As(s, o)' = {}
    BY <2>1 DEF Counted, As, Of
  <2>4. \A q \in Servers \ {s} : Counted(q)' = Counted(q)
    BY <2>1 DEF Counted, Of
  <2>5. \A q \in Servers \ {s} : \A o \in Outcomes : As(q, o)' = As(q, o)
    BY <2>1 DEF Counted, As, Of
  <2>6. Zero["count"] = 0 /\ \A o \in Outcomes : Zero[o] = 0
    BY DEF Zero
  <2>7. Cardinality({}) = 0
    BY FS_EmptySet
  <2>8. ASSUME NEW q \in Servers \ {s}
        PROVE  /\ metrics'[q]["count"] = Cardinality(Counted(q)')
               /\ \A o \in Outcomes : metrics'[q][o] = Cardinality(As(q, o)')
    BY <2>2, <2>4, <2>5, <2>8 DEF CountInv
  <2> QED BY <2>2, <2>3, <2>6, <2>7, <2>8 DEF CountInv
<1>1. ASSUME NEW s \in Servers,
             \/ \E k \in Keys : Open(s, k)
             \/ StartFails(s) \/ Serve(s)
             \/ Signal(s) \/ Drained(s) \/ GiveUp(s) \/ Closed(s) \/ Die(s)
      PROVE  CountInv'
  <2>1. CASE StartFails(s) \/ Drained(s) \/ Closed(s) \/ Die(s)
    BY <1>e, <2>1 DEF StartFails, Drained, Closed, Die
  <2>2. CASE (\E k \in Keys : Open(s, k)) \/ Serve(s) \/ Signal(s) \/ GiveUp(s)
    BY <2>2, CountStays DEF Open, Serve, Signal, GiveUp
  <2> QED BY <1>1, <2>1, <2>2
<1>2. ASSUME NEW s \in Servers, NEW r \in Requests, NEW kind \in Kinds[r], Accept(s, r, kind)
      PROVE  CountInv'
  <2>1. kind \in {"action", "create"}
    BY ServiceConstants DEF Requests
  <2>2. PICK x \in {Arrived(s, kind), Refused(s, kind)} : req' = [req EXCEPT ![r] = x]
    BY <1>2 DEF Accept, Arrived, Refused
  <2>3. req'[r].stage # "answered" /\ \A q \in Requests \ {r} : req'[q] = req[q]
    BY <1>t, <2>1, <2>2, ArrivalFields
  <2> QED BY <1>2, <2>3, CountStays DEF Accept
<1>3. ASSUME NEW r \in Requests, Locked(r) \/ (\E w \in Works : Complete(r, w)) PROVE CountInv'
  <2>1. PICK stage \in {"running", "committing"} : Move(r, stage)
    BY <1>3 DEF Locked, Complete
  <2>2. stage \in Stages
    BY DEF Stages, Taken
  <2>3. req'[r].stage = stage /\ \A q \in Requests \ {r} : req'[q] = req[q]
    BY <1>t, <2>1, <2>2, MoveFields
  <2> QED BY <1>3, <2>3, CountStays DEF Locked, Complete
<1>4. ASSUME NEW r \in Requests, Refuse(r) \/ Fail(r) \/ Committed(r) PROVE CountInv'
  <2>1. req[r].stage # "answered" /\ metrics' = metrics
    BY <1>4 DEF Refuse, Fail, FailedAt, Committed, OnConnection
  <2>2. "rejected" \in Answers /\ "error" \in Answers /\ Result(r) \in Answers
    BY <1>t DEF Answers, Result, TypeOK
  <2>3. PICK a \in Answers : Answering(r, a)
    <3>1. CASE Refuse(r) \/ Fail(r)
      BY <2>2, <3>1 DEF Refuse, Fail
    <3>2. CASE Committed(r)
      <4>1. PICK a \in Answers : a = Result(r)
        BY <2>2
      <4> QED BY <3>2, <4>1 DEF Committed
    <3> QED BY <1>4, <3>1, <3>2
  <2>4. req'[r].stage = "answering" /\ \A q \in Requests \ {r} : req'[q] = req[q]
    BY <1>t, <2>3, AnsweringFields
  <2> QED BY <2>1, <2>4, CountStays
<1>5. ASSUME NEW r \in Requests, Observe(r) PROVE CountInv'
  <2>1. "answered" \in Stages
    BY DEF Stages, Taken
  <2>2. /\ \A q \in Requests \ {r} : req'[q] = req[q]
        /\ req'[r].stage = "answered" /\ req'[r].kind = req[r].kind
        /\ req'[r].answer = req[r].answer /\ req'[r].at = req[r].at
    BY <1>t, <1>5, <2>1, MoveFields DEF Observe
  <2>3. req[r].stage = "answering" /\ metrics' = [metrics EXCEPT ![req[r].at] = Observed(@, req[r].kind, req[r].answer)]
    BY <1>5 DEF Observe
  <2>4. PICK s \in Servers : s = req[r].at
    BY <1>t DEF Request
  <2>5. \A q \in Servers \ {s} : Counted(q)' = Counted(q)
    BY <2>2, <2>3, <2>4 DEF Counted, Of
  <2>6. \A q \in Servers \ {s} : \A o \in Outcomes : As(q, o)' = As(q, o)
    BY <2>2, <2>3, <2>4 DEF Counted, As, Of
  <2>7. CASE req[r].kind # "action"
    <3>1. metrics' = metrics
      BY <1>t, <2>3, <2>7 DEF Observed
    <3>2. \A q \in Servers : Counted(q)' = Counted(q)
      BY <2>2, <2>3, <2>7 DEF Counted, Of
    <3>3. \A q \in Servers : \A o \in Outcomes : As(q, o)' = As(q, o)
      BY <2>2, <2>3, <2>7 DEF Counted, As, Of
    <3> QED BY <3>1, <3>2, <3>3 DEF CountInv
  <2>8. CASE req[r].kind = "action"
    <3>1. PICK a \in Outcomes : a = req[r].answer
      BY <1>t, <2>3, <2>8, AnswersToActions
    <3>2. PICK n : n = Observed(metrics[s], "action", a)
      OBVIOUS
    <3>3. metrics' = [metrics EXCEPT ![s] = n]
      BY <2>3, <2>4, <2>8, <3>1, <3>2
    <3>4. metrics'[s] = n /\ \A q \in Servers \ {s} : metrics'[q] = metrics[q]
      BY <1>t, <3>3
    <3>5. /\ n[a] = metrics[s][a] + 1 /\ n["count"] = metrics[s]["count"] + 1
          /\ \A o \in Outcomes \ {a} : n[o] = metrics[s][o]
      <4>1. PICK m \in [Outcomes \cup {"count"} -> Nat] : m = metrics[s]
        BY <1>t
      <4>2. n = Observed(m, "action", a)
        BY <3>2, <4>1
      <4>3. /\ n[a] = m[a] + 1 /\ n["count"] = m["count"] + 1
            /\ \A o \in Outcomes \ {a} : n[o] = m[o]
        BY <4>2, ObservedCounts
      <4> QED BY <4>1, <4>3
    <3>6. Counted(s)' = Counted(s) \cup {r} /\ r \notin Counted(s)
      BY <2>2, <2>3, <2>4, <2>8 DEF Counted, Of
    <3>7. As(s, a)' = As(s, a) \cup {r} /\ r \notin As(s, a)
      BY <2>2, <2>3, <2>4, <2>8, <3>1 DEF As, Counted, Of
    <3>8. \A o \in Outcomes \ {a} : As(s, o)' = As(s, o)
      BY <2>2, <2>3, <2>4, <3>1 DEF As, Counted, Of
    <3>9. Counted(s) \in SUBSET Requests /\ As(s, a) \in SUBSET Requests
      BY DEF Counted, As, Of
    <3>10. Cardinality(Counted(s)') = Cardinality(Counted(s)) + 1
      BY <3>6, <3>9, RequestsAreFinite, FS_AddElement
    <3>11. Cardinality(As(s, a)') = Cardinality(As(s, a)) + 1
      BY <3>7, <3>9, RequestsAreFinite, FS_AddElement
    <3>12. /\ metrics'[s]["count"] = Cardinality(Counted(s)')
           /\ metrics'[s][a] = Cardinality(As(s, a)')
           /\ \A o \in Outcomes \ {a} : metrics'[s][o] = Cardinality(As(s, o)')
      BY <3>4, <3>5, <3>8, <3>10, <3>11 DEF CountInv
    <3>13. ASSUME NEW o \in Outcomes PROVE metrics'[s][o] = Cardinality(As(s, o)')
      BY <3>12
    <3>14. ASSUME NEW q \in Servers \ {s}
           PROVE  /\ metrics'[q]["count"] = Cardinality(Counted(q)')
                  /\ \A o \in Outcomes : metrics'[q][o] = Cardinality(As(q, o)')
      BY <2>5, <2>6, <3>4 DEF CountInv
    <3> QED BY <3>12, <3>13, <3>14 DEF CountInv
  <2> QED BY <2>7, <2>8
<1>6. ASSUME NEW r \in Requests, Grant(r) \/ Commit(r) \/ Abort(r) PROVE CountInv'
  BY <1>6, CountStays DEF Grant, Commit, Abort, Session
<1>7. CASE UNCHANGED vars
  BY <1>7, CountStays DEF vars
<1> QED BY <1>1, <1>2, <1>3, <1>4, <1>5, <1>6, <1>7 DEF Next

LEMMA CountersAgree == RequestInv /\ CountInv => CountersBracketTheLog
<1> SUFFICES ASSUME RequestInv, CountInv, NEW s \in Servers
             PROVE  LET own == {r \in Of(s, InProgress \cup {"answered"}) : req[r].kind = "action"}
                        late == Cardinality(own \cap Of(s, InProgress))
                        m == metrics[s]
                    IN /\ \A d \in Decisions :
                            LET durable == Cardinality({r \in own : log[r] = d})
                            IN m[d] <= durable /\ durable <= m[d] + m["error"] + late
                       /\ m["count"] = Cardinality(own) - late
                       /\ m["count"] = m["allow"] + m["deny"] + m["rejected"] + m["error"]
  BY DEF CountersBracketTheLog
<1> DEFINE own == {r \in Of(s, InProgress \cup {"answered"}) : req[r].kind = "action"}
           open == own \cap Of(s, InProgress)
           durable(d) == {r \in own : log[r] = d}
<1>t. TypeOK /\ \A r \in Requests : Sound(r)
  BY DEF RequestInv
<1>1. own = Counted(s) \cup open /\ Counted(s) \cap open = {}
  BY DEF Counted, Of, InProgress, OnConnection
<1>2. \A r \in Counted(s) : r \in Requests /\ req[r].answer \in Outcomes
  BY <1>t, AnswersToActions DEF Counted, Of
<1>3. Counted(s) = ((As(s, "allow") \cup As(s, "deny")) \cup As(s, "rejected")) \cup As(s, "error")
  BY <1>2 DEF As, Outcomes, Decisions
<1>4. /\ As(s, "allow") \cap As(s, "deny") = {}
      /\ (As(s, "allow") \cup As(s, "deny")) \cap As(s, "rejected") = {}
      /\ ((As(s, "allow") \cup As(s, "deny")) \cup As(s, "rejected")) \cap As(s, "error") = {}
  BY DEF As
<1>5. ASSUME NEW d \in Decisions
      PROVE  As(s, d) \subseteq durable(d) /\ durable(d) \subseteq (As(s, d) \cup As(s, "error")) \cup open
  <2>1. ASSUME NEW r \in As(s, d) PROVE r \in durable(d)
    BY <1>1, <1>t, <2>1 DEF As, Counted, Of, Sound, Works
  <2>2. ASSUME NEW r \in durable(d), r \notin open PROVE r \in As(s, d) \cup As(s, "error")
    <3>1. r \in Counted(s) /\ log[r] = d /\ d # "none"
      BY <1>1, <2>2 DEF Decisions
    <3>2. req[r].answer \in {d, "error"}
      BY <1>2, <1>t, <3>1 DEF Sound, Outcomes, Works
    <3> QED BY <3>1, <3>2 DEF As
  <2> QED BY <2>1, <2>2
<1>6. \A o : As(s, o) \in SUBSET Requests
  BY DEF As, Counted, Of
<1>7. open \in SUBSET Requests /\ own \in SUBSET Requests /\ \A d : durable(d) \in SUBSET Requests
  BY DEF Of
<1>8. Counted(s) \in SUBSET Requests
  BY DEF Counted, Of
<1> HIDE DEF own, open, durable
<1>9. ASSUME NEW S \in SUBSET Requests, NEW T \in SUBSET Requests
      PROVE  /\ Cardinality(S \cup T) <= Cardinality(S) + Cardinality(T)
             /\ S \cap T = {} => Cardinality(S \cup T) = Cardinality(S) + Cardinality(T)
             /\ S \subseteq T => Cardinality(S) <= Cardinality(T)
             /\ Cardinality(S) \in Nat
  <2>1. IsFiniteSet(S) /\ IsFiniteSet(T) /\ Cardinality(S) \in Nat /\ Cardinality(T) \in Nat
    BY RequestsAreFinite
  <2>2. Cardinality(S \cap T) \in Nat
    BY RequestsAreFinite
  <2>3. Cardinality(S \cup T) = Cardinality(S) + Cardinality(T) - Cardinality(S \cap T)
    BY <2>1, FS_Union
  <2>4. S \cap T = {} => Cardinality(S \cap T) = 0
    BY FS_EmptySet
  <2>5. S \subseteq T => Cardinality(S) <= Cardinality(T)
    BY <2>1, FS_Subset
  <2> QED BY <2>1, <2>2, <2>3, <2>4, <2>5
<1>10. /\ metrics[s]["count"] = Cardinality(Counted(s))
       /\ \A o \in Outcomes : metrics[s][o] = Cardinality(As(s, o))
  BY DEF CountInv
<1>11. {"allow", "deny", "rejected", "error"} \subseteq Outcomes /\ Decisions \subseteq Outcomes
  BY DEF Outcomes, Decisions
<1>12. metrics[s]["count"] = Cardinality(own) - Cardinality(open)
  <2>1. Cardinality(own) = Cardinality(Counted(s)) + Cardinality(open)
    BY <1>1, <1>7, <1>8, <1>9
  <2> QED BY <1>7, <1>8, <1>9, <1>10, <2>1
<1>13. metrics[s]["count"] = metrics[s]["allow"] + metrics[s]["deny"] + metrics[s]["rejected"] + metrics[s]["error"]
  <2> DEFINE A == As(s, "allow")
             D == As(s, "deny")
             R == As(s, "rejected")
             E == As(s, "error")
  <2>1. A \in SUBSET Requests /\ D \in SUBSET Requests /\ R \in SUBSET Requests /\ E \in SUBSET Requests
    BY <1>6
  <2>2. /\ Counted(s) = ((A \cup D) \cup R) \cup E
        /\ A \cap D = {} /\ (A \cup D) \cap R = {} /\ ((A \cup D) \cup R) \cap E = {}
    BY <1>3, <1>4
  <2>3. /\ metrics[s]["allow"] = Cardinality(A) /\ metrics[s]["deny"] = Cardinality(D)
        /\ metrics[s]["rejected"] = Cardinality(R) /\ metrics[s]["error"] = Cardinality(E)
    BY <1>10, <1>11
  <2> HIDE DEF A, D, R, E
  <2>4. Cardinality(A \cup D) = Cardinality(A) + Cardinality(D)
    BY <1>9, <2>1, <2>2
  <2>5. Cardinality((A \cup D) \cup R) = Cardinality(A \cup D) + Cardinality(R)
    <3>1. A \cup D \in SUBSET Requests
      BY <2>1
    <3> QED BY <1>9, <2>1, <2>2, <3>1
  <2>6. Cardinality(Counted(s)) = Cardinality((A \cup D) \cup R) + Cardinality(E)
    <3>1. (A \cup D) \cup R \in SUBSET Requests
      BY <2>1
    <3> QED BY <1>9, <2>1, <2>2, <3>1
  <2>7. /\ Cardinality(A) \in Nat /\ Cardinality(D) \in Nat /\ Cardinality(R) \in Nat /\ Cardinality(E) \in Nat
    BY <1>9, <2>1
  <2> QED BY <1>10, <2>3, <2>4, <2>5, <2>6, <2>7
<1>14. ASSUME NEW d \in Decisions
       PROVE  /\ metrics[s][d] <= Cardinality(durable(d))
              /\ Cardinality(durable(d)) <= metrics[s][d] + metrics[s]["error"] + Cardinality(open)
  <2> DEFINE A == As(s, d)
             E == As(s, "error")
             B == durable(d)
  <2>1. A \in SUBSET Requests /\ E \in SUBSET Requests /\ B \in SUBSET Requests /\ open \in SUBSET Requests
    BY <1>6, <1>7
  <2>2. A \subseteq B /\ B \subseteq (A \cup E) \cup open
    BY <1>5
  <2>3. metrics[s][d] = Cardinality(A) /\ metrics[s]["error"] = Cardinality(E)
    BY <1>10, <1>11
  <2> HIDE DEF A, E, B
  <2>4. Cardinality(A) <= Cardinality(B)
    BY <1>9, <2>1, <2>2
  <2>5. Cardinality(B) <= Cardinality((A \cup E) \cup open)
    <3>1. (A \cup E) \cup open \in SUBSET Requests
      BY <2>1
    <3> QED BY <1>9, <2>1, <2>2, <3>1
  <2>6. Cardinality((A \cup E) \cup open) <= Cardinality(A \cup E) + Cardinality(open)
    <3>1. A \cup E \in SUBSET Requests
      BY <2>1
    <3> QED BY <1>9, <2>1, <3>1
  <2>7. Cardinality(A \cup E) <= Cardinality(A) + Cardinality(E)
    BY <1>9, <2>1
  <2>8. /\ Cardinality(A) \in Nat /\ Cardinality(E) \in Nat /\ Cardinality(B) \in Nat
        /\ Cardinality(open) \in Nat
    BY <1>9, <2>1
  <2>9. /\ Cardinality((A \cup E) \cup open) \in Nat /\ Cardinality(A \cup E) \in Nat
    <3>1. A \cup E \in SUBSET Requests /\ (A \cup E) \cup open \in SUBSET Requests
      BY <2>1
    <3> QED BY RequestsAreFinite, <3>1
  <2>10. /\ metrics[s][d] <= Cardinality(B)
         /\ Cardinality(B) <= metrics[s][d] + metrics[s]["error"] + Cardinality(open)
    BY <2>3, <2>4, <2>5, <2>6, <2>7, <2>8, <2>9
  <2> QED BY <2>10 DEF B
<1> QED BY <1>12, <1>13, <1>14 DEF own, open, durable

\* metrics.observe is called once for each answer, after it is known: no
\* decision is counted that is not committed, and a committed one that is not
\* counted is still on its way or was counted as an error.
THEOREM CountersBracket == Spec => []CountersBracketTheLog
<1>1. Spec => []CountInv
  BY CountInit, CountStep, RequestInvariant, PTL DEF Spec
<1> QED BY <1>1, CountersAgree, RequestInvariant, PTL
=============================================================================
