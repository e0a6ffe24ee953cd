-------------------------- MODULE OperatorsProofs --------------------------
(***************************************************************************)
(* Theorems about operator accounts and their sessions, for any users,     *)
(* passwords, tokens, requests and times.                                  *)
(*                                                                         *)
(*   AccountInv  types, what a waiting request holds, and that no session  *)
(*               is of a disabled account;                                 *)
(*   SessionInv  a token is drawn once, a session is what its login left   *)
(*               and nothing since has ended it, and whoever acted by a    *)
(*               token did so within that;                                 *)
(*   LimitInv    every attempt that passed a limit can be assigned to a    *)
(*               window of its bucket, so that windows do not overlap or   *)
(*               overflow, and the row of the bucket is the last of them.  *)
(***************************************************************************)
EXTENDS Operators, FiniteSetTheorems, TLAPS

Account == [role : Roles, password : Passwords, disabled : BOOLEAN]
Session == [user : DOMAIN operators, expires : 0..MaxClock + SessionLife]
Limit == [attempts : Nat \ {0}, reset_at : 0..MaxClock + Window]
Buckets == Users \cup {Unknown, Global}

\* Begin is called by login with a name and a password, and by all others with
\* a token.
Asked == \A q \in Requests : requests[q] # None =>
    IF requests[q].kind = "login"
    THEN requests[q].user \in Users \cup {Unknown} /\ requests[q].password \in Passwords
    ELSE requests[q].token \in Tokens

AccountInv == TypeOK /\ Asked /\ DisabledAccountsHaveNoSession

-----------------------------------------------------------------------------
LEMMA Types == TypeOK <=>
    /\ clock \in 0..MaxClock
    /\ DOMAIN operators \subseteq Users /\ operators \in [DOMAIN operators -> Account]
    /\ DOMAIN sessions \subseteq Tokens /\ sessions \in [DOMAIN sessions -> Session]
    /\ DOMAIN login_limits \subseteq Buckets /\ login_limits \in [DOMAIN login_limits -> Limit]
    /\ requests \in [Requests -> Request \cup {None}]
    /\ log \in Seq(Event)
BY DEF TypeOK, Account, Session, Limit, Buckets

LEMMA Bounds == {Window, SessionLife, MaxClock, MaxWait} \subseteq Nat
BY OperatorsConstants

\* What a transaction leaves in the log.
LEMMA Recorded ==
    ASSUME log \in Seq(Event), clock \in 0..MaxClock,
           NEW type \in Kinds \cup {"check", "limited", "changed"}, NEW user \in Users \cup {Unknown},
           NEW token \in Tokens \cup {None}, NEW began \in 0..MaxClock,
           Record(type, user, token, began)
    PROVE  /\ log' \in Seq(Event) /\ Len(log') = Len(log) + 1
           /\ \A k \in 1..Len(log) : log'[k] = log[k]
           /\ log'[Len(log) + 1].type = type /\ log'[Len(log) + 1].user = user
           /\ log'[Len(log) + 1].token = token /\ log'[Len(log) + 1].began = began
           /\ log'[Len(log) + 1].at = clock
<1> DEFINE e == [type |-> type, user |-> user, token |-> token, began |-> began, at |-> clock]
<1>1. /\ e \in Event /\ e.type = type /\ e.user = user /\ e.token = token
      /\ e.began = began /\ e.at = clock
  BY DEF Event
<1>2. log' = Append(log, e)
  BY DEF Record
<1> HIDE DEF e
<1>3. log' \in Seq(Event) /\ Len(log') = Len(log) + 1 /\ log'[Len(log) + 1] = e
  BY <1>1, <1>2
<1>4. \A k \in 1..Len(log) : log'[k] = log[k]
  BY <1>2
<1> QED BY <1>1, <1>3, <1>4

LEMMA AttemptType ==
    ASSUME NEW limits, DOMAIN limits \subseteq Buckets, limits \in [DOMAIN limits -> Limit],
           NEW bucket \in Buckets, NEW now \in 0..MaxClock,
           NEW counted, counted = Attempt(bucket, limits, now)
    PROVE  DOMAIN counted \subseteq Buckets /\ counted \in [DOMAIN counted -> Limit]
<1> DEFINE old == IF bucket \in DOMAIN limits THEN limits[bucket] ELSE [attempts |-> 0, reset_at |-> now]
           new == IF old.reset_at <= now THEN [attempts |-> 1, reset_at |-> now + Window]
                  ELSE [old EXCEPT !.attempts = @ + 1]
<1>1. now + Window \in 0..MaxClock + Window
  BY Bounds
<1>2. new \in Limit
  <2>1. CASE old.reset_at <= now
    BY <1>1, <2>1 DEF Limit
  <2>2. CASE ~(old.reset_at <= now)
    <3>1. bucket \in DOMAIN limits
      BY <2>2
    <3>2. limits[bucket] \in Limit
      BY <3>1
    <3>3. new = [limits[bucket] EXCEPT !.attempts = @ + 1]
      BY <2>2, <3>1
    <3> QED BY <3>2, <3>3 DEF Limit
  <2> QED BY <2>1, <2>2
<1>3. counted = [b \in DOMAIN limits \cup {bucket} |-> IF b = bucket THEN new ELSE limits[b]]
  BY DEF Attempt
<1> HIDE DEF new
<1> QED BY <1>2, <1>3

LEMMA TidyType ==
    ASSUME NEW limits, DOMAIN limits \subseteq Buckets, limits \in [DOMAIN limits -> Limit], NEW now
    PROVE  /\ DOMAIN Tidy(limits, now) \subseteq Buckets
           /\ Tidy(limits, now) \in [DOMAIN Tidy(limits, now) -> Limit]
BY DEF Tidy, Restrict

LEMMA AccountInit == Init => AccountInv
<1> SUFFICES ASSUME Init PROVE AccountInv
  OBVIOUS
<1>1. TypeOK
  BY Bounds, Types DEF Init
<1> QED BY <1>1 DEF Init, AccountInv, Asked, DisabledAccountsHaveNoSession

\* One request is answered: the rest of the state is typed as it was.
LEMMA AnswerType ==
    ASSUME TypeOK, NEW q \in Requests, Done(q), clock' = clock, operators' = operators
    PROVE  /\ requests' \in [Requests -> Request \cup {None}]
           /\ Asked => Asked'
<1>1. requests' = [requests EXCEPT ![q] = None] /\ requests \in [Requests -> Request \cup {None}]
  BY Types DEF Done
<1> QED BY <1>1 DEF Asked

LEMMA AccountStep == AccountInv /\ [Next]_vars => AccountInv'
<1> SUFFICES ASSUME AccountInv, [Next]_vars PROVE AccountInv'
  OBVIOUS
<1>t. /\ TypeOK /\ Asked /\ DisabledAccountsHaveNoSession
      /\ clock \in 0..MaxClock
      /\ DOMAIN operators \subseteq Users /\ operators \in [DOMAIN operators -> Account]
      /\ DOMAIN sessions \subseteq Tokens /\ sessions \in [DOMAIN sessions -> Session]
      /\ DOMAIN login_limits \subseteq Buckets /\ login_limits \in [DOMAIN login_limits -> Limit]
      /\ requests \in [Requests -> Request \cup {None}]
      /\ log \in Seq(Event)
  BY Types DEF AccountInv
<1>n. TypeOK' <=>
      /\ clock' \in 0..MaxClock
      /\ DOMAIN operators' \subseteq Users /\ operators' \in [DOMAIN operators' -> Account]
      /\ DOMAIN sessions' \subseteq Tokens /\ sessions' \in [DOMAIN sessions' -> Session']
      /\ DOMAIN login_limits' \subseteq Buckets /\ login_limits' \in [DOMAIN login_limits' -> Limit]
      /\ requests' \in [Requests -> Request \cup {None}]
      /\ log' \in Seq(Event)
  BY DEF TypeOK, Account, Session, Limit, Buckets
<1>w. ASSUME NEW S PROVE /\ DOMAIN Without(S) = DOMAIN sessions \ S
                         /\ \A t \in DOMAIN sessions \ S : Without(S)[t] = sessions[t]
                         /\ Without(S) = [t \in DOMAIN sessions \ S |-> sessions[t]]
  BY DEF Without, Restrict
<1>1. ASSUME NEW u \in Users, NEW role \in Roles, NEW pw \in Passwords, ProvisionOperator(u, role, pw)
      PROVE  AccountInv'
  <2> DEFINE new == [role |-> role, password |-> pw, disabled |-> FALSE]
             D == DOMAIN operators \cup {u}
  <2>1. /\ new \in Account /\ u \notin DOMAIN operators
        /\ operators' = [v \in D |-> IF v = u THEN new ELSE operators[v]]
        /\ UNCHANGED <<clock, sessions, login_limits, requests, log>>
    BY <1>1 DEF ProvisionOperator, Account
  <2> HIDE DEF new
  <2>2. /\ DOMAIN operators' = D /\ D \subseteq Users /\ operators' \in [D -> Account]
        /\ \A v \in DOMAIN operators : operators'[v] = operators[v]
    BY <1>t, <2>1
  <2>3. sessions \in [DOMAIN sessions -> Session']
    BY <1>t, <2>2 DEF Session
  <2>4. TypeOK'
    BY <1>n, <1>t, <2>1, <2>2, <2>3
  <2>5. Asked'
    BY <1>t, <2>1 DEF Asked
  <2>6. DisabledAccountsHaveNoSession'
    BY <1>t, <2>1, <2>2 DEF DisabledAccountsHaveNoSession, Session
  <2> QED BY <2>4, <2>5, <2>6 DEF AccountInv
<1>2. ASSUME NEW u \in Users, NEW pw \in Passwords, NEW disable \in BOOLEAN,
             ChangeOperator(u, pw, disable)
      PROVE  AccountInv'
  <2>1. u \in DOMAIN operators /\ operators[u] \in Account
    BY <1>2, <1>t DEF ChangeOperator
  <2>2. PICK new \in Account : operators' = [operators EXCEPT ![u] = new]
    <3>1. CASE disable
      <4>1. [operators[u] EXCEPT !.disabled = TRUE] \in Account
        BY <2>1 DEF Account
      <4> QED BY <1>2, <3>1, <4>1 DEF ChangeOperator
    <3>2. CASE ~disable
      <4>1. [operators[u] EXCEPT !.password = pw] \in Account
        BY <2>1 DEF Account
      <4> QED BY <1>2, <3>2, <4>1 DEF ChangeOperator
    <3> QED BY <3>1, <3>2
  <2>3. /\ sessions' = Without(SessionsOf(u)) /\ Record("changed", u, None, clock)
        /\ UNCHANGED <<clock, login_limits, requests>>
    BY <1>2 DEF ChangeOperator
  <2>4. /\ DOMAIN operators' = DOMAIN operators /\ operators' \in [DOMAIN operators -> Account]
        /\ \A v \in DOMAIN operators \ {u} : operators'[v] = operators[v]
    BY <1>t, <2>1, <2>2
  <2>5. log' \in Seq(Event)
    BY <1>t, <2>3, Recorded
  <2>6. /\ DOMAIN sessions' = DOMAIN sessions \ SessionsOf(u)
        /\ sessions' = [t \in DOMAIN sessions \ SessionsOf(u) |-> sessions[t]]
    BY <1>w, <2>3
  <2>7. Session' = Session
    BY <2>4 DEF Session
  <2>8. TypeOK'
    BY <1>n, <1>t, <2>3, <2>4, <2>5, <2>6, <2>7
  <2>9. DisabledAccountsHaveNoSession'
    <3> SUFFICES ASSUME NEW t \in DOMAIN sessions' PROVE ~operators'[sessions'[t].user].disabled
      BY DEF DisabledAccountsHaveNoSession
    <3>1. t \in DOMAIN sessions /\ sessions'[t] = sessions[t] /\ sessions[t].user # u
      BY <2>6 DEF SessionsOf
    <3>2. sessions[t].user \in DOMAIN operators
      BY <1>t, <3>1 DEF Session
    <3> QED BY <1>t, <2>4, <3>1, <3>2 DEF DisabledAccountsHaveNoSession
  <2>10. Asked'
    BY <1>t, <2>3 DEF Asked
  <2> QED BY <2>8, <2>9, <2>10 DEF AccountInv
<1>3. ASSUME NEW q \in Requests,
             NEW kind \in Kinds, NEW u \in Users \cup {Unknown, None}, NEW pw \in Passwords \cup {None},
             NEW t \in Tokens \cup {None}, Begin(q, kind, u, pw, t),
             IF kind = "login" THEN u \in Users \cup {Unknown} /\ pw \in Passwords ELSE t \in Tokens
      PROVE  AccountInv'
  <2> DEFINE x == [kind |-> kind, user |-> u, password |-> pw, token |-> t, began |-> clock]
  <2>1. x \in Request /\ x.kind = kind /\ x.user = u /\ x.password = pw /\ x.token = t
    BY <1>t DEF Request
  <2>2. /\ requests' = [requests EXCEPT ![q] = x]
        /\ UNCHANGED <<clock, operators, sessions, login_limits, log>>
    BY <1>3 DEF Begin
  <2> HIDE DEF x
  <2>3. requests'[q] = x /\ \A p \in Requests \ {q} : requests'[p] = requests[p]
    BY <1>t, <2>2
  <2>4. Asked'
    BY <1>3, <1>t, <2>1, <2>3 DEF Asked
  <2>5. requests' \in [Requests -> Request \cup {None}] /\ Session' = Session
    BY <1>t, <2>1, <2>2 DEF Session
  <2>6. TypeOK'
    BY <1>n, <1>t, <2>2, <2>5
  <2> QED BY <1>t, <2>2, <2>4, <2>6 DEF AccountInv, DisabledAccountsHaveNoSession
<1>4. ASSUME NEW q \in Requests, Login(q) PROVE AccountInv'
  <2> DEFINE global == Attempt(Global, login_limits, requests[q].began)
             both == Attempt(requests[q].user, global, requests[q].began)
  <2>1. /\ requests[q] # None /\ requests[q].kind = "login" /\ Done(q)
        /\ UNCHANGED <<clock, operators>>
    BY <1>4 DEF Login
  <2>2. /\ requests[q].began \in 0..MaxClock /\ requests[q].user \in Users \cup {Unknown}
        /\ requests[q].password \in Passwords
    BY <1>t, <2>1 DEF Asked, Request
  <2>3. DOMAIN global \subseteq Buckets /\ global \in [DOMAIN global -> Limit]
    <3>1. Global \in Buckets
      BY DEF Buckets
    <3> QED BY <1>t, <2>2, <3>1, AttemptType
  <2>4. DOMAIN both \subseteq Buckets /\ both \in [DOMAIN both -> Limit]
    <3>1. requests[q].user \in Buckets
      BY <2>2 DEF Buckets
    <3> HIDE DEF global
    <3> QED BY <2>2, <2>3, <3>1, AttemptType
  <2>5. requests' \in [Requests -> Request \cup {None}] /\ Asked' /\ Session' = Session
    BY <1>t, <2>1, AnswerType DEF Session
  <2>6. login_limits' \in {global, both, Tidy(both, requests[q].began)}
    BY <1>4 DEF Login
  <2>7. DOMAIN login_limits' \subseteq Buckets /\ login_limits' \in [DOMAIN login_limits' -> Limit]
    <3> HIDE DEF global, both
    <3> QED BY <2>3, <2>4, <2>6, TidyType
  <2>8. \/ /\ sessions' = sessions
           /\ Record("limited", requests[q].user, None, requests[q].began)
              \/ Record("check", requests[q].user, None, requests[q].began)
        \/ /\ Valid(requests[q])
           /\ \E t \in Tokens \ {log[k].token : k \in DOMAIN log} :
                /\ sessions' =
                     [s \in {x \in DOMAIN sessions : sessions[x].expires > requests[q].began} \cup {t} |->
                        IF s = t THEN [user |-> requests[q].user, expires |-> clock + SessionLife]
                        ELSE sessions[s]]
                /\ Record("login", requests[q].user, t, requests[q].began)
    BY <1>4 DEF Login
  <2>9. CASE /\ sessions' = sessions
             /\ Record("limited", requests[q].user, None, requests[q].began)
                \/ Record("check", requests[q].user, None, requests[q].began)
    <3>1. log' \in Seq(Event)
      BY <1>t, <2>2, <2>9, Recorded
    <3>2. TypeOK'
      BY <1>n, <1>t, <2>1, <2>5, <2>7, <2>9, <3>1
    <3> QED BY <1>t, <2>1, <2>5, <2>9, <3>2 DEF AccountInv, DisabledAccountsHaveNoSession
  <2>10. ASSUME Valid(requests[q]), NEW t \in Tokens \ {log[k].token : k \in DOMAIN log},
                sessions' =
                  [s \in {x \in DOMAIN sessions : sessions[x].expires > requests[q].began} \cup {t} |->
                     IF s = t THEN [user |-> requests[q].user, expires |-> clock + SessionLife]
                     ELSE sessions[s]],
                Record("login", requests[q].user, t, requests[q].began)
         PROVE  AccountInv'
    <3> DEFINE new == [user |-> requests[q].user, expires |-> clock + SessionLife]
               live == {x \in DOMAIN sessions : sessions[x].expires > requests[q].began}
    <3>1. sessions' = [s \in live \cup {t} |-> IF s = t THEN new ELSE sessions[s]]
      BY <2>10
    <3>2. requests[q].user \in DOMAIN operators /\ ~operators[requests[q].user].disabled
      BY <2>10 DEF Valid
    <3>3. new \in Session /\ new.user = requests[q].user
      BY <1>t, <3>2, Bounds DEF Session
    <3> HIDE DEF new
    <3>4. /\ DOMAIN sessions' = live \cup {t} /\ live \subseteq DOMAIN sessions
          /\ sessions'[t] = new /\ \A s \in live \ {t} : sessions'[s] = sessions[s]
      BY <3>1
    <3>5. sessions' \in [DOMAIN sessions' -> Session]
      BY <1>t, <3>1, <3>3
    <3>6. log' \in Seq(Event)
      BY <1>t, <2>2, <2>10, Recorded DEF Kinds
    <3>7. TypeOK'
      BY <1>n, <1>t, <2>1, <2>5, <2>7, <3>4, <3>5, <3>6
    <3>8. DisabledAccountsHaveNoSession'
      BY <1>t, <2>1, <3>2, <3>3, <3>4 DEF DisabledAccountsHaveNoSession
    <3> QED BY <2>5, <3>7, <3>8 DEF AccountInv
  <2> QED BY <2>8, <2>9, <2>10
<1>5. ASSUME NEW q \in Requests, Act(q) PROVE AccountInv'
  <2>1. /\ requests[q] # None /\ requests[q].kind = "act" /\ Authenticated(requests[q]) /\ Done(q)
        /\ Record("act", sessions[requests[q].token].user, requests[q].token, requests[q].began)
        /\ UNCHANGED <<clock, operators, sessions, login_limits>>
    BY <1>5 DEF Act
  <2>2. requests[q].began \in 0..MaxClock /\ requests[q].token \in Tokens
    BY <1>t, <2>1 DEF Asked, Request
  <2>3. sessions[requests[q].token].user \in Users
    BY <1>t, <2>1 DEF Authenticated, Session
  <2>4. log' \in Seq(Event)
    BY <1>t, <2>1, <2>2, <2>3, Recorded DEF Kinds
  <2>5. requests' \in [Requests -> Request \cup {None}] /\ Asked' /\ Session' = Session
    BY <1>t, <2>1, AnswerType DEF Session
  <2>6. TypeOK'
    BY <1>n, <1>t, <2>1, <2>4, <2>5
  <2> QED BY <1>t, <2>1, <2>5, <2>6 DEF AccountInv, DisabledAccountsHaveNoSession
<1>6. ASSUME NEW q \in Requests, Logout(q) PROVE AccountInv'
  <2>1. /\ requests[q] # None /\ requests[q].kind = "logout" /\ Authenticated(requests[q]) /\ Done(q)
        /\ sessions' = Without({requests[q].token})
        /\ Record("logout", sessions[requests[q].token].user, requests[q].token, requests[q].began)
        /\ UNCHANGED <<clock, operators, login_limits>>
    BY <1>6 DEF Logout
  <2>2. requests[q].began \in 0..MaxClock /\ requests[q].token \in Tokens
    BY <1>t, <2>1 DEF Asked, Request
  <2>3. sessions[requests[q].token].user \in Users
    BY <1>t, <2>1 DEF Authenticated, Session
  <2>4. log' \in Seq(Event)
    BY <1>t, <2>1, <2>2, <2>3, Recorded DEF Kinds
  <2>5. requests' \in [Requests -> Request \cup {None}] /\ Asked' /\ Session' = Session
    BY <1>t, <2>1, AnswerType DEF Session
  <2>6. /\ DOMAIN sessions' = DOMAIN sessions \ {requests[q].token}
        /\ sessions' = [t \in DOMAIN sessions \ {requests[q].token} |-> sessions[t]]
    BY <1>w, <2>1
  <2>7. sessions' \in [DOMAIN sessions' -> Session]
    BY <1>t, <2>6
  <2>8. TypeOK'
    BY <1>n, <1>t, <2>1, <2>4, <2>5, <2>6, <2>7
  <2>9. DisabledAccountsHaveNoSession'
    BY <1>t, <2>1, <2>6 DEF DisabledAccountsHaveNoSession
  <2> QED BY <2>5, <2>8, <2>9 DEF AccountInv
<1>7. ASSUME NEW q \in Requests, Unauthorized(q) \/ Abort(q) PROVE AccountInv'
  <2>1. Done(q) /\ UNCHANGED <<clock, operators, sessions, login_limits, log>>
    BY <1>7 DEF Unauthorized, Abort, Done
  <2>2. requests' \in [Requests -> Request \cup {None}] /\ Asked' /\ Session' = Session
    BY <1>t, <2>1, AnswerType DEF Session
  <2>3. TypeOK'
    BY <1>n, <1>t, <2>1, <2>2
  <2> QED BY <1>t, <2>1, <2>2, <2>3 DEF AccountInv, DisabledAccountsHaveNoSession
<1>8. CASE Tick
  <2>1. clock' \in 0..MaxClock /\ UNCHANGED <<operators, sessions, login_limits, requests, log>>
    BY <1>8, <1>t, Bounds DEF Tick
  <2>2. Session' = Session
    BY <2>1 DEF Session
  <2>3. TypeOK'
    BY <1>n, <1>t, <2>1, <2>2
  <2> QED BY <1>t, <2>1, <2>3 DEF AccountInv, Asked, DisabledAccountsHaveNoSession
<1>9. CASE UNCHANGED vars
  BY <1>9, <1>t, <1>n DEF vars, AccountInv, Asked, Session, DisabledAccountsHaveNoSession
<1>10. ASSUME NEW q \in Requests, NEW u \in Users \cup {Unknown}, NEW pw \in Passwords,
              Begin(q, "login", u, pw, None)
       PROVE  AccountInv'
  BY <1>3, <1>10 DEF Kinds
<1>11. ASSUME NEW q \in Requests, NEW t \in Tokens, NEW kind \in {"act", "logout"},
              Begin(q, kind, None, None, t)
       PROVE  AccountInv'
  BY <1>3, <1>11 DEF Kinds
<1> QED
  BY <1>1, <1>2, <1>4, <1>5, <1>6, <1>7, <1>8, <1>9, <1>10, <1>11 DEF Next

LEMMA AccountInvariant == Spec => []AccountInv
BY AccountInit, AccountStep, PTL DEF Spec

\* Every variable keeps its type.
THEOREM OperatorsTypes == Spec => []TypeOK
BY AccountInvariant, PTL DEF AccountInv

\* ChangeOperator deletes the sessions of the account that it disables, and
\* login reads the account under the same lock: a disabled account has no
\* session, whatever was waiting when it was disabled.
THEOREM NoSessionWhenDisabled == Spec => []DisabledAccountsHaveNoSession
BY AccountInvariant, PTL DEF AccountInv

-----------------------------------------------------------------------------
(* Sessions and the log. *)

\* Nothing after the login j has ended its session, before the place k.
Untouched(j, k) ==
    \A i \in j + 1..k - 1 : /\ log[i].type = "changed" => log[i].user # log[j].user
                            /\ log[i].type = "logout" => log[i].token # log[j].token

SessionInv ==
    /\ \A j, k \in Events({"login"}) : log[j].token = log[k].token => j = k
    /\ \A t \in DOMAIN sessions : \E j \in Events({"login"}) :
         /\ log[j].token = t /\ log[j].user = sessions[t].user
         /\ sessions[t].expires = log[j].at + SessionLife
         /\ Untouched(j, Len(log) + 1)
    /\ \A k \in Events({"act", "logout"}) : \E j \in Events({"login"}) :
         /\ j < k /\ log[j].token = log[k].token /\ log[j].user = log[k].user
         /\ log[k].began < log[j].at + SessionLife
         /\ Untouched(j, k)

LEMMA SessionInit == Init => SessionInv
BY DEF Init, SessionInv, Events

\* What a transaction must leave behind in the log and in the sessions.
LEMMA SessionsKeep ==
    ASSUME AccountInv, SessionInv, NEW n \in Nat, n = Len(log) + 1,
           log' \in Seq(Event), Len(log') = n,
           \A k \in 1..Len(log) : log'[k] = log[k],
           log'[n].type = "login" => log'[n].token \notin {log[k].token : k \in DOMAIN log},
           log'[n].type \in {"act", "logout"} =>
             /\ log'[n].token \in DOMAIN sessions
             /\ log'[n].user = sessions[log'[n].token].user
             /\ sessions[log'[n].token].expires > log'[n].began,
           \A t \in DOMAIN sessions' :
             \/ /\ t \in DOMAIN sessions /\ sessions'[t] = sessions[t]
                /\ log'[n].type = "changed" => log'[n].user # sessions[t].user
                /\ log'[n].type = "logout" => log'[n].token # t
             \/ /\ log'[n].type = "login" /\ log'[n].token = t
                /\ log'[n].user = sessions'[t].user
                /\ sessions'[t].expires = log'[n].at + SessionLife
    PROVE  SessionInv'
<1>1. /\ log \in Seq(Event) /\ DOMAIN log = 1..Len(log) /\ DOMAIN log' = 1..n /\ Len(log) \in Nat
      /\ sessions \in [DOMAIN sessions -> Session]
  BY Types DEF AccountInv
<1>2. ASSUME NEW S
      PROVE  /\ \A k \in 1..Len(log) : k \in Events(S)' <=> k \in Events(S)
             /\ \A k \in Events(S)' : k \in 1..Len(log) \/ k = n
             /\ Events(S) \subseteq 1..Len(log) /\ Events(S) \subseteq Events(S)'
             /\ n \in Events(S)' <=> log'[n].type \in S
  BY <1>1 DEF Events
<1>3. ASSUME NEW j \in 1..Len(log), NEW k \in 1..n, Untouched(j, k)
      PROVE  Untouched(j, k)'
  BY <1>1, <1>3 DEF Untouched
<1>4. ASSUME NEW j \in Events({"login"})', NEW k \in Events({"login"})', log'[j].token = log'[k].token
      PROVE  j = k
  <2>1. CASE j \in 1..Len(log) /\ k \in 1..Len(log)
    BY <1>2, <1>4, <2>1 DEF SessionInv
  <2>2. CASE j = n /\ k \in 1..Len(log)
    BY <1>1, <1>2, <1>4, <2>2
  <2>3. CASE k = n /\ j \in 1..Len(log)
    BY <1>1, <1>2, <1>4, <2>3
  <2> QED BY <1>2, <2>1, <2>2, <2>3
<1>5. ASSUME NEW t \in DOMAIN sessions'
      PROVE  \E j \in Events({"login"})' :
               /\ log'[j].token = t /\ log'[j].user = sessions'[t].user
               /\ sessions'[t].expires = log'[j].at + SessionLife
               /\ Untouched(j, Len(log) + 1)'
  <2>1. CASE /\ t \in DOMAIN sessions /\ sessions'[t] = sessions[t]
             /\ log'[n].type = "changed" => log'[n].user # sessions[t].user
             /\ log'[n].type = "logout" => log'[n].token # t
    <3>1. PICK j \in Events({"login"}) :
               /\ log[j].token = t /\ log[j].user = sessions[t].user
               /\ sessions[t].expires = log[j].at + SessionLife
               /\ Untouched(j, Len(log) + 1)
      BY <2>1 DEF SessionInv
    <3>2. j \in Events({"login"})' /\ j \in 1..Len(log) /\ log'[j] = log[j]
      BY <1>2
    <3>3. Untouched(j, Len(log) + 1)'
      <4> SUFFICES ASSUME NEW i \in j + 1..Len(log') + 1 - 1
                   PROVE  /\ log'[i].type = "changed" => log'[i].user # log'[j].user
                          /\ log'[i].type = "logout" => log'[i].token # log'[j].token
        BY DEF Untouched
      <4>1. CASE i = n
        BY <2>1, <3>1, <3>2, <4>1
      <4>2. CASE i # n
        <5>1. i \in j + 1..(Len(log) + 1) - 1 /\ i \in 1..Len(log)
          BY <1>1, <3>2, <4>2
        <5> QED BY <3>1, <3>2, <5>1 DEF Untouched
      <4> QED BY <4>1, <4>2
    <3> QED BY <2>1, <3>1, <3>2, <3>3
  <2>2. CASE /\ log'[n].type = "login" /\ log'[n].token = t
             /\ log'[n].user = sessions'[t].user
             /\ sessions'[t].expires = log'[n].at + SessionLife
    <3>1. Untouched(n, Len(log) + 1)'
      BY <1>1 DEF Untouched
    <3> QED BY <1>2, <2>2, <3>1
  <2> QED BY <2>1, <2>2
<1>6. ASSUME NEW k \in Events({"act", "logout"})'
      PROVE  \E j \in Events({"login"})' :
               /\ j < k /\ log'[j].token = log'[k].token /\ log'[j].user = log'[k].user
               /\ log'[k].began < log'[j].at + SessionLife
               /\ Untouched(j, k)'
  <2>1. CASE k \in 1..Len(log)
    <3>1. k \in Events({"act", "logout"}) /\ log'[k] = log[k]
      BY <1>2, <2>1
    <3>2. PICK j \in Events({"login"}) :
               /\ j < k /\ log[j].token = log[k].token /\ log[j].user = log[k].user
               /\ log[k].began < log[j].at + SessionLife
               /\ Untouched(j, k)
      BY <3>1 DEF SessionInv
    <3>3. j \in Events({"login"})' /\ j \in 1..Len(log) /\ log'[j] = log[j]
      BY <1>2
    <3>4. Untouched(j, k)'
      BY <1>1, <1>3, <2>1, <3>2, <3>3
    <3> QED BY <3>1, <3>2, <3>3, <3>4
  <2>2. CASE k = n
    <3>1. /\ log'[n].token \in DOMAIN sessions /\ log'[n].user = sessions[log'[n].token].user
          /\ sessions[log'[n].token].expires > log'[n].began
      BY <1>2, <2>2
    <3>2. PICK j \in Events({"login"}) :
               /\ log[j].token = log'[n].token /\ log[j].user = log'[n].user
               /\ sessions[log'[n].token].expires = log[j].at + SessionLife
               /\ Untouched(j, Len(log) + 1)
      BY <3>1 DEF SessionInv
    <3>3. j \in Events({"login"})' /\ j \in 1..Len(log) /\ log'[j] = log[j] /\ j < n
      BY <1>1, <1>2
    <3>4. Untouched(j, n)'
      BY <1>1, <1>3, <3>2, <3>3
    <3>5. log'[n].began < log[j].at + SessionLife
      <4>1. log[j].at + SessionLife \in Int /\ log'[n].began \in Int
        <5>1. log[j] \in Event /\ log'[n] \in Event
          BY <1>1, <3>3
        <5> QED BY <5>1, Bounds DEF Event
      <4> QED BY <3>1, <3>2, <4>1
    <3> QED BY <2>2, <3>2, <3>3, <3>4, <3>5
  <2> QED BY <1>2, <2>1, <2>2
<1> QED BY <1>4, <1>5, <1>6 DEF SessionInv

LEMMA SessionStep == AccountInv /\ SessionInv /\ [Next]_vars => SessionInv'
<1> SUFFICES ASSUME AccountInv, SessionInv, [Next]_vars PROVE SessionInv'
  OBVIOUS
<1>t. /\ TypeOK /\ Asked /\ clock \in 0..MaxClock
      /\ DOMAIN operators \subseteq Users
      /\ DOMAIN sessions \subseteq Tokens /\ sessions \in [DOMAIN sessions -> Session]
      /\ requests \in [Requests -> Request \cup {None}] /\ log \in Seq(Event)
  BY Types DEF AccountInv
<1>n. PICK n \in Nat : n = Len(log) + 1
  BY <1>t
<1>r. ASSUME NEW q \in Requests, requests[q] # None
      PROVE  /\ requests[q].began \in 0..MaxClock
             /\ requests[q].kind = "login" => requests[q].user \in Users \cup {Unknown}
             /\ requests[q].kind # "login" => requests[q].token \in Tokens
  BY <1>t, <1>r DEF Asked, Request
<1>1. CASE UNCHANGED <<sessions, log>>
  BY <1>1 DEF SessionInv, Events, Untouched
<1>2. ASSUME NEW u \in Users, NEW pw \in Passwords, NEW disable \in BOOLEAN,
             ChangeOperator(u, pw, disable)
      PROVE  SessionInv'
  <2>1. /\ sessions' = Without(SessionsOf(u)) /\ Record("changed", u, None, clock)
    BY <1>2 DEF ChangeOperator
  <2>2. /\ log' \in Seq(Event) /\ Len(log') = n /\ \A k \in 1..Len(log) : log'[k] = log[k]
        /\ log'[n].type = "changed" /\ log'[n].user = u
    BY <1>n, <1>t, <2>1, Recorded
  <2>3. \A t \in DOMAIN sessions' : /\ t \in DOMAIN sessions /\ sessions'[t] = sessions[t]
                                    /\ sessions[t].user # u
    BY <2>1 DEF Without, Restrict, SessionsOf
  <2> QED BY <1>n, <2>2, <2>3, SessionsKeep
<1>3. ASSUME NEW q \in Requests, Login(q) PROVE SessionInv'
  <2>1. requests[q] # None /\ requests[q].kind = "login"
    BY <1>3 DEF Login
  <2>2. requests[q].began \in 0..MaxClock /\ requests[q].user \in Users \cup {Unknown}
    BY <1>r, <2>1
  <2>3. CASE /\ sessions' = sessions
             /\ Record("limited", requests[q].user, None, requests[q].began)
                \/ Record("check", requests[q].user, None, requests[q].began)
    <3>1. /\ log' \in Seq(Event) /\ Len(log') = n /\ \A k \in 1..Len(log) : log'[k] = log[k]
          /\ log'[n].type \in {"limited", "check"}
      BY <1>n, <1>t, <2>2, <2>3, Recorded
    <3> QED BY <1>n, <2>3, <3>1, SessionsKeep
  <2>4. ASSUME NEW t \in Tokens \ {log[k].token : k \in DOMAIN log},
               sessions' =
                 [s \in {x \in DOMAIN sessions : sessions[x].expires > requests[q].began} \cup {t} |->
                    IF s = t THEN [user |-> requests[q].user, expires |-> clock + SessionLife]
                    ELSE sessions[s]],
               Record("login", requests[q].user, t, requests[q].began)
        PROVE  SessionInv'
    <3>1. /\ log' \in Seq(Event) /\ Len(log') = n /\ \A k \in 1..Len(log) : log'[k] = log[k]
          /\ log'[n].type = "login" /\ log'[n].user = requests[q].user /\ log'[n].token = t
          /\ log'[n].at = clock
      BY <1>n, <1>t, <2>2, <2>4, Recorded DEF Kinds
    <3>2. /\ sessions'[t].user = requests[q].user /\ sessions'[t].expires = clock + SessionLife
          /\ \A s \in DOMAIN sessions' \ {t} : s \in DOMAIN sessions /\ sessions'[s] = sessions[s]
      BY <2>4
    <3>3. \A s \in DOMAIN sessions' :
             \/ /\ s \in DOMAIN sessions /\ sessions'[s] = sessions[s]
                /\ log'[n].type = "changed" => log'[n].user # sessions[s].user
                /\ log'[n].type = "logout" => log'[n].token # s
             \/ /\ log'[n].type = "login" /\ log'[n].token = s
                /\ log'[n].user = sessions'[s].user
                /\ sessions'[s].expires = log'[n].at + SessionLife
      BY <3>1, <3>2
    <3>4. log'[n].token \notin {log[k].token : k \in DOMAIN log}
      BY <2>4, <3>1
    <3> QED BY <1>n, <3>1, <3>3, <3>4, SessionsKeep
  <2> QED BY <1>3, <2>3, <2>4 DEF Login
<1>4. ASSUME NEW q \in Requests, Act(q) PROVE SessionInv'
  <2>1. /\ requests[q] # None /\ requests[q].kind = "act" /\ Authenticated(requests[q])
        /\ Record("act", sessions[requests[q].token].user, requests[q].token, requests[q].began)
        /\ sessions' = sessions
    BY <1>4 DEF Act
  <2>2. /\ requests[q].began \in 0..MaxClock /\ requests[q].token \in Tokens
        /\ requests[q].token \in DOMAIN sessions /\ sessions[requests[q].token].user \in Users
        /\ sessions[requests[q].token].expires > requests[q].began
    BY <1>r, <1>t, <2>1 DEF Authenticated, Session
  <2>3. /\ log' \in Seq(Event) /\ Len(log') = n /\ \A k \in 1..Len(log) : log'[k] = log[k]
        /\ log'[n].type = "act" /\ log'[n].user = sessions[requests[q].token].user
        /\ log'[n].token = requests[q].token /\ log'[n].began = requests[q].began
    BY <1>n, <1>t, <2>1, <2>2, Recorded DEF Kinds
  <2> QED BY <1>n, <2>1, <2>2, <2>3, SessionsKeep
<1>5. ASSUME NEW q \in Requests, Logout(q) PROVE SessionInv'
  <2>1. /\ requests[q] # None /\ requests[q].kind = "logout" /\ Authenticated(requests[q])
        /\ Record("logout", sessions[requests[q].token].user, requests[q].token, requests[q].began)
        /\ sessions' = Without({requests[q].token})
    BY <1>5 DEF Logout
  <2>2. /\ requests[q].began \in 0..MaxClock /\ requests[q].token \in Tokens
        /\ requests[q].token \in DOMAIN sessions /\ sessions[requests[q].token].user \in Users
        /\ sessions[requests[q].token].expires > requests[q].began
    BY <1>r, <1>t, <2>1 DEF Authenticated, Session
  <2>3. /\ log' \in Seq(Event) /\ Len(log') = n /\ \A k \in 1..Len(log) : log'[k] = log[k]
        /\ log'[n].type = "logout" /\ log'[n].user = sessions[requests[q].token].user
        /\ log'[n].token = requests[q].token /\ log'[n].began = requests[q].began
    BY <1>n, <1>t, <2>1, <2>2, Recorded DEF Kinds
  <2>4. \A t \in DOMAIN sessions' : /\ t \in DOMAIN sessions /\ sessions'[t] = sessions[t]
                                    /\ t # requests[q].token
    BY <2>1 DEF Without, Restrict
  <2> QED BY <1>n, <2>2, <2>3, <2>4, SessionsKeep
<1>6. ASSUME NEW u \in Users, NEW role \in Roles, NEW pw \in Passwords, ProvisionOperator(u, role, pw)
      PROVE  SessionInv'
  BY <1>1, <1>6 DEF ProvisionOperator
<1>7. ASSUME NEW q \in Requests,
             \/ \E u \in Users \cup {Unknown}, pw \in Passwords : Begin(q, "login", u, pw, None)
             \/ \E t \in Tokens, kind \in {"act", "logout"} : Begin(q, kind, None, None, t)
             \/ Unauthorized(q) \/ Abort(q)
      PROVE  SessionInv'
  BY <1>1, <1>7 DEF Begin, Unauthorized, Abort
<1>8. CASE Tick \/ UNCHANGED vars
  BY <1>1, <1>8 DEF Tick, vars
<1> QED BY <1>2, <1>3, <1>4, <1>5, <1>6, <1>7, <1>8 DEF Next

\* authenticateOperator finds the session under the same lock that logout and
\* ChangeOperator take: whoever acts by a token signed in with it, has not
\* signed out, has kept account and password since, and began to act within
\* the life of the session.
THEOREM AuthorityEnds == Spec => []AuthorityEndsWithTheSession
<1>1. AccountInv /\ SessionInv => AuthorityEndsWithTheSession
  <2> SUFFICES ASSUME AccountInv, SessionInv, NEW k \in Events({"act", "logout"})
               PROVE  LET login == CHOOSE j \in Events({"login"}) : log[j].token = log[k].token IN
                      /\ \E j \in Events({"login"}) : log[j].token = log[k].token
                      /\ login < k /\ log[k].user = log[login].user
                      /\ log[k].began < log[login].at + SessionLife
                      /\ \A j \in login + 1..k - 1 :
                            /\ log[j].type = "changed" => log[j].user # log[k].user
                            /\ log[j].type = "logout" => log[j].token # log[k].token
    BY DEF AuthorityEndsWithTheSession
  <2>1. PICK j \in Events({"login"}) :
               /\ j < k /\ log[j].token = log[k].token /\ log[j].user = log[k].user
               /\ log[k].began < log[j].at + SessionLife
               /\ Untouched(j, k)
    BY DEF SessionInv
  <2>2. j = CHOOSE i \in Events({"login"}) : log[i].token = log[k].token
    BY <2>1 DEF SessionInv
  <2> QED BY <2>1, <2>2 DEF Untouched
<1>2. Spec => []SessionInv
  BY SessionInit, SessionStep, AccountInvariant, PTL DEF Spec
<1> QED BY <1>1, <1>2, AccountInvariant, PTL

-----------------------------------------------------------------------------
(* Sign-ins and their limits. *)

\* The transactions that got past the limit of a bucket.
Passed(b) == {k \in Events({"check", "login"}) : b = Global \/ log[k].user = b}
LimitOf(b) == IF b = Global THEN GlobalLimit ELSE UserLimit

\* No event is in the future, and no request waits longer than MaxWait.
ClockInv ==
    /\ \A k \in DOMAIN log : log[k].at <= clock
    /\ \A q \in Requests : requests[q] # None =>
         requests[q].began <= clock /\ clock <= requests[q].began + MaxWait

\* The attempts that the window which ends at R counted, if W[k] is the end of
\* the window that counted the attempt k.
Of(b, W, R) == {k \in Passed(b) : W[k] = R}

\* An assignment of attempts to windows that do not overlap and are not full.
Windowed(b, W) ==
    /\ \A k \in Passed(b) : W[k] - Window <= log[k].at /\ log[k].at < W[k] + MaxWait
    /\ \A j, k \in Passed(b) :
         W[j] = W[k] \/ W[j] + Window <= W[k] \/ W[k] + Window <= W[j]
    /\ \A R \in Int : Cardinality(Of(b, W, R)) <= LimitOf(b)

\* The row of a bucket is its last window; without a row, all of them are over.
Counted(b, W) ==
    /\ b \in DOMAIN login_limits =>
         LET R == login_limits[b].reset_at IN
         /\ \A k \in Passed(b) : W[k] = R \/ W[k] + Window <= R
         /\ R - Window <= clock
         /\ Cardinality(Of(b, W, R)) <= login_limits[b].attempts
    /\ b \notin DOMAIN login_limits => \A k \in Passed(b) : W[k] + MaxWait <= clock

LimitInv ==
    /\ ClockInv
    /\ \A b \in Buckets : \E W \in [Nat -> Int] : Windowed(b, W) /\ Counted(b, W)

\* What a transaction that began at now may do to the row of a bucket.
Hit(b, now, old, new) ==
    \/ /\ b \in DOMAIN old => old[b].reset_at <= now
       /\ new[b].attempts = 1 /\ new[b].reset_at = now + Window
    \/ /\ b \in DOMAIN old /\ old[b].reset_at > now
       /\ new[b].attempts = old[b].attempts + 1 /\ new[b].reset_at = old[b].reset_at
Touched(b, now) == b \in DOMAIN login_limits' /\ Hit(b, now, login_limits, login_limits')
Kept(b) ==
    /\ b \in DOMAIN login_limits' <=> b \in DOMAIN login_limits
    /\ b \in DOMAIN login_limits => login_limits'[b] = login_limits[b]
Dropped(b, now) ==
    /\ b \in DOMAIN login_limits /\ b \notin DOMAIN login_limits'
    /\ login_limits[b].reset_at + Forget < now

\* Sums and differences of whole numbers.
LEMMA LimitNumbers ==
    /\ Window \in Int /\ MaxWait \in Int /\ Forget \in Int
    /\ UserLimit \in Int /\ GlobalLimit \in Int /\ 0..MaxClock \subseteq Int
    /\ 0 <= MaxWait /\ MaxWait < Window /\ MaxWait <= Forget
BY OperatorsConstants

\* A window that was over Forget ago is over for whoever waited since.
LEMMA LongOver ==
    ASSUME NEW w \in Int, NEW S \in Int, w = S \/ w + Window <= S,
           NEW now \in Int, S + Forget < now, NEW later \in Int, now <= later
    PROVE  w + MaxWait <= later
BY LimitNumbers

\* The log is typed, and so is what has passed a limit.
LEMMA PassedTypes ==
    ASSUME log \in Seq(Event)
    PROVE  /\ Len(log) \in Nat /\ DOMAIN log = 1..Len(log)
           /\ \A b : Passed(b) \subseteq 1..Len(log)
           /\ \A k \in 1..Len(log) : log[k].at \in 0..MaxClock
           /\ \A b, W, R : /\ IsFiniteSet(Of(b, W, R)) /\ Cardinality(Of(b, W, R)) \in Nat
                           /\ Of(b, W, R) \subseteq 1..Len(log)
<1>1. /\ Len(log) \in Nat /\ DOMAIN log = 1..Len(log)
      /\ \A b : Passed(b) \subseteq 1..Len(log)
  BY DEF Passed, Events
<1>2. \A k \in 1..Len(log) : log[k].at \in 0..MaxClock
  <2> SUFFICES ASSUME NEW k \in 1..Len(log) PROVE log[k].at \in 0..MaxClock
    OBVIOUS
  <2>1. log[k] \in Event
    BY <1>1
  <2> QED BY <2>1 DEF Event
<1>3. ASSUME NEW b, NEW W, NEW R
      PROVE  /\ IsFiniteSet(Of(b, W, R)) /\ Cardinality(Of(b, W, R)) \in Nat
             /\ Of(b, W, R) \subseteq 1..Len(log)
  <2>1. Of(b, W, R) \in SUBSET (1..Len(log))
    BY <1>1 DEF Of
  <2>2. IsFiniteSet(1..Len(log))
    BY <1>1, FS_Interval
  <2> QED BY <2>1, <2>2, FS_Subset, FS_CardinalityType
<1> QED BY <1>1, <1>2, <1>3

\* The row of a bucket holds whole numbers.
LEMMA RowTypes ==
    ASSUME TypeOK, NEW b \in DOMAIN login_limits
    PROVE  login_limits[b].reset_at \in Int /\ login_limits[b].attempts \in Int
<1>1. login_limits[b] \in Limit
  BY Types
<1>2. 0..MaxClock + Window \subseteq Int
  OBVIOUS
<1> QED BY <1>1, <1>2 DEF Limit

\* An attempt belongs to a window that is open when its transaction begins,
\* has begun by now, and still counts fewer attempts than its row says.
LEMMA AttemptWindow ==
    ASSUME TypeOK, NEW b \in Buckets, NEW W \in [Nat -> Int],
           Windowed(b, W), Counted(b, W),
           NEW now \in 0..MaxClock, now <= clock, clock <= now + MaxWait, Touched(b, now),
           NEW R, R = login_limits'[b].reset_at
    PROVE  /\ R \in Int /\ R > now /\ R - Window <= clock
           /\ \A k \in Passed(b) : W[k] = R \/ W[k] + Window <= R
           /\ Cardinality(Of(b, W, R)) + 1 <= login_limits'[b].attempts
<1>t. clock \in 0..MaxClock /\ log \in Seq(Event)
  BY Types
<1>w. clock \in Int /\ now \in Int
  BY <1>t, LimitNumbers
<1>1. \A k \in Passed(b) : W[k] \in Int
  BY <1>t, PassedTypes
<1>2. b \in DOMAIN login_limits =>
        login_limits[b].reset_at \in Int /\ login_limits[b].attempts \in Int
  BY RowTypes
<1>3. CASE /\ b \in DOMAIN login_limits /\ login_limits[b].reset_at > now
           /\ login_limits'[b].attempts = login_limits[b].attempts + 1
           /\ login_limits'[b].reset_at = login_limits[b].reset_at
  <2>1. Cardinality(Of(b, W, R)) <= login_limits[b].attempts
    BY <1>3 DEF Counted
  <2>2. Cardinality(Of(b, W, R)) \in Int
    BY <1>t, PassedTypes
  <2>3. R \in Int /\ R > now /\ R - Window <= clock
    BY <1>2, <1>3 DEF Counted
  <2>4. \A k \in Passed(b) : W[k] = R \/ W[k] + Window <= R
    BY <1>3 DEF Counted
  <2>5. Cardinality(Of(b, W, R)) + 1 <= login_limits'[b].attempts
    BY <1>2, <1>3, <2>1, <2>2
  <2> QED BY <2>3, <2>4, <2>5
<1>4. CASE /\ b \in DOMAIN login_limits => login_limits[b].reset_at <= now
           /\ login_limits'[b].attempts = 1 /\ login_limits'[b].reset_at = now + Window
  <2>1. R = now + Window /\ R \in Int /\ R > now /\ R - Window <= clock
    BY <1>4, <1>w, LimitNumbers
  <2>2. \A k \in Passed(b) : W[k] <= now
    <3>1. CASE b \in DOMAIN login_limits
      <4> DEFINE S == login_limits[b].reset_at
      <4>1. S \in Int /\ S <= now
        BY <1>2, <1>4, <3>1
      <4>2. \A k \in Passed(b) : W[k] = S \/ W[k] + Window <= S
        BY <3>1 DEF Counted
      <4> HIDE DEF S
      <4> QED BY <1>1, <4>1, <4>2, LimitNumbers
    <3>2. CASE b \notin DOMAIN login_limits
      <4>1. \A k \in Passed(b) : W[k] + MaxWait <= clock
        BY <3>2 DEF Counted
      <4> QED BY <1>1, <1>w, <4>1, LimitNumbers
    <3> QED BY <3>1, <3>2
  <2>3. \A k \in Passed(b) : W[k] + Window <= R /\ W[k] # R
    BY <1>1, <2>1, <2>2, LimitNumbers
  <2>4. Of(b, W, R) = {}
    BY <2>3 DEF Of
  <2>5. Cardinality(Of(b, W, R)) = 0
    BY <2>4, FS_EmptySet
  <2> QED BY <1>4, <2>1, <2>3, <2>5
<1> QED BY <1>3, <1>4 DEF Touched, Hit

\* No attempt has got past the limit of b: its windows are as they were.
LEMMA WindowsStay ==
    ASSUME TypeOK, NEW b \in Buckets, NEW W \in [Nat -> Int],
           Windowed(b, W), Counted(b, W),
           clock' \in Nat, clock <= clock', Passed(b)' = Passed(b),
           \A k \in Passed(b) : log'[k] = log[k],
           \/ Kept(b)
           \/ \E now \in 0..MaxClock : /\ now <= clock /\ clock <= now + MaxWait
                                       /\ Touched(b, now) \/ Dropped(b, now)
    PROVE  Windowed(b, W)' /\ Counted(b, W)'
<1>t. log \in Seq(Event) /\ clock \in Int /\ clock' \in Int
  BY Types, LimitNumbers
<1>1. \A k \in Passed(b) : W[k] \in Int
  BY <1>t, PassedTypes
<1>2. b \in DOMAIN login_limits =>
        login_limits[b].reset_at \in Int /\ login_limits[b].attempts \in Int
  BY RowTypes
<1>3. \A R : Of(b, W, R)' = Of(b, W, R)
  BY DEF Of
<1>4. Windowed(b, W)'
  BY <1>3 DEF Windowed
<1>5. CASE Kept(b)
  <2>1. CASE b \in DOMAIN login_limits
    <3> DEFINE R == login_limits[b].reset_at
    <3>1. /\ b \in DOMAIN login_limits' /\ login_limits'[b] = login_limits[b]
          /\ R \in Int /\ R - Window <= clock
          /\ \A k \in Passed(b) : W[k] = R \/ W[k] + Window <= R
          /\ Cardinality(Of(b, W, R)) <= login_limits[b].attempts
      BY <1>2, <1>5, <2>1 DEF Kept, Counted
    <3>2. R - Window <= clock'
      <4> HIDE DEF R
      <4> QED BY <1>t, <3>1, LimitNumbers
    <3>3. Of(b, W, R)' = Of(b, W, R)
      BY <1>3, <3>1
    <3> QED BY <1>4, <3>1, <3>2, <3>3 DEF Counted
  <2>2. CASE b \notin DOMAIN login_limits
    <3>1. \A k \in Passed(b) : W[k] + MaxWait <= clock
      BY <2>2 DEF Counted
    <3>2. \A k \in Passed(b) : W[k] + MaxWait <= clock'
      BY <1>1, <1>t, <3>1, LimitNumbers
    <3> QED BY <1>4, <1>5, <2>2, <3>2 DEF Kept, Counted
  <2> QED BY <2>1, <2>2
<1>6. ASSUME NEW now \in 0..MaxClock, now <= clock, clock <= now + MaxWait, Touched(b, now)
      PROVE  Counted(b, W)'
  <2>1. PICK R : R = login_limits'[b].reset_at
    OBVIOUS
  <2>2. /\ R \in Int /\ R - Window <= clock
        /\ \A k \in Passed(b) : W[k] = R \/ W[k] + Window <= R
        /\ Cardinality(Of(b, W, R)) + 1 <= login_limits'[b].attempts
    BY <1>6, <2>1, AttemptWindow
  <2>3. Cardinality(Of(b, W, R)) \in Nat
    BY <1>t, PassedTypes
  <2>4. login_limits'[b].attempts \in Int
    BY <1>2, <1>6 DEF Touched, Hit
  <2>5. R - Window <= clock'
    BY <1>t, <2>2, LimitNumbers
  <2>6. Cardinality(Of(b, W, R)') <= login_limits'[b].attempts
    BY <1>3, <2>2, <2>3, <2>4
  <2> QED BY <1>6, <2>1, <2>2, <2>5, <2>6 DEF Counted, Touched, Hit
<1>7. ASSUME NEW now \in 0..MaxClock, now <= clock, Dropped(b, now)
      PROVE  Counted(b, W)'
  <2> DEFINE S == login_limits[b].reset_at
  <2>1. S \in Int /\ S + Forget < now /\ b \notin DOMAIN login_limits'
    BY <1>2, <1>7 DEF Dropped
  <2>2. \A k \in Passed(b) : W[k] = S \/ W[k] + Window <= S
    BY <1>7 DEF Dropped, Counted
  <2> HIDE DEF S
  <2>3. now \in Int /\ now <= clock'
    BY <1>7, <1>t, LimitNumbers
  <2>4. \A k \in Passed(b) : W[k] + MaxWait <= clock'
    BY <1>1, <1>t, <2>1, <2>2, <2>3, LongOver
  <2> QED BY <2>1, <2>4 DEF Counted
<1> QED BY <1>4, <1>5, <1>6, <1>7

\* An attempt has got past the limit of b: it is one more in the open window.
LEMMA WindowsGrow ==
    ASSUME TypeOK, NEW b \in Buckets, NEW W \in [Nat -> Int],
           Windowed(b, W), Counted(b, W), clock' = clock,
           NEW n \in Nat, n = Len(log) + 1, Passed(b)' = Passed(b) \cup {n},
           \A k \in Passed(b) : log'[k] = log[k],
           log'[n].at = clock,
           NEW now \in 0..MaxClock, now <= clock, clock <= now + MaxWait,
           Touched(b, now), login_limits'[b].attempts <= LimitOf(b)
    PROVE  \E V \in [Nat -> Int] : Windowed(b, V)' /\ Counted(b, V)'
<1>t. log \in Seq(Event) /\ clock \in Int /\ now \in Int /\ LimitOf(b) \in Int
  BY Types, LimitNumbers DEF LimitOf
<1>1. /\ \A k \in Passed(b) : W[k] \in Int /\ k \in Nat
      /\ n \notin Passed(b)
  BY <1>t, PassedTypes
<1>2. PICK R : R = login_limits'[b].reset_at
  OBVIOUS
<1>3. /\ R \in Int /\ R > now /\ R - Window <= clock
      /\ \A k \in Passed(b) : W[k] = R \/ W[k] + Window <= R
      /\ Cardinality(Of(b, W, R)) + 1 <= login_limits'[b].attempts
  BY <1>2, AttemptWindow
<1>4. PICK V : V = [W EXCEPT ![n] = R]
  OBVIOUS
<1>5. V \in [Nat -> Int] /\ V[n] = R /\ \A k \in Passed(b) : V[k] = W[k]
  BY <1>1, <1>3, <1>4
<1>6. \A r : /\ r # R => Of(b, V, r)' = Of(b, W, r)
            /\ Of(b, V, R)' = Of(b, W, R) \cup {n}
  BY <1>1, <1>5 DEF Of
<1>7. Cardinality(Of(b, V, R)') = Cardinality(Of(b, W, R)) + 1
  <2>1. IsFiniteSet(Of(b, W, R))
    BY <1>t, PassedTypes
  <2>2. n \notin Of(b, W, R)
    BY <1>1 DEF Of
  <2> QED BY <1>6, <2>1, <2>2, FS_AddElement
<1>8. login_limits'[b].attempts \in Int
  <2>1. b \in DOMAIN login_limits => login_limits[b].attempts \in Int
    BY RowTypes
  <2> QED BY <2>1 DEF Touched, Hit
<1>9. \A r \in Int : Cardinality(Of(b, V, r)') <= LimitOf(b)
  <2> SUFFICES ASSUME NEW r \in Int PROVE Cardinality(Of(b, V, r)') <= LimitOf(b)
    OBVIOUS
  <2>1. CASE r = R
    <3>1. Cardinality(Of(b, W, R)) \in Int
      BY <1>t, PassedTypes
    <3> QED BY <1>3, <1>7, <1>8, <1>t, <2>1, <3>1
  <2>2. CASE r # R
    BY <1>6, <2>2 DEF Windowed
  <2> QED BY <2>1, <2>2
<1>10. \A k \in Passed(b) \cup {n} : V[k] - Window <= log'[k].at /\ log'[k].at < V[k] + MaxWait
  <2>1. V[n] - Window <= log'[n].at /\ log'[n].at < V[n] + MaxWait
    BY <1>3, <1>5, <1>t, LimitNumbers
  <2>2. \A k \in Passed(b) : V[k] - Window <= log'[k].at /\ log'[k].at < V[k] + MaxWait
    BY <1>5 DEF Windowed
  <2> QED BY <2>1, <2>2
<1>11. \A k \in Passed(b) \cup {n} : V[k] = R \/ V[k] + Window <= R
  BY <1>3, <1>5
<1>12. \A j, k \in Passed(b) \cup {n} :
          V[j] = V[k] \/ V[j] + Window <= V[k] \/ V[k] + Window <= V[j]
  <2> SUFFICES ASSUME NEW j \in Passed(b) \cup {n}, NEW k \in Passed(b) \cup {n}
               PROVE  V[j] = V[k] \/ V[j] + Window <= V[k] \/ V[k] + Window <= V[j]
    OBVIOUS
  <2>1. CASE j = n \/ k = n
    BY <1>5, <1>11, <2>1
  <2>2. CASE j \in Passed(b) /\ k \in Passed(b)
    BY <1>5, <2>2 DEF Windowed
  <2> QED BY <2>1, <2>2
<1>13. Windowed(b, V)'
  BY <1>9, <1>10, <1>12 DEF Windowed
<1>14. Counted(b, V)'
  <2>1. Cardinality(Of(b, V, R)') <= login_limits'[b].attempts
    BY <1>3, <1>7
  <2> QED BY <1>2, <1>3, <1>11, <2>1 DEF Counted, Touched, Hit
<1> QED BY <1>5, <1>13, <1>14

\* One attempt counts in the row of its bucket and leaves the others alone.
Attempted(bucket, now, limits, counted) ==
    /\ DOMAIN counted = DOMAIN limits \cup {bucket}
    /\ \A b \in DOMAIN limits : b # bucket => counted[b] = limits[b]
    /\ counted[bucket].reset_at + Forget >= now
    /\ Hit(bucket, now, limits, counted)
LEMMA AttemptRows ==
    ASSUME NEW limits, limits \in [DOMAIN limits -> Limit],
           NEW bucket, NEW now \in 0..MaxClock,
           NEW counted, counted = Attempt(bucket, limits, now)
    PROVE  Attempted(bucket, now, limits, counted)
<1> DEFINE old == IF bucket \in DOMAIN limits THEN limits[bucket] ELSE [attempts |-> 0, reset_at |-> now]
           new == IF old.reset_at <= now THEN [attempts |-> 1, reset_at |-> now + Window]
                  ELSE [old EXCEPT !.attempts = @ + 1]
<1>1. counted = [b \in DOMAIN limits \cup {bucket} |-> IF b = bucket THEN new ELSE limits[b]]
  BY DEF Attempt
<1>2. now \in Int /\ now >= 0 /\ Forget >= 0 /\ Forget \in Int /\ Window \in Int /\ Window >= 0
  BY LimitNumbers
<1>3. CASE old.reset_at <= now
  <2>1. new = [attempts |-> 1, reset_at |-> now + Window]
    BY <1>3
  <2>2. bucket \in DOMAIN limits => limits[bucket].reset_at <= now
    BY <1>3
  <2> HIDE DEF new, old
  <2> QED BY <1>1, <1>2, <2>1, <2>2 DEF Attempted, Hit
<1>4. CASE ~(old.reset_at <= now)
  <2>1. bucket \in DOMAIN limits
    BY <1>2, <1>4
  <2>2. PICK row \in Limit : row = limits[bucket]
    BY <2>1
  <2>3. row.reset_at \in Int /\ row.attempts \in Int
    <3>1. 0..MaxClock + Window \subseteq Int
      OBVIOUS
    <3> QED BY <3>1 DEF Limit
  <2>4. ~(row.reset_at <= now) /\ new = [row EXCEPT !.attempts = @ + 1]
    BY <1>4, <2>1, <2>2
  <2>5. new.attempts = row.attempts + 1 /\ new.reset_at = row.reset_at
    BY <2>4 DEF Limit
  <2>6. row.reset_at > now /\ row.reset_at + Forget >= now
    BY <1>2, <2>3, <2>4
  <2> HIDE DEF new, old
  <2>7. counted[bucket] = new
    BY <1>1
  <2> QED BY <1>1, <2>1, <2>2, <2>5, <2>6, <2>7 DEF Attempted, Hit
<1> HIDE DEF new, old
<1> QED BY <1>3, <1>4

\* What login does to the rows: a refused attempt counts as well, and one that
\* gets past both limits is within both.
LEMMA LoginRows ==
    ASSUME AccountInv, NEW q \in Requests, Login(q),
           NEW u, u = requests[q].user, NEW now, now = requests[q].began
    PROVE  /\ u \in Users \cup {Unknown} /\ now \in 0..MaxClock
           /\ \/ /\ Record("limited", u, None, now)
                 /\ \A b \in Buckets : Kept(b) \/ Touched(b, now)
              \/ /\ \/ Record("check", u, None, now)
                    \/ \E t \in Tokens : Record("login", u, t, now)
                 /\ \A b \in {Global, u} :
                      Touched(b, now) /\ login_limits'[b].attempts <= LimitOf(b)
                 /\ \A b \in Buckets \ {Global, u} : Kept(b) \/ Dropped(b, now)
<1>t. /\ Asked /\ login_limits \in [DOMAIN login_limits -> Limit]
      /\ DOMAIN login_limits \subseteq Buckets
      /\ requests \in [Requests -> Request \cup {None}]
  BY Types DEF AccountInv
<1>1. requests[q] # None /\ requests[q].kind = "login"
  BY DEF Login
<1>2. u \in Users \cup {Unknown} /\ now \in 0..MaxClock
  BY <1>t, <1>1 DEF Asked, Request
<1>3. u # Global /\ Global \in Buckets /\ u \in Buckets
  BY <1>2, OperatorsConstants DEF Buckets
<1>4. PICK global : global = Attempt(Global, login_limits, now)
  OBVIOUS
<1>5. PICK both : both = Attempt(u, global, now)
  OBVIOUS
<1>6. global \in [DOMAIN global -> Limit]
  BY <1>t, <1>2, <1>3, <1>4, AttemptType
<1>a. Attempted(Global, now, login_limits, global) /\ Attempted(u, now, global, both)
  <2>1. Attempted(Global, now, login_limits, global)
    BY <1>t, <1>2, <1>4, AttemptRows
  <2>2. Attempted(u, now, global, both)
    BY <1>2, <1>5, <1>6, AttemptRows
  <2> QED BY <2>1, <2>2
<1>7. /\ DOMAIN global = DOMAIN login_limits \cup {Global}
      /\ \A b \in DOMAIN login_limits : b # Global => global[b] = login_limits[b]
      /\ global[Global].reset_at + Forget >= now
      /\ Hit(Global, now, login_limits, global)
  BY <1>a DEF Attempted
<1>8. /\ DOMAIN both = DOMAIN global \cup {u}
      /\ \A b \in DOMAIN global : b # u => both[b] = global[b]
      /\ both[u].reset_at + Forget >= now
      /\ Hit(u, now, global, both)
  BY <1>a DEF Attempted
<1>9. /\ u \in DOMAIN global <=> u \in DOMAIN login_limits
      /\ u \in DOMAIN global => global[u] = login_limits[u]
      /\ both[Global] = global[Global]
  BY <1>3, <1>7, <1>8
<1>10. \/ login_limits' = global /\ Record("limited", u, None, now)
       \/ login_limits' = both /\ Record("limited", u, None, now)
       \/ /\ global[Global].attempts <= GlobalLimit /\ both[u].attempts <= UserLimit
          /\ login_limits' = Tidy(both, now)
          /\ \/ Record("check", u, None, now)
             \/ \E t \in Tokens : Record("login", u, t, now)
  BY <1>4, <1>5 DEF Login
<1>11. CASE login_limits' = global /\ Record("limited", u, None, now)
  <2>1. Touched(Global, now)
    BY <1>7, <1>11 DEF Touched, Hit
  <2>2. \A b \in Buckets \ {Global} : Kept(b)
    BY <1>7, <1>11 DEF Kept
  <2> QED BY <1>2, <1>11, <2>1, <2>2
<1>12. CASE login_limits' = both /\ Record("limited", u, None, now)
  <2>1. Touched(Global, now)
    BY <1>7, <1>8, <1>9, <1>12 DEF Touched, Hit
  <2>2. Touched(u, now)
    BY <1>8, <1>9, <1>12 DEF Touched, Hit
  <2>3. \A b \in Buckets \ {Global, u} : Kept(b)
    BY <1>7, <1>8, <1>12 DEF Kept
  <2> QED BY <1>2, <1>12, <2>1, <2>2, <2>3
<1>13. CASE /\ global[Global].attempts <= GlobalLimit /\ both[u].attempts <= UserLimit
            /\ login_limits' = Tidy(both, now)
            /\ \/ Record("check", u, None, now)
               \/ \E t \in Tokens : Record("login", u, t, now)
  <2>1. /\ DOMAIN login_limits' = {b \in DOMAIN both : both[b].reset_at + Forget >= now}
        /\ \A b \in DOMAIN login_limits' : login_limits'[b] = both[b]
    BY <1>13 DEF Tidy, Restrict
  <2>2. /\ Global \in DOMAIN login_limits' /\ login_limits'[Global] = global[Global]
        /\ u \in DOMAIN login_limits' /\ login_limits'[u] = both[u]
    BY <1>7, <1>8, <1>9, <2>1
  <2>3. Touched(Global, now) /\ login_limits'[Global].attempts <= LimitOf(Global)
    BY <1>7, <1>13, <2>2 DEF Touched, Hit, LimitOf
  <2>4. Touched(u, now) /\ login_limits'[u].attempts <= LimitOf(u)
    BY <1>3, <1>8, <1>9, <1>13, <2>2 DEF Touched, Hit, LimitOf
  <2>5. ASSUME NEW b \in Buckets \ {Global, u} PROVE Kept(b) \/ Dropped(b, now)
    <3>1. /\ b \in DOMAIN both <=> b \in DOMAIN login_limits
          /\ b \in DOMAIN login_limits => both[b] = login_limits[b]
      BY <1>7, <1>8
    <3>2. CASE b \in DOMAIN login_limits /\ b \notin DOMAIN login_limits'
      <4>1. login_limits[b].reset_at \in Int /\ now \in Int /\ Forget \in Int
        BY <1>2, <3>2, RowTypes, LimitNumbers DEF AccountInv
      <4>2. ~(login_limits[b].reset_at + Forget >= now)
        BY <2>1, <3>1, <3>2
      <4> QED BY <3>2, <4>1, <4>2 DEF Dropped
    <3>3. CASE ~(b \in DOMAIN login_limits /\ b \notin DOMAIN login_limits')
      BY <2>1, <3>1, <3>3 DEF Kept
    <3> QED BY <3>2, <3>3
  <2> QED BY <1>2, <1>13, <2>3, <2>4, <2>5
<1> QED BY <1>10, <1>11, <1>12, <1>13

\* One more event in the log.
LEMMA PassedAfter ==
    ASSUME log \in Seq(Event), NEW n \in Nat, n = Len(log) + 1,
           log' \in Seq(Event), Len(log') = n, \A k \in 1..Len(log) : log'[k] = log[k],
           NEW b
    PROVE  /\ \A k \in Passed(b) : log'[k] = log[k]
           /\ log'[n].type \notin {"check", "login"} => Passed(b)' = Passed(b)
           /\ log'[n].type \in {"check", "login"} =>
                Passed(b)' = IF b = Global \/ log'[n].user = b THEN Passed(b) \cup {n}
                             ELSE Passed(b)
<1>1. DOMAIN log = 1..Len(log) /\ DOMAIN log' = 1..n /\ Len(log) \in Nat /\ n \notin 1..Len(log)
  OBVIOUS
<1>2. 1..n = (1..Len(log)) \cup {n}
  BY <1>1
<1>3. Passed(b) = {k \in 1..Len(log) : log[k].type \in {"check", "login"}
                                        /\ (b = Global \/ log[k].user = b)}
  BY <1>1 DEF Passed, Events
<1>4. Passed(b)' = {k \in 1..n : log'[k].type \in {"check", "login"}
                                  /\ (b = Global \/ log'[k].user = b)}
  BY <1>1 DEF Passed, Events
<1> QED BY <1>1, <1>2, <1>3, <1>4

\* Time and the requests that wait.
LEMMA ClockStep == AccountInv /\ ClockInv /\ [Next]_vars => ClockInv'
<1> SUFFICES ASSUME AccountInv, ClockInv, [Next]_vars PROVE ClockInv'
  OBVIOUS
<1>t. /\ clock \in Int /\ requests \in [Requests -> Request \cup {None}] /\ log \in Seq(Event)
      /\ \A k \in DOMAIN log : log[k].at \in Int
  <2>1. /\ clock \in 0..MaxClock /\ requests \in [Requests -> Request \cup {None}]
        /\ log \in Seq(Event)
    BY Types DEF AccountInv
  <2> QED BY <2>1, PassedTypes, LimitNumbers
<1>1. ASSUME log' = log \/ \E e : e.at = clock /\ log' = Append(log, e),
             clock' = clock
      PROVE  \A k \in DOMAIN log' : log'[k].at <= clock'
  <2>1. CASE log' = log
    BY <1>1, <2>1 DEF ClockInv
  <2>2. ASSUME NEW e, e.at = clock, log' = Append(log, e)
        PROVE  \A k \in DOMAIN log' : log'[k].at <= clock'
    BY <1>1, <1>t, <2>2 DEF ClockInv
  <2> QED BY <1>1, <2>1, <2>2
<1>2. ASSUME NEW q \in Requests,
             requests' = [requests EXCEPT ![q] = None] \/ requests' = requests,
             clock' = clock
      PROVE  \A p \in Requests : requests'[p] # None =>
                requests'[p].began <= clock' /\ clock' <= requests'[p].began + MaxWait
  BY <1>2, <1>t DEF ClockInv
<1>3. ASSUME NEW type, NEW user, NEW token, NEW began, Record(type, user, token, began)
      PROVE  \E e : e.at = clock /\ log' = Append(log, e)
  <2> DEFINE e == [type |-> type, user |-> user, token |-> token, began |-> began, at |-> clock]
  <2>1. e.at = clock /\ log' = Append(log, e)
    BY <1>3 DEF Record
  <2> QED BY <2>1
<1>4. ASSUME NEW u \in Users, NEW pw \in Passwords, NEW disable \in BOOLEAN,
             ChangeOperator(u, pw, disable)
      PROVE  ClockInv'
  <2>1. Record("changed", u, None, clock) /\ clock' = clock /\ requests' = requests
    BY <1>4 DEF ChangeOperator
  <2> QED BY <1>1, <1>3, <2>1 DEF ClockInv
<1>5. ASSUME NEW q \in Requests,
             Login(q) \/ Act(q) \/ Logout(q) \/ Unauthorized(q) \/ Abort(q)
      PROVE  ClockInv'
  <2>1. /\ requests' = [requests EXCEPT ![q] = None] /\ clock' = clock
        /\ log' = log \/ \E type, user, token, began : Record(type, user, token, began)
    <3>1. CASE Login(q)
      BY <3>1 DEF Login, Done
    <3>2. CASE Act(q)
      BY <3>2 DEF Act, Done
    <3>3. CASE Logout(q)
      BY <3>3 DEF Logout, Done
    <3>4. CASE Unauthorized(q) \/ Abort(q)
      BY <3>4 DEF Unauthorized, Abort, Done
    <3> QED BY <1>5, <3>1, <3>2, <3>3, <3>4
  <2>2. log' = log \/ \E e : e.at = clock /\ log' = Append(log, e)
    BY <1>3, <2>1
  <2> QED BY <1>1, <1>2, <2>1, <2>2 DEF ClockInv
<1>6. ASSUME NEW q \in Requests, NEW kind, NEW u, NEW pw, NEW t, Begin(q, kind, u, pw, t)
      PROVE  ClockInv'
  <2>1. PICK x : x = [kind |-> kind, user |-> u, password |-> pw, token |-> t, began |-> clock]
    OBVIOUS
  <2>2. /\ x.began = clock /\ requests' = [requests EXCEPT ![q] = x]
        /\ clock' = clock /\ log' = log
    BY <1>6, <2>1 DEF Begin
  <2>3. ASSUME NEW p \in Requests, requests'[p] # None
        PROVE  requests'[p].began <= clock /\ clock <= requests'[p].began + MaxWait
    <3>1. CASE p = q
      BY <1>t, <2>2, <3>1, LimitNumbers
    <3>2. CASE p # q
      BY <1>t, <2>2, <2>3, <3>2 DEF ClockInv
    <3> QED BY <3>1, <3>2
  <2> QED BY <2>2, <2>3 DEF ClockInv
<1>7. CASE Tick
  <2>1. clock' = clock + 1 /\ requests' = requests /\ log' = log
    BY <1>7 DEF Tick
  <2>2. \A k \in DOMAIN log' : log'[k].at <= clock'
    BY <1>t, <2>1 DEF ClockInv
  <2>3. ASSUME NEW q \in Requests, requests[q] # None
        PROVE  requests[q].began <= clock + 1 /\ clock + 1 <= requests[q].began + MaxWait
    <3>1. requests[q].began \in 0..MaxClock
      BY <1>t, <2>3 DEF Request
    <3>2. requests[q].began \in Int
      BY <3>1
    <3>3. clock < requests[q].began + MaxWait /\ requests[q].began <= clock
      BY <1>7, <2>3 DEF Tick, ClockInv
    <3> QED BY <1>t, <3>2, <3>3, LimitNumbers
  <2> QED BY <2>1, <2>2, <2>3 DEF ClockInv
<1>8. ASSUME UNCHANGED <<clock, requests, log>> PROVE ClockInv'
  BY <1>8 DEF ClockInv
<1>9. ASSUME NEW u \in Users, NEW role \in Roles, NEW pw \in Passwords, ProvisionOperator(u, role, pw)
      PROVE  ClockInv'
  BY <1>8, <1>9 DEF ProvisionOperator
<1>10. CASE UNCHANGED vars
  BY <1>8, <1>10 DEF vars
<1> QED BY <1>4, <1>5, <1>6, <1>7, <1>9, <1>10 DEF Next

LEMMA LimitInit == Init => LimitInv
<1> SUFFICES ASSUME Init PROVE LimitInv
  OBVIOUS
<1>1. ClockInv
  BY DEF Init, ClockInv
<1>2. ASSUME NEW b \in Buckets PROVE \E W \in [Nat -> Int] : Windowed(b, W) /\ Counted(b, W)
  <2>1. PICK W : W = [k \in Nat |-> 0]
    OBVIOUS
  <2>w. W \in [Nat -> Int]
    BY <2>1
  <2>2. Passed(b) = {} /\ b \notin DOMAIN login_limits
    BY DEF Init, Passed, Events
  <2>3. ASSUME NEW R \in Int PROVE Cardinality(Of(b, W, R)) <= LimitOf(b)
    <3>1. Of(b, W, R) = {}
      BY <2>2 DEF Of
    <3>2. 0 <= LimitOf(b)
      BY OperatorsConstants DEF LimitOf
    <3> QED BY <3>1, <3>2, FS_EmptySet
  <2> QED BY <2>w, <2>2, <2>3 DEF Windowed, Counted
<1> QED BY <1>1, <1>2 DEF LimitInv

LEMMA LimitStep == AccountInv /\ AccountInv' /\ LimitInv /\ [Next]_vars => LimitInv'
<1> SUFFICES ASSUME AccountInv, AccountInv', LimitInv, [Next]_vars PROVE LimitInv'
  OBVIOUS
<1>t. /\ TypeOK /\ clock \in Int /\ clock' \in Nat /\ log \in Seq(Event) /\ log' \in Seq(Event)
  <2>1. /\ TypeOK /\ clock \in 0..MaxClock /\ log \in Seq(Event)
    BY Types DEF AccountInv
  <2>2. clock' \in 0..MaxClock /\ log' \in Seq(Event)
    BY DEF AccountInv, TypeOK
  <2> QED BY <2>1, <2>2
<1>n. PICK n \in Nat : n = Len(log) + 1
  BY <1>t
<1>c. ClockInv'
  BY ClockStep DEF LimitInv
<1> SUFFICES ASSUME NEW b \in Buckets
             PROVE  \E W \in [Nat -> Int] : Windowed(b, W)' /\ Counted(b, W)'
  BY <1>c DEF LimitInv
<1>0. PICK W \in [Nat -> Int] : Windowed(b, W) /\ Counted(b, W)
  BY DEF LimitInv
<1>k. ASSUME login_limits' = login_limits PROVE Kept(b)
  BY <1>k DEF Kept
<1>1. ASSUME login_limits' = login_limits, clock <= clock', log' = log
      PROVE  Windowed(b, W)' /\ Counted(b, W)'
  <2>1. Passed(b)' = Passed(b)
    BY <1>1 DEF Passed, Events
  <2> QED BY <1>0, <1>1, <1>k, <1>t, <2>1, WindowsStay
<1>2. ASSUME login_limits' = login_limits, clock' = clock, Len(log') = n,
             \A k \in 1..Len(log) : log'[k] = log[k], log'[n].type \notin {"check", "login"}
      PROVE  Windowed(b, W)' /\ Counted(b, W)'
  <2>1. Passed(b)' = Passed(b) /\ \A k \in Passed(b) : log'[k] = log[k]
    BY <1>2, <1>n, <1>t, PassedAfter
  <2>2. clock <= clock'
    BY <1>2, <1>t
  <2> QED BY <1>0, <1>2, <1>k, <1>t, <2>1, <2>2, WindowsStay
<1>3. ASSUME NEW u \in Users, NEW pw \in Passwords, NEW disable \in BOOLEAN,
             ChangeOperator(u, pw, disable)
      PROVE  Windowed(b, W)' /\ Counted(b, W)'
  <2>1. /\ Record("changed", u, None, clock) /\ login_limits' = login_limits /\ clock' = clock
        /\ clock \in 0..MaxClock
    BY <1>3, Types DEF ChangeOperator, AccountInv
  <2>2. /\ Len(log') = n /\ \A k \in 1..Len(log) : log'[k] = log[k]
        /\ log'[n].type = "changed"
    BY <1>n, <1>t, <2>1, Recorded
  <2> QED BY <1>2, <2>1, <2>2
<1>4. ASSUME NEW q \in Requests, Act(q) \/ Logout(q)
      PROVE  Windowed(b, W)' /\ Counted(b, W)'
  <2>1. /\ requests[q] # None /\ requests[q].kind \in {"act", "logout"} /\ Authenticated(requests[q])
        /\ \/ Record("act", sessions[requests[q].token].user, requests[q].token, requests[q].began)
           \/ Record("logout", sessions[requests[q].token].user, requests[q].token, requests[q].began)
        /\ login_limits' = login_limits /\ clock' = clock
    BY <1>4 DEF Act, Logout
  <2>2. /\ Asked /\ DOMAIN operators \subseteq Users /\ sessions \in [DOMAIN sessions -> Session]
        /\ requests \in [Requests -> Request \cup {None}] /\ clock \in 0..MaxClock
    BY Types DEF AccountInv
  <2>3. requests[q].began \in 0..MaxClock /\ requests[q].token \in Tokens
    BY <2>1, <2>2 DEF Asked, Request
  <2>4. sessions[requests[q].token].user \in Users
    BY <2>1, <2>2 DEF Authenticated, Session
  <2>5. /\ Len(log') = n /\ \A k \in 1..Len(log) : log'[k] = log[k]
        /\ log'[n].type \in {"act", "logout"}
    BY <1>n, <1>t, <2>1, <2>2, <2>3, <2>4, Recorded DEF Kinds
  <2> QED BY <1>2, <2>1, <2>5
<1>5. ASSUME NEW q \in Requests, Login(q)
      PROVE  \E V \in [Nat -> Int] : Windowed(b, V)' /\ Counted(b, V)'
  <2>1. PICK u : u = requests[q].user
    OBVIOUS
  <2>2. PICK now : now = requests[q].began
    OBVIOUS
  <2>3. /\ u \in Users \cup {Unknown} /\ now \in 0..MaxClock
        /\ \/ /\ Record("limited", u, None, now)
              /\ \A c \in Buckets : Kept(c) \/ Touched(c, now)
           \/ /\ \/ Record("check", u, None, now)
                 \/ \E t \in Tokens : Record("login", u, t, now)
              /\ \A c \in {Global, u} :
                   Touched(c, now) /\ login_limits'[c].attempts <= LimitOf(c)
              /\ \A c \in Buckets \ {Global, u} : Kept(c) \/ Dropped(c, now)
    BY <1>5, <2>1, <2>2, LoginRows
  <2>4. requests[q] # None /\ clock' = clock /\ clock \in 0..MaxClock /\ clock <= clock'
    BY <1>5, <1>t, Types DEF Login
  <2>5. now <= clock /\ clock <= now + MaxWait
    BY <2>2, <2>4 DEF LimitInv, ClockInv
  <2>6. CASE /\ Record("limited", u, None, now)
             /\ \A c \in Buckets : Kept(c) \/ Touched(c, now)
    <3>1. /\ Len(log') = n /\ \A k \in 1..Len(log) : log'[k] = log[k]
          /\ log'[n].type = "limited"
      BY <1>n, <1>t, <2>3, <2>4, <2>6, Recorded
    <3>2. Passed(b)' = Passed(b) /\ \A k \in Passed(b) : log'[k] = log[k]
      BY <1>n, <1>t, <3>1, PassedAfter
    <3>3. Kept(b) \/ Touched(b, now)
      BY <2>6
    <3>4. Windowed(b, W)' /\ Counted(b, W)'
      BY <1>0, <1>t, <2>3, <2>4, <2>5, <3>2, <3>3, WindowsStay
    <3> QED BY <3>4
  <2>7. CASE /\ \/ Record("check", u, None, now)
                \/ \E t \in Tokens : Record("login", u, t, now)
             /\ \A c \in {Global, u} :
                  Touched(c, now) /\ login_limits'[c].attempts <= LimitOf(c)
             /\ \A c \in Buckets \ {Global, u} : Kept(c) \/ Dropped(c, now)
    <3>1. /\ Len(log') = n /\ \A k \in 1..Len(log) : log'[k] = log[k]
          /\ log'[n].type \in {"check", "login"} /\ log'[n].user = u /\ log'[n].at = clock
      <4>1. CASE Record("check", u, None, now)
        BY <1>n, <1>t, <2>3, <2>4, <4>1, Recorded
      <4>2. ASSUME NEW t \in Tokens, Record("login", u, t, now)
            PROVE  /\ Len(log') = n /\ \A k \in 1..Len(log) : log'[k] = log[k]
                   /\ log'[n].type \in {"check", "login"} /\ log'[n].user = u /\ log'[n].at = clock
        BY <1>n, <1>t, <2>3, <2>4, <4>2, Recorded DEF Kinds
      <4> QED BY <2>7, <4>1, <4>2
    <3>2. /\ \A k \in Passed(b) : log'[k] = log[k]
          /\ Passed(b)' = IF b = Global \/ u = b THEN Passed(b) \cup {n} ELSE Passed(b)
      BY <1>n, <1>t, <3>1, PassedAfter
    <3>3. CASE b \in {Global, u}
      <4>1. Touched(b, now) /\ login_limits'[b].attempts <= LimitOf(b)
        BY <2>7, <3>3
      <4>2. Passed(b)' = Passed(b) \cup {n}
        BY <3>2, <3>3
      <4> QED BY <1>0, <1>n, <1>t, <2>3, <2>4, <2>5, <3>1, <3>2, <4>1, <4>2, WindowsGrow
    <3>4. CASE b \notin {Global, u}
      <4>1. Kept(b) \/ Dropped(b, now)
        BY <2>7, <3>4
      <4>2. Passed(b)' = Passed(b)
        BY <3>2, <3>4
      <4>3. Windowed(b, W)' /\ Counted(b, W)'
        BY <1>0, <1>t, <2>3, <2>4, <2>5, <3>2, <4>1, <4>2, WindowsStay
      <4> QED BY <4>3
    <3> QED BY <3>3, <3>4
  <2> QED BY <2>3, <2>6, <2>7
<1>6. ASSUME NEW u \in Users, NEW role \in Roles, NEW pw \in Passwords, ProvisionOperator(u, role, pw)
      PROVE  Windowed(b, W)' /\ Counted(b, W)'
  BY <1>1, <1>6, <1>t DEF ProvisionOperator
<1>7. ASSUME NEW q \in Requests,
             \/ \E u \in Users \cup {Unknown}, pw \in Passwords : Begin(q, "login", u, pw, None)
             \/ \E t \in Tokens, kind \in {"act", "logout"} : Begin(q, kind, None, None, t)
             \/ Unauthorized(q) \/ Abort(q)
      PROVE  Windowed(b, W)' /\ Counted(b, W)'
  <2>1. login_limits' = login_limits /\ clock' = clock /\ log' = log
    <3>1. CASE Unauthorized(q) \/ Abort(q)
      BY <3>1 DEF Unauthorized, Abort
    <3>2. ASSUME NEW u, NEW pw, NEW kind, NEW t, Begin(q, kind, u, pw, t)
          PROVE  login_limits' = login_limits /\ clock' = clock /\ log' = log
      BY <3>2 DEF Begin
    <3> QED BY <1>7, <3>1, <3>2
  <2>2. clock <= clock'
    BY <1>t, <2>1
  <2> QED BY <1>1, <2>1, <2>2
<1>8. CASE Tick
  BY <1>1, <1>8, <1>t DEF Tick
<1>9. CASE UNCHANGED vars
  BY <1>1, <1>9, <1>t DEF vars
<1> QED BY <1>3, <1>4, <1>5, <1>6, <1>7, <1>8, <1>9 DEF Next

\* No three windows, which do not overlap, end within 2 * Window instants.
LEMMA TwoWindows ==
    ASSUME NEW lo \in Int, NEW x \in Int, NEW y \in Int, NEW z \in Int,
           lo < x, x < lo + 2 * Window, lo < y, y < lo + 2 * Window,
           lo < z, z < lo + 2 * Window,
           x = y \/ x + Window <= y \/ y + Window <= x,
           x = z \/ x + Window <= z \/ z + Window <= x,
           y = z \/ y + Window <= z \/ z + Window <= y
    PROVE  x = y \/ x = z \/ y = z
BY LimitNumbers

\* Of the size of a union.
LEMMA SumBound ==
    \A m, n, l \in Int, c \in Nat : m <= l /\ n <= l => m + n - c <= 2 * l
OBVIOUS

\* What any Window - MaxWait instants see of a bucket was counted by two of its
\* windows at most.
LEMMA BucketBound ==
    ASSUME TypeOK, NEW b \in Buckets, NEW W \in [Nat -> Int], Windowed(b, W),
           NEW t \in Int, NEW S, S \subseteq Passed(b),
           \A k \in S : t <= log[k].at /\ log[k].at < t + Window - MaxWait
    PROVE  IsFiniteSet(S) /\ Cardinality(S) <= 2 * LimitOf(b)
<1>t. log \in Seq(Event) /\ LimitOf(b) \in Int /\ \A k \in S : W[k] \in Int /\ log[k].at \in Int
  <2>1. log \in Seq(Event)
    BY Types
  <2> QED BY <2>1, PassedTypes, LimitNumbers DEF LimitOf
<1>1. PICK lo \in Int : lo = t - MaxWait
  BY LimitNumbers
<1>2. ASSUME NEW k \in S PROVE lo < W[k] /\ W[k] < lo + 2 * Window
  <2>1. W[k] - Window <= log[k].at /\ log[k].at < W[k] + MaxWait
    BY <1>2 DEF Windowed
  <2>2. W[k] \in Int /\ log[k].at \in Int /\ t <= log[k].at /\ log[k].at < t + Window - MaxWait
    BY <1>2, <1>t
  <2> QED BY <1>1, <2>1, <2>2, LimitNumbers
<1>3. \A j, k \in S : W[j] = W[k] \/ W[j] + Window <= W[k] \/ W[k] + Window <= W[j]
  BY DEF Windowed
<1>4. \E x, y \in Int : \A k \in S : W[k] = x \/ W[k] = y
  <2>1. CASE \E i, j \in S : W[i] # W[j]
    <3>1. PICK i \in S, j \in S : W[i] # W[j]
      BY <2>1
    <3>2. ASSUME NEW k \in S PROVE W[k] = W[i] \/ W[k] = W[j]
      <4>1. PICK x \in Int : x = W[i]
        BY <1>t
      <4>2. PICK y \in Int : y = W[j]
        BY <1>t
      <4>3. PICK z \in Int : z = W[k]
        BY <1>t
      <4>4. /\ lo < x /\ x < lo + 2 * Window /\ lo < y /\ y < lo + 2 * Window
            /\ lo < z /\ z < lo + 2 * Window
        BY <1>2, <4>1, <4>2, <4>3
      <4>5. /\ x = y \/ x + Window <= y \/ y + Window <= x
            /\ x = z \/ x + Window <= z \/ z + Window <= x
            /\ y = z \/ y + Window <= z \/ z + Window <= y
        BY <1>3, <4>1, <4>2, <4>3
      <4>6. x = y \/ x = z \/ y = z
        BY <4>4, <4>5, TwoWindows
      <4> QED BY <3>1, <4>1, <4>2, <4>3, <4>6
    <3> QED BY <1>t, <3>1, <3>2
  <2>2. CASE ~\E i, j \in S : W[i] # W[j]
    <3>1. CASE S = {}
      <4>1. \A k \in S : W[k] = 0
        BY <3>1
      <4> QED BY <4>1
    <3>2. CASE S # {}
      BY <1>t, <2>2, <3>2
    <3> QED BY <3>1, <3>2
  <2> QED BY <2>1, <2>2
<1>5. PICK x \in Int, y \in Int : \A k \in S : W[k] = x \/ W[k] = y
  BY <1>4
<1>6. S \in SUBSET (Of(b, W, x) \cup Of(b, W, y))
  BY <1>5 DEF Of
<1>7. /\ IsFiniteSet(Of(b, W, x)) /\ Cardinality(Of(b, W, x)) \in Int
      /\ IsFiniteSet(Of(b, W, y)) /\ Cardinality(Of(b, W, y)) \in Int
      /\ Cardinality(Of(b, W, x)) <= LimitOf(b) /\ Cardinality(Of(b, W, y)) <= LimitOf(b)
  <2>1. \A r \in Int : Cardinality(Of(b, W, r)) <= LimitOf(b)
    BY DEF Windowed
  <2>2. \A r : IsFiniteSet(Of(b, W, r)) /\ Cardinality(Of(b, W, r)) \in Nat
    BY <1>t, PassedTypes
  <2> QED BY <1>5, <2>1, <2>2
<1>8. /\ IsFiniteSet(Of(b, W, x) \cup Of(b, W, y))
      /\ Cardinality(Of(b, W, x) \cup Of(b, W, y)) <= 2 * LimitOf(b)
  <2>1. /\ IsFiniteSet(Of(b, W, x) \cup Of(b, W, y))
        /\ Cardinality(Of(b, W, x) \cup Of(b, W, y)) =
             Cardinality(Of(b, W, x)) + Cardinality(Of(b, W, y))
               - Cardinality(Of(b, W, x) \cap Of(b, W, y))
    BY <1>7, FS_Union
  <2>2. IsFiniteSet(Of(b, W, x) \cap Of(b, W, y))
    <3>1. Of(b, W, x) \cap Of(b, W, y) \in SUBSET Of(b, W, x)
      OBVIOUS
    <3> QED BY <1>7, <3>1, FS_Subset
  <2>3. PICK c \in Nat : c = Cardinality(Of(b, W, x) \cap Of(b, W, y))
    BY <2>2, FS_CardinalityType
  <2>4. PICK m \in Int : m = Cardinality(Of(b, W, x)) /\ m <= LimitOf(b)
    BY <1>7
  <2>5. PICK n \in Int : n = Cardinality(Of(b, W, y)) /\ n <= LimitOf(b)
    BY <1>7
  <2>6. Cardinality(Of(b, W, x) \cup Of(b, W, y)) = m + n - c
    BY <2>1, <2>3, <2>4, <2>5
  <2>7. m + n - c <= 2 * LimitOf(b)
    BY <1>t, <2>4, <2>5, SumBound
  <2> QED BY <2>1, <2>6, <2>7
<1>9. /\ IsFiniteSet(S) /\ Cardinality(S) <= Cardinality(Of(b, W, x) \cup Of(b, W, y))
  BY <1>6, <1>8, FS_Subset
<1>10. Cardinality(S) \in Int /\ Cardinality(Of(b, W, x) \cup Of(b, W, y)) \in Int
  BY <1>8, <1>9, FS_CardinalityType
<1> QED BY <1>8, <1>9, <1>10, <1>t

\* login counts an attempt in the window that is open when its transaction
\* begins, and commits within the timeout of the request.  However the attempts
\* of all replicas wait for the lock and straddle the end of a window, and
\* although old rows are deleted, no Window - MaxWait instants see more than
\* 2 * UserLimit passwords of one account checked, nor 2 * GlobalLimit of all
\* (operators.go:151-168).
THEOREM LoginsLimited == Spec => []LoginsAreLimited
<1>1. AccountInv /\ LimitInv => LoginsAreLimited
  <2> SUFFICES ASSUME AccountInv, LimitInv, NEW t \in 0..clock,
                      NEW checks,
                      checks = {k \in Events({"check", "login"}) :
                                  t <= log[k].at /\ log[k].at < t + Window - MaxWait}
               PROVE  /\ Cardinality(checks) <= 2 * GlobalLimit
                      /\ \A u \in Users \cup {Unknown} :
                            Cardinality({k \in checks : log[k].user = u}) <= 2 * UserLimit
    BY DEF LoginsAreLimited
  <2>1. Cardinality(checks) <= 2 * LimitOf(Global)
    <3>1. Global \in Buckets /\ checks \subseteq Passed(Global)
      BY DEF Buckets, Passed
    <3>2. PICK W \in [Nat -> Int] : Windowed(Global, W)
      BY <3>1 DEF LimitInv
    <3>3. \A k \in checks : t <= log[k].at /\ log[k].at < t + Window - MaxWait
      OBVIOUS
    <3>4. TypeOK /\ t \in Int
      BY Types DEF AccountInv
    <3> QED BY <3>1, <3>2, <3>3, <3>4, BucketBound
  <2>2. ASSUME NEW u \in Users \cup {Unknown}
        PROVE  Cardinality({k \in checks : log[k].user = u}) <= 2 * LimitOf(u)
    <3>1. PICK S : S = {k \in checks : log[k].user = u}
      OBVIOUS
    <3>2. u \in Buckets /\ S \subseteq Passed(u)
      BY <3>1 DEF Buckets, Passed
    <3>3. PICK W \in [Nat -> Int] : Windowed(u, W)
      BY <3>2 DEF LimitInv
    <3>4. \A k \in S : t <= log[k].at /\ log[k].at < t + Window - MaxWait
      BY <3>1
    <3>t. TypeOK /\ t \in Int
      BY Types DEF AccountInv
    <3>5. Cardinality(S) <= 2 * LimitOf(u)
      BY <3>2, <3>3, <3>4, <3>t, BucketBound
    <3> QED BY <3>1, <3>5
  <2>3. LimitOf(Global) = GlobalLimit /\ \A u \in Users \cup {Unknown} : LimitOf(u) = UserLimit
    BY OperatorsConstants DEF LimitOf
  <2> QED BY <2>1, <2>2, <2>3
<1>2. Spec => []LimitInv
  BY LimitInit, LimitStep, AccountInvariant, PTL DEF Spec
<1> QED BY <1>1, <1>2, AccountInvariant, PTL
=============================================================================
