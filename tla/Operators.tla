----------------------------- MODULE Operators -----------------------------
(***************************************************************************)
(* Operator accounts of the control API (internal/server/operators.go):    *)
(* a host administrator provisions, resets and disables them from another  *)
(* process; operators sign in, act and sign out over HTTP.  A request      *)
(* begins its transaction, waits for the advisory lock (store.Transaction) *)
(* and only then runs; now() is when the transaction began, time.Now() is  *)
(* when it runs.  Both are readings of the one clock.                      *)
(*                                                                         *)
(* An operator named X_Deviation is a plausible wrong version of X, which  *)
(* nothing uses: some property fails when it takes the place of X.         *)
(***************************************************************************)
EXTENDS Naturals, Sequences, FiniteSets, Functions

CONSTANTS
    Users, Passwords,
    Roles,          \* "viewer", "refund_manager"
    Unknown,        \* a username without an account
    Tokens,         \* session tokens, each drawn once
    Requests, None,
    Window,         \* 1 minute, the window of a login limit
    UserLimit, GlobalLimit,     \* 10 and 60 attempts
    SessionLife,    \* 8 hours
    Forget,         \* 1 hour, after which an old window is deleted
    MaxWait,        \* 15 seconds, the timeout of a request
    MaxClock, MaxRequests, MaxChanges   \* bounds

VARIABLES
    clock,
    operators,      \* username -> [role, password, disabled]
    sessions,       \* token -> [user, expires]
    login_limits,   \* bucket -> [attempts, reset_at]
    requests,       \* waiting requests: [kind, user, password, token, began]
    log             \* what the transactions did, in the order they committed

vars == <<clock, operators, sessions, login_limits, requests, log>>

Global == "global"
Kinds == {"login", "act", "logout"}

ASSUME OperatorsConstants ==
    /\ Unknown \notin Users /\ Global \notin Users \cup {Unknown}
    /\ Window \in Nat /\ MaxWait \in Nat /\ MaxWait < Window /\ MaxWait <= Forget
    /\ {UserLimit, GlobalLimit, SessionLife, Forget, MaxClock, MaxRequests, MaxChanges}
         \subseteq Nat

Request == [kind : Kinds, user : Users \cup {Unknown, None}, password : Passwords \cup {None},
            token : Tokens \cup {None}, began : 0..MaxClock]
Event == [type : Kinds \cup {"check", "limited", "changed"}, user : Users \cup {Unknown},
          token : Tokens \cup {None}, began : 0..MaxClock, at : 0..MaxClock]

Init ==
    /\ clock = 0
    /\ operators = [u \in {} |-> None] /\ sessions = [t \in {} |-> None]
    /\ login_limits = [b \in {} |-> None]
    /\ requests = [q \in Requests |-> None]
    /\ log = << >>

Count(type) == Cardinality({k \in DOMAIN log : log[k].type = type})
Record(type, user, token, began) ==
    log' = Append(log, [type |-> type, user |-> user, token |-> token,
                        began |-> began, at |-> clock])

-----------------------------------------------------------------------------
(* The command line of the host administrator. *)

\* operator create, with or without --if-absent: an account that exists is
\* never touched.
ProvisionOperator(user, role, password) ==
    /\ user \notin DOMAIN operators
    /\ operators' = [u \in DOMAIN operators \cup {user} |->
                       IF u = user THEN [role |-> role, password |-> password, disabled |-> FALSE]
                       ELSE operators[u]]
    /\ UNCHANGED <<clock, sessions, login_limits, requests, log>>

SessionsOf(user) == {t \in DOMAIN sessions : sessions[t].user = user}
Without(S) == Restrict(sessions, DOMAIN sessions \ S)

\* A new password leaves the sessions alone.
ChangeOperator_KeepsSessions(user, password, disable) ==
    /\ user \in DOMAIN operators /\ Count("changed") < MaxChanges
    /\ operators' = [operators EXCEPT
         ![user] = IF disable THEN [@ EXCEPT !.disabled = TRUE]
                   ELSE [@ EXCEPT !.password = password]]
    /\ sessions' = IF disable THEN Without(SessionsOf(user)) ELSE sessions
    /\ Record("changed", user, None, clock)
    /\ UNCHANGED <<clock, login_limits, requests>>

\* operator disable and reset-password: either ends the sessions of the account.
ChangeOperator(user, password, disable) ==
    /\ user \in DOMAIN operators /\ Count("changed") < MaxChanges
    /\ operators' = [operators EXCEPT
         ![user] = IF disable THEN [@ EXCEPT !.disabled = TRUE]
                   ELSE [@ EXCEPT !.password = password]]
    /\ sessions' = Without(SessionsOf(user))
    /\ Record("changed", user, None, clock)
    /\ UNCHANGED <<clock, login_limits, requests>>

-----------------------------------------------------------------------------
(* Requests. *)

\* A request arrives; each is answered once, and a free slot takes the next.
Begin(q, kind, user, password, token) ==
    /\ requests[q] = None
    /\ Cardinality({p \in Requests : requests[p] # None}) + Len(log) < MaxRequests
    /\ requests' = [requests EXCEPT ![q] =
          [kind |-> kind, user |-> user, password |-> password, token |-> token,
           began |-> clock]]
    /\ UNCHANGED <<clock, operators, sessions, login_limits, log>>

\* Its transaction fails, is rolled back, or is given up after MaxWait.
Abort(q) ==
    /\ requests[q] # None
    /\ requests' = [requests EXCEPT ![q] = None]
    /\ UNCHANGED <<clock, operators, sessions, login_limits, log>>

Done(q) == requests' = [requests EXCEPT ![q] = None]

\* The first attempt of a window is not counted.
Attempt_Uncounted(bucket, limits, now) ==
    LET old == IF bucket \in DOMAIN limits THEN limits[bucket] ELSE [attempts |-> 0, reset_at |-> now]
        new == IF old.reset_at <= now THEN [attempts |-> 0, reset_at |-> now + Window]
               ELSE [old EXCEPT !.attempts = @ + 1]
    IN [b \in DOMAIN limits \cup {bucket} |-> IF b = bucket THEN new ELSE limits[b]]

\* INSERT INTO login_limits ... ON CONFLICT DO UPDATE.
Attempt(bucket, limits, now) ==
    LET old == IF bucket \in DOMAIN limits THEN limits[bucket] ELSE [attempts |-> 0, reset_at |-> now]
        new == IF old.reset_at <= now THEN [attempts |-> 1, reset_at |-> now + Window]
               ELSE [old EXCEPT !.attempts = @ + 1]
    IN [b \in DOMAIN limits \cup {bucket} |-> IF b = bucket THEN new ELSE limits[b]]

\* The rows whose window ended more than an hour ago are deleted.
Tidy(limits, now) ==
    Restrict(limits, {b \in DOMAIN limits : limits[b].reset_at + Forget >= now})

\* An account that is disabled may sign in.
Valid_Disabled(r) ==
    r.user \in DOMAIN operators /\ operators[r.user].password = r.password
Valid(r) ==
    /\ r.user \in DOMAIN operators
    /\ operators[r.user].password = r.password
    /\ ~operators[r.user].disabled

\* login: both limits are counted, the user's only within the global one, and
\* a refused attempt counts too.
Login(q) ==
    LET r      == requests[q]
        global == Attempt(Global, login_limits, r.began)
        both   == Attempt(r.user, global, r.began)
    IN
    /\ r # None /\ r.kind = "login"
    /\ Done(q)
    /\ UNCHANGED <<clock, operators>>
    /\ \/ /\ global[Global].attempts > GlobalLimit
          /\ login_limits' = global
          /\ Record("limited", r.user, None, r.began) /\ UNCHANGED sessions
       \/ /\ global[Global].attempts <= GlobalLimit /\ both[r.user].attempts > UserLimit
          /\ login_limits' = both
          /\ Record("limited", r.user, None, r.began) /\ UNCHANGED sessions
       \/ /\ global[Global].attempts <= GlobalLimit /\ both[r.user].attempts <= UserLimit
          /\ login_limits' = Tidy(both, r.began)
          /\ IF Valid(r)
             THEN \E t \in Tokens \ {log[k].token : k \in DOMAIN log} :
                    /\ sessions' =
                        [s \in {x \in DOMAIN sessions : sessions[x].expires > r.began} \cup {t} |->
                           IF s = t THEN [user |-> r.user, expires |-> clock + SessionLife]
                           ELSE sessions[s]]
                    /\ Record("login", r.user, t, r.began)
             ELSE Record("check", r.user, None, r.began) /\ UNCHANGED sessions

\* authenticateOperator: the session that a token stands for.
Authenticated(r) ==
    /\ r.token \in DOMAIN sessions
    /\ sessions[r.token].expires > r.began
    /\ ~operators[sessions[r.token].user].disabled

\* Any endpoint of operatorRoute, e.g. the approval of ControlPlane.
Act(q) ==
    LET r == requests[q] IN
    /\ r # None /\ r.kind = "act" /\ Authenticated(r)
    /\ Done(q)
    /\ Record("act", sessions[r.token].user, r.token, r.began)
    /\ UNCHANGED <<clock, operators, sessions, login_limits>>

Logout(q) ==
    LET r == requests[q] IN
    /\ r # None /\ r.kind = "logout" /\ Authenticated(r)
    /\ Done(q)
    /\ sessions' = Without({r.token})
    /\ Record("logout", sessions[r.token].user, r.token, r.began)
    /\ UNCHANGED <<clock, operators, login_limits>>

\* 401: nothing changes.
Unauthorized(q) ==
    LET r == requests[q] IN
    /\ r # None /\ r.kind # "login" /\ ~Authenticated(r)
    /\ Done(q)
    /\ UNCHANGED <<clock, operators, sessions, login_limits, log>>

\* No request waits longer than its timeout.
Tick ==
    /\ clock < MaxClock
    /\ \A q \in Requests : requests[q] # None => clock < requests[q].began + MaxWait
    /\ clock' = clock + 1
    /\ UNCHANGED <<operators, sessions, login_limits, requests, log>>

Next ==
    \/ \E u \in Users, role \in Roles, pw \in Passwords : ProvisionOperator(u, role, pw)
    \/ \E u \in Users, pw \in Passwords, disable \in BOOLEAN : ChangeOperator(u, pw, disable)
    \/ \E q \in Requests :
        \/ \E u \in Users \cup {Unknown}, pw \in Passwords : Begin(q, "login", u, pw, None)
        \/ \E t \in Tokens, kind \in {"act", "logout"} : Begin(q, kind, None, None, t)
        \/ Login(q) \/ Act(q) \/ Logout(q) \/ Unauthorized(q) \/ Abort(q)
    \/ Tick

Spec == Init /\ [][Next]_vars

-----------------------------------------------------------------------------
\* Every variable has its type.
TypeOK ==
    /\ clock \in 0..MaxClock
    /\ DOMAIN operators \subseteq Users
    /\ operators \in [DOMAIN operators ->
                        [role : Roles, password : Passwords, disabled : BOOLEAN]]
    /\ DOMAIN sessions \subseteq Tokens
    /\ sessions \in [DOMAIN sessions ->
                        [user : DOMAIN operators, expires : 0..MaxClock + SessionLife]]
    /\ DOMAIN login_limits \subseteq Users \cup {Unknown, Global}
    /\ login_limits \in [DOMAIN login_limits -> [attempts : Nat \ {0},
                                                 reset_at : 0..MaxClock + Window]]
    /\ requests \in [Requests -> Request \cup {None}]
    /\ log \in Seq(Event)

Events(S) == {k \in DOMAIN log : log[k].type \in S}

\* A request that was already waiting when its session ended does nothing any
\* more: after a logout, a new password or the end of the account, whichever
\* process commits it, no later transaction acts by that token; and a session
\* is only used by requests that began within its life.
AuthorityEndsWithTheSession ==
    \A k \in Events({"act", "logout"}) :
        LET login == CHOOSE j \in Events({"login"}) : log[j].token = log[k].token IN
        /\ \E j \in Events({"login"}) : log[j].token = log[k].token
        /\ login < k /\ log[k].user = log[login].user
        /\ log[k].began < log[login].at + SessionLife
        /\ \A j \in login + 1..k - 1 :
              /\ log[j].type = "changed" => log[j].user # log[k].user
              /\ log[j].type = "logout" => log[j].token # log[k].token

\* A sign-in that was already waiting when the account was disabled does not
\* leave a session behind (login reads the account and inserts the session under
\* the lock that ChangeOperator takes; the account has no way back).
DisabledAccountsHaveNoSession ==
    \A t \in DOMAIN sessions : ~operators[sessions[t].user].disabled

\* Requests are counted in fixed windows by the time their transactions began.
\* However long each of them waited, any Window - MaxWait instants see the
\* password of one account checked at most 2 * UserLimit times, and that of all
\* accounts at most 2 * GlobalLimit times (login, operators.go:151-164).
LoginsAreLimited ==
    \A t \in 0..clock :
        LET checks == {k \in Events({"check", "login"}) :
                          t <= log[k].at /\ log[k].at < t + Window - MaxWait} IN
        /\ Cardinality(checks) <= 2 * GlobalLimit
        /\ \A u \in Users \cup {Unknown} :
              Cardinality({k \in checks : log[k].user = u}) <= 2 * UserLimit
=============================================================================
