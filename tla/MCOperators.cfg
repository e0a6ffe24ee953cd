CONSTANTS
    None = None
    q1 = q1
    q2 = q2
    t1 = t1
    t2 = t2
    Requests = {q1, q2}
    Tokens = {t1, t2}
    Users = {"mia"}
    Unknown = "zoe"
    Roles = {"refund_manager"}
    Passwords = {"old", "new"}
    Window = 2
    UserLimit = 1
    GlobalLimit = 2
    SessionLife = 2
    Forget = 1
    MaxWait = 1
    MaxClock = 3
    MaxRequests = 4
    MaxChanges = 1
SPECIFICATION Spec
SYMMETRY Alike
INVARIANTS
    AuthorityEndsWithTheSession
    DisabledAccountsHaveNoSession
    LoginsAreLimited
CHECK_DEADLOCK FALSE
