CONSTANTS
    None = None
    Junk = Junk
    c1 = c1
    c2 = c2
    ord1 = ord1
    ord2 = ord2
    Calls = {c1, c2}
    Tools = {"refund", "lookup"}
    Actions = {"refunds.create", "orders.read"}
    Action <- ToolAction
    Ids = {ord1, ord2}
    Values <- Selected
    Protected = {"refunds.create"}
    Approvable <- MCApprovable
    Sent <- MCSent
    MaxApprovals = 1
SPECIFICATION FairSpec
INVARIANTS
    RepliesAreTruthful
    EveryItemWasDecided
PROPERTIES
    PromiseKept
    CallsEnd
CHECK_DEADLOCK FALSE
