CONSTANTS
    Blank = Blank
    Star = Star
    Wild = Wild
    CelValue <- MCCelValue
    e1 = e1
    e2 = e2
    e3 = e3
    o1 = o1
    o2 = o2
    EnvIds = {e1, e2}
    RunIds = {"r1"}
    Agents = {"user", "support", "billing"}
    Texts = {"refund", "v1"}
    Categories = {"orders"}
    Tools = {"refunds.create"}
    DataClasses = {"payment", "secrets"}
    Roles = {"refund_manager"}
    Segments = {o1, o2}
    Conditions <- MCConditions
    Names = {"amount", ""}
    ResourceMaps <- MCResourceMaps
    ColonCategories = {}
    Arguments <- MCArguments
    Operators = {"mia", "vic"}
    Managers = {"mia"}
    RefundTool = "refunds.create"
    OrderCategory = "orders"
    ManagerRole = "refund_manager"
    AllowDemoApprovals = TRUE
    MaxRootDepth = 2
    MaxChain = 3
    MaxAmount = 10
    RootDrafts <- ApprovalRoots
    ChildDrafts <- ApprovalDrafts
    ApprovalRequests <- ApprovalAsks
    ActionRequests <- ApprovalActions
    MaxClock = 1
    MaxHandoffs = 1
    MaxApprovals = 2
    MaxActions = 2
SPECIFICATION Spec
SYMMETRY Ids
INVARIANTS
    ObligationsOfEveryAncestorAreMet
    OneExecutionPerApprovedOperation
PROPERTIES
    ApprovalsKeepTheirPromise
CHECK_DEADLOCK FALSE
