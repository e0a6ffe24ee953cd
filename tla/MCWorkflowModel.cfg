CONSTANTS
    None = None
    p1 = p1
    p2 = p2
    Procs = {p1, p2}
    OrderId = "48319"
    Amounts = {825}
    Orders = {"48319"}
    Approvals = {FALSE}
    Models = {TRUE, FALSE}
    MaxStarts = 2
SPECIFICATION Spec
SYMMETRY Processes
INVARIANTS
    ModelWorkflowsKeepTheirModel
CHECK_DEADLOCK FALSE
