CONSTANTS
    None = None
    p1 = p1
    p2 = p2
    Procs = {p1, p2}
    OrderId = "48319"
    Amounts = {100, 825}
    Large = {825}
    Orders = {"48319", "7"}
    Approvals = {TRUE, FALSE}
    Models = {TRUE, FALSE}
    MaxStarts = 2
SPECIFICATION RefundSpec
SYMMETRY Processes
INVARIANTS
    RefundOnceAsApproved
CHECK_DEADLOCK FALSE
