CONSTANTS
    Names = {"refund", "lookup", "export", "audit"}
    Invalid = Invalid
    Configured = {"refund", "lookup"}
    Cursors = {"a", "b", "c"}
    Last = Last
    Pages <- MCPages
    MaxTools = 3
    MaxCursors = 2
SPECIFICATION DiscoverySpec
INVARIANTS
    ServesTheMapping
PROPERTIES
    DiscoveryEnds
CHECK_DEADLOCK FALSE
