CONSTANTS
    Blank = Blank
    Star = Star
    Wild = Wild
    CelValue <- MCCelValue
    sa = sa
    sb = sb
    t1 = t1
    t2 = t2
    pay = pay
    Roots <- MCRoots
    Drafts <- MCDrafts
    MaxChain = 3
    EnvIds = {1, 2, 3, 4}
    Agents = {"support", "billing"}
    Texts = {"refund", "v1"}
    Names = {"amount", ""}
    Roles = {"manager", "auditor"}
    Segments = {sa, sb}
    Conditions <- MCConditions
    ResourceMaps <- MCResourceMaps
    Tools = {t1, t2, "pay"}
    Categories = {"orders", "customers"}
    Ids <- MCIds
    DataClasses = {pay}
    Arguments <- MCArguments
    Times = {0, 1, 2}
SPECIFICATION Spec
INVARIANTS
    NoAuthorityGained
    NoObligationLost
    RefusalsAreExact
CHECK_DEADLOCK FALSE
