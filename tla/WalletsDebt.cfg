SPECIFICATION Spec
CONSTANTS
    Users <- DebtUsers
    NoUser = NoUser
    Roots = {}
    MayOwe = {3}
    Price <- DebtPrice
    Parent0 <- DebtParent0
    Moves = {}
    Requests <- DebtRequests
    Jobs <- DebtJobs
INVARIANTS FailureCostsNothing
