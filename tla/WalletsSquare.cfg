SPECIFICATION FairSpec
CONSTANTS
    Users <- SquareUsers
    NoUser = NoUser
    Roots <- SquareRoots
    MayOwe = {}
    Price <- SquarePrice
    Parent0 <- SquareParent0
    Moves = {}
    Requests <- SquareRequests
    Jobs <- SquareJobs
INVARIANTS ChargesAreLocked FailureCostsNothing SetIsIsolated
