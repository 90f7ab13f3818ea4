SPECIFICATION Spec
CONSTANTS
    Users <- ChainUsers
    NoUser = NoUser
    Roots = {}
    MayOwe = {3, 4}
    Price <- ChainPrice
    Parent0 <- ChainParent0
    Moves = {}
    Requests <- OneRequest
    Jobs <- OneCharge
INVARIANTS FailureCostsNothing
