SPECIFICATION FairSpec
CONSTANTS
    Users <- MCUsers
    NoUser = NoUser
    Roots <- MCRoots
    MayOwe = {3}
    Price <- MCPrice
    Parent0 <- MCParent0
    Moves <- MCMoves
    Requests <- MCRequests
    Jobs <- AllJobs
INVARIANTS TypeOK LedgerExplainsBalance RefundsAnswerCharges SuccessStaysPaid
PROPERTIES EveryRequestEnds KeepsBooks
