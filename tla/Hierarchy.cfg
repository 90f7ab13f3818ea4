SPECIFICATION FairSpec
CONSTANTS
    Admins <- MCAdmins
    NoAdmin = NoAdmin
    Known0 <- MCKnown0
    Parent0 <- MCParent0
    Requests <- MCRequests
    Moves <- MCMoves
    Grants <- MCGrants
    Removals <- MCRemovals
INVARIANTS TypeOK Forest WalkAgreesWithTree
PROPERTY ChangesEnd
