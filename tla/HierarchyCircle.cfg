SPECIFICATION Spec
CONSTANTS
    Admins <- MCAdmins
    NoAdmin = NoAdmin
    Known0 <- MCKnown0
    Parent0 <- UnderTwo
    Requests <- MCRequests
    Moves <- CircleMoves
    Grants <- CircleGrants
    Removals = {}
INVARIANT Forest
