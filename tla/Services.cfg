SPECIFICATION ServicesSpec
CONSTANTS
    q1 = q1  q2 = q2  router = router
    c0 = c0  c1 = c1  c2 = c2
    a1 = a1  a2 = a2
    p1 = p1  p2 = p2
    u1 = u1  u2 = u2
    boss = boss  child = child  rival = rival  reader = reader
    NoOwner = NoOwner
    Requests <- Actors
    Clients <- AllClients
    Admins <- TwoAdmins
    Parents <- SecondUnderFirst
    Loads <- SmallLoads
    MaxClients = 1
    Routers = {router}
    Users <- TwoUsers
    Inbounds <- TwoInbounds
    InboundOf <- SameInbound
    Direct = "direct"
    Outbounds = {"A"}
    MaxRoutings = 3
    Errands <- Actors
    Staff = {a1}
    Panels = {p1, p2}
    Ports = {1}
    Root = Root
    NoPanel = NoPanel
    MaxErrands = 3
    Rounds <- Actors
    UsageLoads <- FewRounds
    Savers <- Actors
    Prices = {0, 3}
    GbUnit = 2
    MaxConsumed = 3
    MaxSaves = 2
    Resellers <- ThreeResellers
    RootAdmin = RootAdmin
    Nobody = Nobody
    MayBeUnder <- ChildMoves
    Creator <- ByRoot
    SummaryLoads <- FewOperations
    MaxTotal = 3
SYMMETRY Symmetric
INVARIANTS
    ServicesTypeOK
    UndisturbedEdits RotatedKeyStaysDead BilledOnce QuotaOverrunBounded
    FirstChoiceStands
    AnswersAgree RemovedKeepsNothing
    EndsAreTold NoticesAccountedFor
    DebtIsWhatWasAgreed BilledToOne ReportsAddUp
PROPERTIES
    DetachKeepsUsage
CHECK_DEADLOCK FALSE
