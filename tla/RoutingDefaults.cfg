SPECIFICATION RoutingSpec
CONSTANTS
    r1 = r1
    u1 = u1  u2 = u2
    Routers = {r1}
    Users <- TwoUsers
    Inbounds <- TwoInbounds
    InboundOf <- OneEach
    Direct = "direct"
    Outbounds = {"A"}
    MaxRoutings = 1
INVARIANT DefaultReachesItsInbounds
CHECK_DEADLOCK FALSE
