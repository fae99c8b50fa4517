SPECIFICATION MCSpec
CONSTANTS
    Ids = {i1, i2}
    NoId = NoId
    Timely = FALSE
    MaxFlips = 1
    Keys = {k1, k2}
    Setter = Setter
    Closer = Closer
    MaxPeers = 5
    Addrs = {a1, a2}
    NoAddr = NoAddr
    Closers = {c1, c2}
    MaxId = 6
    x = x
    y = y
    net = net
    t1 = t1
    t2 = t2
    t3 = t3
    MaxKey = 3
    IPs = {x, y}
    Eps = {1, 2}
    DiffEps = {0, 1}
    Configs <- MCConfigs
    Link <- MCLink
    NoRoute = NoRoute
    Multicast = Multicast
    MaxPartial = 1
    p1 = p1
    p2 = p2
    a = a
    b = b
    Others = {p1, p2}
    Self = Self
    Specs = {Spec1}
    Claims = {a, b}
    Owner <- MCOwner
    AddressClaims = {a}
    Prefixes = {x}
    KeyOf <- MCKeyOf
    Invalid = Invalid
    Nobody = Nobody
    Pending = Pending
    MaxEdits = 2
    MaxFaults = 1
    MaxLag = 1
    Pods = {q1, q2, q3}
    CIDRs = {x, y}
    MaxFails = 2
INVARIANTS
    TickerFollowsStatus
    AccountedOnce
    TablesKept
    DeviceFollows
    DiffImplements
    ClaimsFollowed
    RoutesKept
CHECK_DEADLOCK FALSE
