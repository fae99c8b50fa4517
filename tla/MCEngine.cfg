SPECIFICATION MCSpec
CONSTANTS
    p1 = p1
    p2 = p2
    a1 = a1
    a2 = a2
    Peers = {p1, p2}
    Answering = {}
    Addrs = {a1, a2}
    OwnAddrs = {a1, a2}
    Configs <- MCThreeConfigs
    Absent = Absent
    None = None
    MaxConfigs = 4
INVARIANTS
    NoLostReconfig
PROPERTIES
    EventuallyInUse
    NATAvoided
CHECK_DEADLOCK FALSE
