CONSTANTS
    None = None
    Children <- MCChildren
    Packets = {"ping", "binding", "other"}
    Filter <- MCFilter
    Cap = 1
    Late = 1
    Bufs = {b1, b2, b3, b4, b5}
    Ifaces = {eth0}
    Recvs = {r1, r2}
    MaxIndex = 2
    MaxFails = 1
    MaxMoves = 1
SPECIFICATION MCSpec
INVARIANTS
    ReadIntact
    NeverBusy
    NoLostChange
    PanicsLate
PROPERTIES
    EventuallyReceiving
    CloseStops
CHECK_DEADLOCK FALSE
