SPECIFICATION Spec
CONSTANTS
    p1 = p1
    p2 = p2
    e1 = e1
    Peers = {p1, p2}
    Endpoints = {e1}
    Owner <- MCOwner
    NoEndpoint = NoEndpoint
PROPERTIES
    ReceiverMovesOn
    SendReturns
CHECK_DEADLOCK FALSE
