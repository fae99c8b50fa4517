SPECIFICATION MCSpec
CONSTANTS
    None = None
    a1 = a1
    a2 = a2
    a3 = a3
    t1 = t1
    t2 = t2
    Tunnels <- MCTunnels
    Nats <- MCNats
    Configs = {c1, c2}
    Callers = {v4, v6}
    MaxChanges = 2
    MaxEdits = 1
    MaxFaults = 1
    MaxLag = 2
INVARIANTS
    NoLostEvent
PROPERTIES
    LastPublished
