SPECIFICATION MCSpec
CONSTANTS
    Endpoints = {f1, f2}
    MaxRTT = 2
    NoEndpoint = NoEndpoint
    Pods = {q1, q2}
    IPs = {a4, a6}
    MaxFails = 2
INVARIANTS
    HostShielded
PROPERTIES
    FastestUsed
    AddsSucceed
CHECK_DEADLOCK FALSE
