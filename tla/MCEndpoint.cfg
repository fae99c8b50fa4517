SPECIFICATION MCSpec
CONSTANTS
    Values = {v0, v1, v2}
    Zero = v0
    Subscribers = {s1, s2}
    MaxSets = 3
    Ids = {i1, i2}
    NoId = NoId
    MaxFlips = 2
INVARIANTS
    SleepsInformed
    ReportsChanges
    ResetTakesEffect
PROPERTIES
    ToldOrDone
    KeepsTicking
    FollowsNetwork
    CloseStops
CHECK_DEADLOCK FALSE
