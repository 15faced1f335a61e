SPECIFICATION Spec
CONSTANTS
    w1 = w1  w2 = w2
    Workers = {w1, w2}
    Nobody = Nobody
    Interval = 2
    Rate = 1
    FetchRetry = 1
    AlarmsAt = {"acquire", "elapsed", "logged", "set", "sleep", "release", "request"}
    Downloads <- TwoAndOne
    MaxAlarms = 2
    MaxLag = 2
INVARIANTS
    TypeOK
    Spacing
    LockUsedRight
PROPERTY AllServed
CHECK_DEADLOCK FALSE
