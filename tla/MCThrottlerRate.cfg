SPECIFICATION Spec
CONSTANTS
    w1 = w1  w2 = w2
    Workers = {w1, w2}
    Nobody = Nobody
    Interval = 2
    Rate = 1
    FetchRetry = 2
    AlarmsAt = {"acquire", "elapsed", "logged", "set", "sleep", "release", "request"}
    Downloads <- ThreeEach
    MaxAlarms = 1
    MaxLag = 4
INVARIANT RateLimited
CHECK_DEADLOCK FALSE
