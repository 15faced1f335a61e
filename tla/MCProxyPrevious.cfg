SPECIFICATION CheckSpec
CONSTANTS
    Logics = {v1, v2}
    ZeroWord = ZeroWord
    EmptyReply = EmptyReply
    None = None
    MaxBlock = 4
    Proxies <- SlotProxies
    LatestTag = LatestTag
    AdminWord = AdminWord
    Elsewhere = Elsewhere
    Unset = Unset
INVARIANT PreviousArePrevious
CHECK_DEADLOCK FALSE
