SPECIFICATION CheckSpec
CONSTANTS
    Logics = {v1, v2}
    ZeroWord = ZeroWord
    EmptyReply = EmptyReply
    None = None
    MaxBlock = 4
    Proxies <- MCProxies
    LatestTag = LatestTag
    AdminWord = AdminWord
    Elsewhere = Elsewhere
    Unset = Unset
INVARIANTS
    CheckTypeOK
    NothingLost
    OldIsOld
    CurrentIsTarget
PROPERTY Returns
CHECK_DEADLOCK FALSE
