SPECIFICATION Spec
CONSTANTS
    Logics = {v1, v2}
    ZeroWord = ZeroWord
    EmptyReply = EmptyReply
    None = None
    MaxBlock = 5
INVARIANT AllHistoricalLogics
CHECK_DEADLOCK FALSE
