SPECIFICATION Spec
CONSTANTS
    Logics = {v1, v2}
    ZeroWord = ZeroWord
    EmptyReply = EmptyReply
    None = None
    MaxBlock = 6
INVARIANTS
    SearchInvariant
    ChangesAreReal
    CompleteUnlessReused
    EndsWithCurrent
    QueriesBounded
PROPERTIES
    Terminates
    KeepsPromise
CHECK_DEADLOCK FALSE
