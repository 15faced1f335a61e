SPECIFICATION Spec
CONSTANTS
    logic = logic
    beacon = beacon
    sl = sl
    Self = Self
    Others = {logic, beacon}
    Outside = Outside
    Slots = {sl}
    Zero = Zero
    Junk = Junk
    Input = Input
    Nothing = Nothing
    Worlds <- MCWorlds
    Storages <- MCStorages
    MaxDepth = 4
    MaxChanges = 1
INVARIANTS
    TypeOK
    ContextIsEvms
    DelegatesRecorded
    StorageRemembered
PROPERTY Ends
CHECK_DEADLOCK FALSE
