SPECIFICATION MCSpec
CONSTANTS
    Byte = {0, 1}
    ZeroByte = 0
    WordSize = 2
    Offsets = {}
    Lengths = {0, 3}
    Sources <- MCSources
    MaxLength = 5
    ByteBits = 2
    WordBytes = 2
    MaxBits = 12
    Codes = {}
    Table <- MCTable
    StackLimit = 3
    Checks <- MCChecks
    TypeLists = {}
    Names <- MCNames
    Downloads <- NoDownloads
    Files <- NoFiles
    Upgrades <- NoUpgrades
    Initializers = {}
    Identified <- NothingIdentified
    Functions = {}
    FlowGraphs = {}
    Address = {a, b, c}
    Missing = Missing
    MaxLogics = 0
    MaxRuns = 0
INVARIANT WrittenSlotsRight
CHECK_DEADLOCK FALSE
