SPECIFICATION MCSpec
CONSTANTS
    Byte = {0, 1}
    ZeroByte = 0
    WordSize = 2
    Offsets = {0, 1, 3}
    Lengths = {0, 3}
    Sources <- MCSources
    MaxLength = 5
    ByteBits = 2
    WordBytes = 2
    MaxBits = 12
    Codes <- MCCodes
    Table <- MCTable
    StackLimit = 3
    Checks <- MCChecks
    TypeLists <- MCTypeLists
    Names <- MCNames
    Downloads <- MCDownloads
    Files <- MCFiles
    Upgrades <- MCUpgrades
    Initializers <- MCInitializers
    Identified <- MCIdentified
    Functions <- MCFunctions
    FlowGraphs <- MCFlowGraphs
    Address = {a, b, c}
    Missing = Missing
    MaxLogics = 3
    MaxRuns = 2
INVARIANTS
    InstructionsRight
    ControlFlowRight
    ReadSlotsRight
    ImportsFound
    FormattedRight
    LayoutsRight
    UpgradesReported
    InitializersChecked
    FlowRight
    DominatorsRight
    SourcesRight
    VersionsCompared
PROPERTY RegularStepsAgree
CHECK_DEADLOCK FALSE
SYMMETRY Symmetry
