SPECIFICATION SpawnSpec
CONSTANTS
    Name = {"shim", "w"}
    Sig = {"s", "t"}
    Helper <- MCHelper
    HelperName <- MCHelperName
    HelperSig <- MCHelperSig
    ProcessSymbol = {}
    ArchKnown = FALSE
    BuildLinkage = {"Export"}
    MaxEffort = 2
    MaxDepth = 1
    Shim = {"shim"}
    CallId = {c1, c2}
    Old = old
    PoolSize = 2
INVARIANTS
    SpawnTypeOK
    HandedBackWhole
    CodeOutlivesCalls
    NoOrphan
    NeverStuck
PROPERTIES
    ExhaustedForGood
    BuildEnds
    CallsEnd
CHECK_DEADLOCK FALSE
