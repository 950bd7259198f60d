SPECIFICATION Spec
CONSTANTS
    Name = {"k", "h"}
    Sig = {"s", "t"}
    Helper <- MCHelper
    HelperName <- MCHelperName
    HelperSig <- MCHelperSig
    ProcessSymbol = {"h"}
    ArchKnown = TRUE
    BuildLinkage = {"Import", "Export"}
    MaxEffort = 4
    MaxDepth = 2
INVARIANTS
    TypeOK
    AnswerTruthful
    FinalizeSafe
    CallsAgree
PROPERTIES
    NothingTakenBack
CHECK_DEADLOCK FALSE
