SPECIFICATION Spec
CONSTANTS
    Branches = {b1, b2, b3}
    Bases = {main}
    DefaultBase = main
    BaseOf <- OneBase
    Automerge <- NoAutomerge
    Alerts = {b3}
    NoHead = NoHead
    NoWork = NoWork
    PrCreation = "immediate"
    PrLimit = 1
    BranchLimit = 2
    HourlyLimit = 1
    CommitLimit = 0
    Faults = FALSE
    LostAnswers = TRUE
    People = {"withdraw", "close"}
    CheckResults = {}
    MaxMoves = 0
    MaxMade = 3
    MaxPushed = 0
    MaxRel = 1
SYMMETRY Symmetry
PROPERTIES WithinLimits
