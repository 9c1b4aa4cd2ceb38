SPECIFICATION Spec
CONSTANTS
    Branches = {b1}
    Bases = {main, next}
    DefaultBase = main
    BaseOf <- NotDefault
    Automerge <- AllBranch
    Alerts = {}
    NoHead = NoHead
    NoWork = NoWork
    PrCreation = "immediate"
    PrLimit = 0
    BranchLimit = 0
    HourlyLimit = 0
    CommitLimit = 0
    Faults = FALSE
    LostAnswers = FALSE
    People = {}
    CheckResults = {"green"}
    MaxMoves = 1
    MaxMade = 2
    MaxPushed = 0
    MaxRel = 1
PROPERTIES MergesIntoOwnBase
