SPECIFICATION Spec
CONSTANTS
    Branches = {b1, b2}
    Bases = {main}
    DefaultBase = main
    BaseOf <- OneBase
    Automerge <- OneBranch
    Alerts = {}
    NoHead = NoHead
    NoWork = NoWork
    PrCreation = "not-pending"
    PrLimit = 0
    BranchLimit = 0
    HourlyLimit = 0
    CommitLimit = 1
    Faults = TRUE
    LostAnswers = FALSE
    People = {"push", "merge"}
    CheckResults = {"green"}
    MaxMoves = 0
    MaxMade = 2
    MaxPushed = 2
    MaxRel = 1
INVARIANTS TypeOK CommitsLimited
PROPERTIES MergesFollow SeenEditsNotDeleted
