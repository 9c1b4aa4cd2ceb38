SPECIFICATION FairSpec
CONSTANTS
    Branches = {b1, b2}
    Bases = {main}
    DefaultBase = main
    BaseOf <- OneBase
    Automerge <- OneBranch
    Alerts = {}
    NoHead = NoHead
    NoWork = NoWork
    PrCreation = "immediate"
    PrLimit = 1
    BranchLimit = 1
    HourlyLimit = 1
    CommitLimit = 1
    Faults = FALSE
    LostAnswers = TRUE
    People = {"release"}
    CheckResults = {"green", "red"}
    MaxMoves = 3
    MaxMade = 9
    MaxPushed = 0
    MaxRel = 2
PROPERTIES AutomergesHappen
