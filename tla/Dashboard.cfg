SPECIFICATION Spec
CONSTANTS
    Branches = 3
    Beginnings <- TwoToApprove
    Numbers = {1, 2}
    Autoclose = TRUE
    RebaseAllInRun = FALSE
    MaxTicks = 2
    MaxEvents = 1
    MaxFailures = 1
INVARIANTS TypeOK TicksKept
PROPERTIES TicksAnswered OneDashboard
