SPECIFICATION FairSpec
CONSTANTS
    Branches = {b1}
    Bases = {main}
    DefaultBase = main
    NoSha = NoSha
    NoEntry = NoEntry
    NoWork = NoWork
    RebaseModes = {"behind-base-branch", "never"}
    PlatformCommit = FALSE
    Faults = FALSE
    Authors = {}
    Deletes = TRUE
    ConflictCommits <- FirstConflicts
    MaxBase <- OneMove
    MaxCommits = 3
    MaxWant = 2
INVARIANTS SkippedIsUpToDate
PROPERTIES Converges
