SPECIFICATION Spec
CONSTANTS
    Branches = {b1}
    Bases = {main}
    DefaultBase = main
    NoSha = NoSha
    NoEntry = NoEntry
    NoWork = NoWork
    RebaseModes = {"behind-base-branch"}
    PlatformCommit = FALSE
    Faults = TRUE
    Authors = {"user"}
    Deletes = TRUE
    ConflictCommits <- SecondConflicts
    MaxBase <- TwoMoves
    MaxCommits = 3
    MaxWant = 1
INVARIANTS TypeOK UnmodifiedIsTrue UsableBehindIsTrue
PROPERTIES SeenEditsKept
