SPECIFICATION Spec
CONSTANTS
    Branches = {b1, b2}
    Bases = {main, next}
    DefaultBase = main
    NoSha = NoSha
    NoEntry = NoEntry
    NoWork = NoWork
    RebaseModes = {"conflicted"}
    PlatformCommit = TRUE
    Faults = FALSE
    Authors = {}
    Deletes = FALSE
    ConflictCommits <- FirstConflicts
    MaxBase <- OneMove
    MaxCommits = 1
    MaxWant = 1
SYMMETRY Symmetry
INVARIANTS UsableConflictIsTrue ReusedIsCurrent
