SPECIFICATION LiveSpec
CONSTANTS
    MaxPrs = 4
    Branches = {b1, b2}
    FirstPerPage = 1
    PageLimit = 3
    PerPage = 1
    Foreign = {3, 4}
    CacheModes = {"enabled"}
    MaxFailures = 1
    NoCache = NoCache
    MaxClock = 5
INVARIANTS TypeOK ListMatchesCache
PROPERTIES OnlyOwnWritesHide ClosedNotRecreated ImplementsView ChangesArrive
