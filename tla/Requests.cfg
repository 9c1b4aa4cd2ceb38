SPECIFICATION MCSpec
CONSTANTS
    Urls = {u1, u2}
    FirstUrl = u1
    RestUrls = {u2}
    Main = main
    Fetchers = {f}
    Promises = {p1, p2, p3}
    Limit = 1
    MaxVersion = 1
    MaxCalls = 3
    MaxFailures = 1
    Items = 6
    MaxSize = 5
    MinTagsSize = 1
    QueryLimit = 3
    Wanted = 7
    MaxErrors = 4
    MaxMidnights = 1
    GivesCursors = FALSE
INVARIANTS PartsTypeOK SentOnce ListedInFull ListsBounded
PROPERTIES ReadsForward CallsReturn FailuresForgotten SizeRecovers
