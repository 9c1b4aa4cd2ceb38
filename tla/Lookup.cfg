SPECIFICATION Spec
CONSTANTS
    Versions <- SomeVersions
    Allowed <- SomeVersions
    Configs <- SomeConfigs
    FirstPublished <- Old
    FirstValues <- OldValues
    MaxEvents = 2
INVARIANTS TypeOK
PROPERTIES Settles NeverDown StrictDoesNotFlap
CHECK_DEADLOCK FALSE
