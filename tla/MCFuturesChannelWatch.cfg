\* The watch and future helpers, two values, three watch sends (so changes coalesce).
CONSTANTS
    Tasks <- MCOtherTasks
    Kind <- MCKind
    Values = {v1, v2}
    MaxSends = 3
SPECIFICATION Spec
INVARIANT TypeOK
INVARIANT WatchLatestSeen
PROPERTY TasksTerminate
CHECK_DEADLOCK FALSE
