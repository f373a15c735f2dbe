\* The two mpsc helpers, two values, two sends per source.
CONSTANTS
    Tasks <- MCMpscTasks
    Kind <- MCKind
    Values = {v1, v2}
    MaxSends = 2
SPECIFICATION Spec
PROPERTY ForwarderRefinement
PROPERTY TasksTerminate
CHECK_DEADLOCK FALSE
