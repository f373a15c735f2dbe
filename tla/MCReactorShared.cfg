\* The executor resolves the two streams to workflows of the same name.
CONSTANTS
    Streams <- MCStreams
    Requesters = {r1, r2}
    Managers = {m1}
    Defs <- MCDefs
    WfName <- MCWfName
    Answers <- MCAnswersShared
    None = None
    MaxRegistrations = 2
    OverlappingRequests = FALSE
    ManagersMayClose = FALSE
    StuckExecutors = {}
SPECIFICATION Spec
INVARIANT ManagerMirrorsCache
CHECK_DEADLOCK FALSE
