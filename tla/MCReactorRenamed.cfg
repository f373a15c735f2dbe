\* The executor resolves s1 to definitions with different names.
CONSTANTS
    Streams <- MCStreams
    Requesters = {r1, r2}
    Managers = {m1}
    Defs <- MCDefs
    WfName <- MCWfName
    Answers <- MCAnswersRenamed
    None = None
    MaxRegistrations = 2
    OverlappingRequests = FALSE
    ManagersMayClose = FALSE
    StuckExecutors = {}
SPECIFICATION Spec
INVARIANT ManagerMirrorsCache
CHECK_DEADLOCK FALSE
