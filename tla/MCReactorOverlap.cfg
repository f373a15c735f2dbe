\* Two requests for one stream in flight at once (spec 4.6 edge case).
CONSTANTS
    Streams <- MCStreams
    Requesters = {r1, r2}
    Managers = {m1}
    Defs <- MCDefs
    WfName <- MCWfName
    Answers <- MCAnswers
    None = None
    MaxRegistrations = 2
    OverlappingRequests = TRUE
    ManagersMayClose = FALSE
    StuckExecutors = {}
SPECIFICATION Spec
INVARIANT KeepAliveHonoured
CHECK_DEADLOCK FALSE
