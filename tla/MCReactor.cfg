\* Safety of the reactor: callers do not overlap requests for a stream,
\* manager channels may close (ending the actor, as the code does).
CONSTANTS
    Streams <- MCStreams
    Requesters = {r1, r2, r3}
    Managers = {m1, m2}
    Defs <- MCDefs
    WfName <- MCWfName
    Answers <- MCAnswers
    None = None
    MaxRegistrations = 2
    OverlappingRequests = FALSE
    ManagersMayClose = TRUE
    StuckExecutors = {}
SPECIFICATION Spec
SYMMETRY MCSymmetry
INVARIANT TypeOK
INVARIANT RefcountMatchesWatchers
INVARIANT KeepAliveHonoured
INVARIANT ManagerMirrorsCache
CHECK_DEADLOCK FALSE
