\* Liveness with an executor that never resolves for r1: the other requests
\* are still answered.  No symmetry (liveness).
CONSTANTS
    Streams <- MCStreams
    Requesters = {r1, r2, r3}
    Managers = {m1}
    Defs <- MCDefs
    WfName <- MCWfName
    Answers <- MCAnswers
    None = None
    MaxRegistrations = 2
    OverlappingRequests = FALSE
    ManagersMayClose = FALSE
    StuckExecutors = {r1}
SPECIFICATION Spec
PROPERTY RequestAnswered
CHECK_DEADLOCK FALSE
