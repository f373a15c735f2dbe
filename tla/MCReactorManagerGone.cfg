\* A workflow manager channel closes while requests are being served.
CONSTANTS
    Streams <- MCStreams
    Requesters = {r1, r2}
    Managers = {m1}
    Defs <- MCDefs
    WfName <- MCWfName
    Answers <- MCAnswers
    None = None
    MaxRegistrations = 2
    OverlappingRequests = FALSE
    ManagersMayClose = TRUE
    StuckExecutors = {}
SPECIFICATION Spec
PROPERTY RequestAnswered
CHECK_DEADLOCK FALSE
