\* Refinement of ReactorInterest: three requests, one manager that may close.
CONSTANTS
    Streams <- MCStreams
    Requesters = {r1, r2, r3}
    Managers = {m1}
    Defs <- MCDefs
    WfName <- MCWfName
    Answers <- MCAnswers
    None = None
    MaxRegistrations = 1
    OverlappingRequests = FALSE
    ManagersMayClose = TRUE
    StuckExecutors = {}
SYMMETRY MCSymmetry
SPECIFICATION Spec
PROPERTY ReactorRefinement
CHECK_DEADLOCK FALSE
