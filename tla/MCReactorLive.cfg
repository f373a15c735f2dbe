\* Liveness of the reactor: callers do not overlap requests for a stream and
\* manager channels stay open (a closing one ends the actor, see
\* MCReactorManagerGone.cfg).  No symmetry: it is unsound with liveness.
CONSTANTS
    Streams <- MCStreams
    Requesters = {r1, r2}
    Managers = {m1}
    Defs <- MCDefs
    WfName <- MCWfName
    Answers <- MCAnswers
    None = None
    MaxRegistrations = 2
    OverlappingRequests = FALSE
    ManagersMayClose = FALSE
    StuckExecutors = {}
SPECIFICATION Spec
PROPERTY RequestAnswered
PROPERTY UnwantedWorkflowReleased
CHECK_DEADLOCK FALSE
