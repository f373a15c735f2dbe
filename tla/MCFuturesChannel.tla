-------------------------- MODULE MCFuturesChannel --------------------------
(* Tasks sharing one WorkflowStepFuturesChannel, each named after the      *)
(* helper that spawned it.  The tasks only share the runner's receivers,   *)
(* so the mpsc helpers and the watch/future helpers are checked in two     *)
(* runs.                                                                   *)
EXTENDS FuturesChannel

MCMpscTasks == {"unbounded", "cancellable"}
MCOtherTasks == {"watch", "future"}
MCKind == [t \in Tasks |-> t]
=============================================================================
