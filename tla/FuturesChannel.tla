--------------------------- MODULE FuturesChannel ---------------------------
(***************************************************************************)
(* WorkflowStepFuturesChannel (mmids-core/src/workflows/steps/            *)
(* futures_channel.rs): the tasks a workflow step spawns through the       *)
(* helpers send_on_unbounded_recv, send_on_unbounded_recv_cancellable,     *)
(* send_on_watch_recv and send_on_future_completion.  Each task loops on a *)
(* tokio::select!; one step of a task is one ready branch taken, and       *)
(* select! picks at random among ready branches, so every ready branch is  *)
(* a disjunct.  The runner owns the step-result and media receivers; the   *)
(* sources, the token and the runner are the environment.                  *)
(***************************************************************************)
EXTENDS Naturals, Sequences, SequencesExt

CONSTANTS
    Tasks,     \* spawned forwarding tasks
    Kind,      \* [Tasks -> TaskKinds]: which helper spawned the task
    Values,    \* message / watch / future values
    MaxSends   \* bound on values each source produces

TaskKinds == {"unbounded", "cancellable", "watch", "future"}
ASSUME Kind \in [Tasks -> TaskKinds] /\ MaxSends \in Nat

MpscTasks == {t \in Tasks : Kind[t] \in {"unbounded", "cancellable"}}
WatchTasks == {t \in Tasks : Kind[t] = "watch"}
FutureTasks == {t \in Tasks : Kind[t] = "future"}

\* StepFutureResultChannel.result of a task: on_recv(message), on_closed(),
\* on_cancelled(), or the future's own result.
Results == [kind : {"recv", "done"}, val : Values] \cup [kind : {"closed", "cancelled"}]

VARIABLES
    alive,      \* the task's loop is still running
    buffer,     \* mpsc tasks: messages queued in the UnboundedReceiver
    sent,       \* history: every value the source sent to the task
    src_open,   \* the source sender (mpsc or watch) is alive
    cancelled,  \* cancellable tasks: the CancellationToken has fired
    version,    \* watch tasks: the watch channel's version
    seen,       \* watch tasks: the version the receiver has marked seen
    ready,      \* future tasks: the future's output, None while pending
    step_rx_open,   \* the runner's StepFutureResultChannel receiver lives
    media_rx_open,  \* the runner's FuturesMediaChannelResult receiver lives
    out         \* per task: the results the runner's receiver got

vars == <<alive, buffer, sent, src_open, cancelled, version, seen, ready,
          step_rx_open, media_rx_open, out>>

Pending == "pending"

TypeOK ==
    /\ alive \in [Tasks -> BOOLEAN]
    /\ buffer \in [Tasks -> Seq(Values)]
    /\ sent \in [Tasks -> Seq(Values)]
    /\ src_open \in [Tasks -> BOOLEAN]
    /\ cancelled \in [Tasks -> BOOLEAN]
    /\ version \in [Tasks -> 0..MaxSends] /\ seen \in [Tasks -> 0..MaxSends]
    /\ ready \in [Tasks -> Values \cup {Pending}]
    /\ step_rx_open \in BOOLEAN /\ media_rx_open \in BOOLEAN
    /\ out \in [Tasks -> Seq(Results)]
    \* at most one result per value sent, plus the end marker
    /\ \A t \in Tasks : Len(out[t]) <= Len(sent[t]) + 1

\* The watch value the receiver borrows: the last one sent.
WatchValue(t) == Last(sent[t])

-----------------------------------------------------------------------------
(* Faults the properties are checked against.                              *)

\* The receiver's None is handled but the loop does not break.
RecvClosedNoBreak(t) ==
    /\ buffer[t] = <<>> /\ ~src_open[t]
    /\ out' = IF step_rx_open THEN [out EXCEPT ![t] = Append(@, [kind |-> "closed"])]
                              ELSE out
    /\ UNCHANGED <<alive, buffer, sent, src_open, cancelled, version, seen,
                   ready, step_rx_open, media_rx_open>>

\* The watch receiver reports the sender's closure before a pending change.
WatchClosedFirst(t) ==
    /\ ~src_open[t]
    /\ out' = IF step_rx_open THEN [out EXCEPT ![t] = Append(@, [kind |-> "closed"])]
                              ELSE out
    /\ alive' = [alive EXCEPT ![t] = FALSE]
    /\ UNCHANGED <<buffer, sent, src_open, cancelled, version, seen, ready,
                   step_rx_open, media_rx_open>>

\* The change is forwarded but the version is not marked seen.
WatchChangedNoMark(t) ==
    /\ version[t] # seen[t]
    /\ out' = IF step_rx_open
              THEN [out EXCEPT ![t] = Append(@, [kind |-> "recv", val |-> Last(sent[t])])]
              ELSE out
    /\ UNCHANGED <<alive, buffer, sent, src_open, cancelled, version, seen, ready,
                   step_rx_open, media_rx_open>>

\* The loop has no channel.closed() branch.
RunnerGoneNever(t) == FALSE

-----------------------------------------------------------------------------
(* Branches of the tasks' select! loops.                                   *)

\* send_step_future_result: the send fails, and the result is dropped,
\* once the runner's receiver is gone (the tasks discard the error).
Deliver(t, result) ==
    out' = IF step_rx_open THEN [out EXCEPT ![t] = Append(@, result)] ELSE out

\* `_ = channel.closed()`: ready when either runner receiver is gone; the
\* loop breaks without sending anything.
RunnerGone(t) ==
    /\ ~step_rx_open \/ ~media_rx_open
    /\ alive' = [alive EXCEPT ![t] = FALSE]
    /\ UNCHANGED <<buffer, sent, src_open, cancelled, version, seen, ready,
                   step_rx_open, media_rx_open, out>>

\* `message = receiver.recv()` returning Some(message): on_recv's result
\* is sent to the runner.
RecvMessage(t) ==
    /\ buffer[t] # <<>>
    /\ Deliver(t, [kind |-> "recv", val |-> Head(buffer[t])])
    /\ buffer' = [buffer EXCEPT ![t] = Tail(@)]
    /\ UNCHANGED <<alive, sent, src_open, cancelled, version, seen, ready,
                   step_rx_open, media_rx_open>>

\* `receiver.recv()` returning None (sender gone, queue drained): on_closed's
\* result is sent and the loop breaks.
RecvClosed(t) ==
    /\ buffer[t] = <<>> /\ ~src_open[t]
    /\ Deliver(t, [kind |-> "closed"])
    /\ alive' = [alive EXCEPT ![t] = FALSE]
    /\ UNCHANGED <<buffer, sent, src_open, cancelled, version, seen, ready,
                   step_rx_open, media_rx_open>>

\* send_on_unbounded_recv: one iteration of its loop.
UnboundedRecvStep(t) ==
    /\ alive[t] /\ Kind[t] = "unbounded"
    /\ RecvMessage(t) \/ RecvClosed(t) \/ RunnerGone(t)

\* `cancellation_token.cancelled()`: on_cancelled's result is sent and the
\* loop breaks, whatever is still queued in the receiver.
TokenCancelled(t) ==
    /\ cancelled[t]
    /\ Deliver(t, [kind |-> "cancelled"])
    /\ alive' = [alive EXCEPT ![t] = FALSE]
    /\ UNCHANGED <<buffer, sent, src_open, cancelled, version, seen, ready,
                   step_rx_open, media_rx_open>>

\* send_on_unbounded_recv_cancellable: one iteration of its loop.
CancellableRecvStep(t) ==
    /\ alive[t] /\ Kind[t] = "cancellable"
    /\ RecvMessage(t) \/ RecvClosed(t) \/ TokenCancelled(t) \/ RunnerGone(t)

\* `receiver.changed()`: Ok while the version differs from the one seen
\* (even after the sender is dropped), then Err once the sender is gone.
\* On Ok the receiver borrows the latest value: intermediate ones are lost.
WatchChanged(t) ==
    /\ version[t] # seen[t]
    /\ seen' = [seen EXCEPT ![t] = version[t]]
    /\ Deliver(t, [kind |-> "recv", val |-> WatchValue(t)])
    /\ UNCHANGED <<alive, buffer, sent, src_open, cancelled, version, ready,
                   step_rx_open, media_rx_open>>

WatchClosed(t) ==
    /\ version[t] = seen[t] /\ ~src_open[t]
    /\ Deliver(t, [kind |-> "closed"])
    /\ alive' = [alive EXCEPT ![t] = FALSE]
    /\ UNCHANGED <<buffer, sent, src_open, cancelled, version, seen, ready,
                   step_rx_open, media_rx_open>>

\* send_on_watch_recv: one iteration of its loop.
WatchRecvStep(t) ==
    /\ alive[t] /\ Kind[t] = "watch"
    /\ WatchChanged(t) \/ WatchClosed(t) \/ RunnerGone(t)

\* send_on_future_completion: the future's result is sent, or the runner
\* is gone first and the future is dropped.
FutureCompletionStep(t) ==
    /\ alive[t] /\ Kind[t] = "future"
    /\ \/ /\ ready[t] # Pending
          /\ Deliver(t, [kind |-> "done", val |-> ready[t]])
          /\ alive' = [alive EXCEPT ![t] = FALSE]
          /\ UNCHANGED <<buffer, sent, src_open, cancelled, version, seen, ready,
                         step_rx_open, media_rx_open>>
       \/ RunnerGone(t)

-----------------------------------------------------------------------------
(* Environment.                                                            *)

\* The source sends a value.  An mpsc or watch send fails once the task,
\* the only receiver, has ended.
SourceSends(t, v) ==
    /\ alive[t] /\ src_open[t] /\ Kind[t] \in {"unbounded", "cancellable", "watch"}
    /\ Len(sent[t]) < MaxSends
    /\ sent' = [sent EXCEPT ![t] = Append(@, v)]
    /\ IF Kind[t] = "watch"
       THEN /\ version' = [version EXCEPT ![t] = @ + 1]
            /\ UNCHANGED buffer
       ELSE /\ buffer' = [buffer EXCEPT ![t] = Append(@, v)]
            /\ UNCHANGED version
    /\ UNCHANGED <<alive, src_open, cancelled, seen, ready, step_rx_open,
                   media_rx_open, out>>

SourceCloses(t) ==
    /\ src_open[t] /\ Kind[t] # "future"
    /\ src_open' = [src_open EXCEPT ![t] = FALSE]
    /\ UNCHANGED <<alive, buffer, sent, cancelled, version, seen, ready,
                   step_rx_open, media_rx_open, out>>

Cancel(t) ==
    /\ Kind[t] = "cancellable" /\ ~cancelled[t]
    /\ cancelled' = [cancelled EXCEPT ![t] = TRUE]
    /\ UNCHANGED <<alive, buffer, sent, src_open, version, seen, ready,
                   step_rx_open, media_rx_open, out>>

FutureCompletes(t, v) ==
    /\ Kind[t] = "future" /\ ready[t] = Pending
    /\ ready' = [ready EXCEPT ![t] = v]
    /\ UNCHANGED <<alive, buffer, sent, src_open, cancelled, version, seen,
                   step_rx_open, media_rx_open, out>>

\* The workflow runner drops one of its receivers.
RunnerDropsStepRx ==
    /\ step_rx_open /\ step_rx_open' = FALSE
    /\ UNCHANGED <<alive, buffer, sent, src_open, cancelled, version, seen,
                   ready, media_rx_open, out>>
RunnerDropsMediaRx ==
    /\ media_rx_open /\ media_rx_open' = FALSE
    /\ UNCHANGED <<alive, buffer, sent, src_open, cancelled, version, seen,
                   ready, step_rx_open, out>>

-----------------------------------------------------------------------------
\* WorkflowStepFuturesChannel::new, then one helper call per task.
Init ==
    /\ alive = [t \in Tasks |-> TRUE]
    /\ buffer = [t \in Tasks |-> <<>>]
    /\ sent = [t \in Tasks |-> <<>>]
    /\ src_open = [t \in Tasks |-> Kind[t] # "future"]
    /\ cancelled = [t \in Tasks |-> FALSE]
    /\ version = [t \in Tasks |-> 0]
    /\ seen = [t \in Tasks |-> 0]
    /\ ready = [t \in Tasks |-> Pending]
    /\ step_rx_open = TRUE /\ media_rx_open = TRUE
    /\ out = [t \in Tasks |-> <<>>]

TaskStep(t) ==
    \/ UnboundedRecvStep(t)
    \/ CancellableRecvStep(t)
    \/ WatchRecvStep(t)
    \/ FutureCompletionStep(t)

Next ==
    \/ \E t \in Tasks : TaskStep(t)
    \/ \E t \in Tasks, v \in Values : SourceSends(t, v)
    \/ \E t \in Tasks : SourceCloses(t) \/ Cancel(t)
    \/ \E t \in Tasks, v \in Values : FutureCompletes(t, v)
    \/ RunnerDropsStepRx \/ RunnerDropsMediaRx

\* tokio polls every spawned task that can make progress.
Spec == Init /\ [][Next]_vars /\ \A t \in Tasks : WF_vars(TaskStep(t))

-----------------------------------------------------------------------------
(* Properties.                                                             *)

ResultValue(r) == IF r.kind = "recv" THEN r.val ELSE r.kind

\* An mpsc forwarding task seen through Forwarder: the runner's results of
\* the task, the task's loop running, and the runner having dropped either
\* receiver (which makes channel.closed() ready).
F(t) == INSTANCE Forwarder WITH
          sent <- sent[t], open <- src_open[t], cancel <- cancelled[t],
          gone <- ~step_rx_open \/ ~media_rx_open,
          out <- [i \in DOMAIN out[t] |-> ResultValue(out[t][i])],
          done <- ~alive[t]

\* send_on_unbounded_recv and send_on_unbounded_recv_cancellable implement
\* Forwarder: the runner gets, in order, a prefix of what the source sent,
\* on_closed only after all of it, on_cancelled only after the token fired,
\* at most one of them and nothing after it; whatever select! picks.
\* (\A t : F(t)!Spec, written with the quantifier inside the box for TLC.)
ForwarderRefinement ==
    /\ \A t \in MpscTasks : F(t)!Init
    /\ [][\A t \in MpscTasks : F(t)!Next \/ UNCHANGED F(t)!vars]_vars

\* send_on_watch_recv: when the runner gets on_closed from a watch task,
\* the value before it is the last value the sender wrote, even if the
\* sender wrote it and was dropped before the task polled again.
WatchLatestSeen ==
    \A t \in WatchTasks :
      LET o == out[t] IN
      o # <<>> /\ Last(o).kind = "closed" /\ sent[t] # <<>> =>
        /\ Len(o) >= 2
        /\ o[Len(o) - 1] = [kind |-> "recv", val |-> Last(sent[t])]

\* Every task ends once its source is closed, its token fired, its future
\* completed or the runner dropped a receiver: no task outlives its use.
EndCondition(t) ==
    \/ ~step_rx_open \/ ~media_rx_open
    \/ Kind[t] # "future" /\ ~src_open[t]
    \/ cancelled[t]
    \/ ready[t] # Pending

TasksTerminate == \A t \in Tasks : EndCondition(t) ~> ~alive[t]

=============================================================================
