------------------------------ MODULE Forwarder ------------------------------
(***************************************************************************)
(* What a forwarding task of WorkflowStepFuturesChannel promises the       *)
(* workflow runner, for one source channel: the runner sees a prefix of    *)
(* what the source sent, in order, then at most one end marker ("closed"   *)
(* only once everything sent was forwarded, "cancelled" only after the     *)
(* token fired), and nothing after the task has ended.  The task may end   *)
(* silently only once the runner has dropped a receiver.                   *)
(***************************************************************************)
EXTENDS Naturals, Sequences

CONSTANT Values

VARIABLES
    sent,    \* what the source sender has sent, in order
    open,    \* the source sender is alive
    cancel,  \* the cancellation token has fired
    gone,    \* the runner has dropped one of its receivers
    out,     \* what the runner has received from this task
    done     \* the task has ended

vars == <<sent, open, cancel, gone, out, done>>

Init ==
    /\ sent = <<>> /\ out = <<>>
    /\ open = TRUE /\ cancel = FALSE /\ gone = FALSE /\ done = FALSE

\* Environment.
Produce(v) ==
    /\ ~done /\ open
    /\ sent' = Append(sent, v)
    /\ UNCHANGED <<open, cancel, gone, out, done>>
CloseSource == open /\ open' = FALSE /\ UNCHANGED <<sent, cancel, gone, out, done>>
Cancel == ~cancel /\ cancel' = TRUE /\ UNCHANGED <<sent, open, gone, out, done>>
Gone == ~gone /\ gone' = TRUE /\ UNCHANGED <<sent, open, cancel, out, done>>

\* The task.
Forward ==
    /\ ~done
    /\ Len(out) < Len(sent)
    /\ out' = Append(out, sent[Len(out) + 1])
    /\ UNCHANGED <<sent, open, cancel, gone, done>>

FinishClosed ==
    /\ ~done /\ ~open
    /\ out = sent
    /\ out' = Append(out, "closed")
    /\ done' = TRUE
    /\ UNCHANGED <<sent, open, cancel, gone>>

FinishCancelled ==
    /\ ~done /\ cancel
    /\ out' = Append(out, "cancelled")
    /\ done' = TRUE
    /\ UNCHANGED <<sent, open, cancel, gone>>

Stop ==
    /\ ~done /\ gone
    /\ done' = TRUE
    /\ UNCHANGED <<sent, open, cancel, gone, out>>

Next ==
    \/ \E v \in Values : Produce(v)
    \/ CloseSource \/ Cancel \/ Gone
    \/ Forward \/ FinishClosed \/ FinishCancelled \/ Stop

Spec == Init /\ [][Next]_vars

=============================================================================
