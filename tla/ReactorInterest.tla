---------------------------- MODULE ReactorInterest ----------------------------
(***************************************************************************)
(* What the reactor promises its requesters, without its futures, channels *)
(* or counters (spec sections 3, 4.2 and 4.6).  A requester asks for a     *)
(* stream and gets one answer: a workflow name, "no workflow", or a        *)
(* dropped reply channel.  A requester told a name holds the stream; the   *)
(* stream keeps a definition exactly while it has holders, the definition  *)
(* is the one last granted, and a holder lets go only after it closed its  *)
(* keep-alive.  A new request for a stream may cancel the pending one for  *)
(* that stream; when the reactor stops, every pending reply is dropped at  *)
(* once.                                                                   *)
(***************************************************************************)

CONSTANTS Streams, Requesters, Defs, WfName, None

VARIABLES
    live,     \* the reactor is running
    asked,    \* requester -> stream it asked for, or None
    answer,   \* requester -> "waiting", "dropped", "no_workflow" or a name
    keep,     \* requester -> its keep-alive is open
    holders,  \* stream -> requesters holding it
    def       \* stream -> the definition kept for it, or None

vars == <<live, asked, answer, keep, holders, def>>

Waiting(s) == {q \in Requesters : asked[q] = s /\ answer[q] = "waiting"}

Init ==
    /\ live = TRUE
    /\ asked = [r \in Requesters |-> None]
    /\ answer = [r \in Requesters |-> "waiting"]
    /\ keep = [r \in Requesters |-> TRUE]
    /\ holders = [s \in Streams |-> {}]
    /\ def = [s \in Streams |-> None]

\* r asks for s; at most one pending request for s loses its reply.
Ask(r, s) ==
    /\ live /\ asked[r] = None
    /\ asked' = [asked EXCEPT ![r] = s]
    /\ \/ UNCHANGED answer
       \/ \E q \in Waiting(s) : answer' = [answer EXCEPT ![q] = "dropped"]
    /\ UNCHANGED <<live, keep, holders, def>>

\* r is told the name of d and holds its stream, which now keeps d.
Grant(r, d) ==
    LET s == asked[r] IN
    /\ live /\ r \in Waiting(s)
    /\ answer' = [answer EXCEPT ![r] = WfName[d]]
    /\ holders' = [holders EXCEPT ![s] = @ \cup {r}]
    /\ def' = [def EXCEPT ![s] = d]
    /\ UNCHANGED <<live, asked, keep>>

Decline(r) ==
    /\ live /\ r \in Waiting(asked[r])
    /\ answer' = [answer EXCEPT ![r] = "no_workflow"]
    /\ UNCHANGED <<live, asked, keep, holders, def>>

Close(r) ==
    /\ asked[r] # None /\ keep[r]
    /\ keep' = [keep EXCEPT ![r] = FALSE]
    /\ UNCHANGED <<live, asked, answer, holders, def>>

\* A holder whose keep-alive closed lets go; the last one takes the
\* definition with it.
Release(r) ==
    LET s == asked[r] IN
    /\ live /\ s # None /\ r \in holders[s] /\ ~keep[r]
    /\ holders' = [holders EXCEPT ![s] = @ \ {r}]
    /\ def' = [def EXCEPT ![s] = IF holders'[s] = {} THEN None ELSE @]
    /\ UNCHANGED <<live, asked, answer, keep>>

Stop ==
    /\ live
    /\ live' = FALSE
    /\ answer' = [r \in Requesters |->
                    IF answer[r] = "waiting" /\ asked[r] # None
                    THEN "dropped" ELSE answer[r]]
    /\ UNCHANGED <<asked, keep, holders, def>>

Next ==
    \/ \E r \in Requesters, s \in Streams : Ask(r, s)
    \/ \E r \in Requesters, d \in Defs : Grant(r, d)
    \/ \E r \in Requesters : Decline(r) \/ Close(r) \/ Release(r)
    \/ Stop

Spec == Init /\ [][Next]_vars

=============================================================================
