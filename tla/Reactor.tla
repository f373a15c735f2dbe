------------------------------- MODULE Reactor -------------------------------
(***************************************************************************)
(* The reactor actor of mmids-core (src/mmids-core/src/reactors/reactor.rs)*)
(* and the collaborators it talks to: requesters, the executor, the event  *)
(* hub and the workflow managers.                                          *)
(*                                                                         *)
(* The actor is a single loop over a FuturesUnordered; each step of this   *)
(* module that the actor takes is one iteration of that loop: one future   *)
(* completes and its handler runs to completion.  The futures are modelled *)
(* by the sets executing (wait_for_executor_response), watching            *)
(* (notify_when_keep_alive_closed) and gone_watchers                        *)
(* (notify_workflow_manager_gone).  A request or a manager event is sent   *)
(* and received in one step: the loop re-arms wait_for_request and          *)
(* wait_for_workflow_manager_event after every message, so these channels  *)
(* only add delay, which the interleaving already covers.                  *)
(***************************************************************************)
EXTENDS Naturals, Sequences, FiniteSets, SequencesExt, Functions, TLC

CONSTANTS
    Streams,        \* stream names requests are made for
    Requesters,     \* one requester per request: its reply and keep-alive channel
    Managers,       \* workflow manager channels the event hub may announce
    Defs,           \* workflow definitions the executor may produce
    WfName,         \* [Defs -> names]: the definition's `name` field
    Answers,        \* [Streams -> SUBSET Defs]: what the executor may resolve to
    None,           \* Option::None
    MaxRegistrations,     \* bound on WorkflowManagerRegistered events
    OverlappingRequests,  \* may a caller request a stream that is still pending?
    ManagersMayClose,     \* may a workflow manager channel close?
    StuckExecutors        \* requesters whose executor future never resolves

ASSUME DOMAIN WfName = Defs
ASSUME Answers \in [Streams -> SUBSET Defs]
ASSUME MaxRegistrations \in Nat
ASSUME OverlappingRequests \in BOOLEAN /\ ManagersMayClose \in BOOLEAN
ASSUME StuckExecutors \subseteq Requesters

Names == {WfName[d] : d \in Defs}

\* What a requester has seen on its reply channel.
ReplyStates == {"waiting", "dropped", "no_workflow"} \cup Names
Answered == {"no_workflow"} \cup Names

\* WorkflowManagerRequest operations (request ids are diagnostics only).
Msgs == [op : {"upsert"}, def : Defs] \cup [op : {"stop"}, name : Names]

VARIABLES
    stopped_by,        \* "none" while the run loop is alive, else why it broke
    active_requests,   \* Actor.active_requests: stream -> reply sender
    executing,         \* requesters with a wait_for_executor_response future
    watching,          \* requesters with a notify_when_keep_alive_closed future
    cached_workflows,  \* Actor.cached_workflows: stream -> CachedWorkflow
    workflow_manager,  \* Actor.workflow_manager
    gone_watchers,     \* managers with a notify_workflow_manager_gone future
    registrations,     \* WorkflowManagerRegistered events so far
    requested,         \* requester -> stream it asked for (None before)
    reply,             \* requester -> what its reply channel delivered
    keep_alive_open,   \* requester -> is its keep-alive sender alive
    manager_open,      \* manager -> is its request receiver alive
    mgr_inbox,         \* manager -> requests sent and not yet applied
    mgr_running        \* manager -> definitions it runs

actor_vars == <<stopped_by, active_requests, executing, watching,
                cached_workflows, workflow_manager, gone_watchers, registrations>>
env_vars == <<requested, reply, keep_alive_open, manager_open, mgr_inbox, mgr_running>>
vars == <<actor_vars, env_vars>>

Running == stopped_by = "none"

CachedWorkflow == [definition : Defs, keep_alive_count : Nat \ {0}]

TypeOK ==
    /\ stopped_by \in {"none", "consumers_gone", "event_hub_gone", "manager_gone"}
    /\ active_requests \in [Streams -> Requesters \cup {None}]
    /\ executing \subseteq Requesters /\ watching \subseteq Requesters
    /\ DOMAIN cached_workflows \subseteq Streams
    /\ \A s \in DOMAIN cached_workflows : cached_workflows[s] \in CachedWorkflow
    /\ workflow_manager \in Managers \cup {None}
    /\ gone_watchers \subseteq Managers
    /\ registrations \in 0..MaxRegistrations
    /\ requested \in [Requesters -> Streams \cup {None}]
    /\ reply \in [Requesters -> ReplyStates]
    /\ keep_alive_open \in [Requesters -> BOOLEAN]
    /\ manager_open \in [Managers -> BOOLEAN]
    /\ mgr_inbox \in [Managers -> Seq(Msgs)]
    /\ mgr_running \in [Managers -> SUBSET Defs]

-----------------------------------------------------------------------------
(* Faults the properties are checked against: each is a plausible slip in  *)
(* the handler it stands in for (see "mutants" in PROJECT.json).           *)

\* The existing entry gets the new definition but its count is not bumped.
BumpNoIncrement(cache, s, d) ==
    IF s \in DOMAIN cache
    THEN [cache EXCEPT ![s].definition = d]
    ELSE cache @@ (s :> [definition |-> d, keep_alive_count |-> 1])

\* The entry is removed on the first closed keep-alive, whatever its count.
ReleaseAlwaysRemoves(cache, s) == [x \in DOMAIN cache \ {s} |-> cache[x]]

\* The count is decremented but the entry is never removed at zero.
ReleaseNeverRemoves(cache, s) == [cache EXCEPT ![s].keep_alive_count = @ - 1]

-----------------------------------------------------------------------------
(* Helpers of the handlers.                                                *)

\* UnboundedSender::send: delivered while the receiver lives, else the
\* error is discarded (`let _ = ...send(...)`).
Send(inbox, m, msg) ==
    IF m # None /\ manager_open[m] THEN [inbox EXCEPT ![m] = Append(@, msg)]
                                   ELSE inbox

\* handle_executor_response's cache update: replace the definition and
\* count one more keep-alive, or insert with a count of 1.
Bump(cache, s, d) ==
    IF s \in DOMAIN cache
    THEN [cache EXCEPT ![s] = [definition |-> d,
                               keep_alive_count |-> @.keep_alive_count + 1]]
    ELSE cache @@ (s :> [definition |-> d, keep_alive_count |-> 1])

\* handle_keep_alive_closed's cache update: one keep-alive fewer, the
\* entry removed when none is left.
Release(cache, s) ==
    IF cache[s].keep_alive_count = 1
    THEN [x \in DOMAIN cache \ {s} |-> cache[x]]
    ELSE [cache EXCEPT ![s].keep_alive_count = @ - 1]

\* Fault: the reply is never sent (the sender is just dropped later).
AnswerLost(s, v) == UNCHANGED reply

\* `channel.send(..)` on the reply sender taken from active_requests.
Answer(s, v) == reply' = [reply EXCEPT ![active_requests[s]] = v]

\* When the count reaches zero, a stop for the cached definition's name goes
\* to the current manager.
StopOnZero(s) ==
    IF cached_workflows[s].keep_alive_count = 1
    THEN Send(mgr_inbox, workflow_manager,
              [op |-> "stop", name |-> WfName[cached_workflows[s].definition]])
    ELSE mgr_inbox

\* Fault: the new channel becomes current but the cache is not replayed.
ReplayNothing(m) == UNCHANGED mgr_inbox

\* The catch-up: every cached definition upserted to the new channel, in
\* HashMap order (so any order).
Replay(m) ==
    \E order \in SetToSeqs(DOMAIN cached_workflows) :
      mgr_inbox' =
        IF manager_open[m]
        THEN [mgr_inbox EXCEPT ![m] = @ \o
                [i \in 1..Len(order) |->
                   [op |-> "upsert", def |-> cached_workflows[order[i]].definition]]]
        ELSE mgr_inbox

\* The run loop breaks: the actor and every future it owns are dropped.
\* Reply senders still in active_requests are dropped with it.
ActorExit(reason) ==
    /\ stopped_by' = reason
    /\ reply' = [r \in Requesters |->
                    IF r \in Range(active_requests) THEN "dropped" ELSE reply[r]]
    /\ UNCHANGED <<active_requests, executing, watching, cached_workflows,
                   workflow_manager, gone_watchers, registrations,
                   requested, keep_alive_open, manager_open, mgr_inbox, mgr_running>>

-----------------------------------------------------------------------------
Init ==
    /\ stopped_by = "none"
    /\ active_requests = [s \in Streams |-> None]
    /\ executing = {}
    /\ watching = {}
    /\ cached_workflows = <<>>
    /\ workflow_manager = None
    /\ gone_watchers = {}
    /\ registrations = 0
    /\ requested = [r \in Requesters |-> None]
    /\ reply = [r \in Requesters |-> "waiting"]
    /\ keep_alive_open = [r \in Requesters |-> TRUE]
    /\ manager_open = [m \in Managers |-> TRUE]
    /\ mgr_inbox = [m \in Managers |-> <<>>]
    /\ mgr_running = [m \in Managers |-> {}]

\* A stream some requester still waits on (the caller discipline that the
\* runs with OverlappingRequests = FALSE assume).
Outstanding(s) == \E r \in Requesters : requested[r] = s /\ reply[r] = "waiting"

\* RequestReceived -> handle_request: the reply sender replaces whatever is
\* in active_requests (the replaced sender is dropped) and an executor
\* future is pushed, holding the keep-alive receiver.
RequestReceived(r, s) ==
    /\ Running
    /\ requested[r] = None
    /\ OverlappingRequests \/ ~Outstanding(s)
    /\ requested' = [requested EXCEPT ![r] = s]
    /\ active_requests' = [active_requests EXCEPT ![s] = r]
    /\ reply' = IF active_requests[s] # None
                THEN [reply EXCEPT ![active_requests[s]] = "dropped"]
                ELSE reply
    /\ executing' = executing \cup {r}
    /\ UNCHANGED <<stopped_by, watching, cached_workflows, workflow_manager,
                   gone_watchers, registrations, keep_alive_open, manager_open,
                   mgr_inbox, mgr_running>>

\* ExecutorResponseReceived with no active request for the stream: logged,
\* and the keep-alive receiver the future carried is dropped unwatched.
ExecutorResponseOrphan(r) ==
    /\ Running
    /\ r \in executing
    /\ active_requests[requested[r]] = None
    /\ executing' = executing \ {r}
    /\ UNCHANGED <<stopped_by, active_requests, watching, cached_workflows,
                   workflow_manager, gone_watchers, registrations, env_vars>>

\* ExecutorResponseReceived with Some(workflow): cache bump, keep-alive
\* watcher pushed, upsert to the current manager, Some(name) replied to the
\* sender that active_requests held for the stream.
ExecutorResponseWorkflow(r, d) ==
    LET s == requested[r] IN
    /\ Running
    /\ r \in executing
    /\ active_requests[s] # None
    /\ executing' = executing \ {r}
    /\ active_requests' = [active_requests EXCEPT ![s] = None]
    /\ cached_workflows' = Bump(cached_workflows, s, d)
    /\ watching' = watching \cup {r}
    /\ mgr_inbox' = Send(mgr_inbox, workflow_manager, [op |-> "upsert", def |-> d])
    /\ Answer(s, WfName[d])
    /\ UNCHANGED <<stopped_by, workflow_manager, gone_watchers, registrations,
                   requested, keep_alive_open, manager_open, mgr_running>>

\* ExecutorResponseReceived with None: None replied, keep-alive dropped.
ExecutorResponseNone(r) ==
    LET s == requested[r] IN
    /\ Running
    /\ r \in executing
    /\ active_requests[s] # None
    /\ executing' = executing \ {r}
    /\ active_requests' = [active_requests EXCEPT ![s] = None]
    /\ Answer(s, "no_workflow")
    /\ UNCHANGED <<stopped_by, watching, cached_workflows, workflow_manager,
                   gone_watchers, registrations, requested, keep_alive_open,
                   manager_open, mgr_inbox, mgr_running>>

\* KeepAliveChannelClosed -> handle_keep_alive_closed: a cached stream
\* loses one keep-alive; at zero a stop for the cached definition's name
\* goes to the current manager and the entry is removed.
KeepAliveChannelClosed(r) ==
    LET s == requested[r] IN
    /\ Running
    /\ r \in watching
    /\ ~keep_alive_open[r]
    /\ watching' = watching \ {r}
    /\ IF s \in DOMAIN cached_workflows
       THEN /\ cached_workflows' = Release(cached_workflows, s)
            /\ mgr_inbox' = StopOnZero(s)
       ELSE UNCHANGED <<cached_workflows, mgr_inbox>>
    /\ UNCHANGED <<stopped_by, active_requests, executing, workflow_manager,
                   gone_watchers, registrations, requested, reply,
                   keep_alive_open, manager_open, mgr_running>>

\* WorkflowManagerEventReceived -> handle_workflow_manager_event: watch the
\* new channel, upsert every cached definition to it (HashMap order, so any
\* order), then make it the current manager.
WorkflowManagerRegistered(m) ==
    /\ Running
    /\ registrations < MaxRegistrations
    \* the hub announces a manager channel when it registers; the current
    \* one may be announced again, an earlier replaced one is not
    /\ m \notin gone_watchers \/ m = workflow_manager
    /\ registrations' = registrations + 1
    /\ gone_watchers' = gone_watchers \cup {m}
    /\ Replay(m)
    /\ workflow_manager' = m
    /\ UNCHANGED <<stopped_by, active_requests, executing, watching,
                   cached_workflows, requested, reply, keep_alive_open,
                   manager_open, mgr_running>>

\* WorkflowManagerGone: the run loop breaks.
WorkflowManagerGone(m) ==
    /\ Running
    /\ m \in gone_watchers
    /\ ~manager_open[m]
    /\ ActorExit("manager_gone")

\* AllRequestConsumersGone: every request sender dropped; the loop breaks.
AllRequestConsumersGone ==
    /\ Running
    /\ ActorExit("consumers_gone")

\* EventHubGone: the subscription channel closed; the loop breaks.
EventHubGone ==
    /\ Running
    /\ ActorExit("event_hub_gone")

-----------------------------------------------------------------------------
(* Environment.                                                            *)

\* A requester drops (or fires) its keep-alive sender.
CloseKeepAlive(r) ==
    /\ requested[r] # None
    /\ keep_alive_open[r]
    /\ keep_alive_open' = [keep_alive_open EXCEPT ![r] = FALSE]
    /\ UNCHANGED <<actor_vars, requested, reply, manager_open, mgr_inbox, mgr_running>>

\* A workflow manager drops its request receiver.
ManagerCloses(m) ==
    /\ ManagersMayClose
    /\ manager_open[m]
    /\ manager_open' = [manager_open EXCEPT ![m] = FALSE]
    /\ UNCHANGED <<actor_vars, requested, reply, keep_alive_open, mgr_inbox, mgr_running>>

\* The workflow manager applies its oldest request: an upsert replaces the
\* workflow of the same name, a stop removes the workflow of that name.
ApplyRequest(running, msg) ==
    IF msg.op = "upsert"
    THEN {d \in running : WfName[d] # WfName[msg.def]} \cup {msg.def}
    ELSE {d \in running : WfName[d] # msg.name}

ManagerApplies(m) ==
    /\ manager_open[m]
    /\ mgr_inbox[m] # <<>>
    /\ mgr_running' = [mgr_running EXCEPT ![m] = ApplyRequest(@, Head(mgr_inbox[m]))]
    /\ mgr_inbox' = [mgr_inbox EXCEPT ![m] = Tail(@)]
    /\ UNCHANGED <<actor_vars, requested, reply, keep_alive_open, manager_open>>

-----------------------------------------------------------------------------
\* Fault: executor futures are awaited one after another, so a pending
\* stuck one holds back every other response.
ExecutorResponseSequential(r) ==
    /\ r \in executing /\ r \notin StuckExecutors
    /\ executing \cap StuckExecutors = {}
    /\ \/ ExecutorResponseOrphan(r)
       \/ \E d \in Answers[requested[r]] : ExecutorResponseWorkflow(r, d)
       \/ ExecutorResponseNone(r)

\* The executor future of r completes with one of the answers for its
\* stream; `future.await` has no timeout, so a stuck executor's never does.
ExecutorResponseReceived(r) ==
    /\ r \in executing /\ r \notin StuckExecutors
    /\ \/ ExecutorResponseOrphan(r)
       \/ \E d \in Answers[requested[r]] : ExecutorResponseWorkflow(r, d)
       \/ ExecutorResponseNone(r)

Next ==
    \/ \E r \in Requesters, s \in Streams : RequestReceived(r, s)
    \/ \E r \in Requesters : ExecutorResponseReceived(r)
    \/ \E r \in Requesters : KeepAliveChannelClosed(r)
    \/ \E m \in Managers : WorkflowManagerRegistered(m)
    \/ \E m \in Managers : WorkflowManagerGone(m)
    \/ AllRequestConsumersGone
    \/ EventHubGone
    \/ \E r \in Requesters : CloseKeepAlive(r)
    \/ \E m \in Managers : ManagerCloses(m)
    \/ \E m \in Managers : ManagerApplies(m)

(* Fairness: the actor polls its FuturesUnordered until it is empty, so a  *)
(* completed future is eventually handled; the executor is assumed to      *)
(* resolve eventually (the reactor itself never times it out); a live      *)
(* manager drains its channel.  Requesters, managers closing and the hub   *)
(* are the environment and are not fair.                                   *)
Fairness ==
    /\ \A r \in Requesters :
         /\ WF_vars(ExecutorResponseReceived(r))
         /\ WF_vars(KeepAliveChannelClosed(r))
    /\ \A m \in Managers :
         /\ WF_vars(WorkflowManagerGone(m))
         /\ WF_vars(ManagerApplies(m))

Spec == Init /\ [][Next]_vars /\ Fairness

-----------------------------------------------------------------------------
(* Properties.                                                             *)

\* I1 of the spec: while the actor runs, a cached stream's keep_alive_count
\* equals the number of armed keep-alive watchers for it, and a stream with
\* armed watchers is cached.  handle_keep_alive_closed decrements a usize
\* on every watcher that fires, so this is also what keeps that
\* subtraction from underflowing and an entry from outliving its watchers.
RefcountMatchesWatchers ==
    Running =>
      \A s \in Streams :
        LET n == Cardinality({r \in watching : requested[r] = s}) IN
        IF s \in DOMAIN cached_workflows
        THEN cached_workflows[s].keep_alive_count = n
        ELSE n = 0

\* A requester that was told a workflow name and still holds its keep-alive
\* keeps the stream's workflow cached (so no stop has been sent for it):
\* handle_executor_response watches the keep-alive of the future that
\* resolved and replies to whichever sender active_requests holds.
KeepAliveHonoured ==
    Running =>
      \A r \in Requesters :
        reply[r] \in Names /\ keep_alive_open[r] =>
          requested[r] \in DOMAIN cached_workflows

\* The current workflow manager, once it has applied everything sent to it,
\* runs exactly the cached definitions: upserts on executor responses, the
\* catch-up replay on registration and stops on the last keep-alive keep the
\* downstream manager a mirror of the cache.
ManagerMirrorsCache ==
    LET m == workflow_manager IN
    Running /\ m # None /\ manager_open[m] /\ mgr_inbox[m] = <<>> =>
      mgr_running[m] = {cached_workflows[s].definition : s \in DOMAIN cached_workflows}

\* Every request is eventually answered with Some(name) or None, unless the
\* actor stopped because its request senders or the event hub went away
\* (the only terminal events the spec allows) -- also while other
\* requests wait on executors that never resolve: each executor call is its
\* own future in the FuturesUnordered, so one stuck call blocks no other.
RequestAnswered ==
    \A r \in Requesters \ StuckExecutors :
      requested[r] # None ~>
        \/ reply[r] \in Answered
        \/ stopped_by \in {"consumers_gone", "event_hub_gone"}

\* A cached stream nobody holds a keep-alive for is eventually released.
Wanted(s) == \E r \in Requesters : requested[r] = s /\ keep_alive_open[r]

UnwantedWorkflowReleased ==
    \A s \in Streams :
      s \in DOMAIN cached_workflows /\ ~Wanted(s) ~>
        s \notin DOMAIN cached_workflows \/ Wanted(s) \/ ~Running

\* The reactor seen through ReactorInterest: a stream's holders are the
\* requesters whose keep-alive it watches, its definition the cached one.
Interest == INSTANCE ReactorInterest WITH
              live <- Running, asked <- requested, answer <- reply,
              keep <- keep_alive_open,
              holders <- [s \in Streams |-> {r \in watching : requested[r] = s}],
              def <- [s \in Streams |-> IF s \in DOMAIN cached_workflows
                                         THEN cached_workflows[s].definition
                                         ELSE None]

\* The actor implements ReactorInterest: each handler answers a requester
\* at most once, grants hold the stream with the granted definition, the
\* cache entry goes exactly when the last watched keep-alive has closed,
\* and the actor's exit drops every pending reply, over any interleaving of
\* requests, responses, closures and manager events.
ReactorRefinement == Interest!Spec

=============================================================================
