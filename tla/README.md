# TLA+ models of mmids-core

This directory holds TLA+ models of the parts of mmids that TLC can check.
Each model is written from the Rust source under `src/`. `PROJECT.json` maps
every definition to the lines it models. It also lists the TLC runs, the
mutants that show each property can fail, the findings and the hazards.

## Inventory

| Component | Source | State | Operations | Status |
|---|---|---|---|---|
| Reactor actor | `mmids-core/src/reactors/reactor.rs` | `active_requests` (stream -> reply sender), `cached_workflows` (stream -> definition, `keep_alive_count`), `workflow_manager` (optional sender), the `FuturesUnordered` of companion futures | `handle_request`, `handle_executor_response`, `handle_keep_alive_closed`, `handle_workflow_manager_event`, and three terminal arms of `run` | modelled (`Reactor`, refines `ReactorInterest`) |
| Executor | trait `ReactorExecutor` (not under `src/`) | none | `get_workflow(stream) -> future<Option<def>>` | abstracted: a nondeterministic answer from `Answers[stream]` |
| Requesters and keep-alives | callers of `start_reactor` | reply receiver, keep-alive sender | send a request, drop the keep-alive | modelled as environment |
| Workflow manager | not under `src/` | running workflows by name | apply `UpsertWorkflow` / `StopWorkflow` in channel order, close | spec-modelled (spec 4.4) |
| Event hub | not under `src/` | subscription channel | announce `WorkflowManagerRegistered`, close | abstracted into two actions |
| `WorkflowStepFuturesChannel` | `mmids-core/src/workflows/steps/futures_channel.rs` | two unbounded senders, one step id | `send_step_future_result`, `closed`, four forwarding tasks (`send_on_unbounded_recv`, `..._cancellable`, `send_on_watch_recv`, `send_on_future_completion`) | modelled (`FuturesChannel`, refines `Forwarder`) |
| Media notification types | `mmids-core/src/workflows/mod.rs` | none (type declarations) | none | partly: `Video` is the encoder's output record |
| x264 encoder | `mmids-gstreamer/src/encoders/video_x264.rs` | `sent_codec_data` flag captured by the `new_sample` callback | `push_data`, `sample_received`, `get_number` | modelled (`X264Encoder`) |

### How the parts interact

The reactor is one tokio task that loops over a `FuturesUnordered`. Each
completed future is handled to the end before the next one is polled. These
are the futures:

- `wait_for_request`: the request inbox. It is re-armed after every request.
- `wait_for_workflow_manager_event`: the event-hub subscription.
- `wait_for_executor_response`: one per request. It holds the requester's
  keep-alive receiver.
- `notify_when_keep_alive_closed`: one per cached keep-alive.
- `notify_workflow_manager_gone`: one per registration.

Outbound traffic goes over unbounded channels. Sends to a closed receiver are
ignored (`let _ = ...`). The hard behaviours are these:

- completions of many sources interleave in any order;
- two requests for one stream can be in flight at once;
- a keep-alive may close before its executor response arrives;
- manager handles come, get replaced and close;
- upserts and stops are lost while no manager is live.

### What makes each component correct

- Reactor:
  - the refcount equals the number of armed keep-alive watchers (spec I1);
  - a requester that was told a workflow name keeps that workflow while it
    holds its keep-alive;
  - once the current manager has drained its channel, it runs exactly the
    cached definitions (spec I2 to I4, and the purpose in spec 1(d));
  - every request is eventually answered (spec I5);
  - a stream nobody holds is eventually released (spec I3).
- Futures channel: a forwarding task
  - forwards messages in order;
  - sends `on_closed` or `on_cancelled` at most once and last;
  - stops when the runner is gone.
- x264 encoder:
  - the sequence header goes out once, before every frame;
  - a framerate parameter becomes the framerate `get_number` parsed, with no
    sign change.

## Modules and runs

### `Reactor.tla` (with `MCReactor.tla`)

Variables follow `Actor`:

| Variable | Models |
|---|---|
| `active_requests` | the field of the same name |
| `cached_workflows` | the field of the same name, a function whose domain is the cached streams |
| `workflow_manager` | the field of the same name |
| `executing`, `watching`, `gone_watchers` | the pending executor, keep-alive and manager-gone futures |
| `stopped_by` | whether `run` has broken out of its loop, and on which arm |
| `requested`, `reply`, `keep_alive_open` | the environment's requesters |
| `manager_open`, `mgr_inbox`, `mgr_running` | the environment's managers |

There is one action per arm of `run`. The executor response is split by
outcome:

- `ExecutorResponseOrphan`: no active request for the stream;
- `ExecutorResponseWorkflow`: `Some(def)`;
- `ExecutorResponseNone`: `None`.

Each action carries its handler's whole effect:

- `ExecutorResponseWorkflow` bumps the cache, arms the watcher, sends the
  upsert and replies.
- `KeepAliveChannelClosed` decrements the count and, at zero, sends the stop
  and removes the entry.
- `WorkflowManagerRegistered` arms the gone-watcher, replays the cache in any
  order (HashMap order) and sets the current manager.
- Some parts of these handlers are helpers of their own, so a mutant can
  replace just that part: `Answer` (the reply send), `StopOnZero` (the stop
  sent at count zero) and `Replay` (the catch-up upserts).
- The three terminal arms drop the actor through `ActorExit`. That also drops
  the reply senders still in `active_requests`.

A request is sent and received in one step. The same holds for a hub event.
The loop re-arms those receivers after every message, so a separate channel
would only add delay, and the interleaving already covers delay.

| Run | cfg | Expect | Shows |
|---|---|---|---|
| reactor_safety | `MCReactor.cfg` | pass | `TypeOK`, `RefcountMatchesWatchers`, `KeepAliveHonoured` and `ManagerMirrorsCache` hold for callers that do not overlap requests per stream. Managers register, re-register, get replaced and close. |
| reactor_liveness | `MCReactorLive.cfg` | pass | `RequestAnswered` and `UnwantedWorkflowReleased` hold while manager channels stay open. |
| reactor_overlap | `MCReactorOverlap.cfg` | violation | `KeepAliveHonoured` fails with overlapping requests (finding 1). |
| reactor_manager_gone | `MCReactorManagerGone.cfg` | violation | `RequestAnswered` fails when a manager channel closes (finding 2). |
| reactor_renamed | `MCReactorRenamed.cfg` | violation | `ManagerMirrorsCache` fails when a stream's workflow name changes (finding 3). |
| reactor_shared_name | `MCReactorShared.cfg` | violation | `ManagerMirrorsCache` fails when two streams resolve to the same definition: one stream's stop ends the workflow the other still holds (finding 4). |
| reactor_stuck | `MCReactorStuck.cfg` | pass | `RequestAnswered` still holds for the other requesters when `r1`'s executor never resolves (`StuckExecutors = {r1}`). One stuck call holds back no other response. |
| reactor_interest | `MCReactorInterest.cfg` | pass | `ReactorRefinement`: the actor implements `ReactorInterest` with three requests and one manager that registers and may close. |

#### Abstract specification: `ReactorInterest.tla`

`ReactorInterest` states what the reactor promises requesters, without its
futures, channels or counters:
- every requester gets one answer: a name, "no workflow", or a dropped reply;
- a requester told a name holds its stream;
- a stream keeps the definition last granted, exactly while it has holders;
- a holder lets go only after closing its keep-alive;
- a new request may cancel the pending one for its stream;
- stopping drops every pending reply in one step.

`Reactor` maps onto it as follows:
- `live` is `Running`; `asked`, `answer` and `keep` are `requested`,
  `reply` and `keep_alive_open`;
- a stream's `holders` are the requesters whose keep-alive is watched;
- `def` is the cached definition, or `None`.

Manager traffic is stuttering at this level. `ManagerMirrorsCache` covers
it. With overlapping requests the refinement fails at the first response:
the watched requester and the answered one differ (finding 1).

#### Bounds

- Two streams.
- Three requests in the safety run and two in the others. Each request is its
  own requester, so one stream can have two holders while the other has one.
- In the safety run, two manager handles and at most two registrations. That
  allows a first registration, a re-registration of the same handle (spec
  P2) and a replacement by a new handle.
- Four definitions:
  - `d1a` and `d1b` are two versions of workflow `w1`, which exercises the
    definition replacement in the bump;
  - `d2` (`w2`) belongs to stream `s2`;
  - `d3` (`w3`) is only reachable in the renamed run.

The safety run uses symmetry over requesters. It explores about 4 million
distinct states in about two minutes. The liveness runs use no symmetry.

The hub announces a handle when that manager registers. The model lets it
announce the current handle again but not a handle it has already replaced.

#### Fairness

- The actor polls its `FuturesUnordered` until it is empty, so every
  completed future is eventually handled. `KeepAliveChannelClosed`,
  `WorkflowManagerGone` and executor completions are weakly fair.
- The reactor never times out the executor. Eventual resolution is an
  assumption about the executor (spec 4.1). The constant `StuckExecutors`
  names the requesters whose executor future never completes. It is empty
  except in `reactor_stuck`.
- A live manager drains its channel (weak fairness).
- Requesters, managers closing and the hub closing are the environment, so
  they are not fair.
- `CHECK_DEADLOCK FALSE`: with a bounded environment the reactor ends idle,
  waiting on its futures. That is the program's normal quiescent state, not a
  deadlock.

#### Findings

1. **Overlapping requests** (`reactor.rs:170`, `:187`).
   - Spec 4.6 expects refcount 2.
   - In the code, the first response takes the `active_requests` entry and
     replies to the *second* requester. It watches the *first* requester's
     keep-alive. The second response is an orphan, and its keep-alive is
     dropped.
   - The first requester's reply was dropped, so it is likely to close its
     keep-alive. That stops the workflow the second requester was told about
     and still holds.
2. **Manager closure is terminal** (`reactor.rs:124`).
   - Spec 4.6 and 7 say a closed manager channel only resets the handle.
   - The code breaks the loop, so the reactor dies and its pending requests
     are never answered.
   - Gone-watchers are never disarmed, so closing an already replaced manager
     also kills the reactor.
3. **Renamed definitions leak** (`reactor.rs:281`).
   - The cache keeps only the latest definition, and the stop names only the
     latest name.
   - A workflow upserted under an earlier name keeps running on the manager.
     The spec allows names to change and does not say what happens to the
     old workflow.
4. **Shared workflow names** (`reactor.rs:281`).
   - The cache is keyed by stream; the manager is keyed by workflow name.
   - In the run both streams resolve to the same definition `d1a` (named
     `w1`), which the manager can run once for both. The reactor caches it
     twice, each entry with its own count.
   - The trace: both requesters get `w1`, the manager registers and is sent
     two upserts, and r1 closes its keep-alive. The reactor then sends
     `stop w1`. Once the manager has applied it, r2 still holds an open
     keep-alive for s2 and s2 is still cached, but no workflow runs.
   - The spec does not say whether names must be unique across streams.

### `FuturesChannel.tla` and `Forwarder.tla` (with `MCFuturesChannel.tla`)

`FuturesChannel` models `futures_channel.rs`. Each task is one of the four
helpers, chosen by the constant `Kind`. All tasks share the runner's two
receivers.

| Variable | Models |
|---|---|
| `alive` | the spawned task's loop is still running |
| `buffer`, `src_open` | the mpsc receiver's queue, and whether its sender is alive |
| `version`, `seen`, `sent` | the watch channel's version, the receiver's seen version, and every value written (a history; the watch holds only `Last(sent)`) |
| `cancelled` | the `CancellationToken` |
| `ready` | the output of the future given to `send_on_future_completion` |
| `step_rx_open`, `media_rx_open` | the runner's two receivers |
| `out` | what `send_step_future_result` delivered to the runner, per task |

Each `select!` branch is an action: `RecvMessage`, `RecvClosed`,
`TokenCancelled`, `WatchChanged`, `WatchClosed` and `RunnerGone`
(`closed()`). A helper's loop iteration is the disjunction of its ready
branches (`UnboundedRecvStep`, `CancellableRecvStep`, `WatchRecvStep`,
`FutureCompletionStep`). `tokio::select!` chooses randomly among ready
branches, so the model allows any of them. A send after the runner dropped
its step receiver is lost, because the tasks ignore the error.

`Forwarder` is the abstract promise of one mpsc forwarding task:
- the runner sees a prefix of what the source sent, in order;
- then at most one end marker: `closed` only after everything was
  forwarded, `cancelled` only after the token fired;
- nothing follows the end marker.

`ForwarderRefinement` instantiates `Forwarder` once per mpsc task (`F(t)`).
The mapping is: `out` through `ResultValue`, `done` as `~alive`, and `gone`
as either runner receiver dropped.

| Run | cfg | Expect | Shows |
|---|---|---|---|
| futures_mpsc | `MCFuturesChannel.cfg` | pass | An unbounded and a cancellable task refine `Forwarder`, and both end once an end condition holds (`TasksTerminate`). |
| futures_watch | `MCFuturesChannelWatch.cfg` | pass | A watch task delivers the last written value before `on_closed` even though values coalesce (`WatchLatestSeen`). A watch and a future task end (`TasksTerminate`). At most one result per value sent plus the end marker (`TypeOK`). |

Bounds: two values. Two sends per mpsc source, three per watch source, so
that a value can be overwritten before the task polls. The four kinds are
split over two runs. They share only the runner receivers, and all four at
once exceed ten minutes.

Fairness: weak fairness on each task's loop step. tokio polls every spawned
task that can make progress. Sources, cancellation and the runner are the
environment and are not fair. `CHECK_DEADLOCK FALSE`: all tasks end, and
the system then stops.

### `X264Encoder.tla` (with `MCX264Encoder.tla`)

The initial state is a successful `X264Encoder::new`:
- the parameter map (`height`, `width`, `fps`) is read through `GetNumber`;
- the caps are built with `CapsOf`, including `AsI32` for `fps as i32`;
- `sent_codec_data` is false.

The actions are:
- `PushFrame` (`push_data`). A sequence header only becomes the appsrc's caps,
  which the pipeline (the environment) reads, so it changes no model state;
- `SampleReceived(codecOk, sampleOk)`, the `new_sample` callback with both
  failure points. What one successful pass sends is `SampleMessages`: the
  header while the flag is unset, then the `Frame`. An error returns `FlowError::Error`, which stops the
  streaming thread (`flowing`).
- The environment: `PipelineDrops` (the pipeline consumes a buffer without
  output) and `ReceiverDropped`.

Parameter strings are represented by the integer they spell, or `Junk`, so
`parse::<u32>()` is a range check. TLC integers are 32-bit signed. The width
is therefore a constant `Bits`, set to 16 in the MC module; the cast rule is
the same at 32 bits.

| Run | cfg | Expect | Shows |
|---|---|---|---|
| x264_header | `MCX264Encoder.cfg` | pass | `HeaderOnceFirst`: the sequence header is sent exactly once and first, then frames in sample order. This holds under any failures and receiver drop, for every parameter map of five numbers, junk, absent or valueless. |
| x264_cast | `MCX264EncoderCast.cfg` | violation | `FramerateMatchesFps` fails for `fps` at or above 2^(Bits-1) (finding 5). |

**Finding 5: negative framerate** (`video_x264.rs:105`). `get_number` accepts any
u32, so `fps` "3000000000" becomes `Fraction::new(-1294967296, 1)` in
the caps instead of being rejected like a non-number.

## Plan

Every component under `src/` is modelled (see `PROJECT.json`):
- `Reactor`, with its refinement to `ReactorInterest`;
- `FuturesChannel`, with its refinement to `Forwarder`;
- `X264Encoder`.

Two things are left out on purpose:
- A two-manager liveness run for the closure of a replaced manager. Any
  manager closure ends the actor, so it would only repeat finding 2.
- A composition of the reactor with the futures channel. The two do not
  interact in this source.

## Not modelled

- GStreamer pipeline construction and linking (`X264Encoder::new`) is
  element I/O. It is abstracted to `new` succeeding, and the pipeline is an
  environment that turns pushed buffers into samples or drops them.
- Media payload contents, request-id formatting and logging are omitted. No
  property depends on them.
- The executor, workflow manager and event hub are outside `src/`. They are
  modelled only through the contracts the spec gives them.
- The unbounded channels' memory growth is not modelled, because every run
  is bounded.
- `workflows/mod.rs` declares types only (`MediaNotification` and
  `MediaNotificationContent`). It has no state change to model.
- The remaining unmapped lines are imports, struct declarations, the task
  spawn in `start_reactor`, the generator wrappers and logging. None of
  them changes model state.
