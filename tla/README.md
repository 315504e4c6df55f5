# A TLA+ model of vllm_plugins

The repository patches vLLM at run time. Its plugins keep a serving instance
alive while devices fail and are replaced (`zero_interrupt`, with the two
load-balancing proxies that stand in front of the instances), move KV saves to
background threads (`async_kv_offload`), verify a licence, and replace a few
vLLM files. This directory models the parts whose correctness depends on the
order in which threads, coroutines and messages act, and the algorithms those
parts rely on; checks them with TLC on small instances; and proves the main
safety properties with TLAPS for every value of the constants.

Paths below are relative to `vllm_custom_plugins/plugins/`; `ZI` stands for
`zero_interrupt`.

## 1. Inventory

| Part | State it keeps | Operations | Hard behaviour |
|---|---|---|---|
| Engine core patch, `ZI/vllm/v1/engine/engine_core_patch.py` | `_paused_for_restart`, `process_input_queue_block`, `zero_interrupt_mode`, `_idle_notification_sent`, step counter and wave | `patched_handle_shutdown` (once per turn of the busy loop), `_execute_deployment_strategy`, `_restart_workers_with_strategy`, `trigger_busy_loop`, patched `has_work`, `_handle_client_request`, `step_with_batch_queue` | flags written by three threads without a lock; wake-up of a blocked queue; bounded retries; aborted requests |
| Executor, `ZI/vllm/v1/executor/its_multiproc_executor.py` | `current_strategy`, the events `recv_new_deployment` and `wait_new_deployment`, workers, `world_size`, parallel configuration and its backup, `shutting_down`, `executor_state` | receive, execute, restart, cleanup, start workers, shut down, `collective_rpc` | a deployment that fails half-way; a strategy replaced while it is executed; configurations that follow one another |
| Health monitor, `ZI/vllm/v1/executor/health_monitor.py` | `_running`, `_failure_handled`, last seen health of each worker | periodic check, failure callback, start, stop and join | alarms about workers the engine terminated; alarms lost between two events |
| Strategy sync and HTTP server, `strategy_sync.py`, `http_server.py` | the last strategy posted | `POST /deploy`: parse, deduplicate, deliver | store and signal in the right order |
| Decision center client, `ZI/common/communication` | none | report with retries | back-off, late answers |
| Engine client, `ZI/vllm/v1/engine/core_client_patch.py` | which engines are idle | sentinel loads (999999, 999999) and (0, 0), choice of an engine | a mark removed by an ordinary load report; reports under way |
| Data-parallel wave (engine core patch, 44-171, 255-322) | step counter, wave, idle engines | all-reduce with timeout, dummy batches | engines that disagree on the step |
| Strategy handler, `ZI/common/strategy_handler.py` | links of each worker to prefill instances | clean up, map, connect, register | a rebuild that stops half-way and is followed by another |
| Asymmetric tensor parallelism, `ZI/vllm/model_executor` | shards of each layer | split of heads, convolution and projections | every layer must cut at the same heads |
| Load-balancing proxy, `ZI/vllm_ascend/examples/disaggregated_prefill_v1/load_balance_proxy_server_example.py` | instance groups with load heaps, taint and waiting sets, session maps, request counters, the recovery context of each request | select, prefill, decode, recover, recompute, release; add, remove, watch and restore groups | indices kept across awaits; a listener thread beside the event loop; resuming an answer on another backend |
| Layer-wise proxy, `load_balance_proxy_layerwise_server_example.py` | loads, retries, generated text of a request | stream with retries, metaserver callback, recompute | text sent twice or never; loads not given back |
| KV offload, `async_kv_offload/patch.py` | pending futures, thread pool, its size, counters | `wait_for_save`, automatic tuning, completion, shutdown | check-then-act on slots, callback before bookkeeping, pool replaced under its users |
| Anthropic serving, `security_patch/vllm/entrypoints/anthropic` | active block and its index, tool call ids | chunks to events, completion to message, message back to the next turn | blocks opened and closed across chunks |
| Plugin registry (`core.py`, `ZI/patch.py`), licence check, device patches, replaced vLLM files | applied patches | once, at start | partial application |

How they interact. The decision center posts a strategy to the executor's HTTP
server; the HTTP thread stores it, sets an event and wakes the engine's busy
loop; the engine thread, at its next turn, aborts what runs, terminates the
workers and starts those the strategy asks for (every executor of the
data-parallel group on its own), and tells the clients and the other engines.
A PD_REBUILD on a healthy instance goes to the running workers instead, whose
handler replaces the links between prefill and decode. The monitor thread
reports dead workers through a second event, on which the engine waits a limited
time for a strategy and then restarts the workers itself. Clients keep sending
requests all the while, to engines they do not believe idle. A proxy in front
of several instances chooses a prefill and a decode backend for each request;
when one fails it is isolated, the answer goes on at another backend, and a
listener thread brings the isolated one back when it answers again. The KV
offload plugin runs in the workers and is independent of the rest.
`PROJECT.json` lists every part with its status, and every hazard at its line.

What makes each part correct, in short: a strategy is never lost or skipped; an
alarm means a death and a death is alarmed; a deployment ends; the mode, the
idle state and what the clients are told agree with the newest strategy; the
executors that serve form one group; an isolated backend is watched; a load is
the number of requests that cause it; an answer that broke off goes on where the
client has it, from KV that is its own; a request ends; saves are bounded,
carried out and counted once.

## 2. Modules

| Module | Content |
|---|---|
| `ITSDeploy` | one engine core with its executor, HTTP thread and health monitor |
| `StrategyMailbox` | what the executor promises the decision center: one slot, the newest strategy never skipped |
| `AsyncKVOffload` | nonblocking KV saves |
| `ProxyPool` | the backend groups of one type in the proxy: event loop, listener thread, operator |
| `BackendGroups` | what the proxy promises of a group: unknown, serving, isolated, retiring, removed |
| `ProxyRequest` | completion requests through the proxy, in both deployment modes |
| `LoadHeap` | how the proxy chooses a backend: a heap whose entries are taken from the middle |
| `SseBuffer` | how it puts the pieces of a stream together to events |
| `ResumeText` | the assistant message another backend is asked to continue |
| `InstanceGroups` | how it reads its groups of endpoints from the command line |
| `LayerwiseProxy` | a request through the layer-wise proxy, with the prefills its decoder asks for |
| `IdleRouting` | what engines announce and what the clients mark from it |
| `PdRebuild` | a PD_REBUILD strategy on a healthy instance, in every worker |
| `ParallelReconfig` | ranks, sizes and devices of all executors through successive strategies |
| `Sharding` | how every layer is cut for the workers that remain |
| `AnthropicStream` | chunks of a completion as events of a message, and back |
| `ProxyParts` | `LoadHeap`, `SseBuffer`, `ResumeText` and `InstanceGroups` side by side: the parts of the proxy that compute |
| `ServerParts` | `Sharding` and `AnthropicStream` side by side, the same for the server |
| `Absent` | the constant `None`, which most modules need |
| `Kernels` | `ProxyParts`, `ServerParts` and the other small modules, each on an instance of its own, in one specification |
| `ITSDeployProofs`, `AsyncKVOffloadProofs`, `ProxyPoolProofs`, `ProxyRequestProofs` | theorems about the module of that name |
| `ProxyPartsProofs`, `ServerPartsProofs` | the invariants of the modules put together in `ProxyParts` and `ServerParts`, and the lemmas that they hold |
| `KernelsProofs` | the theorems about `Kernels`, with the invariants of `PdRebuild`, `IdleRouting`, `ParallelReconfig` and `LayerwiseProxy` |
| `RecursionLemmas` | induction over numbers, what recursive definitions compute, and the elements picked from a sequence |
| `MCITSDeploy`, `MCAsyncKVOffload`, `MCProxyPool`, `MCProxyRequest`, `MCKernels` | instances for TLC |

### ITSDeploy and the code

The state is grouped as in the code: the mailbox (`current`, `posted` and the
two events), the executor, the monitor, the engine, its notes to the clients,
the flags of the busy loop, the HTTP thread and the clients. Each thread has a
control point: `hpc` in `on_strategy_received` and
`_on_deploy_strategy_received`, `mpc` in `_run_monitor` and the failure
callback, `epc` in the busy loop, `patched_handle_shutdown` and everything it
calls. An action is the code between two points where another thread can see or
change something shared. The HTTP thread's store, event, pause, unblock,
wake-up and final `executor_state` are six actions (`Store` to `Mark`), since
each races with the engine; a step on the engine's side that reads and clears an
event nobody else clears is one.

`epc` follows a deployment: `loop` (the events are tested), `exec` or `waiting`,
`halt`/`cleanup`/`join` (the monitor is stopped and joined, requests drained,
workers terminated), `init` (`_init_workers` reads the strategy again and sets
the configuration), `spawn`, `kv`, `post` (mode and notification), `resume`,
`finally`. `job` says who called: a strategy, a restart, or the shutdown after
the last failed attempt; the three finish differently (`Succeed`, `Fail`).
The busy loop goes on with `input`, `get` or `drain`, and `step`.

A strategy is its type, what the entry of this executor asks for (no workers,
some, or no entry), whether it lists a faulty device of this host, and a tag. The
rest of its payload only enters arithmetic that is not modelled.

History variables `tried` and `succeeded` record what the last deployment was
built from and how it ended; no guard reads them.

Choices worth knowing:

- *Time.* The wait for a strategy may time out at any moment. The health pass is
  periodic; it happens any number of times. One ordering is taken from time:
  after a restart the monitor's first pass is an interval later, so restarting
  it and clearing `wait_new_deployment` is one step.
- *The join of the monitor* gives up after 3 s in the code; here it completes.
  The monitor has a handful of assignments left at that point.
- *Failures.* Configuration, worker start, cache initialisation and the
  connector RPC may each fail. A start that fails part of the way leaves no
  workers, or workers that run and are watched by nobody (`workers` is then
  "unwatched"), as `_init_workers` starts the monitor last.
- *Calls without a timeout.* New workers that hang, or die while the executor
  waits for them or for their KV cache, are never given up: the RPCs of
  `_reinitialize_kv_cache` have no timeout. `NewWorkersHang` leaves the engine
  "hung" for good, and `DeploymentEnds` names that outcome.
- *Dead workers.* A step with a dead worker either ends without output or raises
  (`StepNothing`, `StepRaises`), as `collective_rpc` does depending on when the
  death is noticed. Without workers it raises: by its assertion when the message
  queue is gone, by an index error when an earlier one is left.
- *Fault keep* is on, the default.
- *One engine.* The wave of a data-parallel group and the batch queue of
  in-flight futures are left out (section 5).
- *vLLM* (`_process_input_queue`, scheduler, workers) is modelled from how the
  patches use it and marked external in the map.

### AsyncKVOffload and the code

A save is one call of `patched_wait_for_save`, from the call to the end of its
background task. `pc` is the caller's position in `_submit_task` and the
functions it calls; `fut` and `callback` are the future; `pools` are all
`ThreadPoolExecutor`s ever created, with their queues. The test for a slot and
the insertion into `_pending_futures` are apart, as are the two tests of
`_get_executor` and the read of the global after them, and
`add_done_callback` and the insertion. `concurrent.futures` is modelled by its
contract: callbacks run after the future is done, at once when it already is; a
pool that is shut down runs what was queued and rejects new work.

`_wait_for_slot` may time out at any poll that finds no slot. The replacement of a
pool is three steps: `_default_workers` is set without the lock (`SetWorkers`), the
new pool is published under it (`Replace`), and the old one is shut down after
that (`Retire`); the readers without the lock see every state between. `holder`
is who has `_executor_lock`. The maximum of
`max_inflight` in the statistics, the getters, and the `sync` and `async` modes
(no shared state) are left out.

### ProxyPool and the code

`ProxyState` keeps three copies of the same structures, for prefill, decode and
mixed groups; the module is one copy. Two threads work on it. The event loop
runs requests and the operator's `/instances/add` and `/instances/remove`, one
at a time between two awaits; `rpc` and `apc` are their control points, and the
control points in `Busy` are inside such a stretch: only the listener can act
there. `lpc` is the listener thread, `NodeListener`, which polls the backends:
first the groups it waits for (`Snapshot` to `Forget`), then the active ones
(`TakeActive` to `Rewatch`), then the removals (`EndRound`, `RemovePending`).

- *Indices.* A request holds the index `select_*` returned (`idx`) and, from a
  later lookup, the server object (`obj`). `Drop` removes groups and moves the
  indices of the others, as `_rebuild_*` does.
- *The lock.* The listener's critical sections end with the list of the heap
  filled again (`Fill`), during which nothing can be selected; the flags and the
  table of waiting groups are read without that lock, as in the code.
- *The event.* `call_soon_threadsafe` leaves a callback (`callback`) which the
  event loop runs later; `Sync` queues it, `RunCallback` reads the state anew.
- *A backend* is up or not (`Flip`); a stream can break on a healthy one too, and
  a client can leave before its stream starts, which is where a count stays up.
- *Endpoints.* `_build_instance_groups` refuses an endpoint that is named twice.
  `trans_instance_groups` and `add_instance_groups`, the operator's way in, do
  not look inside one group: the model takes an operator to name an endpoint of
  a group once (`MemberSeq`).
- *History variables* `dropped` and `shifted` mark the two moments whose effects
  the properties exempt; no guard reads them.

### ProxyRequest and the code

A request is the coroutine of `_handle_completions` and its
`CompletionExecutionContext`, a record with one field for each attribute that
decides anything; an action is its code from one suspension to the next, cut
where the listener may isolate a backend. `look`, `wait` and `pick` are the
search for a backend inside the recovery window, `prefill` and `decode` the two
requests to backends, `yield` a suspension while the client reads, `recompute`
the restart a decoder asks for, `finish` and `close` the end of the handler.
Everything a handler does on its way is part of the action: `Recover` isolates
the backend, queues the abort of the KV cache, releases both loads, starts a new
round and builds the next request.

- Text is counted, not spelled: `sent` is what the client has, `generated` what
  the recovery state holds, `start` what the current backend was asked to
  continue from, `at` where its stream has got. `opaque` is output the recovery
  state does not hold: tool calls and parts of a body that is not streamed.
- `recovery_wait_timeout` is positive, as its default of 1200 is. With a value of
  0 or less the code disables the limit, `Expire` never happens and a request
  without backends waits as long as there are none.
- A backend owes no answer: the HTTP client has no timeout. Only once a response
  has begun does the proxy ask every second whether the backend was isolated
  (`Polled`, `Notice`); a prefill or a response that has not begun can hold its
  request for ever (`InCall`).
- Which healthy backend is chosen is left open. `LoadHeap` models the choice,
  `ProxyPool` the life of a backend; here it is usable or not (`Taint`,
  `Restore`), with the same isolation by a failed request.
- All requests belong to one session, the case in which affinity matters.

### The small modules and the code

`LoadHeap` translates `heapq` itself, since `_update_*_priority` filters the list
and pushes one entry: whether that is still a heap is the question. The answer is
no: `LeastIsChosen` says what holds of the list all the same, and which step spoils
it, and section 3 what follows.
`SseBuffer` feeds a stream in every possible cutting to `SSEEventBuffer` and
compares with the uncut stream. `ResumeText` composes every short pair of
thinking and content and compares what the client sees before and after.
`InstanceGroups` reads every list of groups of its bounds, in each way of setting
the brackets, and compares with what was meant; unusable ports and endpoints
that are the same one have to be refused.

`LayerwiseProxy` has an action for each stretch between awaits of
`stream_service_response_with_retry` and of `generate_stream`. What the proxy
reads is cut by the network: a chunk that is one event is parsed and counted as
one token, however many it holds (`Event`), anything else is passed on without
a trace (`Unread`), and a body that comes in one chunk is counted by its usage
(`Body`). A chat that is recomputed has its first message overwritten by prompt
and text, and its decoder may begin anew. The calls of
the metaserver are a second activity of the same request: a set of calls, each
with its request, number and prefiller. A request's score is a natural number,
so that a server's load can be counted in units. `IdleRouting` has a
wire for each engine and client, in order, as ZMQ delivers; changes of an engine
that are announced and those that are not (`untold`, after a deployment that
failed half-way) are separate actions. Idle notices go to every client with an
address, notices of recovery to those below `_api_process_count` (`Counted`).
`PdRebuild` cuts the handler of each
worker where an exception may end it (clean-up, mapping, connections,
registration) and lets the executor's collective call time out before a worker
is done; the handler learns its connector in its first rebuild, and has nothing to
clean up before. The class of the workers is marked as not in effect at present
(`its_multiproc_executor.py`:1702): the module is about the handler as it is
written, for `VLLM_ITS_ENABLE_PD_REBUILD` set. `ParallelReconfig` carries a strategy out in each executor separately,
in any order, and keeps the backup of the first configuration; the lists of bad
cards need not grow, and cards filtered from the visible ones stay away until a
RECOVER. `Sharding` is the arithmetic of four patches side by side: the loader of
the convolution, the projection, the state parameters, and attention's heads, for
weights that `weight_loader` loads. The rows of the state come from a product
with a floating-point share, cut to an integer: exact for up to ten workers,
possibly one short beyond, and the property speaks of up to ten. `AnthropicStream`
converts every completion of up to five parts chunk by chunk, and as a whole; an
item that is no data makes an error event and the stream goes on, an exception
ends it. The other endpoint fails where the arguments of a call are no JSON.

## 3. Runs

| Run | Shows | Instance | States |
|---|---|---|---|
| `ITSDeploySafety` | `TypeOK`, `NoStrategySkipped`, `NoFalseAlarm`, `FailureNotForgotten`, `ModeFollowsStrategy`, `IdleAnnounced`, `IdleHoldsNoRequest` | two strategies in any order out of one of every type, one crash, one request, one retry | 4,675,165 |
| `ITSDeployProgress` | `DeploymentEnds`, `WakeupReachesBlockedEngine`, `DeathIsSignalled`, `MailboxSpec` | one strategy of the shapes the first run has not, one crash, one request, one retry | 327,843 |
| `ITSDeployLostWakeup` | violates `SignalIsTaken` | one DEGRADE | |
| `ITSDeployFailedThenRequest` | violates `FailedDeploymentSurvives` | one DEGRADE, one request | |
| `AsyncKVOffload` | `TypeOK`, `InflightBounded`, `NoStrayPool`, `StatsBalance`, `AcceptedSaveRuns`, `CallReturns` | three saves, two callers, limit one, one tuning step, one shutdown | 37,784 |
| `AsyncKVOffloadLeak` | violates `RefusedUnderLoad` | two saves, one caller | |
| `ProxyPool` | `TypeOK`, `UnwatchedWasForgotten`, `WaiterIsAnnounced`, `LoadIsExact`, `ShiftedByTheListener`, `LifecycleSpec` | two requests, two groups of one server of which the first can be added again, one change of health, one broken stream, two calls of the operator | 1,207,085 |
| `ProxyPoolLive` | `PendingIsRemoved`, `WaiterIsWoken`, `GroupRecovers` | one request, one group of two servers, two changes of health, two failed polls to isolate, one client that leaves | 119,275 |
| `ProxyPoolUnwatched` | violates `IsolatedIsWatched` | one request, two groups of one server, no operator | |
| `ProxyRequest` | `LoadMatchesHolders`, `QuietMeansUnused`, `RoundUsesFreshKv`, `StreamIsGapless`, `RequestEnds` | one request, one prefiller, two decoders, one mixed backend, two tokens, two faults, one isolation by the listener, both modes and both routers | 297,689 |
| `ProxyRequestRestart` | violates `RestartOnlyAfterMetadata` | one request, one fault, no isolation by the listener | |
| `Kernels` | `LeastIsChosen`, `AnswerIsContinued`, `GroupsAreAsWritten`, `MarksFollowTheEngines`, `LinksFollowTheMapping`, `ExecutorsFormOneGroup`, `AnswersAreWhole`, `AnswersAreTranslated`, `ShardsFitTogether` | below | 3,207,652 |

### Bounds

`ITSDeploy` and `AsyncKVOffload`: `MaxOffers`, `MaxCrashes`, `Saves` and
`MaxShutdowns` limit what the environment does and appear in guards. Two offers
are what a strategy needs to overtake another: one is executed while the next
arrives, at each of its steps. A third would repeat this. One crash lets an
alarm race with a deployment; workers that fail to start stand for later deaths.
One request reaches every place a request can be, because requests do not
interact. `MaxRetry = 1` already has a strategy executed inside a restart, and
the exhausted attempts. For saves, two callers make every race for a slot or a
pool, and the third save is the one that is refused, tuned for or lost because
of the first two; four saves were explored as well (safety only) without a
difference. `RejectLimit = 0` and a step of two workers bring the automatic
tuning, whose threshold is 10 in the code, within reach, including the cap.

`ProxyPool`: two requests are one that holds an index and one that shifts it or
waits; two groups are the one that fails and the one the requests move to; a
re-added endpoint is the case in which two server objects share a name. A group
of two servers (`ProxyPoolLive`) is needed for a group that is half well.
`MaxFlips`, `MaxErrors`, `MaxLost` and `MaxCalls` bound the environment;
`MaxGroups` bounds ids.

`ProxyRequest`: two faults let a second failure meet the recovery from the
first, in either half of the request, and leave one decoder untried, or none;
two tokens are text before and after the break. Two requests were explored
without liveness on a smaller instance (1,365,901 states) without a difference,
as the proof says for any number.

`Kernels`: the variable `topic` says which module a behaviour is of, and the
variables of the other modules are `None` in it. `LoadHeap`:
five servers, weights one and two, three requests: the least number with which the
list stops being a heap and the choice can go wrong. `SseBuffer`: streams of up to six characters, which
hold two events, or one whose lines end in CR LF. `ResumeText`: texts of up to
three pieces each. `InstanceGroups`: two groups of two, with each kind of special
value. `IdleRouting`: two engines and two clients, one beyond `_api_process_count`, with two
reports on a wire, which follow those the client has read; three with one engine
were explored as well. `PdRebuild`: two
workers, with and without links at the start, and two rebuilds, the second after
any half-done first.
`ParallelReconfig`: three executors of two cards, three strategies: degrade,
degrade with other bad cards, or recover, and again; the lists are all subsets of
the first three cards, and all cards. `LayerwiseProxy`: two requests, one of them in
every mode with chunks of up to two tokens and one recomputation, the other only
for its load; two tokens, two retries. `AnthropicStream`: five parts, in every order
in which text and tool calls can follow one another, and one unreadable item
between them. `Sharding`: up to eight workers.

Deadlock is checked in the `ProxyPool` runs, whose listener never stops. It is
not checked elsewhere: every thread of `ITSDeploy` may wait for ever with the
bounded inputs used up, or the engine process may have ended; every save or
request may be done; the small modules end.

Symmetry is used in `ProxyPool`, between the two requests, which has no liveness
property; its refinement does not tell requests apart.

### Fairness

`ITSDeploy!FairSpec` is weak fairness of the engine thread, the monitor thread and
the HTTP thread while the process lives: each is a running thread whose blocking
points (an event, a queue, a join) are guards. Nothing makes a strategy, a crash
or a request happen. The properties are what follows from the threads running:
`DeploymentEnds` needs the timeout of the wait and the counting of attempts,
`DeathIsSignalled` needs the periodic pass. Fairness of the engine thread as a
whole does not favour either outcome of a step that may fail, nor the return of a
call to new workers: it may hang instead, and `DeploymentEnds` holds with the
engine hung, with the process dead, or back at the top of its loop.

`AsyncKVOffload!FairSpec` is weak fairness of each caller inside a call, of each
task that runs and its callback, of the pools' threads and of the end of a
shutdown. It takes for granted that the original `wait_for_save` returns or
raises. `CallReturns` uses the timeout of `_wait_for_slot`; without it a leaked
slot would hold a caller for ever.

`ProxyPool!Fairness`: the listener is a loop and takes its next step. A callback
queued on the event loop, and the next stretch of a handler, get strong
fairness: asyncio runs what is ready in order, but both are disabled while
another handler is in the middle of its stretch or the listener holds the lock,
again and again. Nothing makes a request arrive, a backend change its health, a
stream end or an operator call.

`ProxyRequest!Fairness`: what the proxy itself does for an accepted request goes
on (`Works`), its poll of an isolated backend included, and a wait that has passed
its window expires, which takes a positive `recovery_wait_timeout`. Nothing makes
a backend answer, fail or end (`Answers` has no fairness), a client arrive or
leave, nor a backend be isolated or restored. So `RequestEnds` says: a request
ends, also when no backend ever comes back, or it stays in one call that is never
answered and that the proxy does not watch.

### What the violations say

Five runs state what a document or comment of the repository says, and TLC
finds a behaviour of the code that disagrees. `PROJECT.json` quotes both sides.

1. *A strategy can wait for a client request* (`ITSDeployLostWakeup`).
   `patched_handle_shutdown` sets `process_input_queue_block = True` in a
   `finally` on every pass. A trigger that runs between the test of the event
   and the `finally` is undone; its `WAKEUP` is read by the blocking loop, which
   blocks again.
2. *A failed deployment ends the engine at the next request*
   (`ITSDeployFailedThenRequest`), where DESIGN.md 5.2 has the executor stay.
3. *Slots leak* (`AsyncKVOffloadLeak`): a save that ends before its callback is
   attached is added to `_pending_futures` after it was discarded from it.
4. *An isolated group nobody watches* (`ProxyPoolUnwatched`): a stream breaks
   after the listener restored the group and before it took it off its table.
   `UnwatchedWasForgotten`, which is proved, says that this is the only way.
5. *An answer starts again* (`ProxyRequestRestart`) for a client that has
   received a tool call or a part of a body, which the recovery state does not
   hold.

More differences are stated in the modules as definitions that no run lists; TLC
refutes each of them on a small instance of its module: `ITSDeploy!AbortsAreSent` (the first abort discards the outputs the
second would have sent), `IdleHasNoWorkers` (an engine that gave up keeps the
workers its shutdown started) and `IdleIsKnown` (the notice to the clients follows
a second read of the strategy; and no recovery is told after a deployment that
failed late); `ProxyRequest!NothingAfterFinish` (a failure between the frame with
`finish_reason` and `[DONE]` resumes a complete answer); `LoadHeap!RootIsLeast` with
five servers or more (the filtered list is no heap, and after a few
selections, releases and isolations its root need not be least loaded); `IdleRouting!RankIsObeyed`
(a rank indexes the filtered list of engines) and `RunningIsUsed`
(an engine that recovers without a word stays marked); `PdRebuild!SuccessMeansLinked`
(the value returned does not depend on the workers) and `LinksLeadToPrefill`
(the host of a link is not looked at);
`ParallelReconfig!WorkersUseHealthyCards` with card ids of two digits (ids are
sorted as strings); `LayerwiseProxy!TextIsRecorded`, `TextComesOnce` and
`LoadIsReleased` (a chunk that is not one event is neither recorded nor counted; a
retry after text was sent; a client that leaves before the stream starts);
`Sharding!ForwardCountsItsHeads` (a quotient that is not the number of heads when
the shard does not divide the old size) and `LoadersAgree` (`weight_loader_v2`,
which quantised models take, cuts equal shards).

Three more, found while reading, are not stated: the flag `_its_force_exit` is
read nowhere; a PD_REBUILD on a faulty instance always raises in
`_get_engine_parallel_config`; the documented default of the strategy timeout is
30 s and the constant 300.

## 4. Proofs

Theorems hold for every value of the constants that meets the named assumptions,
which TLC evaluates on the runs: `StrategyAssumption`, `WakeupAssumption` and
`BoundAssumption` of `ITSDeploy`; `SizeAssumption` and `WorkerAssumption` of
`AsyncKVOffload`; `ServerAssumption`, `RequestAssumption`, `GroupAssumption` and
`BoundAssumption` of `ProxyPool`; `BackendAssumption` and `LimitAssumption` of
`ProxyRequest`; and those of `ProxyParts`, `ServerParts` and `Kernels`. In the last three, most
say that a bound or a weight is a natural number; `StreamAssumption` and
`TextAssumption` add that a carriage return is no line feed and that the two
markers of thinking differ from each other and from every other piece of text,
and `AnthropicAssumption` that `None` is neither a number nor a type of block.
`ParallelAssumption` describes a deployment: each
executor starts with a card for each of its ranks, no configuration is taken for
`None`, and the ids of an executor's cards sort as text as they do as numbers.
The last is not so in every deployment: with cards of one and of two digits in
one container the part of the property that is about cards is false (section 3),
and this is the condition under which it is true.

| Theorem | Property | Argument |
|---|---|---|
| `ITSDeployProofs!TypeCorrect` | `TypeOK` | inductive as it stands; one step per action. `attempt` is within `0..MaxRetry` because `TryAgain` alone increases it. |
| `NoStrategyLost` | `NoStrategySkipped` | inductive as it stands: a new strategy is `Fresh` from `Store` on, `Fresh` ends only where `Taking` begins, `Taking` ends only by reading `current` |
| `AlarmsAreTrue` | `NoFalseAlarm` | `AlarmInv`: a failure found and not yet handled means a dead worker; the monitor is stopped and joined before the workers are terminated, so its thread is off until they are started; and while there are none `_failure_handled` stays up, which silences a monitor started meanwhile |
| `FailuresAreKept` | `FailureNotForgotten` | living workers are watched by a monitor that has handled nothing, or by none because their start failed before it was made, so a failure handled means the event is set or the workers are going |
| `IdleEngineEmpty` | `IdleHoldsNoRequest` | `EmptyInv`: the scheduler is empty at every point from the abort to the end of a deployment, so it is when `world_size` becomes 0, and idle engines admit nothing |
| `ModeIsOfStrategy` | `ModeFollowsStrategy` | `ModeInv`, which relates mode and strategy up to the control point after the notification, with `NoStrategyLost` for the second read |
| `IdlenessIsTold` | `IdleAnnounced` | the same for the notice to the clients |
| `ImplementsMailbox` | `MailboxSpec` | refinement: `Store` posts, the starts of deployments take, the reads of `current_strategy` use, the rest stutters; needs that what is posted is a strategy |
| `MailboxServes` | | the abstract specification implies its promise, so any implementation inherits it |
| `AsyncKVOffloadProofs!TypesAreKept` | `TypeOK` | follows from the invariants of the other three theorems, with what they leave of the types |
| `SavesAreBounded` | `InflightBounded` | `LimitInv`: unfinished saves are pending or between submission and insertion; saves pending or past the slot test number at most `MaxInflight + Callers - 1`, because the test saw fewer than the limit and only the other callers are in between |
| `PoolsAreNotLeaked` | `NoStrayPool` | `PoolInv`: an open pool is the current one, or the one that the holder of the lock has replaced and is about to shut down; a pool is created, under the lock, when there is none, and replaced only by a holder that goes on to shut the old one down |
| `StatsAddUp` | `StatsBalance` | the counters are the numbers of saves at the control points that follow each of them; caller and callback may come in either order |
| `ProxyPoolProofs!WaitersAreTold` | `WaiterIsAnnounced` | inductive with the types of the requests: whoever makes a group selectable announces it in the same stretch of the event loop, or is a listener on its way to `Sync` |
| `IsolatedAreMinded` | `UnwatchedWasForgotten` | inductive with the types of the requests: a group just isolated is `Attended` by whoever did it until it is on the table; only `Forget` takes it off, and then it is in service or in `dropped` |
| `OperatorShiftsNothing` | `ShiftedByTheListener` | the event loop removes a group only when no request is counted, and requests that hold an index are counted |
| `LoadIsCounted` | `LoadIsExact` | `LoadInv`: a server's load is the cardinality of the requests whose index leads to it. When groups go, the indices of the others move with their servers: `Flat` lists each server once (`SlotInv`), and what is kept keeps its order |
| `TypesAreRight` | `TypeOK` | `ShapeInv`: the groups and servers that flags, requests, operator and listener hold have been created; with `LoadInv` and `CountInv` no counter goes below zero |
| `ImplementsGroups` | `LifecycleSpec` | refinement: each step moves one group by one step of `BackendGroups`, several retired ones together, or none |
| `RetiredNeverServes` | | of the abstract life, and so of the proxy |
| `ProxyRequestProofs!TypesAreKept` | `TypeOK` of the module | every action changes the context of one request; the lemma for a context is used by all of them |
| `CountIsHonest` | `QuietMeansUnused` | `request_num` is the cardinality of the requests whose coroutine runs |
| `LoadsAreExact` | `LoadMatchesHolders` | `Sound` relates the flags of one context; `Settled` relates the shared counters to the cardinality of `Holders` and `KvHolders`, to which an action adds or from which it takes at most one request |
| `KvIsFresh` | `RoundUsesFreshKv` | `AbortsArePast`: an abort on its way to a prefiller is of an earlier round |
| `AnswersHaveNoGap` | `StreamIsGapless` | `Sound`: what a streaming client has is what the recovery state holds; until a backend answers the request goes on from there, and while one streams it has got there |
| `KernelsProofs!MarksAreTrue` | `MarksFollowTheEngines` | `BeliefInv`: the last word on a wire, or the mark when the wire has none, is the engine's state. `ReportsFit` is what is on the wires, for the types. |
| `AnswersStayWhole` | `AnswersAreWhole` | `TextInv`, for the requests the property speaks of: what was generated and received are the first n tokens for some n. A streaming request is posted with at most the tokens its prompt leaves, because it counts at least one for each token and each recomputation (`StreamHolds`); the bodies of another are counted exactly and passed on once, with all of the text (`BodyHolds`). `LoadInv`: a server's load is the cardinality of the units of the jobs at it, a decoder for a request that streams or a prefiller for a call; a step adds or takes one job (`JobComes`), whose number no other call of the request has |
| `LinksAreCurrent` | `LinksFollowTheMapping` | `LinkInv`: a worker that has connected knows its connector, so every clean-up but the first empties its table before new links are made, all of them of one strategy |
| `OneGroupOnHealthyCards` | `ExecutorsFormOneGroup` | `ConfigInv`: the backup is always the first configuration, so ranks count from the same start after any sequence; the new rank is the number of serving executors before one's own, and `CountingNumbers` says that such counting fills `0..n-1`. `CardInv`: an executor sees all of its cards that were not reported as bad since the last RECOVER, where cards are mounted one by one all healthy ones, and none of the bad once it has carried a strategy out and has healthy ones |
| `GroupsAreTaken` | `GroupsAreAsWritten` | by induction over the tokens: between two groups the reader is closed and holds the groups so far; within one it is open and holds the values so far; hosts and ports then have the same shape, and pair up |
| `AnswersGoOn` | `AnswerIsContinued` | `StreamInv`: payloads and buffer are what `Events` makes of all that has arrived. A stream is cut behind a line end or between CR and LF (`CutLeavesTail`), normalising is then done piece by piece, and what `Events` leaves of one text can be put before the next (`EventsSplit`, by induction over the length). For the message, the cases of `_build_resume_assistant_content`: `VisibleIsShown` says that the visible part is what the message shows, `ShownGoesOn` that text behind a message is shown unless the message ends inside the thinking, `ThinkingGoesOn` that it then stays inside |
| `LeastIsAlwaysChosen` | `LeastIsChosen` | for any number of backends. `HeapInv`: the list holds each server once with its present priority (`HoldsOnce`), from lemmas that sifting, pushing, popping and rebuilding rearrange the list (`Mixed`) and lose nothing. The root of a heap comes after no entry (`HeapIsRooted`), and the entries are those of now. `HeapBelow` is a heap but for an entry that may still rise, `HeapAround` one but for an entry that may still sink, each with the entries below the gap tied to the one above it (`Bridged`); `UpHeap` and `DownHeap` are the single steps, `RiseHeap` and `SinkHeap` the loops, `HeapifyHeap` the rebuild, from the last parent (`Under`) to the root. A selection pushes the entry it has popped, so its filter finds nothing (`WithoutNone`) and a heap stays one. A release does not keep a heap; but where the root is least loaded it stays or is overtaken by the entry that is pushed |
| `AnswersAreAlwaysTranslated` | `AnswersAreTranslated` | `MessageInv`: while chunks come, `Conv` relates the state of the converter to the parts converted so far: between blocks or in one (`BetweenBlocks`, `InBlock`), the last part's; the message put together from the events, sent back, is the completion so far, and if the parts are in order it is the message of the other endpoint, unless that fails. A chunk is an induction over its parts (`RunText`, `RunCall`, `RunMore`); each part adds at most one block and one piece to both sides (`BlockAdded`, `PieceAdded`, `PartAdded`) |
| `ShardsAlwaysFit` | `ShardsFitTogether` | `LoaderInv`: what each worker has loaded after each group of rows. `WeightsAreWhole`: the shards are consecutive intervals from 0 to the old size. `QueriesFindTheirKeys`: when every worker's attention can be built, each worker's shard begins at a multiple of the workers that share a key head, or lies between two (`ShardsAreAligned`), and the division of query heads agrees there |

Rows without a module are of the module named last above them.

*Induction over data.* The library's induction theorems cannot be instantiated
here, but well-foundedness can be cited: a set of natural numbers that is not
empty has a least member (`LeastOf`), so a statement about all of `0..n` is proved
by refuting its least counterexample. `Recursion` shows in this way that a
recursive function has a value, which its definition by `CHOOSE` then has, and
`Flattening` what `FlattenSeq` makes of a sequence of sequences: at each place
some element of a part, at the place where the parts before it end. From these
come the places of the servers in `ProxyPool` (`TopoInv`, `SlotInv`), the reader of
`InstanceGroups`, the shards of `Sharding`, the loops of `heapq`, the events and parts
of `AnthropicStream`, and, through the elements `Picked` from a
sequence, the normalised stream of `SseBuffer` and the shown words of `ResumeText`.

Every safety invariant and every action property that a passing run checks is proved.
Model-checked only, and why:

- *Liveness*, all of it: fairness is out of reach of the prover.
- *What is false*: the statements of section 3 that TLC refutes.

## 5. Not modelled

- *The data-parallel wave.* What follows from an all-reduce that timed out depends
  on what gloo does with a peer that arrives late and on vLLM's coordinator,
  neither of which is in the repository. A model would be of an invented
  environment.
- *The batch queue* of in-flight futures, whose stale entries a strategy may leave
  behind, for the same reason: the futures are vLLM's.
- *Fault keep off*, in which the failure callback ends the executor.
- *Decision center client*: a loop of posts with a growing sleep; nobody reads the
  answer.
- *Plugin registry, licence check, import hook, `wrapper.py`, operator patch,
  packaging*: start-up code without shared state, or code nothing calls.
- *Workers, process groups, graph capture, forward passes, expert placement*:
  device calls and numerics.
- *Layers of asymmetric models* besides those of `Sharding`: vocabulary, MoE and MLP
  layers, and the loading of quantised weights, of which the model only has the
  rows that `weight_loader_v2` takes.
- *Proxies*: HTTP client details and benchmark counters. (The layer-wise proxy has
  no operation that adds or removes instances.) Session affinity together with moving indices is not in one run:
  `ProxyPool` has no sessions and `ProxyRequest` no indices.
- *Copies of vLLM files* (`vllm/distributed/parallel_state.py`, `vllm/config/*`,
  `vllm/envs.py`, the model registry, `fused_moe/config.py`, `vllm_ascend/utils.py` and
  many more), with a few changed lines each, or not installed by any patch. They
  make up most of the repository's 35,787 lines of implementation, which is why
  the map covers a small share of all lines while it covers most of those with
  control of their own.

## 6. What is left

1. `ITSDeploy` with two workers and with fault keep off.
2. The data-parallel wave and the batch queue, once their environment is
   specified.
3. Sessions in `ProxyPool`, so that an index a session remembers can be moved.
4. More of the copies of vLLM files, where their changed lines have control of
   their own.
