# Formal models of llm-agent

TLA+ models of the `llm-agent` monorepo (`src/packages/*`, TypeScript), model-checked
with TLC, with TLAPS proofs of the properties that matter most. Paths below are
relative to `src/packages/`.

## 1. The system

A server (`llm-agent-server`, `llm-agent-server-libs`) answers chat requests. Every
request belongs to a session; the session has a *graph* of live objects (agent,
pipeline instance, MCP clients, RAG registry) that is built on first use, shared by
the session's concurrent requests and torn down by eviction, deletion, reload or
shutdown. Inside a graph a turn is run by one of several coordinators, which call
LLMs through throttling and resilience wrappers, tools through MCP clients, and RAG
stores. Node.js runs all of it: concurrency is the interleaving of promise
continuations, timers and incoming requests, so an *action* of these models is one
uninterrupted run of JavaScript between two awaits.

### Inventory

| component | state it keeps | operations | talks to | what must hold |
|---|---|---|---|---|
| session registry (`llm-agent-libs/src/session/session-registry.ts`, `session-graph.ts`) | maps of served, draining and pending graphs; generation; reference counts; pending dispose promises | acquire, release, evictOne, evictIdle, invalidateAll, disposeAll | graph factory, HTTP handlers, sweep timer, reload watcher | no teardown under a request; no graph lost; reload takes effect; cap; shutdown complete |
| graph factory and lifecycle (`session-graph-factory.ts`, `llm-agent-server-libs/.../session-lifecycle/index.ts`, `smart-server.ts`) | two maps of close functions keyed by session id | build, onDispose, buildSessionAgent | registry, MCP client factory, pipelines | everything opened is closed once and only its own |
| session metadata store (`session-meta-store.ts`) | rows of running and finished sessions | recordStart/End, list, resume, delete | lifecycle, routes | a deleted row does not come back; a row in use is not swept |
| controller coordinator (`smart-agent/controller/*`) | the durable session bundle (run state, cursor, in-flight step, pending marker, counters), the artifact store, the terminal store | one request of the turn: hydrate, classify, resume, plan, execute, review, finalize | planner, executor, reviewer, finalizer LLMs; MCP; wait strategy; knowledge backend | crash between any two writes loses nothing decided and repeats nothing committed; budgets bound work; one terminal outcome per run |
| throttle and quota gates (`llm-agent/src/llm/throttle.ts`) | process-wide registry of gates with `openAt` and leases | runWithThrottleRetry, leaseQuotaGate, penalise, prune | LLM providers, wait strategy | a penalty seen by one caller holds the others; no gate in use is evicted |
| resilience wrappers (`*/resilience`) | circuit breaker state, counts, probe time | call, record success/failure, half-open probe | LLMs, embedders, RAG | one probe at a time; breaker closes again |
| dialogue coordinator (`coordinator/dialogue`) | dialogue session, task board, artifacts | turns of planner and worker, claim/complete of tasks | LLMs, tools | tasks done in dependency order, each once; dialogue ends |
| DAG coordinator (`coordinator/dag`) | plan, node states | plan, run ready nodes, replan | LLMs, sub-agents | no node before its dependencies; one failure does not hang the rest |
| stepper and adaptive coordinators | recursion depth, step tree, budgets | plan, execute, decompose | LLMs, sub-agents | bounded recursion; result of each step used once |
| tool loop (`pipeline/handlers/tool-loop*.ts`) | transcript, pending tool results, iteration count | stream, call tools, collect late results | LLM, MCP, pending-results registry | every call answered once; loop bounded |
| SmartAgent and pipelines (`agent.ts`, `builder.ts`, `pipeline`) | wiring, reconfigurable parts | process, streamProcess, reconfigure | all of the above | a reconfiguration does not mix two generations in one turn |
| RAG registry and catalog (`llm-agent/src/rag/registry`, `catalog`) | collections by name, provider, scope, session | create, register, delete, close session | providers, stores | name uniqueness across awaits; closing one session leaves the others |
| in-memory and vector RAG (`llm-agent/src/rag`) | records, overlays | upsert, query, delete | embedders | overlay hides and restores the base record |
| shared vector stores (`pg-`, `hana-`, `qdrant-*`) | record caches, tables | upsert, scan-and-delete, list | databases | a scan that deletes misses nothing it promised; cache not staler than its bound |
| MCP clients and strategies (`llm-agent-mcp`, `llm-agent-libs/src/mcp`) | connections, cool-downs, tool vectors | connect, call, reconnect | MCP servers | single reconnection; no use after close |
| skill plugin host (`llm-agent-libs/src/skills/plugin-host`) | active snapshot, store generations | load, reload, query | sources, vector store, catalog store | what is served is whole under concurrent loads, sweeps and failures; failed sources are carried forward |
| usage recorder (`llm-usage*`) | buffer, dropped count, flush promise | record, flush, close | sinks | nothing recorded is lost or doubled short of the documented limits |
| workers and reload (`smart-agent/workers`, `config-reload-watcher.ts`) | worker registry, watcher debounce | build, drain, reload | registry, MCP | workers drained after the graphs that use them |
| LLM providers, embedders, credentials | token caches | chat, stream, embed | vendor APIs | conversion of data |
| API adapters, HTTP routes, CLI | per-response stream state | convert, route | agent | conversion of data |
| configuration, classification, assembly, reranking, observers, decisions | none that decides anything above | | | |

The last three rows are data conversion, parsing and observation, and are out of
scope except where another component depends on a decision they make.

### Hard behaviours

*Concurrency*: several requests of a session on one graph; a reload, a sweep, a
deletion or a shutdown between any two awaits of a request; a superseded build that
resolves after its successor; builds of several sessions that fill, read and lose the
entries of one worker cache between their awaits; the tools of a planner's round side by
side on one plan; hosts that load and sweep skills over one store. *Ordering*: the end of a task by its worker, a stop, a timer and the
write of its result; outcomes that come while a turn drains or a host's call runs.
*Crash and restart*: the controller persists a bundle and artifacts in separate writes and
must resume from any prefix of them. *Timeout and retry*: quota gates shared by callers,
streams that are reset half way, resumed attempts that charge budgets. *Partial failure*:
a build that ends after it cached a worker, a response of the model in which each call
fares differently, a publish that was made and reported as failed. *Bounds*: the registry's cap, the controller's step, rewind, attempt and
resume budgets, the tool loop's calls and iterations, the slots of the board, the gate
registry's size. The complete list, each at its line, is
`hazards` in `PROJECT.json`.

## 2. Modules

| module | models | role |
|---|---|---|
| `SessionRegistry` | `session-registry.ts`, `session-graph.ts` | component |
| `SessionLease` | what the registry promises its callers | abstract specification |
| `SessionRegistryProofs` | | theorems about `SessionRegistry` and `SessionResources` |
| `SessionResources` | `session-graph-factory.ts`, `session-lifecycle/index.ts`, `SmartServer.buildSessionAgent` | composition: EXTENDS `SessionRegistry` with what a graph owns |
| `ControllerCoordinator` | the classes of `controller/`: handler, bundle, run scope, planner cursor, waits, finalize | component |
| `ControllerCoordinatorProofs` | | theorems about `ControllerCoordinator` |
| `RunLedger` | what the controller promises of the runs of a session | abstract specification |
| `QuotaGate` | `throttle.ts`, `throttle-strategy.ts` | component |
| `Quota` | what the throttle promises about a quota | abstract specification |
| `QuotaGateProofs` | | theorems about `QuotaGate` |
| `ToolLoop` | `pipeline/handlers/tool-loop.ts`, `tool-loop-core.ts`, the registries of `policy/`, what `SmartAgent.process()` makes of the stream | component |
| `ToolLoopProofs` | | theorems about `ToolLoop` |
| `TaskBoard` | `coordinator/dialogue/task-board.ts`, `semaphore-pool.ts` | component |
| `TaskBoardProofs` | | theorems about `TaskBoard` |
| `Tasks` | what the board promises of a task | abstract specification |
| `DialogueSession` | `dialogue-session.ts`, `planner-tools-client.ts`, `structured-plan.ts` | composition: EXTENDS `Tasks`, which stands for the board |
| `DialogueSessionProofs` | | theorems about `DialogueSession` |
| `WorkerRegistry` | `workers/worker-registry.ts`, `SmartServer.buildSubAgents`/`buildSubAgent`, the reload paths | component |
| `WorkerRegistryProofs` | | theorems about `WorkerRegistry` |
| `SkillCatalog` | `skills/plugin-host`: `load()` of ingesting hosts, the Qdrant store with its catalog, `query()` | component |
| `SkillCatalogProofs` | | theorems about `SkillCatalog` |
| `MC...` | | TLC instances (symmetry sets, small structures) and their configurations |

### SessionRegistry

`graphs`, `draining`, `pendingBuilds`, `generation`, `pending` and `closed` are the
fields of the class. A `SessionGraph` object is an entry of `graph`, with its
`activeCount`, `lastUsed`, `markedForDispose` and `disposed`; a build is named by the
graph it will produce, so the same entry is the build promise first. `tearing` holds
the graphs whose `dispose()` runs; `req` is where each caller stands (not in, awaiting
a build, holding a graph). `clock` is `Date.now()`.

- `acquire()` is split at its one await: `AcquireHit`, `AcquireJoin`, `AcquireBuild`
  before it, `ResumeAcquire` after it. The `.then`/`.catch` of the build promise are
  `BuildPublished`, `BuildOrphaned`, `BuildFails`; `BuildPublished` contains
  `enforceCap()`, which runs in the same turn.
- `Release`, `EvictOne`, `EvictIdle`, `InvalidateAll` are one action each: all they
  change is changed before their first await. What follows their await
  (`flushEvictions`) only waits, so it is not an action.
- `disposeAll()` is `DisposeAllBegin` / `DisposeAllSweep` / `DisposeAllReturn`.
- `evictIdle` runs from a timer, hence only when no settled promise still has a
  continuation to run (`MicrotasksDrained`); requests and route handlers have no such
  guard, because they too start from promise continuations.
- Least-recently-used ties are broken by Map order in the code and by any choice here.

### SessionLease

The promise without maps, counters or timers: a session is served by one graph at a
time, a request leases the serving graph, and a graph goes only when no request
leases it or the server closes. `ImplementsLease` checks the refinement under
`LeaseStatus` (disposed = gone, published = serving, detached = retired).

### SessionResources

Adds what a graph opens and closes: `OpenClients`, `OpenPipeline` (with
`ReplacePipeline` after its await), `SettleBuild` refine a build; `CloseClients`,
`ClosePipeline`, `PipelineClosed`, `Torn` refine a teardown. The registry's actions
are used as they are, with the resources unchanged. Both close maps are keyed by
session id, as in the code, which is what its findings are about.

### ControllerCoordinator

`disk` is the persisted `SessionBundle`, `mem` the copy `execute()` works on, `loc` its
local variables, `at` where it stands; `results` are the step-result artifacts and
`terminal` is the terminal store, both written apart from the bundle. An action is the
code up to one durable write, with that write; `Crash` may come before any of them and
drops `mem`, `loc` and `at`. So every gap between an artifact, the terminal store and
the bundle is a state from which the next request has to recover.

- Classification and recovery: `Arrive`, `Classify`, `Replay`, `StartRun`, `NotFound`,
  `ResumeFinished`, `ResumeRun`; the pending marker: `Resurface`, `ConsumeResult`,
  `AskAgain`, `ConsumeAnswer`.
- Goal: `AskEvaluator`, `GoalEstablished`, `GoalNeedsConfirmation`.
- Main loop: `OutOfSteps`, `AdoptResult`, `ResumeWait`, `ResumeStep`, `AskPlanner`,
  `PlannerReplies` and one action per decision. `loc.parse`, the count of malformed
  plans, is a local of the invocation, as in the code.
- Steps: `StepReviewed`, `StepCut`, `RetryStep`, `SuspendOnTool`, `CallTool`,
  `ToolReturns`, `ToolUnavailable`, then `SettleStep`; waits: `StartWait`, `WaitOver`.
- End: `StartFinalize`, `Composed`, `ComposeFails`, `Exhausted`, `NothingComposed`, and
  `Flip`, the bundle write after the terminal one.

A context strategy is counted, not kept: `inFlight.queued` are external answers in the
transcript, `saved` the answers in the snapshot, `loc.rounds` the answers the strategy
holds, `answered` (a history variable) those the client has given. `SharesRounds` says whether
`restore()` takes over the rounds of the bundle as the strategy's own array
(`LegacyAccumulateContextStrategy`, `WindowContextStrategy`), so that what is recorded is in the
next write of the bundle whatever it is written for, or the snapshot is a copy
(`RagRecallContextStrategy`, which `pipelines/controller.ts:274` wires by default). A strategy
that migrates a raw transcript is not modelled.

Assumed: one request of a session is served at a time. Nothing in the handler
serializes them; with two at once the last bundle written wins. The adoption of an
artifact by a request that brings a tool result needs such an overlap, so that branch
of `ConsumeResult` is kept and not reached. Bundles of an earlier release (no
`inFlightStep`, a raw transcript, a torn wait deadline) are states this code does not
write. `exists` counts as `ok`. A rewind is decided only by a planner injected through
`deps.controllerPlanner`. The `mcp-result` and `plan-decision` artifacts are keyed and
rewritten with the same content, so they are not tracked.

### RunLedger

Runs without bundles, phases, budgets or crashes: one run is worked on at a time, its
steps are accepted in order and each once, its outcome is stored once and stands until it
is forgotten. `ImplementsLedger` maps `disk.run`, the approved artifacts and the
terminal store to it.

### QuotaGate

`gates` is the Map of the registry, `entry` a gate together with its registry entry
(`left` is `notBefore - now`, `age` is `now - lastUsed`, `leases`), `call` where each
`runWithThrottleRetry()` stands: sending, sleeping at the gate, pausing before a
transient retry.

- `EnterNew`, `EnterOpen`, `EnterShut` are `leaseQuotaGate()` and the loop up to its first
  await; `Reclaimed` is `reclaimGates()`, inside the turn that mints.
- `Refused` is the catch of a 429 with what follows up to the next await, so the flag
  `servingOwnWait` never outlives an action; `RetryOpen` and `RetryShut` are the loop head
  after a transient delay, `Wake` the second look of `waitUntilOpen()`.
- `Leave` is the `finally`: whatever ends a call returns its lease.
- A wake is followed by the request in the same turn of the event loop: timers and
  network replies come one per turn, so no other call runs between the look at the gate
  and the request.
- `own` stands for a strategy of the consumer: any decision. The jitter of a wake is a
  `Wake` that comes late. `waitedMs` is an input of a consumer's strategy only.

### Quota

A refusal shuts a quota for everyone for as long as was said or longer, and no request
is spent on a quota that is known to be shut. `ImplementsQuota` maps a key without a
gate to an open quota: an evicted gate may hold nothing.

### ToolLoop

`turn` is one record per request: where `execute()` stands and its locals;
`pendingResults` and `promise` are the entry of the session in
`PendingToolResultsRegistry` and what it waits for, `blocked` the entries of
`ToolAvailabilityRegistry`, `streamMode` the configuration. A call is its position in the
response of the model, its name says who can run it: a tool of a server, of the client, or
of nobody.

- `Enter` and `PendingArrives` are `injectPendingResults()` up to and after its await.
- The head of the loop: `TaskFinished`, `Aborted`, `Stopped`, `OutOfIterations`,
  `CallModel` (with the list of tools, which loses servers that do not answer), and
  `NamesCollide`, where `mergeOfferedTools()` throws on what was listed again.
- The stream: `StreamReset`, `StreamFails`, `Reprompted`, `Replied`, and `Answer`, a
  response with calls, which is one of `AllRefused`, `BlockedRound`, `Surface`,
  `OnlyHits`, `StartBatch`: the order of the `if`s and `continue`s after the stream.
- `BatchDone`, `Escalated` end the batch; `PromiseSettles`, `PendingExpires`,
  `BlockExpires` are the registries' own.

A *round* is what the context strategy records, an assistant message with calls and the
tool messages that answer it. `Settle` keeps, until the
batch is done, a tally of the response: the names that were
asked without a result (`missed`) or with two (`doubled`), whether a call was never asked
(`dropped`), whether a blocked tool was called and whether the response was the turn's first.
`Accounted` says which tallies are right: nothing is missed; calls are dropped only beside a
blocked tool, which answers its own call and forgets the others; two results has only a call
of a name that a server and the client both offer, in the first response or where the tool is
blocked. Two calls of a client's tool with equal arguments get one id in the code
(`externalToolCallId()`) and stay two calls here.
`seen` is what the consumer of the stream holds: the iterations its content came from, in
order and as often as it came.
The stage that ends a task early (`finish` of a dialogue worker) is an iteration number of
its own. Texts, deltas, the tool cache and heartbeats are left out.

### Tasks, TaskBoard

`task` holds each `TaskRecord` with its entry of the board (`at` is where `execute()`
stands), `fifo` the queue of `SemaphorePool`, `awaited` the runs `stopAll()` waits for.
`Start`, `Stop` and `StopAll` are the host's synchronous calls; `Granted`,
`WorkerReturns`, `HardStop`, `ResultWritten`, `WriteAborted` are `execute()` from one await
to the next. `active` counts the tasks that hold a slot; a slot that is given back goes to
the head of the queue in the same step (`Freed`). `Tasks` keeps of this only the state of a
task and how many terminal events it has had; `ImplementsTasks` maps the records to it.

### DialogueSession

The board is what `Tasks` promises: `state` and `told` are its variables, and a
step that settles a task also delivers the event to the session (`OnEvent`), because the
board calls its listener synchronously. `inbox` is `users`, `events` and `deferredEvents`
with `active` and `externalCoordinator`; `turn` the turn of the drain loop; `plan`,
`request`, `stepOf`, `owned` (the entries of `taskRequests` that name the last request)
what the planner's tools work on; `calls` the tool calls in flight; `saved` the chain of
saves. `shown`, `noted` and `cut` are history variables, except that `shown` and `turn.given`
also stand for `deliveredTaskIds` and the `deliveries` that wait for the end of the turn. Both
count: what is pushed twice reaches the user twice, and `StillFresh`, the second look after the
stored result was read, is what keeps that from happening.

- Drain loop: `Send`, `StartTurn`, `CallEnds` (end of a planner's call, with the
  correction it may ask for), `CallFails`, `TurnSettles`, `DrainEnds`.
- Tools of a turn or of the host: `Reserve`, `ReadSources`, `StartAttempt` (three pieces of
  `delegate_task`), `StopTask`, `CreatePlan`, `Reopen`, `AskUser`, `AuthorBegins` and
  `AuthorEnds`, `NewRequest`, `StatusRead`, `DeliverBegins` and `DeliverEnds`. The calls of
  one round begin before any of them goes on (`going`).
- Host and end: `HostCalls`, `HostSaves`, `HostSettles`, `SaveStarts`, `SaveLands`, `Close`,
  `CloseEnds`.

Steps have the kinds a delivery and a check tell apart; skipped steps, the contents of a
result and the planner's prompts are left out. The planner is any sequence of tool calls.

### WorkerRegistry

`cache` is `_workers.cache`, `entries` the `WorkerLlmSet` objects it points to (shared and
mutable, also after they left the cache), `handles` the handles of primary builds with the
MCP connection each opened, `build` the loop of each session build over the workers.

- `Look`, `Resolve`, `MakeEntry`, `WireSession`, `WirePrimary`, `Connected`, `PriorClosed`,
  `Reread`: one build, cut at its awaits; `BuildThrows` at those that can reject.
- `HotReload` is the file watcher (drain and invalidation in one turn), `PutDrain` and
  `PutInvalidate` the route, `CloseBegin` and `CloseDrain` the shutdown.

`disturbed` is a history variable: the workers, by the drain they were built after, whose
primary build met another build, a drain, or its own failure. The two properties say that
all harm is on that list. Assumed: a worker has an MCP server and a store of its own, so
that making its entry awaits; its server answers; the parent agent has MCP clients.

### SkillCatalog

Hosts and readers are processes of their own that share two services: `catalog`, the row
of the catalog store, and `points`, the vectors (kept as the `createdAt` a source's vectors
carry in a generation; which records these are no property tells apart). `host` holds a
host's `_registeredSet` and the local variables of its `load()`, `reader` a `query()`.

- Every request to a service is an action, and everybody else may act before the next one:
  `sweep()` is `LoadBegins` (clock and snapshot), `DeleteRetired`, `PruneRetired`, `Scan`,
  `DeleteOrphan`; `attempt()` is `ReadPrior`, `Acquired`, then per collection
  `BeginGeneration` / `Upserted` / `CarryBegins` / `CarryEnds` or `BuildFails`, then
  `Publish` and the `Discard` of its `finally`.
- A request may fail after it was served (`BuildFails`, `PublishBreaks`); `Throws` is any
  other failure that leaves `load()`; `Crash` is the end of a process at any point.
- `Acquired` merges what the sources answered, carries failed owners forward and passes
  the reload guard or throws, all of it between two awaits.
- `publishCatalog()` takes `now()` and then reads and updates the row
  (`qdrant-store.ts:709`): the stamp `since` is taken in the step in which a host is done
  building and enters `publishing`, `Publish` commits any time later. A query that reads the
  catalog in between searches what is retired as of that stamp: its `since` is the earliest
  stamp of a publish under way that may still commit (`Stamped`), or now.
- The search of a query is not an action: it may be served at any moment its deadline
  allows, which is what `Searching` says.
- Qdrant and Postgres are external: upserts wait until the vectors are searchable, an
  UPDATE is conditional on the revision, a deletion takes effect at once.

`written`, `late` and `unsure` are history. `ServedWhole` is claimed of generations that
were activated within `OrphanGrace` of their first vector and, once retired, of those whose
publish was answered, and of a query whose deadline ends before the grace does, counted from
its `since`; section 6 tells why it cannot be claimed of the others.

## 3. Runs, bounds and what they show

| run | instance | shows |
|---|---|---|
| `registry` | 2 sessions, 2 requests, 3 builds, cap 1, TTL 1, 1 tick, 2 reloads, symmetric | `NoDisposeWhilePinned`, `OnlyCurrentServed`, `NothingLost`, `ShutdownSweepsAll`, `ImplementsLease` |
| `resources` | 2 sessions, 2 requests, 2 builds, 1 reload, the first build named | `TeardownFrees`, `OnlySiblingsInterfere`; `AcquireSettles`, `DetachedTornDown`, `ShutdownReturns` of the registry, with the builds and teardowns in their steps, under `ResourcesFairness` |
| `controller` | 3 requests, 2 steps, 1 step per plan, resume and finalizer budgets 1, best-effort finalizer, snapshots are copies | `LockStep`, `BudgetsHold`, `OutcomeStands`, `ImplementsLedger` |
| `controller_waits` | 2 requests, no finalizer, wait and work steps, plans of up to 2 steps, 1 retry, rounds shared with the bundle | `SuccessCompletesPlan`, `WaitSurvives`, `RequestEnds` under `FairSpec` |
| `controller_answers` | as `controller`, two tool calls | a violation, see section 6 |
| `quota` | 2 keys in a registry of 1, 3 gate objects, 2 calls, delays 0 and 2, all strategies | `LeasesExact`, `LimitHolds`, `ImplementsQuota`, `HoldsEnd` under `FairSpec` |
| `loop` | 2 requests, 2 iterations, 1 tool call, responses of up to 2 calls, 1 reset, two tools of servers (one also the client's), one unknown name, both stream modes | `EveryCallAnswered`, `PendingOnce`, `BudgetHolds`, `ConsumerAgrees`, `TurnEnds` under the fairness of `LoopSpec` |
| `board` | 3 tasks, 1 slot, a store of results | `SlotsUsed`, `ImplementsTasks`, `StopAllReturns` under `BoardFairness` |
| `dialogue` | 3 tasks, a plan of a piece of work and its check, 1 message, 1 correction, 1 plan, 2 deliveries of a result at a time, no calls of the host, symmetric | `EvidenceCurrent`, `OutcomesReach`, `DeliveredOnce` |
| `dialogue_host` | 2 tasks, no plan, 2 messages, calls of the host, `close()` | `ClosedForGood`, `InputsSettle`, `CloseReturns` under `DialogueFairness` |
| `workers` | 2 builds, 2 workers, 2 reloads of either kind, failures, shutdown, symmetric | `OnlyOverlapsHurt`, `OnlyOverlapsLeak` |
| `skills` | 2 hosts, 1 reader, 2 sources, 1 collection, 3 generations, 3 loads of up to 2 attempts, both graces of 3 ticks, a recall deadline of 1, symmetric | `ServedWhole`, `NothingStranded`, `FailedSourcesKept` |

Two sessions are enough for every property that separates them, two requests for
sharing and for release in either order, three builds for a superseded build, its
successor and one more; the cap of one makes every second publish meet it, with a
pinned and an unpinned victim. Three requests of the
controller are a start, a recovery and the recovery of a recovery, and also a run that
supersedes a suspended one and is superseded; a budget is at most one, so that one try fits
and the second meets the bound. In `controller_waits` the resume budgets are zero: any
resume that is charged where it must not be ends the run. Two keys in a registry of one
make every second mint meet the limit, with a gate to spare and without, and two calls meet
on one gate or hold two; a third gate object is there for a key whose old gate a call still
holds. Nothing in `QuotaGate` needs a bound, because time is kept as what is left and gates
nobody refers to are minted again.

Two requests in the tool loop share a mixed round and its pending results; two calls in a
response are every pair of kinds, in either order, and one is over a budget of one; a
second iteration meets the results of the first. One of the two servers' tools has the name of
the client's only tool: it is both in the first response, and the client's alone once its server
does not answer the refresh. Three tasks on one slot are one that runs,
one at the head of the queue and one behind it. In `dialogue` three tasks are a piece of
work, its check and the work again, or a check of either, and its host makes no calls, so the
queue for a host is exercised by `dialogue_host` and covered by `OutcomesAreTold` only; in
`dialogue_host` the two tasks are the host's and one a turn delegates. Two builds are one that fills the cache and one that meets
it; with a second reload a drain meets a cache that was already rebuilt. In `resources` the
symmetry of the builds is given up for liveness and replaced by naming the first one
(`FirstBuildFixed`).

In `skills` three loads are one that activates a generation, one that replaces it and one
that sweeps it, or two that lose against each other over what a first one left; two sources
are one whose vectors are made anew and one that fails and is carried forward. `FewOutcomes`
leaves three answers to each load (both sources, the second fails, neither has skills) and
`PromptQueries` the queries `ServedWhole` promises something. The graces of three ticks and the
deadline of one leave room for all that happens within the grace: a query that reads the catalog
at any tick before the commit, is embedded at a later one and still searches in the tick before
the grace ends, with a sweep in any of them. `AttemptsFirst` has attempts
begin when the clock begins and end at any tick, while loads that begin later end with their
sweep, and `SweepsLater` has the last load begin a tick before the grace is over, or then. No host of the run is `Strict`: that
host throws where any may.

`MaxRequests`, `MaxClock`, `MaxGeneration`, `MaxRound`, `MaxResets`, `MaxSends`, `MaxEdits`, `MaxTwins`,
`MaxReloads`, `MaxLoads` and the sets `Graphs`, `Tasks`, `Builds`, `Generations` bound what the code leaves unbounded;
a run stops where they are exhausted, and a board, a closed session and a server that was
shut down come to rest, which is why `CHECK_DEADLOCK` is off in the runs that have such a
bound. The runs `quota` and `loop` check for deadlock.

Each property of a passing run has a mutant in `PROJECT.json`: an operator marked
`FAULT` that TLC must find to break the property. `SessionRegistry`, `QuotaGate`,
`SessionResources`, `ControllerCoordinator`, `ToolLoop`, `TaskBoard` and `WorkerRegistry`
also define properties no run checks: type invariants and others (`CloseOnce`, `SingleFlight`, `CountExact`, ...) that are proved instead (section 4),
and those of section 6 that do not hold.

### Fairness

`ResourcesFairness` of `SessionResources` assumes what the runtime does: a promise that is
settled runs its continuation, builds and teardowns settle (they end in bounded
network calls), a request ends and releases (`finally`), and a shutdown that began
continues. `FairSpec` of
`ControllerCoordinator` assumes that the calls of an invocation settle (roles and tools
end in bounded network calls, a wait is clamped) and that the code after them runs; a
client need not come back, and a crash is never owed. `FairSpec` of `QuotaGate` assumes only
that time passes. In `ToolLoop` a turn goes on once the model's stream and the servers have
answered or timed out, and a batch left running settles. In `TaskBoard` only the event loop
is fair, that is granted slots, the timer of a hard stop and a cancelled write: neither a
worker nor the store of results is assumed to answer. In `DialogueSession` tool calls and
saves end; a planner's call ends although it uses tools again and again (strong fairness,
because its tool loop is bounded, see `TurnEnds` of `ToolLoop`); tasks end only once the
session closes (`StopAllReturns` of `TaskBoard`). Clients, operators and the clock owe
nothing.

## 4. Proofs

Every theorem holds for all values of the constants that the module's assumption allows.
A proof module has the same plan throughout: an inductive invariant in named parts, a lemma per
action (`...Keeps`) under one that combines them, then the theorems, each from the
invariant. The table names the invariant and what is proved from it; `PROJECT.json` says
what each theorem establishes.

| module | invariant | theorems |
|---|---|---|
| `SessionRegistryProofs` | `IInv`, `LInv` | `TypeCorrect`, `PinnedIsSafe`, `ServedIsCurrent`, `OneBuildAtATime`, `NoGraphLost`, `ShutdownLeavesNothing`, `CountIsExact`, `PublishNeverOverwrites`, `CapIsRespected`, `RegistryImplementsLease` |
| `SessionRegistryProofs`, of `SessionResources` | `ResourcesInv` with `IInv` | `ResourcesKeepRegistry`, `OwnershipHolds`, `ResourcesTypeCorrect`, `ClosedOnce`, `TeardownsFree`, `SessionsAreIsolated` |
| `ControllerCoordinatorProofs` | `CInv` | `ControllerTypeCorrect`, `CursorsAgree`, `BudgetsAreKept`, `FinishedStaysFinished`, `AttemptsCommitOnce`, `OutcomesStand`, `SuccessMeansDone`, `WaitsSurvive`, `ControllerImplementsLedger` |
| `QuotaGateProofs` | `QInv`, `RInv` | `QuotaTypeCorrect`, `LeasedStaysRegistered`, `LeasesAreExact`, `RegistryIsBounded`, `ThrottleImplementsQuota` |
| `ToolLoopProofs` | `LoopInv` | `LoopTypeCorrect`, `PendingTakenOnce`, `BudgetIsKept`, `AnswerIsRebuilt`, `CallsAreAnswered` |
| `TaskBoardProofs` | `BoardInv` | `BoardTypeCorrect`, `SlotsAreUsed`, `BoardImplementsTasks` |
| `DialogueSessionProofs` | `DInv` | `SessionTypeCorrect`, `EvidenceIsCurrent`, `OutcomesAreTold`, `ResultsDeliveredOnce`, `ClosedLeavesNothing` |
| `SkillCatalogProofs` | `SkillInv` | `SkillTypesHold`, `ServedIsWhole`, `FailedSourcesStay`, `NothingIsStranded` |
| `WorkerRegistryProofs` | `WInv` | `WorkersInvariant`, `WorkersTypeCorrect`, `ServedWorkersConnected`, `LeaksNeedOverlaps` |

**SessionRegistry.** The properties are not inductive by themselves. `IInv` adds what relates
the maps to the objects: a served graph is built, its session's, current and undisposed
(`ServedIsGood`); a draining graph is marked and pinned (`DrainingIsPinned`); an
unbuilt graph has no pins; the builds of the current generation are exactly the
entries of `pendingBuilds` (`CurrentBuildPending`, `PendingIsCurrent`) — without this
pair neither single flight nor "never overwrites" survives a superseded build that
settles; and a shutdown in progress waits for every build in flight
(`ShutdownCovers`). `CountIsExact` and `CapIsRespected` rest on it and on cardinality lemmas
(`PinCounts`, `ReleaseCounts`, `CountedShrinks`, `PublishCaps`). The refinement of
`SessionLease` needs `LInv` besides: exact counts, that what a request awaits is built for its
session, that unused names are fresh, and that an undisposed graph of the present generation
that is not marked is the one being served (`CurrentIsServed`). A step then maps to what it
does to the graphs it disposes (`Goes`), so a reload that marks ten graphs and disposes three of
them is one step of the lease.

**SessionResources.** `ResourcesKeepRegistry` comes first: a step between two awaits of a build
or a teardown is a step of the registry or none, so `IInv` and every theorem about
`SessionRegistry` hold of the composition. `ResourcesInv` then says who owns what. `StepAgrees` ties where a
build or teardown stands to the phase of its graph; `OpensInOrder` says that what is not yet
opened is not open; `RegisteredIsOpen` and `ClosingIsOpen` that the close function a Map
holds, or a build or teardown has taken out of it, is of an open resource of the same
session; `ClosersApart` that nobody else has taken it. These hold although the Maps are keyed by
session and graphs of one session overwrite each other's entries, because an entry is taken and
removed in one turn. They give `ClosedOnce` and `SessionsAreIsolated`. `TeardownsFree` needs `AloneIsFiled`: of
a session's only graph (`Alone`), whatever is open is registered, or its own teardown is about
to close it.

**ControllerCoordinator.** `CInv` says of the bundle on disk and of the copy in memory that
each is `Sound` with the artifacts: cursors agree, the attempt in flight is of the next step,
every earlier step has an accepted artifact, the next one at most that of the attempt
executing, counters are below their caps. Before the last write `mem` is not sound in this
sense (the run is finalized but not yet terminal), so what is claimed there is that the bundle
about to be written is (`EndOf`). `Same` ties memory to disk between writes: whatever a crash
drops, the next request starts from a bundle at the same step of the same run. `Unique`
(one artifact per attempt, one accepted artifact per step) is what adoption after a crash
depends on; `Charged` counts the artifacts a run may have that were not charged to `maxSteps`, at
most one per later request; `Fits` is what is known at each place of `execute()`. `StepShape` says that
every action writes at most one thing: nothing, a run that starts, an artifact, an outcome or an
expiry. The action properties and the refinement of `RunLedger` are read off it. `CursorsAgree`,
`SuccessMeansDone` and the refinement need the lemmas that relate the set of artifacts to the
number of accepted steps (`PairsCounted`).

**QuotaGate.** `QuotaAssumption` includes that the set of calls is finite (`Tracked`, the number of leases, means nothing
otherwise). `LeasedStaysRegistered` and `LeasesAreExact`
hold only together, as parts of `QInv`: an eviction takes gates without a lease, which is
harmless because a gate without a lease has no call, which is true because the count is
exact; and the count stays exact because a call leaves the gate it entered, which is still
the one its key names. `StayKeeps`, `BeginKeeps` and `LeaveKeeps` are the three things an
action can do to the leases (nothing, take one, return one); every action is an instance
of one of them. `RegistryIsBounded` rests on `ReclaimMakesRoom`, which says what
`reclaimGates()` leaves room for; it is proved for any number of keys, where the run has two: an earlier form of
`LimitHolds` held for two keys and was false for three. For the refinement of `Quota`, `RInv` adds that no two keys share a gate
(`OwnGates`); the abstract quota of a key without a gate is open.

**ToolLoop.** `LoopInv` speaks of one turn at a time (`TurnOK`: a turn's charges including the
batch that runs, its iteration, what its consumer holds and what the loop holds of it), plus
`EntriesOwned`, the only fact about several turns: the pending entry of the session and those that turns wait for
are different ones, and none is free. So an action that moves one turn needs only its own part (`MoveKeeps`).
For `CallsAreAnswered` `LoopInv` keeps that after the first response the model is called with
names that were compared (`Compared`). Its proof follows a response through the order of the
`if`s: the rounds of each branch share at most the calls two sides answer for (`Clean`, `Both`)
and together ask every call (`Cover`), or report a blocked tool. Nothing is assumed of the names.

**TaskBoard.** `TaskBoardAssumption` alone (the set of tasks may be infinite). The
invariant `BoardInv` adds to the types and to `SlotsUsed` that the holders of slots are a
finite set (without it their number means nothing) and `Agrees`, which ties the state of a record to where
`execute()` stands with it: a waiting task is queued, a running or storing one is running,
a granted one is queued unless it was stopped. Without `Agrees` a stop could settle a task
for the second time. `SlotHandedOn` is the lemma the slots rest on: whoever gives one back,
for whatever reason, the head of the queue holds it next. The refinement maps a record to
its state and the count of its events; `NothingTold`, `OneSettles` and `T!StopQueued` are
the three things a step can be for the abstract tasks besides `Queue` and `Run`.

**DialogueSession.** `DInv` has a part per structure. `PlanSound` says what the plan may claim of
its attempts, whatever their state; `Reserved` ties the calls of `delegate_task` in flight to the plan and to
the sources they read, because between the reading and the start another attempt may have
made the reading stale; `Placed` says where an outcome waits; `Told` that an outcome nobody was told
of is in one such place; `Once` that the deliveries made
and those that wait for the end of the turn are together at most one per task; `Shut` what remains while the session closes. `EvidenceCurrent` and
`OutcomesReach` are consequences of several parts.

**SkillCatalog.** Everybody may write the shared store between any two requests of a host, so
`SkillInv` is laid out as rely and guarantee. `Moves(W)` is what a step of one host may do to the
store, the catalog and the queries when it writes the generations `W`, which it must own
(`Owned`); `HostOK` of every other host and `ReaderOK` of every query are stable under
it (`HostStays`, `ReaderStays`, `StoreStays`), and `MoveKeeps` leaves an action with its own host
only. `HostOK` has a part per phase: a catalog that was read has the entries of today
as long as its revision is (`SnapOK`); what a sweep has still to delete may go (`SweepOK`):
it is `Dead`, which it stays whatever anybody does, or it is `Old`, past the orphan grace, while
what was activated since the sweep read its catalog is `Younger`; what is being built is nobody
else's and is as it was written (`BuiltOK`); an entry that will be published has what is carried
forward from the one it replaces (`EntryOK`, `BuildOK`); what an attempt discards is
served only if its publish was not answered (`DiscardOK`). `MayGo` names the two exceptions of
`ServedWhole`, `late` and `unsure`. `Fenced` relates queries and publishes: no query that is
under way counts its grace from later than the stamp of a publish that may still commit, because
a query that begins takes the earliest such stamp, a publish that begins is stamped now, and one
that lost its revision never gets it back (`FencedStays`). `NothingIsStranded` is proved of steps: a step strands no generation
(`Tidy`) unless a process ends or a load throws. `SkillAssumption` includes that `None` is no
generation, entry or time, and that the recall deadline is shorter than the grace of retired
generations, which the code enforces; the orphan grace may be anything.

**WorkerRegistry.** `WInv` speaks of a worker that is `Calm`: not on the list `disturbed` since
the last drain. A build that is with such a worker is a session build that goes by the cached,
complete entry (`SessionOK`, `Full`), or it is a primary build, then alone, and the entry is as far as it
has come (`PrimaryOK`); without a primary build the entry is missing or complete
(`CalmOK`). `WiredAsCached` is what `OnlyOverlapsHurt` needs beyond that: what a build that began
since the last reload wired earlier is still what is cached. `OpenIsCached` is what `OnlyOverlapsLeak` needs: an open
connection that is not on the list is the cached one of its worker. Both are claimed of calm
workers only, while others are in any disorder; that disorder of one worker never reaches another is
`EntriesApart` and `ClosersNamed` (no two names share an entry, and what closes an entry is a
handle of its own worker). The shared `WorkerLlmSet` that left the cache may still be written by a build at
`prior`, which is why these two speak of such builds too. `DrainKeeps` does the three kinds of drain at
once: it asks only that what follows it in the turn makes the graphs of before not count as served.
`WorkersAssumption`: at least one worker, the names distinct, finitely many builds.

Only model-checked: the nine liveness properties (`AcquireSettles`, `DetachedTornDown`,
`ShutdownReturns`, `RequestEnds`, `HoldsEnd`, `TurnEnds`, `StopAllReturns`, `InputsSettle`,
`CloseReturns`): fairness and ENABLED are out of the prover's reach. Every safety invariant, action
property and refinement a passing run checks is also a theorem.

## 5. What is not modelled

- `SessionRegistry.release(sessionId)` without a graph (no caller), the `mcpServerFactory`
  path of the graph factory, `closePipeline` (not wired by the server).
- Overlapping requests of one session in the controller; its context strategies beyond
  the count of answers they hold.
- The private copy of the tool loop in `agent.ts` (an older variant of `ToolLoop`), a loop
  with `refreshToolsPerIteration` off, the ids of calls, the
  tool cache, heartbeats, output validation beyond "accepted or asked again".
- Restoring a dialogue session from its row, the host that keeps sessions, working memory,
  compaction; skipped and batch steps of a plan beyond their outcome.
- Which settings a reload changes, weights of stores, workers without MCP servers of their
  own, servers that do not answer while a worker connects.
- The in-memory store of skills, the `load()` of a recall-only host, the verdicts on
  embedding spaces, and the sources of skills (marketplaces, git, chunking).
- Contents of prompts, answers and tool results; log lines; metrics; HTTP framing.
- Every component the table of section 1 lists and section 2 has no module for; see the plan.

## 6. Disagreements between the code and what is said of it

The first is a run, whose counterexample TLC finds.

1. An external tool answer is lost when the process dies during the next internal tool
   call of the same step (`controller_answers`), with a context strategy whose snapshot is a copy.
   `RagRecallContextStrategy` is one, and what the controller pipeline wires unless its consumer
   injects another (`pipelines/controller.ts:274`): its snapshot of the suspension says
   `last: null` if the external call was the first of the step, and `form()` then shows neither
   the answer nor what was recorded of it. With a strategy that shares its rounds with the bundle
   (the fallback of the handler, `LegacyAccumulateContextStrategy`, and `WindowContextStrategy`)
   the write that counts the call carries the answer: with `SharesRounds = TRUE` TLC finds no violation.

Four more are stated as properties of the modules that do not hold; naming one in the
configuration of the run in brackets shows the counterexample:

2. After a reload, building the replacement graph closes the pipeline of the draining
   graph a request still runs on (`DrainingKeepsPipeline`, a PROPERTY for `resources`).
3. The teardown of an evicted graph takes the MCP close function a newer graph of the
   same session registered (`HeldKeepsClients`, a PROPERTY for `resources`).
4. A control failure loses its typed reason when a crash comes between the artifact and
   the bundle (`ControlFailureKept`, an INVARIANT for `controller` with
   `BestEffort = FALSE` and `MaxRetries = 1`).
5. A request with an unknown run id overwrites the pending tool call of the suspended run
   (`PendingSurvives`, a PROPERTY for `controller`).

Met while modelling, without a run of their own; the models contain them:

- `disposeAll()` does not wait for a teardown whose promise an earlier flush spliced
  (`session-registry.ts:218` says "Resolve all in-flight dispose() calls").
- A second reload while a graph of the session drains overwrites its `draining` entry;
  `disposeAll()`, "Dispose every graph (server shutdown)", then does not dispose the first
  one, which goes with its last release. `SessionLease.Close` allows for it.
- Two builds of one session in flight register their pipelines over each other
  (`ReplacePipeline` awaits between the lookup and the registration), and one is never closed.
- A step adopted after a crash is not charged to `maxSteps`, which `docs/PIPELINES.md:77`
  calls the maximum number of plan steps; `BudgetsHold` states the bound that holds, one
  more attempt per later request.
- Confirming the spent step budget ("please confirm how to proceed") leads to the same
  question, for ever: nothing but a new run resets `stepsUsed`.
- `throttle-strategy.ts:44` says `attempt` is "0 for a `gate` decision"; a call that was
  refused before and meets the gate again after a transient failure passes on the count
  of its refusals (`RetryShut`).
- `docs/PIPELINES.md:80` calls `maxToolCalls` the tool calls per run, the code counts them
  per attempt of a step (`toolCallCount` of `inFlightStep`); the same table calls
  `maxStepAttempts`, `maxStepResumes` and the other optional caps unlimited by default,
  the code falls back to 5, 3 and so on.
- Two first builds of one worker side by side (`OnlyOverlapsHurt` with an empty
  `disturbed`): the second backfill keeps the clients of the first and closes them, so both
  sessions hold closed clients, where `worker-registry.ts:154` says re-wires "find the
  worker's own resources".
- A primary build that throws after its entry was cached leaves that entry empty, and the
  sessions that follow get the parent's clients until the next reload;
  `smart-server.ts:2168` says the cache "keeps the worker's declared RAG/MCP intact across
  per-session re-wires".
- A drain during a primary build leaves its connection to nobody, and raises the error
  `worker-registry.ts:297` calls "impossible".
- A build that a reload has superseded is not awaited by the shutdown and may connect a
  worker after it.
- A mixed round that is surfaced before the results of an earlier one were picked up
  overwrites them in `PendingToolResultsRegistry`, which has one entry per session.
- A generation whose first vector is older than `orphanGraceMs` before it is activated (a
  slow embedder, several collections in one load) is an orphan to the sweep of any other
  host, and its vectors are deleted before or just after its activation: `ServedWhole`
  without `\ late` is violated. `docs/ARCHITECTURE.md:734` says "recall never sees a
  half-built active generation", `qdrant-store.ts:742` "never a fresh in-build gen". The
  youngest vector does not help: a sweep may have scrolled before the sources that failed
  were carried forward.
- When a publish fails after the catalog took it, the clean-up of the attempt finds the
  generations active and leaves them alone; if another host has replaced them by then it
  deletes them at once, without the grace of retired generations, because
  `discardGeneration()` looks at the active entries only (`ServedWhole` without
  `n \notin unsure` is violated).
- The recall deadline is "so a query cannot outlive the backend's retention grace"
  (`compatible-skills-rag.ts:20`), but it starts after the query was embedded: a slow
  embedding outlives the grace first. So does a search within its deadline if it read the
  catalog after `publishCatalog()` took `now()` (`qdrant-store.ts:709`) and before the UPDATE
  that retires what it read: its grace is shorter by the time the two requests of
  `casPublish()` take, which nothing bounds. With a grace of 60 and a deadline of 5, a query
  that reads at 10, between a stamp of 0 and its commit at 11, and is embedded by 56, may be
  searching at 60, when a sweep deletes the vectors. The last line of `Searching`, with
  `since` as `Query` sets it, is the condition.
- A host that loses the revision in `pruneRetired()` throws out of `load()`:
  `catalogCasMaxAttempts` covers only `attempt()` (`skill-plugin-host.ts:423`).
- `carryForward()` copies vectors as they are, and the manifest of the generation they join
  names the `embeddingSpaceId` of the host that loads (`qdrant-store.ts:673`,
  `skill-plugin-host.ts:340`), also when the host that embedded them had another one;
  `compatible()` then accepts a mixture of two spaces, where
  `llm-agent/src/interfaces/skills-rag.ts:19` calls it "stable id of the actual vector space".
- `merge-offered-tools.ts:5` says "Fail-fast on any name in BOTH sets", so that a call is never
  classified twice, but only the tools selected for the request are compared
  (`tool-select.ts:132`, not at all in mode `hard`), while `toolClientMap` has all: in the first
  iteration a call of a client tool that bears the name of an unselected server tool is run on the server and
  surfaced too. The refresh of a later iteration compares all (`tool-loop.ts:339`). The run
  `loop` has such a name, and `Accounted` says that nothing else is answered twice.
- A blocked tool's round answers the blocked calls and forgets the other calls of the response
  (`tool-loop.ts:866`); they are not in the model's next context, so nothing is left open there,
  but nobody learns that they did not run.
- `DefaultPipeline.execute()` records an exception of a stage on the span only: the result
  has no error (`default-pipeline.ts:285`). A name collision that the refresh of a later
  iteration meets ends the turn that way, without a chunk that says so (`NamesCollide`).
- `docs/PIPELINES.md:480` gives `TASK_OUTPUT_CHAR_LIMIT` as 4000, `task-board.ts:36` has 60000.
- `docs/PIPELINES.md:518` says "Events arriving during a turn wait for a later event turn";
  a correction of the running turn takes them (`CallEnds`).

## 7. Plan

The order is by how much of the system's behaviour rests on the part.

1. Session registry, its abstract lease, graph factory and lifecycle, and their proofs (done).
2. `ControllerCoordinator`, the abstract `RunLedger` it implements and the proofs of both
   (done). To come: overlapping requests of a session.
3. `QuotaGate`, the abstract `Quota` it implements and the proofs of both (done).
4. `ToolLoop`; `Tasks`, `TaskBoard` and `DialogueSession`, with their proofs (done);
   `WorkerRegistry` and its proofs (done). To come: restoring a dialogue session.
5. `SessionMeta`: rows against registry, sweep, delete and resume.
6. `Resilience`: circuit breaker with concurrent calls and half-open probes; composition
   with the throttle.
7. `DagInterpreter`; `Stepper` (recursion as a bounded tree, no RECURSIVE operator where
   theorems follow); `RagRegistry` (name reservation across awaits, session close);
   `ScanDelete` and `RecordCache` over an external store.
8. `SkillCatalog` and its proofs (done; the in-memory store to come),
   `McpConnection`, `UsageRecorder` (flush and retry), then
   `Server`, composing registry, workers and reload.
