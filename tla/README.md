# A formal model of PADS v3

PADS v3 is a Go program that scores proposed code changes and decides, under
stability rules, which of them it accepts.  This directory holds TLA+ modules
translated from its source, TLC configurations that check them on small
instances, and TLAPS proofs of their most important properties for every value
of the constants.  Paths are relative to `src/`; `E/` stands for
`internal/policy/evolution/`.

## 1. Inventory

### 1.1 The evolution core (`E/`)

| Part | State it keeps | Operations | Used by |
|---|---|---|---|
| `EventQueue` (event_queue.go) | the file `event_queue.log`, opened for appending; a read offset in memory | `Enqueue` (write, fsync), `ReadFrom` (all lines since the offset), `LoadAll` | `enqueueEvolve` writes it, the worker reads it, `GET /state` and the agents load it |
| `Worker` (worker.go) | the flag `running`; the dedup memory `processed`, `processedOrd`, `processedCnt` | `Start` (the loop), `Stop`, `process`, `cleanupProcessed` | one goroutine of the service |
| `SafeEvolutionLoopV3` (safe_loop_v3.go) | detector window, sequence number, selector | `Evolve` under a write lock; `StabilityScore` under a read lock | the worker, `AgentLoop`, the agent pool |
| `StabilityGate`, `AntiCollapseDetector` | sliding windows of scores | `Check`, `Add`, `IsStable`, `IsOscillating` | `Evolve` only |
| `WAL` (wal.go) | `evolution.wal`, hash-chained entries in memory | `Append`, `loadFromDisk`, `VerifyChain` | `Evolve`, before it decides |
| `EventStore`, `ReplayEngine` | `evolution.log` | `Append`, `LoadAll`; `Rebuild` of the state at a point in time | `Evolve`; `cmd/evolution-replay` |
| `UCBSelector`, `DeltaRewarder`, `AgentLoop` | pulls and rewards per arm, `ucb_state.json` | `Select`, `Update`, auto-save; `Evaluate` | worker, HTTP handlers, agents |
| `RateLimiter`, `authMiddleware`, `handleRotate` | requests per token, the token in memory and in `token.txt` | `Middleware`, `cleanup`; rotation | every protected endpoint |

What makes them correct: a queued event that a client was told about is read
exactly where it lies; it is decided in order and, within the dedup window, once
per ID; the two detectors that see every score never disagree; nothing is in
the event log that the write-ahead log does not know; a broken chain means a
lost entry; the loop leaves instability again; a replay comes back to the state the
loop has.

What is hard: a process killed between two writes, a short write in a file of
lines, a read that fails half way, one `Evolve` shared by several callers, a
middleware that holds its mutex while the handler runs, and a timeout that
answers for a handler that still runs, or still reads the body of its request.

### 1.2 The other subsystems

| Subsystem | State | What makes it correct, and what is hard |
|---|---|---|
| Execution DAG (`internal/dag`) | nodes, dependencies, events of a run | every node after its dependencies; the event order must not depend on the parallelism; a cycle leaves its nodes out |
| CI (`internal/ci`) | matrix, plan, cache, gates, pipeline WAL | the plan orders jobs by their needs; replay and certification repeat the run; both append to their logs |
| Policy (`internal/policy`, `internal/ci/runner`) | the configuration in force and its history, the policy log, remembered inputs, shadow cache | learning, smoothing, rollback and restart must leave a configuration that still judges; the learner is a goroutine beside the next run |
| Event-sourced engine (`internal/engine`, `reducer`, `storage`, `compiler`, `resolver`) | SQLite tables of nodes, edges, events, links and node states | node states = reduction of the log; no dangling edge; event IDs are content hashes; several statements without one transaction |
| Agents (`internal/agent`, `autonomous`) | candidate per agent, temporary copies, real files, git | tests pass before real files change; parallel agents on the same file; an error in the middle of a write |
| Bandit (`E/bandit_ucb.go`, `E/agent_loop.go`) | counts and rewards per arm, `ucb_state.json`, a save timer | a decision is learned from once; nothing slips past the auto-save, which writes in place |
| Chaos, causal analysis, adaptive loops | faults, divergences, patches | chaos is modelled where it writes to a WAL; the rest is built by its tests only |
| Analyzers, semantic memory, dashboards, health | none, or one SQL transaction per call | pure functions, I/O and presentation: not modelled |

PROJECT.json lists every component with its status, and each place in the code
where these hazards bite, with the properties that watch it or the reason why none does.

## 2. Plan

In the order of importance, and what each step has come to:

1. **Evolution core**: `JsonLines`, `StabilityWindow`, `OrderedDelivery` (the
   abstract specification), `EventWorker`, `EvolutionLoop`; proved.
2. **Service around it**: `RateLimiter`, `HttpFrontend`; proved.  The bandit with
   its auto-save is `UcbBandit`, next to everything that credits it in
   `AgentCycles`.
3. **CI**: `TopologicalRun` (abstract), `DagExecutor` and `CiPipeline` on top of
   it; proved.
4. **Event-sourced engine**: `MaterializedView` (abstract), `CodeGraph` and
   `EventEngine`, statement by statement; proved.
5. **Policy**: `PolicyRunner`.  **Agents**: `AgentCycles`.  Both proved.
6. **Left**: an abstract specification of what the pool and the service promise of the
   target file, with the steps of `AgentCycles` mapped to it.

## 3. The modules

| Module | What it models |
|---|---|
| `JsonLines` | a file of JSON lines as a sequence of chunks, one per `Write`: whole lines and `Torn` rests without a newline.  `Readable` is what a scanner that starts at a given chunk decodes |
| `StabilityWindow` | `AntiCollapseDetector` and the adaptive threshold, each `float64` inequality multiplied out to integers so that it is exact |
| `OrderedDelivery` | abstract: positions of a growing queue are delivered in order, each at most once per process life |
| `EventWorker` | `EventQueue` + `Worker` + the handler that enqueues, with kill and restart; implements `OrderedDelivery` |
| `EvolutionLoop` | `Evolve` as `buildSafeLoop` wires it, with `WAL`, `EventStore`, kill and restart, and `ReplayEngine.Rebuild` |
| `RateLimiter` | the sliding window per token and the cleanup; a specification of its own and a part of `HttpFrontend` |
| `HttpFrontend` | the protected endpoints: middleware chain, `POST /evolve` as far as the queue, token rotation, timeout, kill and restart |
| `TopologicalRun` | abstract: nodes start once, after their dependencies ended, and only so many at a time |
| `DagExecutor` | `Executor.Run` with its scheduler loop and goroutines; implements `TopologicalRun` |
| `CiPipeline` | extends `DagExecutor`: `ResolveJobOrder`, `BuildDAG`, `Scheduler.Run`, replay, certification and the files they append to |
| `MaterializedView` | abstract: a table whose rows show the verdict on a node or are missing; a verdict changes only while its row is |
| `CodeGraph` | the graph of the code: `IngestFile` statement by statement, the two resolvers; a part of `EventEngine` |
| `EventEngine` | `cmd/pads` from ingestion to the daemon's cycles: tests, the event log, its reduction, replay and audit; implements `MaterializedView` |
| `UcbBandit` | `UCBSelector` with `Save`, `Load` and the auto-save goroutine; a part of `AgentCycles` |
| `AgentCycles` | the model client, sandbox, judgement and commit of an agent, as the service's autonomous cycle and as `AgentPool.RunAll` |
| `PolicyRunner` | `PolicyRunner.Run` with gates, engine, trace, log and drift detector, and the learning goroutines |
| `MCCiPipeline`, `MCEventEngine`, `MCPolicyRunner` | the jobs, files and CI runs that TLC is given |
| `EventWorkerProofs`, `EvolutionLoopProofs`, `HttpFrontendProofs`, `DagExecutorProofs`, `CiPipelineProofs`, `EventEngineProofs`, `PolicyRunnerProofs`, `AgentCyclesProofs` | the theorems |

**EventWorker.**  A variable stands for the field of the same name.  `file` is
`event_queue.log`; an event is its position there and the chunk at that position
is its ID.  `Enqueue`, `EnqueueUnacknowledged` (the fsync fails) and
`EnqueueShort` are the outcomes of `EventQueue.Enqueue`.  `ReadFrom` and
`ReadFails` are the two results of `EventQueue.ReadFrom` in the worker's loop;
`SkipProcessed`, `StartEvolve`, `EvolveFails`, `EvolveSucceeds` and
`MarkProcessed` (with `cleanupProcessed`) are the body of its range loop.
Between them the handlers may enqueue and the process may be killed.  `base`,
`handled`, `lost` and `acked` are history variables.  Whether Evolve fails is
open here; `EvolutionLoop` says when it does.

**EvolutionLoop.**  `Evolve` holds the loop's lock from its first to its last
line, so calls come one after the other and a call is split only where a kill
can fall between its two writes: `EvolveDecides` goes up to the verdict (gate,
WAL append, detector, rollback check, sequence number), `StoreDecision` and
`StoreFails` are the event store.  A call that is rolled back is one step,
`EvolveRollsBack`.  A WAL entry is the number of its call and the number of the
entry its `PrevHash` names.  `calls`, `walFailed` and `born` are history
variables.  `Crash` empties what lives in memory; `Restart` is `buildSafeLoop`
with `loadFromDisk`.  `Rebuild` is the `SystemState` that `ReplayEngine.Rebuild`
makes of the events and `Live` the same fields of the running loop: the detector's
window, the gate's long window and its detector's window, the sequence number.  The
window of the gate's detector stays empty in `Rebuild`: no line feeds it, and
`ImportState`, which would set it, runs only for events with a variance or a threshold,
which `Evolve` never writes.  Mode, seed and the gate's parameters do not change, and
the stability score is the mean of a window, so they are left out.  The weight and
the rollback of a call enter the live windows and not the events.

**RateLimiter, HttpFrontend.**  `served` is the history of a token's admissions
and `requests[tok]`, the list of time stamps in the code, is a set of positions in
it, so that two admissions in one tick stay two.  `protected` wraps the limiter
around the authentication, and the limiter defers its `Unlock`: both the token
check and the handler run under `RateLimiter.mu`.  `pc` is the goroutine that
`net/http` starts for a request, `holder` the owner of the mutex.  `Arrive` is the
part before the lock; `RefuseBusy`, `RefuseToken` and `Accept` are what the two
middlewares do once they have it; `HandlerRefuses`, `EnqueueEvolve`, `EnqueueFails`
and the `Rotate...` actions are the handlers.  A rotation is split into truncating
the file, writing it and assigning `authToken`, because a kill may fall between
them.  A handler of `/evolve` starts in "reading" unless its body came with the headers
or the method is wrong: it decodes the body (validate.go:41) under the mutex, the server
has no read timeout (main.go:163-165), and `BodyEnds` is the step of a client that has
sent its body or gives up.  `TimesOut` answers 503 and leaves the goroutine alone.
`RotateDrawsNone` bounds the tokens: when they are used up, `rand.Read` fails.  `TokenAtStart` is the
order in which `main` looks for a token.  `issued`, `retired` and `served` are
history variables.

**DagExecutor.**  An ID is a number, its place in the order of `sort.Strings`; all
that a node does is one entry of `allEvents`.  `Dispatch` takes a batch of ready
nodes, `StartNode` and `EndNode` are their goroutines around the semaphore,
`Collect` appends the events of the batch after `wg.Wait`, `Update` counts the
indegrees down, `Return` leaves the loop.  `UnknownDependency` is the early error.

**CiPipeline.**  `Ids` are the nodes of the jobs, numbered as their strings sort.
The module adds planning before a run of the executor and the files after it.
`task` says what uses the executor: `Scheduler.Run`, `Replay` or `Certify`.
`LogEvent` and `LoseEvent` are one `AppendCanonical`, whose error nobody reads.
A file is a sequence of chunks as in `JsonLines`; a torn line or one written by
chaos injection makes `ReadWALFile` fail.  `dirty` is a history variable.

**CodeGraph, EventEngine.**  The tables `nodes`, `edges`, `events` (`log`),
`event_nodes` (`links`) and `graph_state` (`view`) are variables, `disk` is the
directory.  `job` is the ingestion or resolution under way and `at` the next
statement of the process: every SQL statement is an action, and between any two of
them a file may be edited, the statement may fail (`JobErrs`, `RunFails`) or the
process be killed.  What a content declares, calls and imports, and whether its
tests pass, are constants; a content is its own hash.  `LIKE` is `LikeName`, the
names that a name finds as a pattern.  An event's ID is what `makeEventID` hashes,
so `InsertEvent` drops an event exactly when the code's `INSERT OR IGNORE` does.

**UcbBandit, AgentCycles.**  `pulls` are the counts, `stored` is
`ucb_state.json`; `Update` is split where the code gives up the mutex, and the
auto-save where a kill can fall.  In `AgentCycles` `wiring` says which program runs.
`pc[a]` is the place of a goroutine in `GenerateCode`, `ExecuteWithSandbox`,
`AgentLoop.Evaluate` and `applyAndCommit`; `real`, `staged` and `head` are the target file
on disk, in the index and in the last commit.  The gate, the detector and the
evaluator of the service's loop are open here (`Verdicts`), since `EvolutionLoop`
models them; the minimal loop of the pool is modelled to the point where its
window decides, since it has no WAL to roll back to.  `tested`, `decided` and `restored`
are history variables.

**PolicyRunner.**  A run is four facts: its events, its WAL file, its certificate and
its chaos report.  `Decide` is `Run` up to the decision, `Record` the rest of it, down
to the start of a learning goroutine; `LearnFromWAL`, `Evaluate` and `Update` are that
goroutine, between which other runs, other goroutines, a `Rollback` or a restart
may come.  Scores and thresholds are in hundredths of a point, rounded down; the
coefficient of variation is multiplied out to integers.  A trace keeps what
`ReplayEngine` recomputes (`rebuilt`) next to the decision's score.  `baseline` is a
history variable: the configuration scored as the default does.

## 4. Runs

| Run | Question | Bounds and why they are enough |
|---|---|---|
| `event_worker` | Does the dedup memory hold its window and its bound, is no acknowledged line skipped, is delivery ordered, and does the queue drain? | two IDs, four writes, one kill, two faults; retention 1 and threshold 2, so that a cleanup happens, drops an ID, and the ID comes back |
| `event_worker_restart` (violation) | Is an event processed at most once across a restart? | one kill, no faults |
| `evolution_loop` | Do the detectors stay in step, is logging ahead and chained truthfully, does a replay come back to the live windows after what it cannot restore? | five calls, windows of 3 and 4, so that windows slide and a rolled back, weighted or unstored score enters each of them and leaves it again; scores 0, 4 and weights 1, 2 reach stable, unstable, oscillating, accepted and rejected; one kill, one failing write |
| `http_frontend` | Does a request keep the token it was checked against, do rotations stick, are answers true, do quotas hold, does every waiting request end unless a client stalls? | two requests, four tokens (one of them a torn write), quota 1 in a window of 2 ticks, one tracked token, so that the cap evicts; one kill, one fault |
| `dag_executor` | Is the order topological and independent of the goroutines, is nothing but cycles left out, does Run return? | all graphs over three IDs, unknown dependencies included; limits 0 (default 4), 1 and 2, so that a batch leaves a ready node behind, and one that it makes ready overtakes it |
| `ci_pipeline` | Is the plan sound, does all of it run, does the first check of a sequential run tell the truth? | two jobs of at most one step, needing nothing, each other, themselves or an unknown job; limits 1 and 2; two checks, one failed append |
| `event_engine` | Does no edge dangle, do the node states never contradict the log and change only by way of a missing row, do they come back after a failure? | two files whose contents share an ID, a call that resolves to a function and to a method, one edit, one call of the library, one kill or failing statement: a re-ingestion that takes over the node of another file, and a table half filled, both happen |
| `event_engine_shown` (violation) | Does a cycle show what it has just found? | two edits, so that a file returns to its first content; no failure |
| `agents` | Does only tested or developer-written content persist, are decisions learned from once, does no update slip past a save, does every task end? | two agents over two calls of `RunAll`; two requests, one event, one edit, one kill; a breaker that trips at once, a window of 3 |
| `autonomous_commit` (violation) | Has what is reported as committed passed its tests? | the service alone |
| `agent_pool_failure` (violation) | Does the pool survive a sandbox that fails? | the pool alone, window and breaker of full size |
| `policy` | Does no configuration in force let a hard failure pass or reward a worse run, does an untuned decision's trace replay? | five runs over five kinds of input, two learning goroutines, three samples to learn from: weights, penalties and thresholds are all learned, accepted, smoothed and rolled back; one short write, one restart |

`CHECK_DEADLOCK FALSE` stands where the system really stops: the calls of
`EvolutionLoop`, the requests of `HttpFrontend`, the checks of `CiPipeline`, the rounds of
`AgentCycles` and the runs of `PolicyRunner` are bounded, a killed engine or pool stays
down, and `Executor.Run` returns.  `EventWorker` checks for deadlock.

**Fairness.**  `event_worker`: weak fairness of the worker, a goroutine whose loop
only sleeps, reads and evolves, and of `Restart`, since the service is installed
with `Restart=on-failure` (docs/DEPLOY.md:133).  `http_frontend`: weak fairness of
a goroutine in a handler that has its body, and strong fairness of taking the mutex,
since `sync.Mutex` hands itself to a goroutine that has waited for more than a
millisecond.  `BodyEnds` and `TimesOut` are not fair: nothing makes a client send its
body, and the timeout does not end the goroutine.  `ServedUnlessStalled` therefore has
the good will of the clients as its hypothesis.  `dag_executor`: weak fairness of the whole run, so a step's command
is assumed to end; nothing in the code would stop one that hangs.  `event_engine`: weak fairness of the
engine, which waits for nothing but the disk, the database and `go test`.  `agents`:
weak fairness of each goroutine, of the auto-save's tick and of `RunAll`'s return,
since the model clients that a program builds have timeouts (`ClaudeClient`, which uses
`http.DefaultClient` (internal/agent/llm.go:344), has none, and no program builds one)
and the commands of a sandbox are assumed to end; the end of an open breaker's 30 seconds is not fair, and need not be.  Clients,
faults, kills and the clock are not fair: nobody has to send, enqueue, edit or crash.

**Where the code and its documents part.**  Four runs show it:

- `event_worker_restart`: E/crash_test.go:51 and docs/DEPLOY.md:191 promise no double
  processing after a crash; the offset and the dedup memory are in memory only, so
  the whole queue is decided again.
- `event_engine_shown`: internal/engine/engine.go:53 says that a cycle updates the node
  states from its events; a file that returns to an earlier content and outcome gets
  an event ID that the log holds, the event is dropped, and its nodes stay BROKEN
  after a cycle that found them passing.
- `autonomous_commit`: docs/DESIGN.md:279 and internal/autonomous/autonomous.go:73
  promise that a change passes its tests before it is committed; `RunCycle` hands the
  sandbox's score to the loop as the score to beat, so that a plan with failed tests
  is accepted and reported as committed.
- `agent_pool_failure`: internal/agent/pool.go:144 says "Even failures are learning
  events"; the candidate 0 of a failed sandbox makes the minimal loop unstable, its
  rollback asks the WAL it does not have, and the process ends.

The models have the following behaviours too; no run is spent on them:

- E/wal.go:138: a WAL line written behind a torn one is glued to it and not
  reloaded, where docs/DESIGN.md:96 promises that fsynced entries are.
- E/replay_engine.go:42: `Rebuild` never feeds the gate's detector, so the state it rebuilds
  differs from the live one from the first event on, where README.md:145 promises that
  each decision replays identically.  Weighted, rolled back (E/safe_loop_v3.go:80) and
  unstored scores are a second reason; `ReplayCatchesUp` says how the windows recover
  from those.
- cmd/evolution-api/main.go:158: the timeout answers for the goroutine and leaves it
  alone, and one that reads the body of a silent client keeps the limiter's mutex and
  every request behind it, where README.md:150 promises that each is limited to 30
  seconds; `ServedUnlessStalled` has the silence of a client as its exception.
- internal/policy/explain.go:28: a trace is rebuilt with the default weights and
  penalties, so that after learning it need not replay, where lines 11 and 27 promise
  the logic and the weights of the engine; `TracesReplay` says for which decisions it
  does.
- cmd/evolution-api/main.go:140: the limiter runs before the authentication, where
  docs/DESIGN.md:88 and cmd/evolution-api/main.go:123 have it the other way round.
- internal/ci/certification/certifier.go:27: certifying a run again appends to the `.cert` file and
  hashes all of it, where docs/ci/architecture_v0.6.md:64 promises reproducibility.
- internal/policy/shadow/evaluator.go:45: a second look at a candidate that the A/B
  gate has rejected finds it in the cache and accepts it when it is better by any
  amount.
- E/bandit_ucb.go:137: the auto-save drops the error of `Save` and clears its timer, so
  the counts wait for the next update; `NoUpdateUnsaved` excepts it.
- internal/agent/sandbox.go:414: a patch overwrites what the developer wrote to the file
  while it was tested; and a client is made per autonomous cycle, so that its
  circuit breaker never trips in the service.

## 5. Proofs

All theorems hold for every value of the constants under the named assumptions
of the modules (`IdsAssumption`, `RetentionAssumption`, `ThresholdAssumption`;
`ScoresAssumption`, `WindowsAssumption`, `TornAssumption`; `LimiterAssumption`,
`FrontendAssumption`; `DagAssumption`; `PipelineAssumption`, `ChunksAssumption`;
`GraphAssumption`, `EngineAssumption`; `BoundsAssumption`, `InputsAssumption`;
`ArmsAssumption`, `NamesAssumption`, `SizesAssumption`, `UnreadableAssumption`), which
TLC evaluates on the runs' constants.  They say of which kind the constants are, and
little else: `GraphAssumption` that a call starts in a function which its file
declares and that a name finds itself, `PipelineAssumption` that the nodes are
numbered as BuildDAG names them.

*EventWorkerProofs.*  `Inductive` proves an invariant with four parts.
`ControlInv` ties `cur` and the batch to the program counter and to the offset.
`OrderInv` says that what is still in the batch lies behind what was decided,
which makes decisions ordered.  `MemoryInv` says that `processedOrd` is the tail
of the decisions of this life, without repetition, and its length is bounded by
the counter; `DedupWindow` alone is not inductive because it says nothing of
what the memory holds.  `DedupWindow` and `NoAckedLineSkipped` are parts of the
invariant themselves.
`Marked` counts the decisions whose event the memory has.  From it follow `TypeCorrect`, `DedupCorrect`, `DedupBounded`, `NoLineSkipped`, and
`Refinement`: the initial states and each step map to `OrderedDelivery`.

*EvolutionLoopProofs.*  `Inductive` proves `TypeOK`, `GateInStep` and `WriteAhead`
together with `ProgressInv` (every line of the event log is about a call that
has begun, and not the pending one) and `PendingLogged` (the pending call has
its WAL entry or its failure is recorded): without the second, the step that
writes the event could not conclude `WriteAhead`.
`ChainMarksLosses` speaks of the entries a restart would load, whose numbers shift
with every line that is torn.  `ChainInv` therefore speaks of positions in the file:
entries that can be read are in the order of their calls, each points before its own
call and not before an earlier one that can be read (`ChainOnFile`), and the end of the
chain in memory is not behind the file (`EndOfChain`).  A write that is cut short, or
one glued to it, takes positions away and never adds any.  `ChainLoaded` then carries
the result over, since `Nth` lists those positions in ascending order.  `ReplayCatchesUp` speaks of the last calls of a window, whatever came before them.  Its
invariant `ReplayInv` has two parts: `WindowsRecent` says that the live windows are what
is recent of the scores of this process life (`SlideIsRecent`: a window that slides
along a sequence holds what is recent of it), and `LastNumbered` that the event of this
life's last call carries the sequence number.  Events are in the order of their calls
(`EventsInOrder`), so that if the last n calls are all among them, they are the last n
events in the same order (`AscendingEnd`); a window rebuilt from those events is
then the live one (`WindowCatchesUp`, `SequenceCatchesUp`).

*HttpFrontendProofs.*  `Inductive` has two halves.  `LimiterInv` adds to the quota
what the limiter must remember for it (`Remembered`: every admission younger than
the window is among the stamps kept), and is proved of `RateLimiter` on its own
(`LimiterQuota`) and carried over to the service, whose steps are limiter steps or
leave it alone (`ServiceQuota`).  `FrontendInv` consists of `MutexInv` (a goroutine
in a handler is the holder of the mutex), `TokenInv` (what the token file may hold
at each point of a rotation, and that retired tokens are neither there nor in
memory) and `QueueInv` (a line in the queue belongs to a request that its handler
has finished).  Mutual exclusion is what carries `AuthStillValid`: only the holder
could rotate.

*DagExecutorProofs.*  `Inductive` proves `DagInv`: `PhaseInv` (what each phase
implies for ready, batch and goroutines), `WorkerInv` (who has started),
`ReadyInv` (an indegree is the number of dependencies not yet counted off, and a
node is ready or has started exactly when it is zero) and `EventsInv` (who has
events).  The indegrees are what makes `EventsInOrder` inductive.  From it follow
`TopologicalEvents`, `NothingElseLeftOut` and `Refinement`: Run implements
`TopologicalRun`.  `OrderIsReproducible` needs `RoundInv` besides: what has been
collected is what the recursive function of the rounds says, and the batch under way is
the next one.  A recursive function exists by `Iterates`, which is proved with
`SetInduction`: induction over a set of numbers in place of a predicate.

*CiPipelineProofs.*  `KahnInv` is the invariant of the rounds of `ResolveJobOrder`: an
indegree is the number of needs not yet in the order, and a job is in the queue or
in the order exactly when it is zero.  An order that is too short therefore leaves
jobs that wait for each other (`OrderIsSound`).  Of `BuildDAG` the proof uses the
place of each node, `(j - 1) * Width + a`: a plan is a graph without unknown
dependencies whose paths have at most three nodes, and since only cycles are left out,
all of it runs (`AllPlanned`).  `PipelineInv` joins the executor's invariant with what
`task` and the graph have to do with each other (`PlanInv`, `TaskInv`), with
`SequentialInv` (without parallelism the next event is that of the first node that is
ready, so that two runs of one graph do the same) and with `FilesInv` (the files hold
the lines of that run, up to where they have been written).  `FirstChecksPass` follows:
a replay compares equal files.

*EventEngineProofs.*  `Inductive` proves an invariant with six parts.  `JobInv` is what
an ingestion or a resolution relies on from one statement to the next: the nodes of
the parsed file that are not to do are in the table, and all of them once its edges go
in; with it, and with the order of the two deletions of `ClearFileNodes`,
`EdgesGrounded` is inductive, over any failure and kill.  `QuietGraph` says that the
graph is written only while a directory is ingested or between cycles, so that the
nodes in a test result are still those of its file when it is committed
(`PhaseInv`).  `LogInv` says that only events of the log are linked, so that an event
that has just been inserted, or was dropped as known, changes no verdict.  `ViewInv`
joins `ViewNeverStale` with the reasons: while events and links of a file are written
its rows are gone, and what the reduction computed in memory is still what the log
says when the rows are filled.  `Refinement` maps what the reducer would say of the log
to `truth` and the table to `shown`: a link is the judgement of its node, or nothing
(`LinkJudges`); the two clearings withdraw rows; a row of the reducer shows one that is
missing, which `ViewInv` knows; every other step leaves both alone.

*PolicyRunnerProofs.*  `Inductive` proves `ConfigInv` and `DecisionInv`.  `ConfigInv`
says of the configuration in force, of every old one that a rollback may bring back
and of every candidate in a goroutine that it is *proper*: its hard-fail gates are
the two of the beginning, its weights are between 1 and 50, and its marks for PASS
and WARN are at least 85 and 65.  The property `HardFailNeverPasses` alone is not
inductive, since it says nothing of candidates and of the history.  `LearnedProper` and
`SmoothedProper` show that learning, whatever the traces say, and the moving average
keep that; `ScoreProperties` that a hard failure caps a score at 60, below both marks;
`EarnedProperties` and `ScoreMonotone` that integer division keeps the order of scores.
`DecisionInv` carries `TracesReplay` from the decision over `pending` into the log.

*AgentCyclesProofs.*  `Inductive` proves `ControlInv`, `FileInv` and `SaveInv`.
`FileInv` joins `OnlyTestedPersists` with `WritersTested`: whoever is about to write
the real file, or is in the middle of it, has a patch that passed; without it nothing
is known of what the write ends with.  `SaveInv` joins `NoUpdateUnsaved` with
`CopyCurrent`: while a save is under way the flag is set, and the counts it copied are
still the counts, or a goroutine waits in `scheduleSave` for `saveMu`.  That is why the
flag may be cleared when the save ends.  `ControlInv` says of the service that no agent
of a pool moves in it.  `GoesKeeps`, `MovesKeep` and `RestKeeps` settle the many steps
that touch neither the files nor the bandit.  `LearnsOnce` counts: the pulls of all arms
are the size of a set of pairs, one pair more per update (`CountsOne`), and a decision
moves its goroutine among those that are about to update.  `LearnInv` adds that a
service that is down has decided nothing yet, so that a restart begins with the pulls
it loads.

Model-checked only: `Drained`, `ServedUnlessStalled`, `Returns`, `ViewHeals` and `TasksEnd`
(liveness under fairness, which the prover does not handle).
Every other property of the passing runs is a theorem, or a part of an invariant that is
one; `EventsInOrder` is a theorem only, since `Reproducible` and `RunsInOrder` imply it of a
run that has returned.  Induction over data is done with sets: `SetInduction` in place of induction over a
predicate, `Iterates` for the existence of a recursive function, and sums and sorted
sequences are stated over sets (`Pulled`, `Nth`, `Sorted`), since `RECURSIVE` operators and
theorems with an operator parameter cannot be used in a proof.


## 6. Limits

Scores of the evolution are small naturals and weights positive integers; the
fractional weights that the API admits (0.1 to 10) would only change which windows
are stable.  `float64` rounding is not modelled; the policy's scores are rounded down
to hundredths.  A file system that loses fsynced data is not modelled, and a kill
leaves written data in place.  Two torn writes of the token file are taken to leave
the same rest; `RetiredStaysOut` excepts it, and also a
token that the operator sets again in PADS_TOKEN.  A 503 says nothing of what its
goroutine did, and no property claims that it does: a client that sends its request
again has it queued twice.  A token whose stamps the cap evicts starts a fresh quota, as
in the code.  The `Needs` of a job order the
plan but make no edges in the graph, so a dependent job may run beside the one it
needs; the model has that behaviour, and no document of the repository promises
otherwise.  Jobs that cannot be ordered give an empty plan, which every property of the
plan accepts, for the same reason.  `BuildDAG` ignores what the cache says, and so does the model.  All tasks
of `AgentCycles` have one target file, and a sandbox holds that file only: a plan of several files that are
left half written does not occur.  The amount
of a reward is left out, and with it which arm the bandit prefers once all were
tried.  `PolicyRunner.Run` has one caller at a time, as its unguarded buffer requires, and a
learning goroutine reads that buffer in one step: the race on its slice header is
not modelled;
a gate that the configuration does not know, whose weight would be 10, does not
occur.

**Not modelled**, and why:

- `Worker.Stop` with a second `Start`, and `Graph.ResolveOrder`: called by tests only.
- The first evolution loop, its WAL bridge and `BanditController`: superseded, built by
  nothing but their tests.  So are the causal comparison and the adaptive loops, and
  the change package of the policy.
- The analyzers of `internal/codeanalysis` and the learner's anomaly detector: pure
  functions whose answers are data, or are used by nobody.
- Semantic memory: one SQL statement or transaction per call.
- Prompts, strategies, the text of patches, `ApplyPatch`, `RunTestsForFile` and the dry
  run: text, or callers outside the programs of the repository.
- Read-only endpoints, dashboards, health, the fault driver and the command-line
  entry points: presentation, probes and wiring.  `GET /state` rebuilds a state from the queue and
  not from `evolution.log`, with `Rebuild`'s code.  `/agent/evolve` is in `AgentCycles`.
