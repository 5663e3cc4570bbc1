# RAGPlan in TLA+

TLA+ models of RAGPlan, their TLC configurations, and theorems about them that
TLAPS checks.  RAGPlan answers a search request by running one or two retrieval
branches (a Qdrant vector store, a Neo4j graph store) in parallel under one
deadline, behind a circuit breaker each, and serves a corpus that a command line
stages into both stores, verifies and activates.  It is one Python process with
one asyncio event loop for serving, and separate command processes for ingestion.

Source paths below are relative to `src/ragplan/` unless they begin with
`scripts/`, `docs/` or `tests/`.

## 1. Inventory

| Component | State it keeps | Operations | What makes it correct |
|---|---|---|---|
| Circuit breaker (`scheduler/states.py`) | `_state`, `_failures`, `_open_until_ns`, `_probe_in_flight` | acquire, record_success, record_failure, record_ignored, snapshot | one probe; exact count; stale verdicts change nothing; never wedged |
| Scheduler (`scheduler/executor.py`, `scheduler/cancellation.py`) | branch tasks, contexts with a reason for cancellation, outcomes | execute, _expire_pending, _run_branch, cancel_and_await | every branch ends with one result; no orphan; blame fits evidence; the request ends by its deadline |
| Admission (`scheduler/executor.py`) | `_in_flight` | slot | never above the limit, never leaked |
| Search engine (`core/engine.py`) | `_request_tasks`, `_closing`, `_closed`, `_close_complete` | search, close | the answer fits the results; nothing runs after close; both backends closed once |
| HTTP handler (`api/server.py`) | the operation and the watcher task | run_until_disconnect | no search outlives its handler |
| Activation (`ingestion/manifest.py`, `ingestion/reconcile.py`, `scripts/manage_ingestion.py`, `scripts/activate_corpus.py`) | immutable run records, one active pointer | activate, rollback, discard-record, discard-stores, load_active | the pointer resolves; records are immutable; a served corpus was verified |
| Qdrant backend (`backends/vector/qdrant.py`) | collections, validation cache, operations in flight | stage, verify, search, discard | a version is sealed whole or not at all; a search sees one corpus |
| Neo4j backend (`backends/graph/neo4j.py`) | corpus markers, nodes and relations | stage, verify, recover, search, discard | the same, with several versions in one database |
| Deadline (`core/deadline.py`) | a budget, a reserve, the cutoff before it | remaining, branch cutoff | a branch is over before the answer has to be made |
| Contracts (`core/models.py`) | immutable models with validators | construct | an engine never builds an answer whose counts, statuses, times or circuits its own validators refuse |
| Planners (`planner/rule.py`, `planner/optimizer.py`, `planner/catalog.py`) | a catalogue of plans | select | a plan fits its budget; more time never gets a lesser plan |
| Cost models (`planner/artifacts.py`, `scripts/train_cost_models.py`) | two models with a manifest each, on disk | train, load | a pair is of one training's data; what is loaded is what the manifest names |
| Runtime guard (`planner/runtime_guard.py`) | the artifact, a window of measurements, a latch | observe, replace_artifact | off exactly on evidence |
| Retrieval (`retrieval/`) | none | traversal, weighted reciprocal rank fusion | order, limits and ties are deterministic |
| Observability (`observability/`) | trace queue and worker, counters | record, close | never blocks; drops are counted; every request is counted once |
| API runtime (`api/runtime.py`, `api/readiness.py`) | engine and resources of the application | build, probe, close | a failed start leaves nothing open |
| Ingestion pipeline (`ingestion/`) | none between runs | chunk, embed, extract | deterministic ids and windows |
| Benchmark (`benchmark/`) | a run directory: manifest, environment, protocol, rows, aggregate, lock | run, resume, aggregate | rows in order, of one identity, whole when reported |
| CLI (`cli/`) | none | commands over the above | exit codes |

How they interact.  The handler runs `engine.search` in a task of its own and
cancels it when the client goes.  The engine registers the task, takes an
admission slot, plans, and hands `BranchWork` objects to the scheduler, which
creates one task for each branch; a branch takes a permit of its breaker (shared
by all requests), calls its backend, and reports.  `close` cancels the
registered tasks, awaits them, and closes the backends.  The ingestion commands
share nothing with the server but the two stores and the manifest root: a server
reads the pointer once, when it starts.

What is hard.  All of this is concurrency by suspension: a task sees other tasks'
changes exactly at its awaits, and a cancellation arrives at one of them.  Cancelled
tasks are awaited by tasks that can be cancelled themselves; a cutoff, a result
and a disconnect can fall in one turn of the loop; the permit a call brings back may
be from an earlier life of the circuit; and the commands are processes that may
be killed between any two writes.  `PROJECT.json` lists the hazards at their lines.

## 2. Modules

| Module | Models | Depends on |
|---|---|---|
| `CircuitOps` | one breaker as a value and each method as a function on it | |
| `CircuitContract` | what a breaker promises, without counters and clocks | |
| `CircuitBreaker` | one breaker and calls that record late; refines the contract | CircuitOps, CircuitContract |
| `CircuitBreakerProofs` | theorems about it | CircuitBreaker |
| `RequestScheduler` | `execute`, `_run_branch` and the engine around them; both breakers | CircuitOps, CircuitBreaker (as a refinement target) |
| `RequestSchedulerProofs` | theorems about it | RequestScheduler, CircuitBreakerProofs (instantiated for each breaker) |
| `EngineLifecycle` | handler, admission, registration, close | |
| `EngineLifecycleProofs` | theorems about it | EngineLifecycle |
| `CorpusActivation` | the manifest root, the commands on it, kills and power loss | |
| `CorpusActivationProofs` | theorems about it | CorpusActivation |
| `StageContract` | what a store promises of a version that was reported as staged | |
| `VectorStaging` | staging, sealing, verifying, discarding a version in Qdrant | StageContract |
| `VectorStagingProofs` | theorems about it | VectorStaging |
| `VectorSearch` | the searches of the server in Qdrant: operations, cutoffs, validation cache, connection pool | |
| `Observability` | the search route, its counters, the trace queue with its worker, the application's lifespan | |
| `Retrieval` | the bounded walk through the graph, ranking of the chunks it reaches | |
| `Fusion` | weighted reciprocal rank fusion of the branches' lists | |
| `GraphStaging` | the same and recovery in Neo4j, versions sharing a database | StageContract |
| `Planning` | operators: deadline, catalogue, rule planner, presets, optimizer | |
| `SearchAnswer` | one search of any engine from the request to a validated answer or an error; the results a branch can have | Planning |
| `OfflineOptimizer` | one choice of the offline optimizer | Planning |
| `CostModel` | trainings that write the cost models, and the optimizer that loads them | |
| `RuntimeGuard` | the drift guard of an artifact | |
| `EngineBuild` | the builders of the four runtime profiles beside an operator | |
| `Chunker` | the cutting of a document into windows | |
| `BenchmarkRun` | a benchmark's run directory, the processes that work on it | |
| `StagingProofs` | theorems about the parts of `MCStaging`: GraphStaging, VectorStaging, Chunker | MCStaging, VectorStagingProofs (instantiated) |
| `PolicyProofs` | theorems about the parts of `MCPolicies`: SearchAnswer, OfflineOptimizer, CostModel, RuntimeGuard, BenchmarkRun | MCPolicies |
| `ServingProofs` | theorems about the parts of `MCServing`: VectorSearch, Observability, Retrieval, Fusion, EngineBuild | MCServing |

`MC*` modules give the sets for model checking; each `.cfg` names its run.
`MCPolicies`, `MCStaging` and `MCServing` hold several parts, and a behaviour is one of
them: its initial state chooses the part, and the variables of the others rest.  What a part
ranges over is a constant of `MCPolicies` and of `MCStaging`, and in `MCServing` of the fusion and the graph search, with a
named assumption where it needs one; the run gives it the sets that the module defines for it, and
the theorems hold of every other value.

### CircuitOps, CircuitBreaker, CircuitContract

`breaker` is the object; `left` is what remains of `_open_until_ns`, because the
code only compares that field with now.  The bodies of the methods run under an
`asyncio.Lock` and contain no await, so they are atomic.  `permit[c]` is what call
`c` holds between `acquire` and its verdict; everything may happen in between,
which is why the code tells stale permits from fresh ones.  A plain permit
admitted in one closed period may be recorded in a later one: the code counts it,
and so does the model.

`CircuitContract` has only `mode` (serving, resting, trial) and who is inside.
Its liveness is that whoever is inside leaves.

### RequestScheduler

A slot of `Requests` carries one request after another.  `Start` is the engine
from planning to the creation of the branch tasks, `Wake`, `Expire`, `JoinExpired`
and `JoinCancelled` are the places where `execute` resumes, `Cancel` is the
cancellation of the request's task with the message that tells why.  A branch
task takes its first turn in `Admitted`, `Refused` or, when cancelled before it,
`NeverStarted`; it ends in `OperationEnds`, over every exit of `_run_branch`,
or `BranchCancelled`.  `ResultOf` and `VerdictOf` are the two decisions of each
exit, kept apart as they are in the code.  `clock[r]` is whether the branch
cutoff has passed; the deadline proper lies behind it, so that once the cutoff
has passed an answer may or may not be late.

### EngineLifecycle

The search between admission and its end is one state here.  Its end by itself
is `Search`, its end after a cancellation `Unwind`; that a cancelled search
ends at all is `EveryRequestEnds` of RequestScheduler.  `close` is one action for
each suspension point, for the owner and for the callers that follow.

### CorpusActivation

`root` is the manifest directory, `mayFind` the states of it a loss of power may
leave.  Every command is a phase machine whose steps are its file and store
operations; two commands interleave between any two of them.  The digest of a
record stands for its content, so a pointer holds the record it was made from.

### VectorStaging, GraphStaging, StageContract

An action is one request to the store and what the command does with the answer;
commands of several processes interleave between requests, and any of them may be
killed, fail or be repeated at any of them.  Qdrant knows no transactions over
requests, so a version has to be protected by what the commands check: `FindsEmpty`
and `FindsWritten` are the two ways into a version, `ReadsBack` to `Reports` the
three times it is read again before it is reported.  A point is the artifact its
vector comes from and the one its payload declares; `Exact` holds the chunks whose
vectors the store's normalisation leaves as they are, which are sealed from the
start.

In Neo4j the marker is the protection: it is created for a checksum (`content`), a
command with another checksum stops, and a sealed version is only verified.  A
write is a `MATCH` and a `MERGE`, so that a row whose ends are missing is dropped
silently (`Lands`); entities belong to no version, and a discard removes
those of the whole database that have no relationship.  The code's last word on a
stage is `verify_stage`, which compares the ids of the chunks and the numbers of
everything else, and that is how `Agrees` compares.

What the commands may be asked for is `Jobs`.  A version that no discard touches may be asked for with any
contents: the marker decides which it is, and whoever comes with another stops.  A version that is
discarded now and then (`Inactive`) is staged again with what it had, which `JobsValid` says.  The
code does not check that, and without it a stage that is at work while its version
is discarded and begun again with something else seals the other's marker (`neo4j.py:388`,
a hazard of the list).

`StageContract` is the promise of both: a version reported while no other command is
about to write it (`Committed`; in Neo4j, while no discard of it has met a command
at work on it) is whole, and no command but a discard changes it.  `settled` is what has
been reported in this way; it is a history variable that no action reads.  A second
Qdrant writer that has found the version empty before the first wrote it may
indeed rewrite what the first has reported, which is why `Committed` is there.

### VectorSearch

`search[s]` is the operation that a search awaits, `task[t]` the operation, which
is a task of its own and goes on when it is left; `inflight` is the deque of those left
running, in which ended ones stay.  `Begin` and `Resumes` are `search` between its
awaits, `TimesOut` and `CancelBranch` the two ways in which a cutoff reaches
`_within_deadline`: by its own timer, which leaves the operation running, or by that of
the scheduler, which is set for the same instant and cancels the branch and so
the operation.  `leaked` counts the places of the connection pool that were lost
when an operation was cancelled while it connected; that httpx does this is
the statement of the docstring, taken as it is.  The two requests of
`require_collection` are one here.  The cached validation is never withdrawn: `search`
withdraws it after an error that is not retryable, and the error of a lost
collection is retryable by default (`Retryable`), so that the fresh look its
comment announces (`qdrant.py:637`) does not take place.

### Observability

`request[r]` is where the handler of a request is, `life` where the lifespan is around
them.  A coroutine that does not wait is one step, so that counting an outcome and
telling the trace writer of it (`ReportEnd`) is one, and a turn of the writer's worker
(`WriterTurn`) empties the queue: `asyncio.Queue.get` only waits when there is
nothing to get.  `Tell` is `_enqueue`: what does not fit is dropped and counted.  An event told
before the writer is open, or after it is closed, is lost without a count, which is
how the code is written; `TraceAccounted` says that these are the only ones.
`CloseWriter`, `EndMarkFits` and `WriterCloses` are `close` between its awaits.  A
cancelled request is counted when it comes and never again, so `/metrics` does not
tell it from one at work; `OutcomesAddUp` says what can be told.  `told` and
`fate` are history variables.

### Retrieval

An entity and a chunk are numbers in the order of their ids, a relation is the two
entities, the chunk and a confidence in tenths; predicate and rule, the other parts of its key, are
left out.  `Deepen` is one depth of
`traverse_bounded`, from the load of its adjacency to the next; `Tried` is the body of
the innermost loop, and `Found` what it makes of every step from the frontier, one after the
other in the order in which the code takes them (`Tries`), because the limit on visited entities is
shared by all seeds and so depends on the order.  What the code sorts by a key is `Sorted` by the same
key, a tuple of numbers.  `Rank` recovers and ranks the chunks.  Scores are exact integers
with a common denominator; the rounding of the code's floats, which could
break a tie of two different sums, is left out.  `TraversalHonest` compares the walk with all the
simple paths there are, and `RankedHonest` the answer with all the chunks they reach.

### Fusion

`Fuse` is `weighted_rrf_v1` and what `_rank_execution` does with a branch that is missing; `Refuse` is
its error, for a branch that names a chunk twice and for two hits of one chunk that
disagree.  A hit is a chunk and a text, which stands for the document and the shared metadata that
are compared with it.  Scores are fractions, with the rounding left out as above.
`FusionRespectsBranches` states what a fusion may not do without computing a score: put a chunk before
one that is ahead of it wherever both branches have a say, drop or repeat a chunk, say of one
what a branch does not say, or count wrongly in its trace.

### Planning, SearchAnswer, OfflineOptimizer

`Planning` has no state: `BranchCutoff` and `Left` are the deadline, `RuleDecision` is
`RulePlanner.select`, `VectorDecision` to `ProfileDecision` are the presets of the engine,
`OptimizerDecision` is `OfflineCostAwareOptimizer.select`.  Time is counted in twentieths
of a millisecond, in which the reserve of five per cent is exact.  `SearchAnswer` takes one
request through an engine: `Refusal` holds what each of the three engines refuses before it
starts, kill switches and benchmark entries included, then come the states of the
request's state machine with the places at which the clock is looked at, the results of the
branches, and `Build`, in which the response and its trace are put together field by field
and must pass `ResponseValid`.  How the branches came to their results is the subject of
`RequestScheduler`; here every combination is tried.

A branch ends in one of the exits of `_run_branch` (`Success` to `Cancellation`; the last is an
operation that raises `CancelledError` though nobody cancelled its branch, the one way in which
a cancelled branch stands beside a good one).  An exit has a status, a code, the origins of failure and
timeout and the reason of a cancellation; a result adds its boundaries, its latency and what its
circuit was before and after.  `ResponseValid` is those validators of
`BranchResult`, `FusionTrace`, `SchedulerTrace`, `SearchTrace` and `SearchResponse` that relate
counts, statuses, times and circuits, one conjunct for each check: of a branch, that its boundaries
come together, in order, and agree with its latency, and which origins and reasons its status
allows; of a trace, the reserve, the latencies of the branches and of fusion, what
fusion and the scheduler counted, the skew of the starts, the overshoot, and the circuit each
branch left.  Left out of it are: the equality of the request's id, the decision and the fallback flag in a response and
its trace, which are copied from one variable; the uniqueness and the order of what is a set here (hits,
branches, missing branches); the budget that remains at a boundary, which is read with it; and
the validators of one field.  Values are compared exactly where the code compares with a
tolerance.  For the reserve, the one value that is computed in two ways (in nanoseconds and in
milliseconds), the two agree within the tolerance for every budget from 25 to 5000.
`MoreTimeNoWorse` and `MoreTimeKeepsQuality` compare the decisions for two times left, which
no test of a single decision does.

### CostModel, RuntimeGuard

A training replaces four files one after another and can be killed between two; the
optimizer reads manifests, checksums and estimators in steps of its own and compares
the manifests twice.  `BundleIsAPair` holds whatever overlaps.  That an estimator is the one
its manifest names holds only when no training wrote while it was loaded: the checksum
and the load are two readings of the file, and `overlapped` is a history variable that says so.

The guard keeps a window of measurements and latches.  Its docstring says that an artifact is
disabled "for the process lifetime" (`planner/runtime_guard.py:39`), while
`replace_artifact` twice, to another artifact and back, turns it on again; the policy document
says that explicit loading of another artifact resets the latch
(`docs/offline_cost_policy.md:77-79`), which is what the code does.

### EngineBuild

`Steps(p)` is the order in which the builder of a profile reads, compares, opens and asks; any
step may raise or be cancelled, and `OpenHandler` and `BuiltHandler` are the two handlers
with the clients that each knows of.  The operator may stage, activate and discard
between any two steps.  Three things came out of it, and the properties name them as
exceptions: the builder of stage 4 reads the vector manifest a second time after it has compared
the first reading with the pointer (`api/runtime.py:263`), so that a manifest which is replaced between
the two is served although it is not of the active corpus, against the docstring "serves only the
atomically activated corpus"; the single-store Qdrant builder has opened its client when it
learns that the configuration is not valid, and does not close it; and a handler whose first
close raises or is cancelled skips the second (`api/runtime.py:473-476`).

### Chunker

One action for each turn of the loop of `chunk_document`; what decoding and normalising make
of a window is a parameter (`Text`), so that windows may be empty or have the text of an
earlier one, which is left out.  `PassagesKept` is what overlapping windows are for: no passage
of at most one token more than the overlap is lost at a boundary.

### BenchmarkRun

A process opens a run directory (`RunRepository.__init__`, under the lock), takes the lock
again and resumes, appends or aggregates.  A file that is replaced as a whole is the set of
its contents, none or one; a row is appended in two steps, since `os.write` may take a part of
it.  The lock belongs to the descriptor that took it and goes with its process, so that a kill
is `Stop`.  The time of a run that exists is looked up before the lock is taken, as in
`_execute`, so that two processes may begin one run with different times: the later is
refused by the files it finds.  The aggregate of a complete run is read without
the lock.  No loss of power is modelled here: the rows and files are synced, their directory is not.  The
profiler (`benchmark/profiler.py`) has the same lock, files and rows.

## 3. Runs

| Run | Instance | Shows |
|---|---|---|
| `policies` | six parts: a breaker with threshold 5 as in the code, 5 calls, 3 ticks; searches of every engine, mode, switch and benchmark entry; trainings and a loader; the optimizer; the guard with a window of 6; a benchmark run with 2 processes | SingleProbe, CountMatchesState, WindowUndisturbed, NeverWedged, KeepsContract; SearchAnswersAreValid, SearchGraphAllowed; PlansUseTime; CostBundleHolds; GuardEvidence; BenchmarkEvidence |
| `scheduler` | one request that is fixed-hybrid, rule-planned or vector-only and one graph request, threshold 2, three error codes, client disconnect and shutdown | TypeOK, NoOrphans, BlamedOnEvidence, AnswerFitsResults |
| `scheduler_live` | threshold 1, no error codes, operations that may hang | EveryRequestEnds, CircuitsKept |
| `lifecycle` | 3 requests, limit 2, 2 closers | AdmissionExact, NoServiceAfterClose, NoDetachedSearch, ClosedMeansBoth, ClosedOnce, EverybodyLeaves |
| `close_hangs` | 1 request, 2 closers | CloseCompletes is violated |
| `activation` | 1 operator, 2 runs, 2 corpora | PointerResolves, ReportedIsDurable, RecordsImmutable, SwitchedToIsStored |
| `discard_race` | 2 operators | PointerResolves is violated |
| `rollback_to_nothing` | 1 operator | ServedIsStored is violated |
| `staging` | 2 commands in one of four parts: one Qdrant version and three inputs; one Neo4j version; two Neo4j versions with a common entity, one of them discarded; one Neo4j version asked for with two contents.  A fifth part cuts documents | GraphRetries, VectorKeepsContract, GraphKeepsContract; ChunksKeepPassages |
| `discard_orphans` | the same | DiscardIsScoped is violated |
| `serving` | five parts: 2 searches at a time, 4 operations, one of them left running, a pool of one connection; 3 requests and a trace queue of 2; every subset of 5 relations and 24 questions; two lists of up to 3 of 4 chunks, 3 weights, 2 top-k; the builders with 2 corpora | NothingDangles, SearchesBounded, NoneAfterCutoff; ServiceCounts, ServiceTraces; GraphTraversal, FusedInOrder; EngineServesActive, EngineLeavesNothing |
| `deadline_cancels` | the same | DeadlineDetaches is violated |

A property of a part is named in the MC module and stated in the module of the part:
SearchAnswersAreValid is `AnswersAreValid` of `SearchAnswer`, CostBundleHolds is `BundleIsAPair`
with `EstimatorIsItsManifests` of `CostModel`, and so on, each with the type invariant of
the module.

Bounds, and why they are enough.

* `policies`: five calls can together trip a breaker with the real threshold while
  one of them still holds a stale permit after the others have recorded; the
  probe, its rivals and a stale verdict need three.  The window needs two ticks to be
  cut short and one more to be restarted.  The plans are those of the shipped catalogue with
  their numbers, top-k is 1, 10 or 50, the ends and the step of every preset, budgets are the
  least and one in the middle of the reserve's range, and a rule plan is chosen at times on
  both sides of every threshold.  Of three sets of chunks one is empty, and two
  overlap in one chunk.  A branch starts and ends at the beginning or the end of the execution, which makes
  starts that differ and starts that do not.  A circuit that is met goes from closed to open (`Observed`):
  the state before cannot pass for the state after, nor either for that of a branch that met none.  Four
  trainings are two of one corpus, one of another, and one that is not for research, of
  which at most three are on disk together.  The guard's window forgets at six, its evidence begins
  at three.  The benchmark has two processes, two protocols and two environments, which are one
  run begun under another identity, two times for two that begin at once, and three trials: a
  first, a last, and one between.
* `scheduler`: two requests, of which one may have both branches and the other is a graph
  request, are the least in which the
  probe of one request refuses the branch of another, in which one request's
  failures open the circuit under the other's rule planner, and in which stale
  permits exist.  One code of each class stands for its class, which is all
  `_run_branch` and `_raise_if_no_usable_branch` distinguish.
* `lifecycle`: three requests and two slots reach the limit with a request left
  to refuse; two closers are an owner and a follower.
* `activation`: two runs and two corpora give a served and another run, and a run
  id used twice with different evidence.  `MaxFound = 3` is the number of
  unsynced states of the root kept apart: a command leaves at most one unsynced
  rename before it syncs, and an unlink, which is not synced, adds one more.
* `staging`: two commands are a writer and its rival, or a writer and its own
  retry after a kill; a discard runs beside them.  Two chunks make a partial batch and a partial
  seal, one of them `Exact`; the inputs are a corpus, a part of it, and
  the same chunks under another artifact, one for each comparison a retry
  makes.  In the graph, two entities with a relation and an entity in common are
  the least in which every kind of row depends on another command's; two contents under one
  name are a version with rows that the other lacks, so that a row of the loser's would be seen.  Documents of up to six
  tokens, one of them blank, and sizes and overlaps up to four have windows of every
  kind: last ones that are short, empty ones, repeated ones.
* `serving`: two searches pass the limit of operations left running together, which one alone
  cannot; four operations are those two, the one kept and one on its way out.  One
  connection is a pool that one loss empties.  Three requests overfill a queue of two, and fill
  it while the writer closes and its end mark has to wait.  Five relations over four entities
  and three chunks hold a triangle, a pair named twice, and a second component
  joined at one entity; with at most three paths for a seed, three visited entities and
  five rows, rows and visited entities run out at the first depth of some walks and at a
  later one of others, paths at a later one, and nothing in yet others.  Two lists of three of four
  chunks agree, disagree or have nothing in common, and are longer together than the
  answer; a list that names a chunk twice and two with another text are refused; the weights
  silence the one branch, the other, or neither.  Two corpora are the
  active one and the one that replaces it.

Deadlock is checked in all passing runs but `lifecycle`, where an engine that is
closed and whose requests have ended has nothing more to do.

Fairness.  The event loop runs every task that is ready, and time passes: weak
fairness of every resumption, of the clock and of the end of a cancelled
operation.  None is assumed of an operation nobody cancels (it may hang), of
arriving requests, disconnects or closes.  `CircuitBreaker` assumes that a call
records a verdict in the end; `CircuitsKept` shows that the scheduler guarantees
it.  `EngineLifecycle` assumes that a search ends; `EveryRequestEnds` shows it.
`CorpusActivation`, the stagings, `CostModel` and `BenchmarkRun` have no liveness: a command
may be killed anywhere.

## 4. What the violations show

* `close_hangs`: `close` awaits the cancelled searches outside any `try`
  (`core/engine.py:1284`).  When its task is cancelled there, no backend is closed
  and `_close_complete` is never set: later callers wait for ever.
* `discard_race`: `discard` checks that the run is not served and unlinks its record
  in a later step, with no lock: a concurrent activation or rollback of that run
  leaves a pointer without its record.
* `rollback_to_nothing`: a record outlives the stores of its corpus, and `rollback`
  looks at neither store: it activates a corpus that does not exist.
* `discard_orphans`: the last statement of `discard_version` is not limited to its
  version.  It deletes the entities that the stage of another version has written
  and not yet mentioned; the mentions are then dropped silently, the version is
  sealed, its verification fails, and a retry, which finds it sealed, only
  verifies again.
* `deadline_cancels`: `_within_deadline` never cancels an operation at its deadline, but
  the scheduler, whose timer is set for the same cutoff, cancels the branch that
  awaits it, and the handler for that cancels the operation (`qdrant.py:754`).  Which
  timer is served first is not determined.

## 5. Proofs

`CircuitBreakerProofs` proves, for every set of calls, every threshold and every
window (from `CircuitLimits` alone: both are positive), that the breaker keeps its types,
has one probe, an exact count and an undisturbed window, and that every step of
it is a step or a stutter of the contract.  The inductive invariant is the
conjunction of TypeOK, SingleProbe and CountMatchesState: the window property
needs the last (an open window implies the open state), the step of a probe's
verdict needs SingleProbe (that nobody else holds one), and SingleProbe alone is
inductive only with the types.  The proof has a lemma for each breaker
operator and a step for each action.

`EngineLifecycleProofs` proves every safety property of `EngineLifecycle` for
every limit (`LimitPositive` is the only assumption) and for any sets of requests
and callers of `close`, infinite ones included.  `AdmissionExact` says that the count is exact and never above the limit; it counts a set, so
that the set of registered tasks is finite is part of the invariant.  The rest of it
says why nothing runs on a closed backend: there is one owner; once an engine is
closing nobody enters it, so that the searches still running are among those
the owner has listed; it leaves the wait only when they have all gone; and
its position from there on tells which backends are open.  A `close` that was
cancelled has left its position with the backends as they are, which is why the
invariant speaks of the owner's position and not of the fields of the engine.

`VectorStagingProofs` proves, for any commands, chunks, artifacts and inputs and with no
assumption on them (a content is nonempty and finite by definition), that the staging of a Qdrant version
implements `StageContract`.  The invariant is that a settled version is held and no
command is about to write it.  It is inductive because there is one way to become
a writer, `FindsEmpty`: a version that holds a content has points, so that a count
of zero that is still right means that nothing is settled.  That a version holds
one content only (`OneContent`) makes the report of a command the report of what
the store holds.

`CorpusActivationProofs` proves the types of `CorpusActivation` for any commands, and its four
properties for one command at a time (`OneAtATime`), for any runs and corpora and
with kills and losses of power anywhere.  The hypothesis is needed: with two at a time
`discard_race` refutes the first.  The invariant adds to the properties what the
command knows, by its position (`Knows`): its run id is free when it writes, its record is its manifest and
active when it switches, the pointer is its own when it is synced, and the
record it unlinks is not the one pointed to; and what an activation has found in the stores is still
there (`Found`), since only a command removes from them.  That the pointer resolves in every
state a loss of power may leave needs no more than that every change of the root keeps it.

`RequestSchedulerProofs` proves the types, `NoOrphans`, `BlamedOnEvidence` and
`AnswerFitsResults` for any set of requests, any error codes, fatal ones included, and any
threshold and window.  The invariant is the conjunction of the types, of `NoOrphans` and of
the invariant of `CircuitBreakerProofs` for each breaker; a step keeps the last because it is,
for each breaker, a step of `CircuitBreaker` with the requests as calls or leaves it alone
(`VectorSteps`, `GraphSteps`), which is also what `CircuitsAreBreakers` says.  So the
theorems about one breaker hold of both in the scheduler (`CircuitsKeepPromises`), where the calls are
branches that expire, are cancelled, or never start.  `BlamedOnEvidence` needs the invariant
only for the state of the breaker before the step; it compares the two decisions of `_run_branch`
(result and verdict) exit by exit.

`PolicyProofs` proves the invariants of `MCPolicies` that are not about a breaker.  Every part has an
invariant of its own, kept because a step moves one part (`PartsMoveAlone`).

* The guard (`GuardIsFair`, from `GuardValid`): the window is never longer than its size, so
  that the counts of a share are those of a finite sequence, and the latch is what the
  window says.
* The cost models (`BundleIsWhole`, from `RunsValid`): the pair was compared before the loader was
  ready, and, by its position, the file it has checked is still the one its manifest names and the
  estimator is of that file, unless a training has written meanwhile, which is what `overlapped`
  records.
* The benchmark (`EvidenceIsKept`, from `TrialsValid`), for any number of processes, trials,
  protocols and environments: one process holds the lock, the files are those of whoever has passed
  them under it, and who works on the rows knows them.
* A search (`AnswersPassValidators`, `GraphNeedsReason`).  The invariant (`EngineInv`) says
  that the states so far are the first of one route, that no time is before an earlier one, that
  the decision was chosen at some time for a call that was not refused and whose
  language is known where the mode asks for that, and that the branches are those of
  the decision, each with a result that is sound (`SoundBranch`): every exit of a branch, with any
  circuit and between any two times, gives one that passes its own validators (`ResultsAreSound`).
  What `Build` puts together passes the others because of
  that (`Fused`): the hits of a response come from branches that succeeded, the fallbacks
  and the times fit, and the skew is the largest difference of two starts (`SkewIsTheirs`).  The assumptions are `CatalogValid`, which are the validators of the catalogue,
  `CatalogShipped`, which is what the shipped `configs/plans.yaml` adds and the presets of
  the engine count on (plans 0 and 1 leave the graph alone; no plan asks for more than a
  decision may hold), `ProfilesValid` and `SearchesValid`.
* More time (`TimeIsUsed`).  A ladder descends, and what fits in less time fits in more, so that
  the first plan that fits comes no later; below the threshold of the small budget the
  ladder is plan 0.  For the optimizer the eligible plans grow with the time, a best one by
  the four keys exists (by least elements, one key after the other), and the first key is the quality.
  `PredictionsValid` only asks that predictions are numbers.

`ServingProofs` proves all nine properties of `MCServing`, for any searches, requests, corpora, lists and
limits.  The assumptions are `SearchLimits` (finitely many searches run at one time, which is what
the admission of the engine grants, and the limit and the pool are not empty), `EndMarkIsNoRequest`
(the end mark is `None`), `GraphInputs` (a corpus is finite and has one relation of a key, since the
id by which relations are merged is made of the key (`core/ids.py:124`); the depth of a plan is 1 to 3; the limits
are positive) and `FusionInputs` (the validators of weights, of top-k and of a branch's result).

* The engine (`EngineIsActive`, `FailedStartCloses`, from `BuildInv`).  The steps of a profile are a table
  (`StepsOfProfiles`), so that a builder's place says what it has read, compared
  (`ReadSoFar`) and opened (`OpenBy`), whatever an operator does beside it.  While a
  handler closes, what it has still to close is what is open (`Closing`), until a close raises.
* The searches (`NothingIsDangling`, `LeftRunningIsBounded`, `NothingBegunLate`).  `Owned` says who an
  operation belongs to: no two searches await the same one, the deque holds none twice and
  none that is awaited, and one that was cancelled is in neither.  `AbandonedBounded` is not
  inductive: a search at work may add one more to the deque, so the invariant counts these with it
  (`LeftBounded`).  The type of `leaked` needs that the places in use and those lost are
  together within the pool (`PoolBounded`).
* The counters (`CountersAddUp`, from `CountInv`).  Each record raises the outcomes by one just when the
  request leaves those without one; who was told of has ended, so nobody is told of twice.
* The traces (`TracesAreAccounted`, from `TraceInv` and the invariant of the counters).  The events in
  the file, and after them those in the queue, follow each other in the order in which they were told
  of (`InOrder`); the fate of a request is where its event is (`Fates`), and every loss but one of an
  event nobody could take is counted (`Losses`).  That the queue is empty once the writer is closed needs its
  position: the end mark comes while the lifespan waits for the worker and is the last there is
  (`WriterFits`), so that nothing is left behind it.
* The walk through the graph (`TraversalIsHonest`, from `WalkInv`).  What has to be shown is that a walk that
  reports no limit has every path there is.  Its frontier then lists all paths of the last depth and what it
  keeps is all paths so far (`NothingMissed`): every path but the last relation of it is a path of the
  depth before (`PathShrinks`), so the step that adds this relation is among those tried, and
  a step whose entity is not refused finds its path (`TryFound`), which no later step takes away
  (`RunFits`).  Where something is cut one of the limits says so.  That nothing is lost by sorting needs that a
  key tells the sorted things apart (`EdgeKeys`, `PathKeys`): then as many are above each as its
  place says, and every place is taken (`Standings`, `SortedLists`).  What `Found` computes is a recursive
  function over the steps; instead of an induction the proofs take the least step at which a claim about it fails
  (`LeastNumber`, `RunExists`, `RunFits`).  For the answer, the score of a chunk that was reached is a
  number, as the greatest of finitely many (`ScoresAreNumbers`), and the list by score and id is cut at its
  end only.
* The fusion (`FusionKeepsBranches`).  The relation `Better` is a strict total order, since fractions with
  positive denominators are compared crosswise; hence the number of chunks that are better than a
  chunk tells the chunks apart and takes each value below their number, and the sorted list has them
  all (`SortListsAll`).  A chunk that is nowhere behind another and ahead where it counts has no
  smaller contribution from either branch and a larger one from one of them (`SumIsHigher`).  The counts
  are cardinalities of sets that lists without repetitions enumerate.

`StagingProofs` proves the properties of `MCStaging`, for any commands, versions, contents, rows and
jobs.  The assumptions are `ContentsValid` (what a caller has validated: the rows of a content are
rows, its chunks and entities are finitely many, its mentions are of its chunks, its entities those it
mentions), `JobsValid` (above) and `DocumentsValid` (a document has a length).

* Neo4j (`GraphKeeps`, `RetriesRepair`, from `GraphInvariance`).  The reason everything holds is that
  a version goes by one content, whose name is in its marker and in every command that has passed it:
  a discard removes the marker, and the version is then staged again with the same (`JobsValid`),
  or was never discarded.  From that (`Standing`) the rows of a version are rows of its content, and a
  command writes no others.  `ReadSoFar` is what a command has read of a version on its way
  to a verification, `WrittenSoFar` what it has written; both speak of commands that
  no discard has met, because only a discard takes rows away, and `disturbed` records whom it met.  The
  store's verification compares numbers and not rows; since the rows are among those of the
  content and these are finitely many, equal numbers are equal rows.  The difficult step is the discard
  of another version, which removes entities of the whole database: it leaves those that are mentioned,
  and a version that is held mentions all it has (`ContentsValid`, `MentionsStand`).  What is settled is
  held (`SettledHeld`): whoever still writes the version writes rows that are there already.
* Qdrant (`VectorKeeps`): every step of the part is one of `VectorStaging`, and the theorem of
  `VectorStagingProofs` is taken over by instantiating its module.
* The chunker (`PassagesAreKept`), for documents of any length, any normalisation and every
  valid configuration.  The loop invariant says of every passage that begins before the next window
  that it lies in a window looked at, and of every such window that it is empty or that
  its text is a chunk's.

Only model-checked: all liveness (`NeverWedged`, `EveryRequestEnds`, `CircuitsKept`,
`EverybodyLeaves`, the fairness of the contract in `KeepsContract`), since liveness and ENABLED are out of the
prover's reach.

## 6. Not modelled, and the plan

Simplifications that matter: the file system is journalled (an unsynced rename is
lost or kept, in order); a manifest is its corpus, two verification flags and a
status; hits, latencies and traces are left out; asyncio timers never fire early.
In the stagings a request that a killed command has sent is applied before the
next one or never; a scroll over several pages is one read, and two counts made one
after the other and compared are one, which lets more pass than the code does; a
graph chunk is the only one of its document; names, aliases and texts of the rows are the
content they belong to.
Two hazards of the list have no property.  A validated Qdrant collection is cached and looked at again
only after an error that is not retryable (`qdrant.py:635`): `VectorSearch` does as the
code does, and no promise about it is stated that could fail.  A graph version that is discarded and staged
again with other content while a first stage of it is at work (`neo4j.py:388`) is what `JobsValid`
excludes; nothing in the repository promises anything for it.

In `Observability` the lifespan's own cancellation is left out.

Not planned: the extraction of signals and entities from text, embedding and numerical training
(linguistic or numerical data with no state); the estimators, whose predictions are arbitrary
numbers here; the benchmark's metrics, statistics, policy evaluation and capture of the environment, which
compute over rows that are there; validators of single fields; report
generation; the command line (`cli/`), which parses arguments and calls the components above one after
another; and the vendored data.
