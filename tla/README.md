# Verification of Agent-Exec-Engine

TLA+ models of the workflow engine: the core under `internal/dag`, the manager
and HTTP requests above it, and the sandbox, tool server and LLM executors
below it; the TLC configurations that check them, and TLAPS proofs of the results that matter
most. Everything is translated from the Go source; `PROJECT.json` maps every
definition to the lines it stands for.

## 1. The system

| Component | State | Operations | Interacts with |
|---|---|---|---|
| Step state machine (`dag/step.go`, `pkg/types`) | none: a transition table | `CanTransition`, `ShouldRetry` | asked by the scheduler, which often ignores the answer |
| Dependency graph (`dag/graph.go`) | in-degree counters, resolved map, under its own RWMutex | `NewGraph` (three validations), `ReadySteps`, `MarkComplete`, `SkipStep`, `EvaluateCondition` | called by the scheduler from several goroutines |
| Scheduler (`dag/scheduler*.go`) | run status, step states, outputs, paused step, checkpoint version, cancel function, under one mutex | `Run`, `Resume`, `Cancel`, `Snapshot` | one goroutine per `Run`/`Resume`, one per executing step (errgroup); graph, executors, checkpointer |
| Checkpointer (`dag/checkpoint.go`) | a mutex; the checkpoint lives in the store | `Save` (get, compare version, set), `Load`, `RestoreScheduler` | the store; all runs of a process share one |
| Store (`internal/store`) | key to value with time to live (memory or Redis) | `Get`, `Set`, `Delete` | the checkpointer only |
| Workflow manager and HTTP API (`internal/api`) | workflows, schedulers, run snapshots, index by workflow, under one RWMutex | create, get, resume, cancel, list | starts `Run` in a goroutine with a background context; passes the request context to `Resume` |
| Sandbox (`internal/sandbox`) | pool semaphore, containers in the daemon | `Execute`, `Cleanup` | Docker; called by the `code_exec` tool, and at shutdown |
| MCP (`internal/mcp`) | tool registry, token buckets, each under a mutex | `Register`, `Unregister`, `Call`, `SetLimit`, `Allow`, JSON-RPC over HTTP and stdio | tools, sandbox; a goroutine per request of a batch |
| LLM (`internal/llm`) | conversation, round, attempt | step executors, `Chat` with retries | MCP registry, GPU client, a model behind HTTP |
| GPU client (`internal/infra`) | reservations by step ID | `RequestGPU`, `ReleaseGPU` | an external scheduler over HTTP |
| Configuration, observability, server process | start-up wiring, write-only telemetry | | |

What is hard here:

* **interleavings** - a batch runs its steps in parallel; each finished step
  saves a checkpoint of the whole run; `Resume` may arrive while the driver
  that paused the run is still saving; `Cancel` may arrive at any time;
* **atomicity** - `saveCheckpoint` is four critical sections: clone the states,
  read the version, save, remember the new version;
* **failure** - store errors, lost answers, version conflicts, an expiring
  checkpoint, a crash and a restore from whatever was stored last;
* **timeouts and retries** - a deadline, a cancellation and an error of the same
  step race for its status;
* **partial failure outside** - a container or a GPU job is made by one call and
  taken back by another, and any call may fail, lose its answer or meet a
  context that has ended;
* **change under use** - a tool is removed and registered anew while a call is
  under way, `Cleanup` removes containers of running executions, `GetRun` writes
  back what it read before;
* **data-structure edges** - repeated dependencies, resolution out of
  dependency order on restore, cycles and self-loops at construction.

`PROJECT.json` lists the hazards one by one, each at its line and with the
properties that would catch it.

What makes each part correct, in a sentence: the graph offers exactly the steps
that may run; the scheduler has one owner at a time, starts no step before its
dependencies, loses and repeats none, stays within its limits and always comes
to rest; a checkpoint is a state the run could have been in and is replaced
only by its successor; a restored run continues from it. A client sees a run as
it is; every request, message and execution gets its answer; slots, containers
and GPU jobs come back or the caller hears of it; a handler sees only input it
declared.

## 2. Modules

| Module | Models |
|---|---|
| `StepFSM` | statuses, `ValidTransitions`, `CanTransition`, `ShouldRetry` |
| `Dependencies` | the dependency relation and the reference meaning of "ready" and "newly ready" |
| `Readiness` | abstract specification of a graph: a growing set of resolved steps and an exact answer per call |
| `Graph` | the counters of `graph.go`; refines `Readiness` |
| `GraphValidation` | `indexSteps`, `buildEdges` and Kahn's loop, on arbitrary (also malformed) workflows |
| `VersionedRegister` | abstract specification of optimistic locking |
| `Checkpointer` | `Save` between its lock, `Get` and `Set`; refines `VersionedRegister` within one process |
| `Scheduler` | the scheduler with its drivers, workers, savers, environment, crash and restore; uses `Dependencies` for the graph and one atomic step for `Save` |
| `RunLifecycle` | abstract specification of a run's status: what may follow what, and that a running run comes to rest; refined by `Scheduler` |
| `WorkflowManager` | the manager's tables, the goroutine of `CreateAndRun`, concurrent requests; a run is its `RunLifecycle` |
| `Sandbox` | `Pool.Execute`, `Executor.Execute` and `Cleanup` against a fallible daemon, with `code_exec` |
| `RateLimiter` | the token buckets of `ratelimit.go` |
| `ToolServer` | messages, batches and dispatch, `Registry.Call`, administration; extends `RateLimiter` |
| `LLMStep` | the two step executors, `Client.Chat`, `SchedulerClient` |
| `MCGraph`, `MCGraphValidation`, `MCCheckpointer`, `MCScheduler`, `MCWorkflowManager`, `MCToolServer`, `MCLLMStep` | instances for TLC (`Sandbox` needs none) |
| `GraphProofs`, `GraphValidationProofs`, `SchedulerProofs`, `CheckpointerProofs`, `WorkflowManagerProofs`, `SandboxProofs`, `ToolServerProofs`, `LLMStepProofs` | theorems and proofs about the module of that name; `ToolServerProofs` includes the rate limiter |

The composition is by contract. `Graph` is shown to implement `Readiness`,
which is stated with `ReadyIn` and `NewlyReady`; `Scheduler` drives its graph
through these two operators. `Checkpointer` is shown to implement
`VersionedRegister` for the callers of one process; `SaveStore` of `Scheduler`
is that register's step. `Scheduler` without a checkpointer is shown to
implement `RunLifecycle`, and `WorkflowManager` moves its runs by the steps of
that specification. `GraphValidation` shows that `NewGraph` establishes
the acyclicity that `Dependencies` assumes.

### How `Scheduler` corresponds to the code

A *driver* is a goroutine inside `Run` or `Resume` (`dpc` says where), a
*worker* `<<d, s>>` is the errgroup goroutine in which driver `d` executes step
`s` (`wpc`), a *saver* is a driver or worker inside `saveCheckpoint` (`savePc`,
`snap`). One action is one critical section of `Scheduler.mu` together with the
neighbouring work that no other goroutine can tell apart.

| Code | Actions |
|---|---|
| `Run`, `setRunContext` | `Run`, `EnterLoop` |
| `Resume`, `completeHumanStep` | `CompleteHumanStep`, `ResumeRun`, `ResumeFails` |
| `Cancel` | `CancelReads`, `CancelFires` |
| `runLoop` | `LoopCancelled`, `LoopCompletes`, `LoopProcesses` |
| `processReadySteps` | `BranchStart`, `PauseWorkflow`, `ProcessDone` |
| `handleBranchStep` | `BranchStart`, `BranchDecides`, `BranchErrs`, `BranchSaved`, `BranchSaveFails` |
| `pauseWorkflow` | `PauseWorkflow`, `PauseSaved`, `PauseSaveFails` |
| `executeBatch`, `executeStep`, `finishStep...` | `WorkerStart`, `ExecSucceeds`, `ExecFails`, `WorkerSaved`, `WorkerSaveFails`, `WorkerReturns`, `BatchDone` |
| `saveCheckpoint`, `Save` | `SaveCall`, `SaveClone`, `SaveVersion`, `SaveStore`, `SaveCommit`, `SaveReturn` |
| `failWorkflow`, `completeWorkflow` | `FailWorkflow`, `FailSaved`, `LoopCompletes` |
| `RestoreScheduler` | `CrashAndRestore` |
| request context of `Resume`, key expiry | `ClientDisconnects`, `CheckpointExpires` |

Abstractions, all of data and none of control:

* ready lists are sets. `ReadySteps` iterates a Go map and batch answers arrive
  in completion order, so every order is possible, and `dedupeStrings` removes
  repetitions before a list is used;
* an executor returns success or an error, and the error either wraps
  `context.Canceled` or does not, which is all `failWorkflow` looks at; a
  step's deadline may pass at any time. Step outputs are reduced to whether
  there is one;
* `executeStep` reads its context before `finishStepFailure` takes the lock, and
  the context may be cancelled in between, by a sibling's error too; so
  `ExecFails` lets an error be recorded as a failure whatever the context says,
  also for a step that began under a cancelled one, where the code would say
  "cancelled" or "timeout";
* a CEL condition is true, false or an error;
* time appears only as "the key has expired" and "the deadline has passed";
* sections of one goroutine that touch nothing another goroutine reads in
  between are one action: `startStep` and the pause that follows it,
  `completeHumanStep` and its `MarkComplete`, `markRunningStepsCancelled` and
  the status change of `failWorkflow`;
* events, spans, metrics and logs are left out. `emit` never blocks.

`cmd/server` never calls `RestoreScheduler`; crash and restore are modelled as
the library offers them, with `Run` called on the restored scheduler.

### The modules around the core

**`WorkflowManager`.** `call[c]` is the request a client goroutine is serving.
`GetRun` is three actions (`GetRunFinds`, `GetRunSnapshots`, `GetRunStores`)
because it takes the lock three times; `CreateAndRun` is one, since nothing
sees the run before the tables are filled. `background` follows the goroutine
that calls `sched.Run` and stores its result. A run carries its *age*, the
number of status changes, so that an old snapshot can be told from a new one.
A `Resume` is accepted, enters the loop and returns in three actions: it may
enter while the goroutine that paused the run is still on its way out, and it
returns after the status has changed. That only one of them is in the loop is
`SingleOwner` of `Scheduler`; here it is part of the contract.
The contract it relies on is the one `loop` checks, without a checkpointer; with
one, the observations of section 3 apply to the manager as well. When `Resume`
reports an error after it has completed the human step, the model lets a later
`Resume` be accepted or refused.

**`Sandbox`.** One action per daemon call: `Create`, `Start`, `WaitReturns`,
`WaitTimesOut`, `Stop`, `Files`, `Remove`, and `Call` for copying, logs and
inspection. Each has a failing twin; a failed call may still have had its
effect. Calls under the caller's context fail once that has ended, those of the
clean-up path (`postCtx`, `stopContainerImmediately`, `removeContainer`) do not.
`Cleanup` lists once and removes one container after the other.

**`RateLimiter`, `ToolServer`.** Time is counted in ticks and tokens in parts
of a call, which makes the `float64` arithmetic exact. `pc[i]` is where the
goroutine of the i-th request of a message is; each stage of `handleCallTool`
and `Registry.Call` is an action. A schema is a record of required fields, types
and enumerations; a text is the set of rules it matches, and one whose match
depends on the map order of `flattenInput` may be flattened either way.

**`LLMStep`.** One action per HTTP call and per critical section of the client:
the two calls of `RequestGPU` and the map entry after them, every attempt of
`Chat`, every tool call, the lookup, the request and the deletion of
`ReleaseGPU`.
`job[x]` is what the platform knows, `reservations` what the client remembers.
A conversation is the sequence of its messages' roles, an assistant message
with the number of calls it makes. The context may end at any time, also in a
delay, where the `select` may then take either case.

## 3. Runs

| Run | Instance | Distinct states | Result |
|---|---|---|---|
| `graph` | five steps, a diamond with a dependency named twice | 395 | pass |
| `validation` | all workflows of up to 3 steps over 3 IDs, up to 2 dependencies each | 154 k | pass |
| `checkpointer_one` | three clients of one process, versions up to 2 | | pass |
| `loop` | eight steps (branch, three siblings, two approvals, joins), two `Resume` calls, one `Cancel`, limit 2, one retry | 27 k | pass |
| `recovery` | two siblings, an approval, a joining branch; one `Resume`, one store error, expiry, one crash | 572 k | pass |
| `manager` | two clients, two workflow IDs, one run, five status changes before the last `Resume` | 330 k | pass |
| `sandbox` | two executions, one slot, one failing daemon call, one `Cleanup` | 286 k | pass |
| `tools` | batches of two from eight kinds of request, two names, two changes of configuration, limit one, a minute of two ticks | 643 k | pass |
| `llm_step` | two executions of any kind, two rounds, two attempts, up to two calls an answer | 508 k | pass |
| `lostprogress` | two siblings | | `StoredProgressKept` fails |
| `sharedids` | two executions of one step ID | | `JobsNotStolen` fails |
| `gpuleak` | one execution | | `ReleasedAnyway` fails |

**`graph`** - `CountersExact`, `NeverStalled` and `Refinement`:
counters and answers are exact in any order of calls, as `RestoreScheduler`
needs. **`validation`** - `AcceptsExactlyDAGs` against a definition without
counters, `Terminates`. **`checkpointer_one`** - `Refinement`, `SaveReturns`. **`loop`** - the scheduler without a checkpointer, where all of
the loop's guarantees hold: order, one owner, exact ready lists, limits,
inputs, resumable pauses and steps that only move forward.
`LifecycleRefinement` is the
contract with the manager.
**`recovery`** - what survives racing and failing saves, expiry and a crash at
any point: exact ready lists, quiet completion, running steps with an owner,
inputs that come back from the checkpoint (`InputsAvailable`), completed runs
that stay so (`CompletionStands`), stored checkpoints that are causally closed
(`StoredCausallyClosed`) and never ahead of the run (`StoredIsPast`), and coming
to rest.
**`manager`** - `AnswersFresh`: a GET never answers with a state older than the
request, although the table it writes back to may go backwards; `RequestsReturn`.
**`sandbox`** - `SlotsExact`, `NoSilentLeak` (a container stays behind only
with an error), `HonestSuccess`, `CollectsAfterEnd`, `ExecutesReturn`.
**`tools`** - `WindowBound` (grants in any stretch of time are paid for by a
full bucket and the refill of that stretch), `HandlerInputValid` under
re-registration, `RepliesComplete` for batches, `MessageAnswered`.
**`llm_step`** - `ConversationComplete`, `StopsAsking` (at most one request
after the context has ended), `NoSilentLeak` for GPU jobs, `ExecutesReturn`.

The runs expected to fail show where the code and its documentation disagree;
each is written up under `findings`:

* `lostprogress`: the clone and the version are read in different critical
  sections, so an old clone can be stored under a new version and a recorded
  success disappears again;
* `sharedids`: one client keeps the reservations of all runs by step ID, so the
  executions of one step in two runs cancel each other's GPU jobs;
* `gpuleak`: the deferred release uses the step's context; after a deadline or
  a cancellation the request cannot be sent and the job stays reserved.

Observations from the same models, each reproduced by changing constants of a
run:

* `loop` with `Checkpointing = TRUE`: a save may be refused for a conflict with
  another save of the *same* run, without any fault of the store, such as that
  of the driver that pauses the run and that of the `Resume` which follows it.
  Refused in `completeHumanStep` (`scheduler_run.go:256`), it leaves a paused run
  that nobody can resume (`PausedIsResumable` fails); refused in `pauseWorkflow`
  (`scheduler_run.go:116`) it fails a run that the `Resume` is driving, so a
  completed run fails, which is the exception in `CompletionStands`, and a failed
  one goes on running (`LifecycleRefinement` fails). The same conflict between
  two siblings of a batch fails a run whose steps all succeeded;
* `runLoop` looks at its context at the head of a round only: a cancelled round
  that meets an approval pauses the run instead of failing it, although
  `docs/contract-table.md:71` has `Cancel` end a running run;
* `recovery` with a canceller: `RestoreScheduler` resets running steps and
  leaves cancelled ones, which the graph offers and `startStep` refuses, so the
  restored run fails at once;
* `checkpointer_one` with two instances: version checking does not reach across
  processes that share a Redis, against `docs/user-control-design.md:26`;
* a lost answer to `createReservation` or `ContainerCreate`, and a failed
  `scheduleReservation`, leave a job or a container that nobody has the ID of;
  the caller gets an error, and for containers `Cleanup` finds it by its label;
* a branch that is not taken moves from `running` to `skipped`, which
  `ValidTransitions` does not list (hence the exception in `MovesForward`);
* `RestoreScheduler` restores outputs of successful steps only: what depends on
  a branch that was skipped before the crash finds no output of it (hence the
  exception in `InputsAvailable`);
* `SetLimit` starts a full bucket, so a change of limit admits a second burst;
  `WindowBound` counts the grants of each bucket from its `SetLimit` on;
* the server asks the limiter before every call, but nothing outside tests calls
  `SetLimit`, so the `RateLimit` a tool declares (`pkg/types/tool.go:24`) is never
  enforced;
* the executors call the registry directly, past the rate limiter; a Resume for
  an unknown workflow is answered with 409; a tool call without an ID gets one
  in its result that the assistant message does not carry.

### Bounds and why they are enough

Each workflow is the smallest in which the behaviour in question occurs: three
ready siblings exceed a limit of two; two `Resume` calls race for one approval
and then for a second; a retry budget of one has both outcomes; two siblings
and a paused driver are the three savers the code can have at once on one
round. `MaxStoreErrors` and `MaxCrashes` cap faults; a single one already
reaches every error path, in each of its possible places. `MaxVersion` of
`Checkpointer` caps the calls, not the versions a call may meet.
`recovery` has no step without an executor; for the theorems of section 4
`Executable` is any set.

One run is enough for `manager`, because the entries of different runs never
meet; two clients are a slow reader and whoever overtakes it. One slot and two
executions are a full pool with a waiter. Two requests in a batch race each
other, two configuration changes are a removal and a registration under the
same name, and a minute of two ticks lets a bucket be part full. Two rounds,
two attempts and two calls have a first, a last and a step between them; the
code's 10 rounds and 3 attempts only repeat it. `MaxFaults` is one: a second
failure in one execution meets only paths that have failed already, and
contexts may end in addition to it.
`CHECK_DEADLOCK FALSE` is set where everything may have been done: a run ends
or pauses for good, the executions of `Sandbox` and `LLMStep` have returned,
`Graph` and `Checkpointer` have used up their calls. `manager` and `tools` check
for deadlock.

### Fairness

`Scheduler` assumes weak fairness of `Run` and of every driver, worker and
saver: goroutines are scheduled, the mutex is released after each section,
`stepTimeout` gives every executor a deadline, and store calls return. Nothing
is assumed of `Resume`, `Cancel`, disconnects, expiry and crashes.
`Checkpointer` assumes strong fairness of taking the mutex, since Go's
`sync.Mutex` serves a starving waiter first. `GraphValidation` is one
sequential call. `WorkflowManager` assumes that goroutines run and, by the
contract of `RunLifecycle`, that a run comes to rest; nothing makes a client
ask. In `Sandbox` every daemon call returns or its context ends, and the wait
has the policy's timeout; taking a slot is strongly fair, since a channel queues
its senders. In `ToolServer` handlers return; in `LLMStep` every call does, as
all HTTP clients have timeouts and tools get the step's context.

## 4. Theorems

Proved with TLAPS, for every value of the constants that satisfies the named
assumptions. Every invariant and every action property that a passing run
checks is stated by a theorem; the run shows it on an instance, the theorem for
workflows, clients, executions, faults and limits of any number.

| Theorem | Statement (`Spec => []` the property unless said otherwise) |
|---|---|
| `CountersCorrect`, `ReadyStepsCorrect`, `GraphNeverStalls` | types, `CountersExact`, `ReadyExact`, `NeverStalled` of `Graph` |
| `GraphImplementsReadiness` | `Spec => Readiness!Spec` |
| `ValidationCorrect` | `AcceptsExactlyDAGs` |
| `TypeCorrect`, `OneOwner`, `BudgetKept` | `TypeOK`, `SingleOwner`, `RetriesBounded` of `Scheduler` |
| `OrderKept`, `CheckpointsOrdered` | `DependenciesFirst`, `StoredCausallyClosed` |
| `StepsMoveForward` | `Spec => MovesForward` |
| `CompletedStays` | `Spec => CompletionStands` |
| `CompletedIsOver`, `NoStepAbandoned`, `ParallelismKept` | `CompletedIsQuiet`, `RunningHasOwner`, `ParallelismBounded` |
| `InputsComplete` | `InputsAvailable` |
| `CheckpointsArePast` | `StoredIsPast` |
| `NoStepLost`, `LoopNeverStalls` | `WorkListExact`; a round before the end always has a step to do |
| `PausesResumable` | `PausedIsResumable`, if `~Checkpointing` |
| `StatusIsLifecycle` | initial states and steps are those of `RunLifecycle`, if `~Checkpointing` |
| `SaveIsAtomic` | `Spec => VersionedRegister!Spec`, if `OneProcess` |
| `ReadsAreFresh` | `AnswersFresh` of `WorkflowManager` |
| `PoolExact`, `LeaksReported`, `SuccessHonest`, `CollectionAfterEnd` | `SlotsExact`, `NoSilentLeak`, `HonestSuccess`, `CollectsAfterEnd` of `Sandbox` |
| `LimitHolds`, `HandlersSafe`, `RepliesOwn` | `WindowBound`, `HandlerInputValid`, `RepliesComplete` |
| `AskingStops`, `ConversationsComplete` | `StopsAsking`, `ConversationComplete` of `LLMStep` |
| `LeaksReported` | `NoSilentLeak` of `LLMStep`, if `DistinctStepIDs` |

### Assumptions and hypotheses

The assumptions on constants are in the modules that declare them, and TLC
evaluates them on every run. Most give types to bounds (`BoundsAssumption`,
`BoundTypes`, `MaxFaultsType`, `MaxRunsType`, `MaxVersionType`, `LimiterTypes`)
and keep placeholders apart from names (`NamesDistinct`, `ClientNames`,
`NobodyIsNone`, `ClientsAreNames`). The others say what the code ensures:
`DependsOnAcyclic` is what `ValidationCorrect` shows of `NewGraph`;
`ParallelType` and `PoolSizeType` that a limit below one is not taken over from the
caller; `RequestKinds` that a request is a call or one of the malformed
kinds; `ExecutionsFinite` that finitely many executions are started.

Four theorems have a hypothesis, and each marks a limit of the code that
section 3 describes, not one of the proof: `PausesResumable` and
`StatusIsLifecycle` fail with a checkpointer, `SaveIsAtomic` for two processes
on one store, and `LeaksReported` of `LLMStep` for executions that share a step ID.

### Inductive invariants

*Graph.* `TypeOK /\ CountersExact` is inductive: resolving `s` removes exactly
the positions of other lists that name `s`, and `Edges(s, t)` counts them.
`ReadyExact` follows because a count is zero only for an empty set;
`NeverStalled` adds acyclicity, applied to the unresolved steps.

*Validation.* The loop counts the steps it takes and does not say which.
`ValidationInv` says that *some* set of steps (`Taken`) has that size, explains
the counters and the queue, is closed under dependencies and has no cycle. At
the end, either it is all steps, or the rest is a set in which every step
depends on another of the set.

*One owner.* `OwnerInv` treats `pausedStepID` as a token. A driver that pauses
leaves the loop and leaves the token, a `Resume` takes the token and enters;
while there is a token nobody owns the run, and `Run` enters only before anyone
has.

*Order.* `DependenciesFirst` is not inductive, because drivers and workers act
on what the graph said earlier. `OrderInv` adds to types and ownership that
resolved steps are done and that every snapshot and the stored checkpoint are
causally closed (`CloseInv`), that whatever a ready list holds still has its
dependencies resolved (`ListInv`), and that a worker exists only in its
driver's batch, with its step running while it executes (`WorkerInv`). The last
needs the single owner: no other driver can touch the step. `CheckpointsOrdered`
comes from the same invariant: a stale snapshot may win a race, and is still
closed.

*Steps.* The other theorems about steps add one conjunct each to `OrderInv`.
`BranchInv`: the step a driver evaluates is a running branch, so nothing else
moves it (`MovesForward`). `RunningInv`: a running step is attended by a worker,
a driver or a human, or belongs to a run that has stopped after failing.
`RetryInv` and `PastInv` have to speak of every snapshot under way as well as of
the checkpoint, since any of them may be stored next. `QuietInv` and `SlotInv`
are the properties with the state of the other drivers added; from `QuietInv`
only the driver that paused the run has a step left that changes its status
(`CompletedStays`). `OutputInv`: a step
that is done has its output, or was skipped and a crash has been restored since;
with `OrderInv` whoever starts finds its dependencies done.

*Work lists.* `ExactInv` says, for every place a driver can be in, that what it
has yet to look at, what it has put aside for the batch and what its workers
hold are together the graph's offer. `ProgressInv` says that a step that is
done and not yet resolved is with a worker that is still saving, or in a batch
that has failed.
Together they give `WorkListExact` at the head of a round, and with acyclicity
`LoopNeverStalls`: the error of `scheduler_run.go:72` is unreachable.

*Lifecycle.* `StatusInv` ties the status of the run to the places of its
drivers: inside the loop it is running, between `completeHumanStep` and
the loop it is paused, and a paused run has its token or a `Resume` that
holds it.

*Checkpointer.* `ComparedInv`: between compare and `Set` the stored version is
still the expected one or the key has expired. It holds because the mutex
(`MutexInv`) is the only way to `Set`, which is where one process is needed.

*Manager.* A GET is fresh because the age of its run never falls (`AgeInv`) and
its snapshot is taken after it began; the tables name only created runs
(`TablesInv`).

*Sandbox.* `CustodyInv` follows a container by the stage of its execution:
none before it is created, not running when output is collected, and one that
is left at the end has been reported. The environment (process, context,
`Cleanup`) only ever moves it towards removal.

*Rate limiter.* `Balanced` relates the tokens of a bucket to all its grants:
for every past grant, the grants since then and the tokens left are within a
full bucket and the refill since then. `WindowBound` speaks of two grants and is
not inductive; the tokens are what a later grant is paid with.

*Tool server.* `StageInv` and `CheckedInv` keep what each stage has established
about the request and about the tool value it looked up, which
re-registration does not change.

*LLM executors.* `LateInv` and `LoopInv`: a request under an ended context ends
the conversation. `GPUInv`: from scheduling to release the reservation names
this execution's own job. `TalkInv`: the calls of the last answer are its
results so far and those still pending; earlier answers are complete.

### Checked by TLC only

The liveness properties (`Terminates`, `Settles`, `SaveReturns`,
`RequestsReturn`, `ExecutesReturn`, `MessageAnswered`) and the fairness that
`LifecycleRefinement` adds to `StatusIsLifecycle`: liveness under fairness is out
of this prover's reach.

## 5. Plan

Done: the engine core with its checkpoints, the manager and its requests, the
sandbox, the tool server, the LLM executors with the GPU client; all safety
properties of the passing runs are proved.

Worth adding: what *does* hold of a run with a checkpointer in place of
`PausedIsResumable`, and of the lifecycle beyond `CompletionStands`; that the manager's `runs` table
catches up with a run that has ended.

### Not modelled

* The LLM context manager (`context.go`, `strategy_*.go`, `tokens.go`): pure
  functions over message lists that nothing in the server calls.
* `ChatStream`: used by no executor.
* The MCP tools other than `code_exec`, and archive handling: stateless
  wrappers and conversions. Their handlers appear as "returns output or an
  error" in `ToolServer`.
* Configuration, observability, routing, middleware and response formatting: no
  state that a decision of the modelled parts depends on.
* The server process: wiring and shutdown. That it runs `Cleanup` while requests
  may be in progress is part of `Sandbox`.
* `Delete` and `Ping` of the stores: not used on the modelled paths.
