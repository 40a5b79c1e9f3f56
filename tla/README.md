# Verification of Lania CLI v2

TLA+ models of the concurrent and failure-prone parts of Lania CLI v2, the runs
that check them with TLC on small instances, and theorems proved with TLAPS for
every value of the constants. `PROJECT.json` ties every definition to the lines
it models (paths in it start at `src/`, the root of the repository).

## 1. Inventory

Lania CLI is two programs that talk over a pipe: the Rust host
(`rust/crates/lania-*`), which owns commands, workflows and services, and the
Node bridge (`ts/packages/node-bridge`), a child process that runs JavaScript
tools, plugins and the publish product. A second Rust program, `runex`
(`rust/crates/runex*`), installs language runtimes.

| Component | State it keeps | Operations | Interacts with | What is hard | What makes it correct | Model |
| --- | --- | --- | --- | --- | --- | --- |
| Task scheduler and service (`lania-task`) | queue, flags `paused`, `stopped`, `running_ids`, cancellation tokens (a global one, a child per group), slot counters, rollback stack, report; a record and a history of events per task | `add_task`, `pause`, `resume`, `cancel_all`, `cancel_group`, `run_all`; retry, timeout and rollback of each task | runners (callbacks), the caller's token, progress and log sinks | `select!` over a notification without permit, a token and a channel; counters kept by hand; cancel against timeout against result; stop with a queue | counters equal tasks in flight; limits hold; no wake-up lost; each task has one outcome, told alike in the report and in the record; rollback is complete, once and from the last; `run` returns | `TaskExecutor`, `TaskPool`, `TaskExecutorProofs`, `TaskReportProofs` |
| Node bridge client (`lania-node-bridge/src/client*`) | current process, pending table of each process, a oneshot and a bounded event channel per call, time of the last heartbeat, metrics | `open_call`, `call_async`, respawn, reader loop, `shutdown_async` | bridge process (stdin, stdout), host RPC handler, callers | state mutex, table mutex and reader thread; check-then-insert backpressure; respawn beside an old reader; blocking send under a lock; long-running entries | bounded table; whoever waits is registered or answered; processes are not mixed up; calls and shutdown end | `BridgeClient`, `BridgeClientProofs` |
| Bridge process (`node-bridge/src/entry/stdio.ts`, `plugins/compiler.ts`, `core/host-rpc.ts`) | active compiler and its emit, open host calls | handle a request, emit, `compiler.stop`, heartbeat, call the host | client, compiler worker | concurrent handlers on one stdout, pollution of stdout by user code, exit | events precede the response of their request; a stop ends the dev request | environment in `BridgeClient` |
| Host dispatch (`lania-host/src/execution`) | policy (timeout, retries), the active call of a dev command | `dispatch_bridge_request`, `maybe_wait_for_shutdown` | client, hooks, output | a retry reuses the id; streaming and Ctrl-C | a command ends; its compiler is stopped | callers in `BridgeClient` |
| Publish (`plugins/product/publish`, `handlers/publish.ts`) | `publish-manifest.json` with the completed steps, report | prepare (with `clean`), `--resume`, preflight, publish with retries, rollback | npm registry, file system | crash between publish and persist; lost answers of npm; resume after a rollback, a dry run or a changed package set | nothing is published before the last step is on record; dependents leave first; a resume keeps the record | `PublishExecution`, `PublishExecutionProofs` |
| Runtime store (`runex-core/src/store.rs`) | `state.json`, version directories with metadata, shims | `install`, `use_version`, `remove`, cache collection | downloads, archives | a crash or an error between any two file operations | the pointer names a usable version; after success the entry files it has are served | `RuntimeStore`, `RuntimeStoreProofs` |
| Downloads (`runex-core/src/http.rs`, `checksum.rs`) | `.part` files, download cache | download with Range, verify, attempts | web servers, the store | truncated, damaged or changed artifacts; a kill between stream and rename | nothing unverified is extracted | `ArtifactDownload`, `RuntimeStoreProofs` |
| Compiler worker (`compiler.ts`, `compiler-worker-client.ts`, `compiler-worker.ts`) | active compiler and dev request, worker processes, unread messages | dev, build, stop | bridge process | requests interleave at every await over two shared variables; exits against messages | a stopped compiler is closed; the dev request is told once; every request ends | `CompilerWorker`, `CompilerWorkerProofs` |
| Dynamic-command workflows (`workflow-steps.ts`, `transaction-engine.ts`, `workflow/*`) | memoised merge, operations, rollback hooks | merge, write, install, git, roll back | host RPC for files, package manager, git | a step or an undo that fails halfway; a file written twice | undone files are as before their first registered write; the rest is reported | `ScaffoldWorkflow`, `ScaffoldWorkflowProofs` |
| Hooks (`lania-hooks`) | handlers, events, a sequence counter | register, call in series, parallel, waterfall | plugins | the number is taken outside the lock | numbers follow the order of the list | planned |
| Language bridges, bridge support | none between requests | answer a request | client | - | - | same protocol |
| exec, progress, prompt, fs, config, preferences, command, git, pm, validate, logger, format, presentation, runtime resolution, workflows, command plugins, agent, scripts, npm wrapper | configuration, or state under one lock | functions of their input, I/O, sequential orchestration | the services above | - | - | not modelled, section 8 |

## 2. Plan

In order of importance; each module is one component, written with CONSTANTS
and named assumptions, one action per operation and without RECURSIVE.

1. `TaskExecutor`, refining the abstract `TaskPool`. *Done.*
2. `BridgeClient`: callers, readers, processes. *Done.*
3. `PublishExecution`: invocations over a persisted manifest and the registry. *Done.*
4. `ArtifactDownload`, and `RuntimeStore` over it. *Done.*
5. `CompilerWorker`: what answers the dev and stop requests of `BridgeClient`. *Done.*
6. `ScaffoldWorkflow`: workflows and their transaction. *Done.*
7. A module of proofs for each of them, two for `TaskExecutor`: every safety
   invariant and action property that a passing run checks, and the refinement of
   `TaskPool`. *Done.*
8. `Hooks` with two threads.

## 3. Modules

### TaskExecutor

`run()` polls the scheduler and all task coroutines on one `LocalSet`, so they
interleave at awaits only. `pc` is the place of `run_inner` in its loop (`load`
the flags, `dispatch`, `exit` test, `select`, then `rollback`, `done`); a
coroutine moves only when the scheduler awaits (`Awaiting`). `co[t]` is the place
of a task's coroutine (`spawned`, in an `attempt`, in the retry `delay`,
`ended`); `rx` is the channel of results.

| Code | Model |
| --- | --- |
| `queue`, `paused`, `stopped`, `running_ids` | the variables of the same names |
| global token, group child tokens | `cancelled`, `groupCancelled`, `TokenCancelled` |
| `notify` | `notified`: set only when the scheduler is in its `select!`, for `notify_waiters` stores no permit |
| scan of the queue (203-234) | `Runnable`, `Precedes`, `IsNext` |
| `select!` (283-326) | `WakeNotified`, `WakeCancelled`, `Receive` |
| `run_attempt`, `execute_task_no_semaphore` | `Start`, `RunnerOk`, `RunnerErr`, `AttemptTimeout`, `DelayElapsed`, `ObserveCancel`, `Settle` |
| `TaskService` | `record` and `events` (registrations and updates left out) |
| rollback loop (329-354) | `RunRollback`, `Return` |

Control operations are environment actions. With `SharedThread` they happen
while the scheduler awaits, as in the repository's tests; without it, between
any two of its steps. The choice of a ready `select!` branch is
nondeterministic, as in tokio. Two definitions with one id are not modelled.

`TaskPool` is what a run promises: register, start (at most `Limit` run), finish,
report once, return only when everything that was started is reported. The
mapping is in `TaskExecutor` (`Pool`): `record` for the states, the tasks of the
report's outcomes for `reported`, having left the loop for `returned`.

### BridgeClient

A process, its reader thread and its pending table form one *generation*; a
respawn starts the next and leaves the old one as it is. `lock` is the state
mutex, which `open_call` holds through respawn, the count of pending requests,
the insertion and the write (`Acquire`, `Spawn`, `Count`, `Insert`, `Write`,
`Cleanup`). The mutex of a table is held across steps only when the reader waits
in `blocking_send` (`reader = "sending"`). A caller is one command: dispatched
(timeout, retries with the same id, fallback to `call_async`), a dev command
that then streams, is interrupted and sends `compiler.stop`, or a direct
`call_async`, `shutdown_async` among them. `att` numbers the attempts of an id so
that a late answer can be told from the current one.

| Code | Model |
| --- | --- |
| `ensure_process_locked`, `spawn_process` | `NeedsSpawn`, `Spawn`, `SpawnFails` |
| `pending`, `keep_alive` | `pending[g][id]` (the registered attempt), `keepAlive[g]` |
| oneshot, event channel, drop of `BridgeActiveCall` | `resp`, `buf`, `open` |
| `pump_process_events` | `ReadHeartbeat`, `ReadEvent`, `BlockOnEvent`, `Unblock`, `ReadResponse`, `ReadHostRequest`, `HostDone`, `ReadError` |
| `fail_pending_requests` | `FailPending` |
| `shutdown_async` | `take`, `Take` |
| `stdio.ts`, `compiler.ts` | `Emit`, `Answer`, `AnswerStop`, `AskHost`, `Heartbeat`, `Exit`, `Pollute`, `Silence` |

Abstractions: a dev answer with `success = false` and an error response are both
`ok = FALSE`; the `event.shutdown` of `bridge.shutdown` is an `Emit`; the
handshake succeeds or fails in one step; a heartbeat is written only when it
matters; the pipe to the process is never full.

### PublishExecution

A behaviour is a series of invocations (`Invoke`) of `product.publish`, each with
its own options and package set; between them only the registry and the manifest
remain. `pc` is where an invocation is: writing the manifest, writing the report,
in the preflight, between two steps, publishing, or rolling back; `kont` says which
of its writes is under way. `Crash` kills it anywhere, `WriteFails` fails a write,
leaving the old manifest or half of the new one, and npm may fail, fail for a
while, or fail although the registry took the package.

| Code | Model |
| --- | --- |
| `handlePublish`, `preparePublishArtifacts` (17-52) | `Invoke`, `InvokeRejected` |
| `createInitialExecutionState`, `collectResumedSteps` | `ResumedSteps`, `completed` |
| `persistPublishArtifacts`, `writeJsonFile` | `Persist`, `WriteManifest`, `WriteReport`, `WriteFails`, `Crash`; `Torn` |
| `runPublishPreflight` | `Conflicts`, `Preflight` |
| the loop of `executePublishManifest` and its retries | `NextStep`, `PublishSucceeds`, `PublishFails` |
| `executeNpmRollbackPlan` | `Unpublish`, `RollbackEnds` |

The file holds ids and nothing else, as `completedSteps` does: which package an id
stood for when it was recorded, and whether that was a dry run, is in no file and in
no variable. `mine` and `lost` are history: what this invocation put into the
registry, and what of it npm denied.

### ArtifactDownload and RuntimeStore

`ArtifactDownload` is the fetch loop of `install`: look into the cache, download to
`.part` (from where it stands, or anew), verify, delete and try again. A file is its
length in chunks and whether its bytes are the published ones. `RuntimeStore`
extends it with install, use and remove, split into their file operations, so that
`Interrupted` (a kill, or an error) can come between any two of them. `payload` and
`meta` say what a version directory holds, `bins` which entry files are in it: a
deletion that is cut short leaves any of them, with or without the metadata.

| Code | Model |
| --- | --- |
| `install` (132-344) | `BeginInstall`, `FetchGoesOn`, `FetchEnds`, `Place`, `WriteMeta`, `FirstIsCurrent`, `SyncShims` |
| `write_atomic`: remove the old file, rename the new one | `SaveUnlinks`, `SaveRenames` |
| `use_version` | `BeginUse`, `SyncShims` |
| `sync_shims`, `write_shim`: an entry without a file gets no shim, and no error | `SyncShims`, `WriteShim` |
| `remove` | `BeginRemove`, `DeleteDir`, `DropShims` |
| `gc_download_cache` | `Collect`, `CollectCache` |

### CompilerWorker

Every request has a handler (`pc`), every compilation a worker process named after
its request, with a channel in each direction: `tell` to it, `said` from it, the end
of the process (`exit`) being the last thing said. `activeCompiler` and `activeEmit`
are the variables of the plugin that all requests share.

| Code | Model |
| --- | --- |
| `handleDev`, `handleBuild` | `HandleDev`, `HandleBuild`, `Answer` |
| `runCompilerInWorker` | `Spawn`, `PrepareFails`, `ReadKeepAlive`, `ReadResult`, `ReadError`, `ReadExit` |
| `stopCompiler`, `stopCompilerWorker` | `TakesActive`, `StopNothing`, `StopWorker`, `StopFails`, `ReadStopped`, `FinishStops` |
| `compiler-worker.ts` | `RunKeepsAlive`, `RunEnds`, `HandleStop`, `Closed`, `Crash` |

### ScaffoldWorkflow

A workflow is a sequence of steps; a file is the set of what went into it, torn
being one such value. Reading what a file holds and writing it is one step, for
nothing else runs; failures are steps of their own. `ops` and `hooks` are the
operations and rollback hooks of the transaction; `before` is what a file held when
the workflow first wrote it, `effects` are the steps that changed something else.
The files `writeFiles` has still to write are the set `queue`; `ComesNext` picks the
first of them in `Order`, the order of the merged targets.

| Code | Model |
| --- | --- |
| the loop and the catch of `executeDeclarativeWorkflow` | `StepReturns`, `StepThrows`, `Complete` |
| `ensureMergedFiles`, `mergeTargetFile` | `EnsureMerged`, `MergedContent` |
| `writeFiles`, `createFileRollbackHook` | `StartWriteFiles`, `ComesNext`, `WriteFile`, `WriteFileFails`, `Snapshot`, `Hook` |
| `executeInstallDependencies`, `executeGitInit`, `executeGitFirstCommit` | `RunInstall`, `GitInit`, `FirstCommit`, and their `Skip`, `Plan` and `Fails` actions |
| `rollbackTransaction` | `NextHook`, `Undo`, `UndoFails`, `RollbackEnds` |
| `createTransactionSummary` | `NonRevertible` |

## 4. Runs

| Run | Instance and bounds | What it shows |
| --- | --- | --- |
| `TaskExecutorParallel` | three tasks in two groups, one added while the run is under way, one group with limit 0 (raised to 1), global limit 2, one retry with a delay, a timeout, two rollbacks, both error options, all control operations | type, slots, limits, one place for each task, no lost wake-up, drained exit, rollback, report against record, attempts, nothing started after a stop, refinement of `TaskPool` |
| `TaskExecutorLive` | serial, two tasks in two groups, one group with limit 0, timeouts, one task retried after a delay; pause, resume and the three kinds of cancellation; fairness of the code | order of results; cancelled tasks settle; a run whose attempts end returns unless it was stopped with a queue |
| `TaskExecutorStopHang` | serial, two tasks, no control operation | finding: a stopped run with a queue never returns |
| `BridgeClientSafety` | a dev command and a dispatched one, two process generations, table of 2, channel of 1, one event besides `event.shutdown`, exits at any time | type, backpressure, registration, empty tables of gone processes, what an entry is owed, generations, stopped compilers |
| `BridgeClientLive` | a dispatched command and a shutdown, one generation (a respawn fails), table of 1, exit, pollution, silence, a host request | the command ends whatever happens; the shutdown ends if the process answers and does not pollute stdout |
| `BridgeClientPolluted` | one shutdown, pollution, a process that answers | finding: the shutdown waits for ever |
| `BridgeClientCtrlC` | a dev command with one retry, channel of 1, two events | finding: `open_call` blocks for ever |
| `PublishExecutionSafety` | three invocations over two package sets (the second shifts the ids of the first), all useful combinations of options, one retry, `npm view` that may miss a version | type; no publish starts before what the run published is on record, and a whole file trails by one package at most; what is published is a prefix of the plan, and a rollback takes it out from the end; the registry changes only when asked to; a resume keeps the record unless its write tears, and then ends without publishing more |
| `PublishExecutionResume` | two invocations, `npm view` that always finds what is there | finding: a resume is refused because of what it completed |
| `RuntimeStoreSafety` | three versions (two share a prefix, one has no checksum, one lacks an entry), artifacts of two chunks, two attempts, three operations, starting from any consistent home | type; the pointer names a version with metadata and directory; metadata means all files unless a deletion was cut short; after success the shims serve the entry files the version has; only verified artifacts are extracted |
| `CompilerWorkerSafety` | two dev requests, one build that may watch, two stops, any crash | type; a stopped compiler is closed; the dev request is told once; every request is answered |
| `ScaffoldWorkflowSafety` | three files, four workflows (repeated writes and installs, planned steps, overridden registrations), two install commands, any user files, with and without a repository | type; undone files hold what they held, and no registered write stays untold; what cannot be reverted is reported |

Why the bounds are enough: three tasks are the fewest with a task that competes
inside its group and one outside; a limit of 2 with one of them waiting reaches
a full pool, and the late task one that was empty. Two generations are the
fewest with an old and a new process at once. One channel slot is filled by one event, so
that a second one - the `event.shutdown` of a stop, or another event - makes the
reader wait; a table of 2 with the main and the stop request of a dev command and
another request is full and refuses. `MaxEvents` bounds only what processes
say unasked, `MaxGens` how often one can be spawned (after that a spawn fails,
which is also a real outcome).

Two package sets and three invocations are the fewest in which a resume meets ids of
another plan and a third run meets what that left. Two chunks give a `.part` that
is empty, half and complete; three versions give a removed one, a next best and one
that does not match. Two dev requests and two stops are the fewest that take
`activeCompiler` from each other. A file written twice with an install in between
needs the four steps of the second workflow.

The runs stop in states with no successor when all commands are done, so they
do not check for deadlock; the liveness properties of the concurrent components
stand in for that check.

## 5. Fairness

* The scheduler is weakly fair: `LocalSet` polls it whenever it was woken.
  Receiving a result is strongly fair, for `select!` picks its branches at random.
  `Start`, `DelayElapsed` and `ObserveCancel` are strongly fair, as a coroutine
  that was woken is polled at some await of the scheduler. That a runner returns
  is *not* assumed in general; `ReturnsUnlessStopped` has it as a premise
  (`RunnersEnd`), together with a pause that ends for good, and `CancelSettles`
  does without.
* Every caller and every reader thread is weakly fair, for these are threads and
  futures that the operating system and tokio run; the timer of a dispatched
  request fires. No process is obliged to answer: where a property needs that,
  it is a premise (`ChildrenAnswer`). Nobody is obliged to press Ctrl-C, and no
  fault is obliged to happen.

* In `CompilerWorker` each worker, with the bridge's listeners for it, is weakly
  fair: messages that were sent are read, and an adapter that was asked to start or
  to stop returns. The code sets no limit to that, so without it nothing ends;
  workers need not crash, and nobody needs to stop anything.
* `PublishExecution`, `RuntimeStore` and `ScaffoldWorkflow` run in sequence and have
  safety properties only; they need no fairness.

## 6. What is proved

Seven modules hold the proofs. All of them hold for every value of the constants
that satisfies the named assumptions (`TasksAssumption` and `OptionsAssumption`,
`CallersAssumption` and `BoundsAssumption`, `PackagesAssumption`,
`StoreAssumption` and `DownloadAssumption`, `WorkerAssumption`,
`WorkflowAssumption`): sets of tasks, callers, packages, versions and requests are
finite, limits are numbers, what orders a set orders all of it. TLC evaluates the
assumptions in the runs, and it checked every inductive invariant below as an
invariant of a run before it was proved. Each argument has the same form: the
invariant holds initially, one lemma per kind of step says what that step keeps,
and the property follows from the invariant.

`TaskExecutorProofs`, the counters and the loop:

* `TypeCorrect`: `Spec => []TypeOK`.
* `SlotInvariant`: `Spec => []SlotInv`. `SlotsAgree` alone is not inductive: a
  `Dispatch` adds one to a counter, which is right only if the task had no slot
  yet, and a `Receive` takes one away, which is right only if the task's result is
  not in the channel twice and its coroutine has ended. `SlotInv` adds just that:
  queued and unregistered tasks have no coroutine, a task with a result in the
  channel has ended, results are unique; and the counters respect the limits. The
  lemmas `TakeSlot`, `ReleaseSlot` and `SameSlots` say how the cardinality of the
  tasks in flight follows each kind of step; one lemma per action uses them.
* `SlotsCorrect`: `Spec => []SlotsAgree`; `LimitsHold`: `Spec => []WithinLimits`,
  because live tasks are among those in flight.
* `NothingLeftBehind`: `Spec => []LoopDrains`. The exit test saw no slot in use and
  none is taken after it (`DrainInv`); with `SlotsAgree` that means nobody in flight.
* `RetriesBounded`: `Spec => []AttemptsBounded`. `AttemptInv` adds that a task in its
  retry delay has an attempt left and that a failed one has ended.
* `NoLostWakeup`: with `SharedThread`, `Spec => []WorkConserving`. `WakeInv` extends
  it to the exit test, at which the scheduler has looked but not slept yet.
* `StopHolds`: with `SharedThread`, `Spec => NoStartAfterStop`, for `stopped` is
  unset throughout a turn that dispatches (`StopInv`). From another thread it can
  be set between the load and the dispatch, so the premise is needed.

`TaskReportProofs`, what `run()` hands back. The lemma `StepShapes` says that a step
of the specification changes coroutines, records, channel and report in one of eight
ways; the invariants are kept by each.

* `ReportInvariant`: `ReportInv` ties four things that the code keeps apart. An
  ended task is in the channel or in the report and never in both (`PlaceInv`), its
  record and its coroutine move together (`StoryInv`), every result carries its
  task's record (`ResultInv`), and failures and `cancelled` are those of the outcomes
  (`SummaryInv`). `OnePlaceHolds` and `ReportTellsRecords` follow.
* `TaskPoolImplemented`: `Spec => ImplementsTaskPool`. Each shape of a step is a step
  of `TaskPool` or a stutter under the mapping; the limit comes from `SlotInv`, the
  drained exit from `LoopDrains`, the one report of a task from `ReportInv`.
* `RollbackIsComplete`: that of two tasks the one that started and completed first is
  undone last is a fact about the history, so `HistoryInv` says which history led here: a task has one
  end in it (`EndInv`), the channel and the rollback stack keep the order of the ends
  (`OrderInv`), a completed task with a rollback stays on the stack until its
  rollback starts (`StackInv`), and what was undone had ended after all that is still
  to be undone (`UndoInv`).
* `SerialInOrder`: nothing queued precedes what was started and nothing started
  precedes what was reported (`SerialInv`).

`BridgeClientProofs`, for any number of callers, processes, events and retries.
`IInv` follows a call through the lock (`LockStage`), the spawn (`SpawnStage`), the
table (`TableStage`), the wait (`WaitStage`) and the answer (`ApartStage`), and what
readers and processes can be doing meanwhile (`ReaderStage`, `KeepStage`,
`OwedStage`). The properties need each other: an entry is owed an answer only if its
request was written or is about to be, which rests on who has the lock; nobody is
forgotten only if the reader that drains the table of a gone process is the one of
the entry's generation.

* `TypeCorrect`, `BackpressureHolds` (`PendingBounded`), `NobodyIsForgotten`
  (`WaiterIsRegistered`), `GoneProcessesAreEmpty` (`GoneProcessIsEmpty`),
  `EntriesAreOwed` (`EveryEntryIsOwed`), `ProcessesStayApart` (`GenerationsApart`).
* `StoppedRunsNoMore`: with `DispatchedOnce`, `Spec => []StoppedDevRunsNoMore`.
  `DevInv` says that only the current process lives (`LoneStage`), that the main and
  the stop request of a dev command are each in one process at most and once
  (`OnceStage`), and that a process in which the compiler runs is the one that was
  asked to stop it (`StopStage`). The hypotheses are needed. With a retry a second
  compiler can be started for the same command; with a second dev command a
  stop may end the compiler of the other one; a process replaced for silence runs on
  with its compiler.

`PublishExecutionProofs`, for any package sets and any series of invocations that
are killed, refused or resumed. Run, file and registry change one after the other, so
`IInv` says how far they are apart at each `pc`: the steps behind the loop are done
(`LoopStage`), what this run completed is recorded (`RunRecorded`), what it left in
the registry is a first part of that (`LeftStage`), the file lacks at most the step
about to be written (`FileStage`), and the options allowed to come here (`Allowed`).

* `PublishOrderSorted`: `createPublishOrder` lists every package of a finite set once
  and in order. `TypeCorrect`.
* `RecordFollows` (`RecordFollowsRegistry`), `DependentsFirst`
  (`DependentsLeaveFirst`), and the action properties `RegistryIsGuarded`
  (`RegistryGuarded`) and `ResumeKeeps` (`ResumeKeepsRecord`).
* The exceptions are in the statements. A torn file tells nothing, so `RecordFollows`
  says instead that the run whose write tore publishes no more, and `ResumeKeeps` that
  it has the whole record in memory, is on its way out (`Going`), and that no resume
  reads that file. What a resumed run inherits may be of a dry run, of another plan or
  taken out of the registry: only what a run did itself is compared with it.

`RuntimeStoreProofs`, for any versions, artifacts and operations, each of which may
fail or be killed at every step. What the disk says at any time (`DiskStage`) follows
from what an operation has done so far and is about to save (`FetchStage`,
`SaveStage`, `OpStage`); `RemoveStage` keeps the reason why a remove ends with the
highest version left.

* `TypeCorrect`, `PointerSound` (`PointerNamesRecord`), `RecordsUsable`
  (`MetaMeansUsable`), `SuccessIsServed` (`SuccessServes`), and for the download
  `PlacesVerified` (`ExtractsVerified`).
* `SuccessIsServed` is about the entry files there are. `use` and `remove` report
  success after a `sync_shims` that skipped missing ones, so the proof keeps that a
  version with metadata has the published entry files unless its deletion was cut
  short, and that a shim is there or still to be written for each of them.
* `HighestExists`, that a finite nonempty set has a version above all others, is
  proved with a minimal element of the strict-subset order, as the induction rule for
  finite sets has an operator parameter.

`CompilerWorkerProofs`, for any number of dev, build and stop requests. `Stage(w)`
lists what a worker, its compiler, its channel and its handler can be together. A stop works on
shared variables that it took before an await, so the proof follows them:
each worker and each request to tell is taken by one stop at most (`TakenOnce`,
`EmitTakenOnce`), `ToldExact` counts the answered stops, and `EmitFollowsCompiler`
says that the two variables name the same request while there is one only.

* `TypeCorrect`, `StoppedIsClosed` (`StoppedCompilerIsClosed`), `ToldOnce`
  (`ShutdownToldOnce`).

`ScaffoldWorkflowProofs`, for any workflows, files and failures. `HookStage` says
that every registered write has one hook and that the first one of a file holds what it held
before the workflow; `UndoStage`, that the hooks already run, from the last, have put back what
they hold or are marked failed. Only the first hook of a file matters, as it runs
last. `EffectStage` does the same for effects that no hook reverts.

* `TypeCorrect`, `RollbackIsComplete` (`RollbackRestores`), `EffectsAreReported`
  (`EffectsReported`).

## 7. What is only model-checked

Liveness: `CancelSettles` and `ReturnsUnlessStopped` of `TaskExecutor`,
`DispatchEnds` and `DirectEnds` of `BridgeClient`, `RequestsEnd` of `CompilerWorker`.
They rest on fairness, hence on `ENABLED`, which is out of the prover's reach. The
four findings are counterexamples, and are TLC's as well. Every safety invariant and
action property of a passing run, and the refinement, has its theorem.

Two definitions were written so that the provers can follow them. They know nothing
of `SelectSeq`, so `ReportMatchesRecords` and `RollbackComplete` speak of positions
in the report and in the history, and the queue of `ScaffoldWorkflow` is a set read in
the order of `ComesNext`.

Findings with a run (quotes and lines in `PROJECT.json`): a stopped task run with
a queue does not return; a shutdown after pollution of stdout waits for ever; a
retried `compiler.stop` can block `open_call`; a publish that failed halfway
cannot be resumed, for its own packages are conflicts.

Behaviour the models reproduce and that a maintainer should know:

* `lania-task`: a queued task of a cancelled group is still started, with a token
  that is cancelled (`executor.rs:203`). Rollbacks run in the reverse order of the
  results. The comment at `executor.rs:330` says that tasks which started later are
  undone first. In a parallel run the two differ as soon as a task that started
  first completes last: with the order of starts as the property TLC finds a run of
  `TaskExecutorParallel` that violates it. `RollbackComplete` demands the order of two
  tasks only where starts and completions agree, and says nothing of the others.
* `lania-node-bridge`: a process replaced for silence is not killed; calls that
  wait on it are not failed while it lives, and a dev server in it runs on.
* Publish: `writeJsonFile` overwrites the manifest in place (`product/fs.ts:22-26`). A
  crash or an error within the write leaves half a file and loses the whole record,
  and a resume of it ends with an error: against `execution.ts:13-14` and `:105`,
  after which the run can be resumed at any moment. Without the exception for a torn
  write TLC refutes `ResumeKeepsRecord`: a resumed run publishes one package and dies in
  the write after it.
* Publish: the filter that is to keep steps of an old plan out of the new one
  (`execution.ts:59-60`) compares ids, which are positions. A rollback leaves the
  packages in `completedSteps`, so a later resume skips them; after the set changed
  `publish-1` names another package, which is skipped as well; steps of a dry run are
  inherited by a real one; a refused `--resume --clean` has already deleted the manifest.
* runex: a `remove` that was cut short may leave the metadata without the entry files.
  `use` of that version returns Ok and writes no shim for what is missing
  (`shims.rs:65-67`).
* runex: an install that died between the rename and the metadata leaves a
  directory for which every later install returns Ok without metadata or shims
  (`store.rs:252`). `write_atomic` removes before it renames, so a crash loses the
  pointers of all languages. A complete `.part` is resumed with an empty range,
  which servers refuse, until the cache is collected (`http.rs:153`).
* Compiler: a stop that comes while a dev is starting finds no compiler and is
  answered `stopped`; a second dev replaces the first as the active one. Either way
  a worker goes on that no stop reaches.
* Workflows: a write that fails halfway is registered only after it succeeded, so
  the torn file is not restored although the error says `rollback completed for
  file writes`. Install commands, `git init` and a first commit that fail after an
  effect are in no operation, and a first commit that is skipped for want of
  changes does not tell that it made a repository. The merge is memoised, so a
  second `writeFiles` overwrites what an install wrote into `package.json`.

## 8. What is not modelled, and why

Of the modelled components: two runex processes at once, several languages,
permissions, staging directories and prereleases; tarballs, release notes and
other publishers on npm; captured output and events of a worker other than
`event.shutdown`; what templates, guards and summaries compute; the handshake,
metrics and stderr of the bridge client. Hooks are the next step of the plan: one
counter and one list, of interest only with two threads.

Configuration, parsing, version and runtime resolution,
formatting, logging and validation are functions of their input without
interleaving. Git, package managers and archives are I/O whose outcomes are inputs
of the modules that use them. Progress keeps its store
under one lock. Prompts, workflows and command plugins run in sequence and call
the services above. The agent packages are outside the core path of the CLI. The
npm wrapper, scripts, templates and documentation are packaging and assets.

Most of the source, some seventy thousand lines, is of these kinds: generators and
their templates, schema rendering, localisation, terminal interfaces and parsers,
where unit tests over inputs say more than a state machine. The models therefore
cover a small share of the lines: those that keep state across awaits, threads,
processes, files or failures.
