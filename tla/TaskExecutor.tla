---------------------------- MODULE TaskExecutor ----------------------------
(***************************************************************************)
(* The task scheduler of lania-task: TaskExecutor::run_inner (executor.rs) *)
(* and the coroutine it spawns for each task (execute_task_no_semaphore in *)
(* helpers.rs), with the record and the event stream TaskService keeps.    *)
(*                                                                         *)
(* run() drives the scheduler and every task on one LocalSet, so these     *)
(* coroutines interleave only where the scheduler awaits: in its select!   *)
(* and in a rollback.  The control operations (add_task, pause, resume,    *)
(* cancel_all, cancel_group, and cancelling the token the caller passed    *)
(* in) run on that thread too when SharedThread holds, as in the           *)
(* repository's tests, and between any two scheduler steps otherwise.      *)
(*                                                                         *)
(* Abstracted: titles, details, the data a runner returns, durations.      *)
(***************************************************************************)
EXTENDS Naturals, Sequences, FiniteSets

CONSTANTS
    Tasks,            \* task definitions, one per id
    InitialTasks,     \* those run_all enqueues before the scheduler starts
    Groups,           \* group names
    GroupOf,          \* TaskDefinition.group
    Rank,             \* TaskPriority::rank: 0 high, 1 medium, 2 low
    IdOrder,          \* position of the id in the order of strings
    MaxRetries,       \* TaskDefinition.max_retries
    Delayed,          \* tasks whose retry_delay is not zero
    Timed,            \* tasks with a timeout
    Compensable,      \* tasks with a rollback
    Mode,             \* "Serial" or "Parallel"
    MaxConcurrency,   \* TaskRunOptions.max_concurrency
    GroupConcurrency, \* TaskRunOptions.group_concurrency, a partial function
    StopOnError,      \* TaskRunOptions.stop_on_error
    RollbackOnError,  \* TaskRunOptions.rollback_on_error
    Controls,         \* the control operations the environment uses
    SharedThread      \* control operations run on the scheduler's thread

ControlOps == {"add", "pause", "resume", "cancelAll", "cancelGroup", "token"}

ASSUME TasksAssumption ==
    /\ IsFiniteSet(Tasks)
    /\ InitialTasks \subseteq Tasks
    /\ Delayed \subseteq Tasks
    /\ Timed \subseteq Tasks
    /\ Compensable \subseteq Tasks
    /\ GroupOf \in [Tasks -> Groups]
    /\ Rank \in [Tasks -> 0..2]
    /\ IdOrder \in [Tasks -> Nat]
    /\ \A t, u \in Tasks : IdOrder[t] = IdOrder[u] => t = u
    /\ MaxRetries \in [Tasks -> Nat]

ASSUME OptionsAssumption ==
    /\ Mode \in {"Serial", "Parallel"}
    /\ MaxConcurrency \in Nat
    /\ DOMAIN GroupConcurrency \subseteq Groups
    /\ \A g \in DOMAIN GroupConcurrency : GroupConcurrency[g] \in Nat
    /\ StopOnError \in BOOLEAN
    /\ RollbackOnError \in BOOLEAN
    /\ Controls \subseteq ControlOps
    /\ SharedThread \in BOOLEAN

VARIABLES
    queue,          \* tasks waiting to be dispatched
    paused,         \* TaskExecutor.paused
    stopped,        \* TaskExecutor.stopped
    cancelled,      \* the global cancellation token
    groupCancelled, \* groups whose child token was cancelled by cancel_group
    notified,       \* the Notified future of the scheduler's select! has fired
    pc,             \* where the scheduler is
    stoppedSeen,    \* the scheduler's local copy of stopped
    globalRunning,  \* concurrency slots in use
    groupRunning,   \* the same, per group
    rollbackStack,  \* rollbacks collected from completed tasks
    report,         \* TaskRunReport
    co,             \* where each task's coroutine is
    attempts,       \* attempts each task has made
    rx,             \* results on their way to the scheduler
    runningIds,     \* TaskExecutor.running_ids
    record,         \* TaskRecord.state of each task
    events          \* the event stream, without Registered and Updated

controlVars == <<paused, stopped, cancelled, groupCancelled>>
slotVars    == <<globalRunning, groupRunning>>
reportVars  == <<rollbackStack, report>>
taskVars    == <<co, attempts, rx, runningIds, record, events>>
vars == <<queue, controlVars, notified, pc, stoppedSeen, slotVars, reportVars,
          taskVars>>

Terminal == {"Completed", "Failed", "Cancelled"}
TaskStates == {"Unregistered", "Pending", "Running"} \cup Terminal
EventKinds == {"Started", "RollbackStarted", "RollbackCompleted",
               "RollbackFailed"} \cup Terminal
PCs == {"load", "dispatch", "exit", "select", "rollback", "done"}
CoStates == {"none", "spawned", "attempt", "delay", "ended"}

Event(t, kind) == [task |-> t, kind |-> kind]
Result(t, s)   == [task |-> t, state |-> s]

EmptyReport == [outcomes |-> <<>>, failures |-> <<>>, rolledBack |-> <<>>,
                cancelled |-> FALSE]

Init ==
    /\ queue = InitialTasks
    /\ paused = FALSE
    /\ stopped = FALSE
    /\ cancelled = FALSE
    /\ groupCancelled = {}
    /\ notified = FALSE
    /\ pc = "load"
    /\ stoppedSeen = FALSE
    /\ globalRunning = 0
    /\ groupRunning = [g \in Groups |-> 0]
    /\ rollbackStack = <<>>
    /\ report = EmptyReport
    /\ co = [t \in Tasks |-> "none"]
    /\ attempts = [t \in Tasks |-> 0]
    /\ rx = <<>>
    /\ runningIds = {}
    /\ record = [t \in Tasks |->
                    IF t \in InitialTasks THEN "Pending" ELSE "Unregistered"]
    /\ events = <<>>

-----------------------------------------------------------------------------
(* Limits and the choice of the next task.                                 *)

AtLeastOne(n) == IF n = 0 THEN 1 ELSE n

GlobalLimit == IF Mode = "Serial" THEN 1 ELSE AtLeastOne(MaxConcurrency)

GroupLimit(g) ==
    AtLeastOne(IF g \in DOMAIN GroupConcurrency THEN GroupConcurrency[g]
                                                ELSE GlobalLimit)

\* Mutant: off by one.
GroupHasRoomForOneMore(g) == groupRunning[g] <= GroupLimit(g)

GroupHasRoom(g) == groupRunning[g] < GroupLimit(g)

\* Mutant: the id decides before the priority.
PrecedesById(t, u) == IdOrder[t] < IdOrder[u]

Precedes(t, u) ==
    \/ Rank[t] < Rank[u]
    \/ Rank[t] = Rank[u] /\ IdOrder[t] < IdOrder[u]

\* The tasks the scan of the queue may return.
Runnable == {t \in queue : GroupHasRoom(GroupOf[t])}

IsNext(t) ==
    /\ globalRunning < GlobalLimit
    /\ t \in Runnable
    /\ \A u \in Runnable \ {t} : Precedes(t, u)

\* Mutant: the slot is not given back.
KeepSlot(n) == n

\* saturating_sub(1)
Decrement(n) == IF n = 0 THEN 0 ELSE n - 1

\* A group token is a child of the global token.
TokenCancelled(t) == cancelled \/ GroupOf[t] \in groupCancelled

\* Mutant: nobody is woken.
WakeNobody == UNCHANGED notified

\* notify_waiters reaches a registered waiter only and stores no permit.
NotifyWaiters == notified' = (pc = "select")

-----------------------------------------------------------------------------
(* TaskService: the record of each task and the history of its events.     *)

SetTaskState(t, s) == record' = [record EXCEPT ![t] = s]

EmitEvents(t, kinds) ==
    events' = events \o [i \in 1..Len(kinds) |-> Event(t, kinds[i])]

\* Registering an id twice changes nothing; the ids in use here are distinct.
ServiceRegister(t) ==
    /\ record[t] = "Unregistered"
    /\ SetTaskState(t, "Pending")

ServiceStart(t) == SetTaskState(t, "Running") /\ EmitEvents(t, <<"Started">>)

\* complete, fail and cancel
ServiceSettle(t, s) == SetTaskState(t, s) /\ EmitEvents(t, <<s>>)

\* A rollback is told by events alone: the record keeps the main outcome.
ServiceRollback(t, ok) ==
    /\ EmitEvents(t, <<"RollbackStarted",
                       IF ok THEN "RollbackCompleted" ELSE "RollbackFailed">>)
    /\ UNCHANGED record

-----------------------------------------------------------------------------
(* Control operations.                                                     *)

Awaiting == pc \in {"select", "rollback", "done"}

MayControl(op) == op \in Controls /\ (SharedThread => Awaiting)

AddTask(t) ==
    /\ MayControl("add")
    /\ ServiceRegister(t)
    /\ queue' = queue \cup {t}
    /\ NotifyWaiters
    /\ UNCHANGED <<controlVars, pc, stoppedSeen, slotVars, reportVars, co,
                   attempts, rx, runningIds, events>>

Pause ==
    /\ MayControl("pause")
    /\ paused' = TRUE
    /\ UNCHANGED <<queue, stopped, cancelled, groupCancelled, notified, pc,
                   stoppedSeen, slotVars, reportVars, taskVars>>

Resume ==
    /\ MayControl("resume")
    /\ paused
    /\ paused' = FALSE
    /\ NotifyWaiters
    /\ UNCHANGED <<queue, stopped, cancelled, groupCancelled, pc, stoppedSeen,
                   slotVars, reportVars, taskVars>>

CancelAll ==
    /\ MayControl("cancelAll")
    /\ stopped' = TRUE
    /\ cancelled' = TRUE
    /\ NotifyWaiters
    /\ UNCHANGED <<queue, paused, groupCancelled, pc, stoppedSeen, slotVars,
                   reportVars, taskVars>>

CancelGroup(g) ==
    /\ MayControl("cancelGroup")
    /\ groupCancelled' = groupCancelled \cup {g}
    /\ NotifyWaiters
    /\ UNCHANGED <<queue, paused, stopped, cancelled, pc, stoppedSeen,
                   slotVars, reportVars, taskVars>>

\* The owner of the token in TaskRunOptions.cancellation cancels it directly.
CancelToken ==
    /\ MayControl("token")
    /\ cancelled' = TRUE
    /\ UNCHANGED <<queue, paused, stopped, groupCancelled, notified, pc,
                   stoppedSeen, slotVars, reportVars, taskVars>>

Control ==
    \/ \E t \in Tasks : AddTask(t)
    \/ Pause
    \/ Resume
    \/ CancelAll
    \/ \E g \in Groups : CancelGroup(g)
    \/ CancelToken

-----------------------------------------------------------------------------
(* The scheduler: run_inner.                                               *)

\* Mutant: stopped is not looked at before dispatching.
LoadPausedOnly ==
    /\ pc = "load"
    /\ stoppedSeen' = stopped
    /\ pc' = IF paused THEN "exit" ELSE "dispatch"
    /\ UNCHANGED <<queue, controlVars, notified, slotVars, reportVars,
                   taskVars>>

LoadFlags ==
    /\ pc = "load"
    /\ stoppedSeen' = stopped
    /\ pc' = IF paused \/ stopped THEN "exit" ELSE "dispatch"
    /\ UNCHANGED <<queue, controlVars, notified, slotVars, reportVars,
                   taskVars>>

\* remove(best_index), take a slot, spawn_local.
Dispatch(t) ==
    /\ pc = "dispatch"
    /\ IsNext(t)
    /\ queue' = queue \ {t}
    /\ runningIds' = runningIds \cup {t}
    /\ groupRunning' = [groupRunning EXCEPT ![GroupOf[t]] = @ + 1]
    /\ globalRunning' = globalRunning + 1
    /\ co' = [co EXCEPT ![t] = "spawned"]
    /\ UNCHANGED <<controlVars, notified, pc, stoppedSeen, reportVars,
                   attempts, rx, record, events>>

EndDispatch ==
    /\ pc = "dispatch"
    /\ globalRunning >= GlobalLimit \/ Runnable = {}
    /\ pc' = "exit"
    /\ UNCHANGED <<queue, controlVars, notified, stoppedSeen, slotVars,
                   reportVars, taskVars>>

\* Mutant: leave as soon as the queue is empty.
CheckQueueOnly ==
    /\ pc = "exit"
    /\ pc' = IF queue = {} THEN "rollback" ELSE "select"
    /\ UNCHANGED <<queue, controlVars, notified, stoppedSeen, slotVars,
                   reportVars, taskVars>>

\* Leave the loop when nothing is queued or running, else enter the select!
\* with a fresh Notified future.
CheckExit ==
    /\ pc = "exit"
    /\ pc' = IF queue = {} /\ globalRunning = 0 THEN "rollback" ELSE "select"
    /\ UNCHANGED <<queue, controlVars, notified, stoppedSeen, slotVars,
                   reportVars, taskVars>>

WakeNotified ==
    /\ pc = "select"
    /\ notified
    /\ notified' = FALSE
    /\ pc' = "load"
    /\ UNCHANGED <<queue, controlVars, stoppedSeen, slotVars, reportVars,
                   taskVars>>

WakeCancelled ==
    /\ pc = "select"
    /\ cancelled
    /\ ~stoppedSeen
    /\ stopped' = TRUE
    /\ notified' = FALSE
    /\ pc' = "load"
    /\ UNCHANGED <<queue, paused, cancelled, groupCancelled, stoppedSeen,
                   slotVars, reportVars, taskVars>>

\* Mutant: the flag is assigned, not accumulated.
RecordedLastFlag(r) ==
    [outcomes   |-> Append(report.outcomes, r),
     failures   |-> IF r.state = "Failed" THEN Append(report.failures, r.task)
                                          ELSE report.failures,
     rolledBack |-> report.rolledBack,
     cancelled  |-> (r.state = "Cancelled")]

\* What the report holds once result r is in.
Recorded(r) ==
    [outcomes   |-> Append(report.outcomes, r),
     failures   |-> IF r.state = "Failed" THEN Append(report.failures, r.task)
                                          ELSE report.failures,
     rolledBack |-> report.rolledBack,
     cancelled  |-> (report.cancelled \/ r.state = "Cancelled")]

\* Mutants: the whole result is pushed; the rollback goes to the bottom.
StackedResult(r) == Append(rollbackStack, r)

StackedBelow(r) ==
    IF r.state = "Completed" /\ r.task \in Compensable
    THEN <<r.task>> \o rollbackStack
    ELSE rollbackStack

\* Only a completed task hands over its rollback.
Stacked(r) ==
    IF r.state = "Completed" /\ r.task \in Compensable
    THEN Append(rollbackStack, r.task)
    ELSE rollbackStack

\* The trailing notify_waiters wakes nobody: the only waiter is this select!.
Receive ==
    /\ pc = "select"
    /\ rx # <<>>
    /\ LET r == Head(rx)
           g == GroupOf[r.task]
           stop == StopOnError /\ r.state = "Failed"
       IN  /\ globalRunning' = Decrement(globalRunning)
           /\ groupRunning' = [groupRunning EXCEPT ![g] = Decrement(@)]
           /\ report' = Recorded(r)
           /\ rollbackStack' = Stacked(r)
           /\ cancelled' = (cancelled \/ stop)
           /\ stopped' = (stopped \/ stop)
    /\ rx' = Tail(rx)
    /\ notified' = FALSE
    /\ pc' = "load"
    /\ UNCHANGED <<queue, paused, groupCancelled, stoppedSeen, co, attempts,
                   runningIds, record, events>>

RollbackNeeded ==
    /\ report.failures # <<>> \/ report.cancelled
    /\ RollbackOnError

\* Pop one rollback and await it.
RunRollback(ok) ==
    /\ pc = "rollback"
    /\ RollbackNeeded
    /\ rollbackStack # <<>>
    /\ LET t == rollbackStack[Len(rollbackStack)]
       IN  /\ ServiceRollback(t, ok)
           /\ report' =
                 [outcomes   |-> report.outcomes,
                  failures   |-> report.failures,
                  rolledBack |-> IF ok THEN Append(report.rolledBack, t)
                                       ELSE report.rolledBack,
                  cancelled  |-> report.cancelled]
    /\ rollbackStack' = SubSeq(rollbackStack, 1, Len(rollbackStack) - 1)
    /\ UNCHANGED <<queue, controlVars, notified, pc, stoppedSeen, slotVars, co,
                   attempts, rx, runningIds>>

Return ==
    /\ pc = "rollback"
    /\ ~RollbackNeeded \/ rollbackStack = <<>>
    /\ pc' = "done"
    /\ UNCHANGED <<queue, controlVars, notified, stoppedSeen, slotVars,
                   reportVars, taskVars>>

Scheduler ==
    \/ LoadFlags
    \/ \E t \in Tasks : Dispatch(t)
    \/ EndDispatch
    \/ CheckExit
    \/ WakeNotified
    \/ WakeCancelled
    \/ Receive
    \/ \E ok \in BOOLEAN : RunRollback(ok)
    \/ Return

-----------------------------------------------------------------------------
(* A task's coroutine: execute_task_no_semaphore and run_attempt.          *)

\* service.start and the first attempt.
Start(t) ==
    /\ Awaiting
    /\ co[t] = "spawned"
    /\ co' = [co EXCEPT ![t] = "attempt"]
    /\ attempts' = [attempts EXCEPT ![t] = 1]
    /\ ServiceStart(t)
    /\ UNCHANGED <<queue, controlVars, notified, pc, stoppedSeen, slotVars,
                   reportVars, rx, runningIds>>

\* Mutant: the id stays in running_ids.
SettleKeepingId(t, s) ==
    /\ co' = [co EXCEPT ![t] = "ended"]
    /\ ServiceSettle(t, s)
    /\ rx' = Append(rx, Result(t, s))
    /\ UNCHANGED <<queue, controlVars, notified, pc, stoppedSeen, slotVars,
                   reportVars, runningIds, attempts>>

\* Settle the record, send the result, leave running_ids: no await between.
Settle(t, s) ==
    /\ co' = [co EXCEPT ![t] = "ended"]
    /\ ServiceSettle(t, s)
    /\ rx' = Append(rx, Result(t, s))
    /\ runningIds' = runningIds \ {t}
    /\ UNCHANGED <<queue, controlVars, notified, pc, stoppedSeen, slotVars,
                   reportVars, attempts>>

\* Mutant: off by one.
MayRetryOnceLess(t) == attempts[t] < MaxRetries[t]

MayRetry(t) == attempts[t] <= MaxRetries[t]

\* A failed attempt: retry at once, retry after the delay, or give up.
AttemptFailed(t) ==
    \/ ~MayRetry(t) /\ Settle(t, "Failed")
    \/ /\ MayRetry(t)
       /\ IF t \in Delayed
          THEN /\ co' = [co EXCEPT ![t] = "delay"]
               /\ UNCHANGED attempts
          ELSE /\ attempts' = [attempts EXCEPT ![t] = @ + 1]
               /\ UNCHANGED co
       /\ UNCHANGED <<queue, controlVars, notified, pc, stoppedSeen, slotVars,
                      reportVars, rx, runningIds, record, events>>

\* The select! of an attempt picks any branch that is ready: a runner that
\* returns Ok wins over a cancelled token, and a timeout may, too.
RunnerOk(t) ==
    /\ Awaiting
    /\ co[t] = "attempt"
    /\ Settle(t, "Completed")

\* An error returned after the token was cancelled counts as cancellation.
RunnerErr(t) ==
    /\ Awaiting
    /\ co[t] = "attempt"
    /\ IF TokenCancelled(t) THEN Settle(t, "Cancelled") ELSE AttemptFailed(t)

AttemptTimeout(t) ==
    /\ Awaiting
    /\ co[t] = "attempt"
    /\ t \in Timed
    /\ AttemptFailed(t)

DelayElapsed(t) ==
    /\ Awaiting
    /\ co[t] = "delay"
    /\ co' = [co EXCEPT ![t] = "attempt"]
    /\ attempts' = [attempts EXCEPT ![t] = @ + 1]
    /\ UNCHANGED <<queue, controlVars, notified, pc, stoppedSeen, slotVars,
                   reportVars, rx, runningIds, record, events>>

\* Mutant: the select! with a timeout has no cancelled() branch.
ObserveCancelUntimed(t) ==
    /\ Awaiting
    /\ co[t] \in {"attempt", "delay"}
    /\ t \notin Timed
    /\ TokenCancelled(t)
    /\ Settle(t, "Cancelled")

\* The cancelled() branch, in an attempt or in the delay between two.
ObserveCancel(t) ==
    /\ Awaiting
    /\ co[t] \in {"attempt", "delay"}
    /\ TokenCancelled(t)
    /\ Settle(t, "Cancelled")

Coroutine(t) ==
    \/ Start(t)
    \/ RunnerOk(t)
    \/ RunnerErr(t)
    \/ AttemptTimeout(t)
    \/ DelayElapsed(t)
    \/ ObserveCancel(t)

Next == Scheduler \/ Control \/ \E t \in Tasks : Coroutine(t)

Spec == Init /\ [][Next]_vars

(***************************************************************************)
(* The scheduler is polled whenever it can move.  select! picks among its  *)
(* ready branches at random and LocalSet polls woken coroutines in turn,   *)
(* so a result that waits is received in the end, and so is a step of a    *)
(* task that is possible again and again (strong fairness).  RunnersEnd    *)
(* adds what the code leaves to the tasks: an attempt ends, by its runner, *)
(* its timeout or its token.  Nothing obliges the environment to use a     *)
(* control operation.                                                      *)
(***************************************************************************)
CodeFairness ==
    /\ WF_vars(Scheduler)
    /\ SF_vars(Receive)
    /\ \A t \in Tasks : /\ SF_vars(Start(t))
                        /\ SF_vars(DelayElapsed(t))
                        /\ SF_vars(ObserveCancel(t))

RunnersEnd == \A t \in Tasks : SF_vars(Coroutine(t))

FairSpec == Spec /\ CodeFairness
LiveSpec == Spec /\ CodeFairness /\ RunnersEnd

-----------------------------------------------------------------------------
(* Properties.                                                             *)

Results == [task : Tasks, state : Terminal]

\* Every variable has the type its Rust counterpart has.
TypeOK ==
    /\ queue \subseteq Tasks
    /\ paused \in BOOLEAN
    /\ stopped \in BOOLEAN
    /\ cancelled \in BOOLEAN
    /\ groupCancelled \subseteq Groups
    /\ notified \in BOOLEAN
    /\ pc \in PCs
    /\ stoppedSeen \in BOOLEAN
    /\ globalRunning \in Nat
    /\ groupRunning \in [Groups -> Nat]
    /\ rollbackStack \in Seq(Tasks)
    /\ report \in [outcomes : Seq(Results), failures : Seq(Tasks),
                   rolledBack : Seq(Tasks), cancelled : BOOLEAN]
    /\ co \in [Tasks -> CoStates]
    /\ attempts \in [Tasks -> Nat]
    /\ rx \in Seq(Results)
    /\ runningIds \subseteq Tasks
    /\ record \in [Tasks -> TaskStates]
    /\ events \in Seq([task : Tasks, kind : EventKinds])

Live == {t \in Tasks : co[t] \in {"spawned", "attempt", "delay"}}

TasksOf(results) == {results[i].task : i \in 1..Len(results)}

\* A task holds its slot until the scheduler has received its result.
InFlight == Live \cup TasksOf(rx)

InGroup(S, g) == {t \in S : GroupOf[t] = g}

\* The slot counters of run_inner, kept by hand in two places (taken at the
\* spawn, given back when the result arrives), always equal the number of
\* tasks in flight, globally and in each group.
SlotsAgree ==
    /\ globalRunning = Cardinality(InFlight)
    /\ \A g \in Groups : groupRunning[g] = Cardinality(InGroup(InFlight, g))

\* No more tasks are alive than the mode, max_concurrency and the group's
\* limit allow, whatever retries, cancels, pauses and additions happen.
WithinLimits ==
    /\ Cardinality(Live) <= GlobalLimit
    /\ \A g \in Groups : Cardinality(InGroup(Live, g)) <= GroupLimit(g)

\* Why SlotsAgree is inductive: a queued task has no coroutine yet, a task
\* whose result is under way has ended, and it has one result; and why
\* WithinLimits follows: the counters respect the limits.
SlotInv ==
    /\ TypeOK
    /\ \A t \in Tasks : record[t] = "Unregistered" => co[t] = "none"
    /\ \A t \in queue : record[t] # "Unregistered" /\ co[t] = "none"
    /\ \A i \in 1..Len(rx) : co[rx[i].task] = "ended"
    /\ \A i, j \in 1..Len(rx) : rx[i].task = rx[j].task => i = j
    /\ SlotsAgree
    /\ globalRunning <= GlobalLimit
    /\ \A g \in Groups : groupRunning[g] <= GroupLimit(g)

\* Every registered task is in exactly one place - queued, alive, its result
\* under way, or in the report - so none is lost, and none is run or reported
\* twice; running_ids names exactly the live ones.
OnePlaceEach ==
    /\ \A t \in Tasks :
        LET places == <<t \in queue, t \in Live, t \in TasksOf(rx),
                        t \in TasksOf(report.outcomes)>>
        IN  Cardinality({i \in 1..4 : places[i]})
                = IF record[t] = "Unregistered" THEN 0 ELSE 1
    /\ Cardinality(TasksOf(report.outcomes)) = Len(report.outcomes)
    /\ Cardinality(TasksOf(rx)) = Len(rx)
    /\ runningIds = Live

\* The report run() builds from the channel and the record TaskService keeps
\* are written independently; they tell the same story: same final state,
\* failures in the order of the outcomes, cancelled iff some task was.
ReportMatchesRecords ==
    /\ \A i \in 1..Len(report.outcomes) :
          /\ report.outcomes[i].state = record[report.outcomes[i].task]
          /\ report.outcomes[i].state = "Failed" =>
                \E k \in 1..Len(report.failures) :
                    report.failures[k] = report.outcomes[i].task
    /\ \A k \in 1..Len(report.failures) :
          \E i \in 1..Len(report.outcomes) :
             /\ report.outcomes[i] = Result(report.failures[k], "Failed")
             /\ \A l \in 1..(k - 1) :
                   report.failures[l] \in {report.outcomes[j].task : j \in 1..(i - 1)}
    /\ report.cancelled <=> \E i \in 1..Len(report.outcomes) :
                                report.outcomes[i].state = "Cancelled"

\* A task is attempted at most once more than its max_retries, and a task that
\* is reported Failed had used every attempt it was given.
AttemptsBounded ==
    \A t \in Tasks :
        /\ attempts[t] <= MaxRetries[t] + 1
        /\ record[t] = "Failed" => attempts[t] = MaxRetries[t] + 1

\* No wake-up is lost: when the scheduler sleeps with no notification pending
\* and is neither paused nor stopped, nothing in the queue could be started.
\* (add_task and resume wake a sleeping scheduler; every other change of the
\* queue, the slots or the flags is its own.)
WorkConserving ==
    (pc = "select" /\ ~notified /\ ~paused /\ ~stopped)
        => (Runnable = {} \/ globalRunning >= GlobalLimit)

\* run() leaves its loop only when every task it started has been reported:
\* no coroutine outlives it and no result is left in the channel.
LoopDrains == pc \in {"rollback", "done"} => InFlight = {}

\* When run() returns after a failure or a cancellation with rollback_on_error,
\* every completed task that can be rolled back was, exactly once, and nobody
\* else; without a failure, a cancellation or the option nobody was.  Of two
\* tasks the one that started and completed first is undone last.  (The comment
\* at executor.rs:330 speaks of the order of starts; the stack is in the order
\* of results, so where the two differ the property says nothing.)
RollbackComplete ==
    pc = "done" =>
        LET started == {i \in 1..Len(events) : events[i].kind = "RollbackStarted"}
            owed == {j \in 1..Len(events) : /\ events[j].kind = "Completed"
                                            /\ events[j].task \in Compensable}
            undoes == {p \in started \X owed : events[p[1]].task = events[p[2]].task}
            due == /\ RollbackOnError
                   /\ \E t \in Tasks : record[t] \in {"Failed", "Cancelled"}
            startedFirst(t, u) ==
                \E m, n \in 1..Len(events) :
                    /\ m < n
                    /\ events[m] = Event(t, "Started") /\ events[n] = Event(u, "Started")
        IN  /\ due => \A j \in owed : \E i \in started : <<i, j>> \in undoes
            /\ \A i \in started : due /\ \E j \in owed : j < i /\ <<i, j>> \in undoes
            /\ \A p, q \in undoes : p[1] < q[1] =>
                  /\ p[2] # q[2]
                  /\ ~ /\ p[2] < q[2]
                       /\ startedFirst(events[p[1]].task, events[q[1]].task)

\* In Serial mode, with no task added later, results arrive in the order of
\* (priority, id), whatever fails, is retried or is cancelled on the way.
SerialOrder ==
    (Mode = "Serial" /\ "add" \notin Controls) =>
        \A i, j \in 1..Len(report.outcomes) :
            LET t == report.outcomes[i].task
                u == report.outcomes[j].task
            IN  i < j => \/ Rank[t] < Rank[u]
                         \/ Rank[t] = Rank[u] /\ IdOrder[t] < IdOrder[u]

\* Once stopped is set (cancel_all, a cancelled token, stop_on_error) no
\* further task is started.
NoStartAfterStop ==
    [][\A t \in Tasks : (co[t] = "none" /\ co'[t] # "none") => ~stopped]_vars

\* Cancelling reaches every started task, even between two attempts and even
\* if its runner never returns: it settles.
CancelSettles ==
    \A t \in Tasks :
        (co[t] \in {"attempt", "delay"} /\ TokenCancelled(t)) ~> co[t] = "ended"

\* If every attempt ends and the pause is over for good, run() returns - unless
\* it was stopped with tasks still in the queue.
ReturnsUnlessStopped ==
    (RunnersEnd /\ <>[]~paused) => <>(pc = "done" \/ (stopped /\ queue # {}))

Pool == INSTANCE TaskPool
            WITH Limit <- GlobalLimit,
                 state <- record,
                 reported <- TasksOf(report.outcomes),
                 returned <- pc \in {"rollback", "done"}

\* run_inner implements TaskPool: every step of the scheduler, of a task or of
\* the environment is one of its steps or none.
ImplementsTaskPool == Pool!Spec

\* What the comments of cancel_all and stop_on_error promise: a stopped run
\* ends as soon as the running tasks have.
StoppedRunReturns == stopped ~> pc = "done"
=============================================================================
