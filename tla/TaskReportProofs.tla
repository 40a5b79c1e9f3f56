-------------------------- MODULE TaskReportProofs --------------------------
(***************************************************************************)
(* Theorems about what run() hands back: no task is lost or told twice,    *)
(* the report says what the records say, a failed run is rolled back in    *)
(* the reverse of the order of completion, a serial run reports in the     *)
(* order of its queue, and the whole implements TaskPool.                  *)
(***************************************************************************)
EXTENDS TaskExecutorProofs, Functions, FunctionTheorems

Outcomes == report.outcomes

-----------------------------------------------------------------------------
(* The inductive invariants.                                               *)

\* The results of a sequence are of different tasks.
Distinct(results) ==
    \A i, j \in 1..Len(results) : results[i].task = results[j].task => i = j

\* Where a registered task can be: its coroutine decides, and a task that has
\* ended is in the channel or in the report, never in both.
PlaceInv ==
    /\ \A t \in Tasks : co[t] = "none" /\ record[t] # "Unregistered" => t \in queue
    /\ \A t \in Tasks :
          co[t] = "ended" => t \in TasksOf(rx) \/ t \in TasksOf(Outcomes)
    /\ \A t \in TasksOf(Outcomes) : co[t] = "ended"
    /\ TasksOf(rx) \cap TasksOf(Outcomes) = {}
    /\ Distinct(Outcomes)
    /\ runningIds = Live

\* The record of a task and its coroutine move together.
StoryInv ==
    \A t \in Tasks :
        /\ co[t] = "none" => record[t] \in {"Unregistered", "Pending"}
        /\ co[t] = "spawned" => record[t] = "Pending"
        /\ co[t] \in {"attempt", "delay"} => record[t] = "Running"
        /\ co[t] = "ended" => record[t] \in Terminal

\* A result, under way or reported, is the record of its task.
ResultInv ==
    /\ \A i \in 1..Len(rx) : rx[i].state = record[rx[i].task]
    /\ \A i \in 1..Len(Outcomes) : Outcomes[i].state = record[Outcomes[i].task]

\* The failures and the cancelled flag of the report are those of its outcomes.
SummaryInv ==
    /\ \A i \in 1..Len(Outcomes) :
          Outcomes[i].state = "Failed" =>
              \E k \in 1..Len(report.failures) : report.failures[k] = Outcomes[i].task
    /\ \A k \in 1..Len(report.failures) :
          \E i \in 1..Len(Outcomes) :
             /\ Outcomes[i] = Result(report.failures[k], "Failed")
             /\ \A l \in 1..(k - 1) :
                   \E j \in 1..(i - 1) : report.failures[l] = Outcomes[j].task
    /\ report.cancelled <=> \E i \in 1..Len(Outcomes) : Outcomes[i].state = "Cancelled"

ReportInv == PlaceInv /\ StoryInv /\ ResultInv /\ SummaryInv

\* Position i of history h is the end of task t.
EndsAt(h, i, t) == h[i].task = t /\ h[i].kind \in Terminal

\* Wherever both have ended in history h, t ended before u.
EndedBefore(h, t, u) ==
    \A i, j \in 1..Len(h) : EndsAt(h, i, t) /\ EndsAt(h, j, u) => i < j

\* A task has one end in the history, and it is the one recorded.
EndInv ==
    /\ \A i \in 1..Len(events) :
          events[i].kind \in Terminal => record[events[i].task] = events[i].kind
    /\ \A i, j \in 1..Len(events) :
          /\ events[i].kind \in Terminal
          /\ events[j].kind \in Terminal
          /\ events[i].task = events[j].task
          => i = j
    /\ \A t \in Tasks : record[t] \in Terminal => \E i \in 1..Len(events) : EndsAt(events, i, t)

\* The channel and the stack of rollbacks keep the order in which tasks ended.
OrderInv ==
    /\ \A i, j \in 1..Len(rx) : i < j => EndedBefore(events, rx[i].task, rx[j].task)
    /\ \A m \in 1..Len(rollbackStack), i \in 1..Len(rx) :
          EndedBefore(events, rollbackStack[m], rx[i].task)
    /\ \A m, n \in 1..Len(rollbackStack) :
          m < n => EndedBefore(events, rollbackStack[m], rollbackStack[n])

\* The stack holds completed tasks that can be rolled back, and every reported
\* one is there until its rollback has started.
StackInv ==
    /\ \A m \in 1..Len(rollbackStack) :
          rollbackStack[m] \in Compensable /\ record[rollbackStack[m]] = "Completed"
    /\ \A t \in TasksOf(Outcomes) :
          (t \in Compensable /\ record[t] = "Completed")
              => \/ \E m \in 1..Len(rollbackStack) : rollbackStack[m] = t
                 \/ \E i \in 1..Len(events) :
                       events[i].task = t /\ events[i].kind = "RollbackStarted"
    /\ (pc = "done" /\ RollbackNeeded) => rollbackStack = <<>>

\* A rollback is started only after the loop, when one is due, for a task that
\* completed before; what is undone later had ended earlier.
UndoInv ==
    \A i \in 1..Len(events) :
        events[i].kind = "RollbackStarted" =>
            /\ pc \in {"rollback", "done"}
            /\ RollbackNeeded
            /\ events[i].task \in Compensable
            /\ \E j \in 1..(i - 1) :
                  events[j].task = events[i].task /\ events[j].kind = "Completed"
            /\ \A m \in 1..Len(rollbackStack) : EndedBefore(events, rollbackStack[m], events[i].task)
            /\ \A k \in 1..Len(events) :
                  events[k].kind = "RollbackStarted" /\ i < k
                      => EndedBefore(events, events[k].task, events[i].task)

HistoryInv == EndInv /\ OrderInv /\ StackInv /\ UndoInv

\* In a serial run nothing queued precedes what was started, nothing started
\* precedes what was reported, and the report is in order.
SerialInv ==
    (Mode = "Serial" /\ "add" \notin Controls) =>
        /\ \A t \in Tasks, u \in queue : co[t] # "none" => Precedes(t, u)
        /\ \A t \in TasksOf(Outcomes), u \in InFlight : Precedes(t, u)
        /\ \A i, j \in 1..Len(Outcomes) :
              i < j => Precedes(Outcomes[i].task, Outcomes[j].task)


-----------------------------------------------------------------------------
(* The steps, as these invariants see them.                                *)

\* A task settles out of an attempt or a delay.
Ends(t, s) == Awaiting /\ co[t] \in {"attempt", "delay"} /\ Settle(t, s)

\* A failed attempt that is retried, or a delay that is over.
Again(t) ==
    /\ co[t] \in {"attempt", "delay"}
    /\ \E s \in {"attempt", "delay"} : co' = [co EXCEPT ![t] = s]
    /\ UNCHANGED <<queue, pc, slotVars, reportVars, rx, runningIds, record, events>>

\* The scheduler looks around, or a flag is set.
Idle ==
    /\ UNCHANGED <<queue, slotVars, reportVars, co, rx, runningIds, record, events>>
    /\ \/ pc' = pc
       \/ pc \notin {"rollback", "done"} /\ pc' \notin {"rollback", "done"}
       \/ /\ pc = "exit" /\ pc' = "rollback"
          /\ queue = {} /\ globalRunning = 0
       \/ /\ pc = "rollback" /\ pc' = "done"
          /\ ~RollbackNeeded \/ rollbackStack = <<>>

\* A failed attempt settles the task or leaves it alive.
LEMMA AttemptFailedShape ==
    ASSUME TypeOK, NEW t \in Tasks, Awaiting, co[t] = "attempt", AttemptFailed(t)
    PROVE  Ends(t, "Failed") \/ Again(t)
<1>1. CASE Settle(t, "Failed")
  BY <1>1 DEF Ends
<1>2. CASE ~Settle(t, "Failed")
  <2>1. co' = co \/ co' = [co EXCEPT ![t] = "delay"]
    BY <1>2 DEF AttemptFailed
  <2>2. co = [co EXCEPT ![t] = "attempt"]
    BY DEF TypeOK
  <2>3. \E s \in {"attempt", "delay"} : co' = [co EXCEPT ![t] = s]
    BY <2>1, <2>2
  <2>4. UNCHANGED <<queue, pc, slotVars, reportVars, rx, runningIds, record, events>>
    BY <1>2 DEF AttemptFailed
  <2> QED
    BY <2>3, <2>4 DEF Again
<1> QED
  BY <1>1, <1>2

\* The steps of a task: its first poll, another attempt, its end.
LEMMA CoroutineShape ==
    ASSUME TypeOK, NEW t \in Tasks, Coroutine(t)
    PROVE  Start(t) \/ Again(t) \/ \E s \in Terminal : Ends(t, s)
<1>1. CASE RunnerOk(t)
  <2>1. Ends(t, "Completed")
    BY <1>1 DEF RunnerOk, Ends
  <2> QED
    BY <2>1 DEF Terminal
<1>2. CASE RunnerErr(t)
  <2>1. Awaiting /\ co[t] = "attempt"
    BY <1>2 DEF RunnerErr
  <2>2. CASE TokenCancelled(t)
    <3>1. Ends(t, "Cancelled")
      BY <1>2, <2>2 DEF RunnerErr, Ends
    <3> QED
      BY <3>1 DEF Terminal
  <2>3. CASE ~TokenCancelled(t)
    <3>1. AttemptFailed(t)
      BY <1>2, <2>3 DEF RunnerErr
    <3> QED
      BY <2>1, <3>1, AttemptFailedShape DEF Terminal
  <2> QED
    BY <2>2, <2>3
<1>3. CASE AttemptTimeout(t)
  <2>1. Awaiting /\ co[t] = "attempt" /\ AttemptFailed(t)
    BY <1>3 DEF AttemptTimeout
  <2> QED
    BY <2>1, AttemptFailedShape DEF Terminal
<1>4. CASE DelayElapsed(t)
  <2>1. Again(t)
    BY <1>4 DEF DelayElapsed, Again
  <2> QED
    BY <2>1
<1>5. CASE ObserveCancel(t)
  <2>1. Ends(t, "Cancelled")
    BY <1>5 DEF ObserveCancel, Ends
  <2> QED
    BY <2>1 DEF Terminal
<1> QED
  BY <1>1, <1>2, <1>3, <1>4, <1>5 DEF Coroutine

\* Every step is one of eight shapes.
LEMMA StepShapes ==
    ASSUME TypeOK, [Next]_vars
    PROVE  \/ \E t \in Tasks : AddTask(t)
           \/ \E t \in Tasks : Dispatch(t)
           \/ \E t \in Tasks : Start(t)
           \/ \E t \in Tasks : Again(t)
           \/ \E t \in Tasks, s \in Terminal : Ends(t, s)
           \/ Receive
           \/ \E ok \in BOOLEAN : RunRollback(ok)
           \/ Idle
<1>1. CASE Scheduler
  <2>1. CASE LoadFlags \/ EndDispatch \/ WakeNotified \/ WakeCancelled
    BY <2>1 DEF LoadFlags, EndDispatch, WakeNotified, WakeCancelled, Idle, taskVars
  <2>2. CASE CheckExit
    BY <2>2 DEF CheckExit, Idle, taskVars
  <2>3. CASE Return
    BY <2>3 DEF Return, Idle, taskVars
  <2> QED
    BY <1>1, <2>1, <2>2, <2>3 DEF Scheduler
<1>2. CASE Control
  <2>1. CASE \E t \in Tasks : AddTask(t)
    BY <2>1
  <2>2. CASE ~ \E t \in Tasks : AddTask(t)
    BY <1>2, <2>2
    DEF Control, Pause, Resume, CancelAll, CancelGroup, CancelToken, Idle, taskVars
  <2> QED
    BY <2>1, <2>2
<1>3. ASSUME NEW t \in Tasks, Coroutine(t)
      PROVE  \/ \E u \in Tasks : Start(u)
             \/ \E u \in Tasks : Again(u)
             \/ \E u \in Tasks, s \in Terminal : Ends(u, s)
  BY <1>3, CoroutineShape
<1>4. CASE UNCHANGED vars
  BY <1>4 DEF vars, Idle, taskVars
<1> QED
  BY <1>1, <1>2, <1>3, <1>4 DEF Next

-----------------------------------------------------------------------------
(* Sequences of results.                                                   *)

\* Who is in a sequence of results.
LEMMA TasksOfMember ==
    ASSUME NEW t, NEW results
    PROVE  t \in TasksOf(results) <=> \E i \in 1..Len(results) : results[i].task = t
BY DEF TasksOf

\* A result at the end adds its task.
LEMMA TasksOfAppend ==
    ASSUME NEW results \in Seq(Results), NEW r \in Results
    PROVE  TasksOf(Append(results, r)) = TasksOf(results) \cup {r.task}
<1> DEFINE n == Len(results)
           longer == Append(results, r)
<1>1. /\ n \in Nat /\ Len(longer) = n + 1
      /\ \A i \in 1..n : longer[i] = results[i]
      /\ longer[n + 1] = r
  BY AppendProperties, LenProperties
<1>2. 1..(n + 1) = 1..n \cup {n + 1}
  BY <1>1
<1> HIDE DEF longer
<1>3. TasksOf(longer) = TasksOf(results) \cup {r.task}
  BY <1>1, <1>2 DEF TasksOf
<1> QED
  BY <1>3 DEF longer

\* A result of a new task keeps them different.
LEMMA DistinctAppend ==
    ASSUME NEW results \in Seq(Results), NEW r \in Results,
           Distinct(results), r.task \notin TasksOf(results)
    PROVE  Distinct(Append(results, r))
<1> DEFINE n == Len(results)
           longer == Append(results, r)
<1>1. /\ n \in Nat /\ Len(longer) = n + 1
      /\ \A i \in 1..n : longer[i] = results[i]
      /\ longer[n + 1] = r
  BY AppendProperties, LenProperties
<1>2. \A i \in 1..n : results[i].task # r.task
  BY DEF TasksOf
<1>3. \A i \in 1..(n + 1) : i \in 1..n \/ i = n + 1
  BY <1>1
<1> HIDE DEF longer
<1>4. Distinct(longer)
  BY <1>1, <1>2, <1>3 DEF Distinct
<1> QED
  BY <1>4 DEF longer

\* Without its head, a sequence of different tasks has lost one task.
LEMMA TasksOfTail ==
    ASSUME NEW results \in Seq(Results), results # <<>>, Distinct(results)
    PROVE  /\ TasksOf(Tail(results)) = TasksOf(results) \ {Head(results).task}
           /\ Head(results).task \in TasksOf(results)
<1> DEFINE n == Len(results)
           rest == Tail(results)
<1>1. /\ n \in Nat \ {0} /\ Len(rest) = n - 1
      /\ Head(results) = results[1]
      /\ \A i \in 1..Len(rest) : rest[i] = results[i + 1]
  BY HeadTailProperties, EmptySeq
<1>2. 1 \in 1..n
  BY <1>1
<1>3. \A i \in 1..(n - 1) : i + 1 \in 1..n /\ i + 1 # 1
  BY <1>1
<1> HIDE DEF rest
<1>4. ASSUME NEW i \in 1..n, i # 1
      PROVE  results[i].task \in TasksOf(rest)
  <2>1. i - 1 \in 1..Len(rest) /\ rest[i - 1] = results[i]
    BY <1>1, <1>4
  <2> QED
    BY <2>1 DEF TasksOf
<1>5. TasksOf(rest) \subseteq TasksOf(results) \ {results[1].task}
  BY <1>1, <1>2, <1>3 DEF TasksOf, Distinct
<1>6. TasksOf(results) \ {results[1].task} \subseteq TasksOf(rest)
  BY <1>4 DEF TasksOf
<1>7. results[1].task \in TasksOf(results)
  BY <1>2 DEF TasksOf
<1> QED
  BY <1>1, <1>5, <1>6, <1>7 DEF rest

\* Results of different tasks are as many as their tasks.
LEMMA DistinctCount ==
    ASSUME NEW results \in Seq(Results), Distinct(results)
    PROVE  Cardinality(TasksOf(results)) = Len(results)
<1> DEFINE n == Len(results)
           taskAt == [i \in 1..n |-> results[i].task]
<1>1. n \in Nat
  BY LenProperties
<1>2. taskAt \in [1..n -> TasksOf(results)]
  BY DEF TasksOf
<1>3. \A i, j \in 1..n : taskAt[i] = taskAt[j] => i = j
  BY DEF Distinct
<1>4. \A t \in TasksOf(results) : \E i \in 1..n : taskAt[i] = t
  BY DEF TasksOf
<1> HIDE DEF taskAt
<1>5. taskAt \in Bijection(1..n, TasksOf(results))
  BY <1>2, <1>3, <1>4, Fun_IsBij
<1>6. ExistsBijection(1..n, TasksOf(results))
  BY <1>5 DEF ExistsBijection
<1>7. IsFiniteSet(1..n) /\ Cardinality(1..n) = n
  BY <1>1, FS_Interval
<1> QED
  BY <1>6, <1>7, FS_Bijection


-----------------------------------------------------------------------------
(* One place each.                                                         *)

\* What a task's end changes.
LEMMA EndsFacts ==
    ASSUME TypeOK, NEW t \in Tasks, NEW s \in Terminal, Ends(t, s)
    PROVE  /\ Awaiting
           /\ co[t] \in {"attempt", "delay"}
           /\ co' = [co EXCEPT ![t] = "ended"]
           /\ record' = [record EXCEPT ![t] = s]
           /\ rx' = Append(rx, Result(t, s))
           /\ Result(t, s) \in Results
           /\ Result(t, s).task = t /\ Result(t, s).state = s
           /\ runningIds' = runningIds \ {t}
           /\ UNCHANGED <<queue, pc, slotVars, reportVars>>
BY DEF Ends, Settle, ServiceSettle, SetTaskState, Result, Results

\* What the receipt of a result changes.
LEMMA ReceiveFacts ==
    ASSUME TypeOK, Receive
    PROVE  /\ pc = "select" /\ pc' = "load"
           /\ rx # <<>> /\ rx' = Tail(rx)
           /\ Head(rx) \in Results
           /\ report.outcomes \in Seq(Results)
           /\ report' = Recorded(Head(rx))
           /\ rollbackStack' = Stacked(Head(rx))
           /\ report'.outcomes = Append(report.outcomes, Head(rx))
           /\ UNCHANGED <<queue, co, runningIds, record, events>>
<1>1. rx # <<>> /\ rx \in Seq(Results)
  BY DEF Receive, TypeOK
<1>2. Head(rx) \in Results
  BY <1>1, HeadTailProperties
<1>3. report' = Recorded(Head(rx))
  BY DEF Receive
<1>4. report'.outcomes = Append(report.outcomes, Head(rx))
  BY <1>3 DEF Recorded
<1> QED
  BY <1>1, <1>2, <1>3, <1>4 DEF Receive, TypeOK

\* The two halves of SlotInv about the channel.
LEMMA ChannelFacts ==
    ASSUME SlotInv
    PROVE  /\ TypeOK
           /\ rx \in Seq(Results)
           /\ Distinct(rx)
           /\ TasksOf(rx) \subseteq Tasks
           /\ \A t \in TasksOf(rx) : co[t] = "ended"
<1>1. TypeOK /\ rx \in Seq(Results)
  BY DEF SlotInv, TypeOK
<1>2. TasksOf(rx) \subseteq Tasks
  BY <1>1, ChannelType DEF TasksOf
<1>3. \A t \in TasksOf(rx) : co[t] = "ended"
  BY DEF SlotInv, TasksOf
<1> QED
  BY <1>1, <1>2, <1>3 DEF SlotInv, Distinct

\* The outcomes are results of tasks.
LEMMA OutcomeType ==
    ASSUME TypeOK
    PROVE  /\ Outcomes \in Seq(Results)
           /\ Len(Outcomes) \in Nat
           /\ \A i \in 1..Len(Outcomes) : Outcomes[i] \in Results
           /\ \A i \in 1..Len(Outcomes) :
                 Outcomes[i].task \in Tasks /\ Outcomes[i].state \in Terminal
           /\ TasksOf(Outcomes) \subseteq Tasks
<1>1. Outcomes \in Seq(Results)
  BY DEF Outcomes, TypeOK
<1>2. \A i \in 1..Len(Outcomes) : Outcomes[i] \in Results
  BY <1>1, ElementOfSeq
<1>3. Len(Outcomes) \in Nat
  BY <1>1, LenProperties
<1>4. \A i \in 1..Len(Outcomes) :
         Outcomes[i].task \in Tasks /\ Outcomes[i].state \in Terminal
  BY <1>2 DEF Results
<1> QED
  BY <1>1, <1>2, <1>3, <1>4 DEF TasksOf

\* A dispatched task leaves the queue as its coroutine comes to life.
LEMMA DispatchFacts ==
    ASSUME SlotInv, NEW t \in Tasks, Dispatch(t)
    PROVE  /\ t \in queue /\ co[t] = "none" /\ record[t] # "Unregistered"
           /\ pc = "dispatch" /\ pc' = pc
           /\ queue' = queue \ {t}
           /\ co' = [co EXCEPT ![t] = "spawned"]
           /\ runningIds' = runningIds \cup {t}
           /\ UNCHANGED <<reportVars, rx, record, events>>
BY DEF Dispatch, IsNext, Runnable, SlotInv

\* No step loses a task or puts it in two places.
LEMMA PlaceStep ==
    ASSUME SlotInv, PlaceInv, [Next]_vars
    PROVE  PlaceInv'
<1>1. TypeOK /\ co \in [Tasks -> CoStates] /\ record \in [Tasks -> TaskStates]
  BY DEF SlotInv, TypeOK
<1>2. ASSUME NEW t \in Tasks, AddTask(t) PROVE PlaceInv'
  <2>1. /\ record' = [record EXCEPT ![t] = "Pending"]
        /\ queue' = queue \cup {t}
        /\ UNCHANGED <<co, rx, report, runningIds>>
    BY <1>2 DEF AddTask, ServiceRegister, SetTaskState, reportVars
  <2>2. /\ Live' = Live
        /\ TasksOf(rx)' = TasksOf(rx)
        /\ TasksOf(Outcomes)' = TasksOf(Outcomes)
        /\ Distinct(Outcomes)' = Distinct(Outcomes)
    BY <2>1 DEF Live, Outcomes, TasksOf, Distinct
  <2> QED
    BY <1>1, <2>1, <2>2 DEF PlaceInv
<1>3. ASSUME NEW t \in Tasks, Dispatch(t) PROVE PlaceInv'
  <2>1. /\ co[t] = "none"
        /\ queue' = queue \ {t}
        /\ co' = [co EXCEPT ![t] = "spawned"]
        /\ runningIds' = runningIds \cup {t}
        /\ UNCHANGED <<report, rx, record>>
    BY <1>3, DispatchFacts DEF reportVars
  <2>2. Live' = Live \cup {t}
    BY <1>1, <2>1 DEF Live
  <2>3. Outcomes' = Outcomes /\ TasksOf(rx)' = TasksOf(rx)
    BY <2>1 DEF Outcomes, TasksOf
  <2>4. TasksOf(Outcomes)' = TasksOf(Outcomes) /\ Distinct(Outcomes)'
    BY <2>3 DEF TasksOf, Distinct, PlaceInv
  <2>5. TasksOf(Outcomes) \subseteq Tasks
    BY <1>1, OutcomeType
  <2> QED
    BY <1>1, <2>1, <2>2, <2>3, <2>4, <2>5 DEF PlaceInv
<1>4. ASSUME NEW t \in Tasks, NEW s \in CoStates \ {"none", "ended"},
             co[t] \in CoStates \ {"none", "ended"},
             co' = [co EXCEPT ![t] = s],
             record[t] # "Unregistered",
             \A u \in Tasks \ {t} : record'[u] = record[u],
             UNCHANGED <<queue, report, rx, runningIds>>
      PROVE  PlaceInv'
  <2>1. Live' = Live
    BY <1>1, <1>4 DEF Live, CoStates
  <2>2. Outcomes' = Outcomes /\ TasksOf(rx)' = TasksOf(rx)
    BY <1>4 DEF Outcomes, TasksOf
  <2>3. TasksOf(Outcomes)' = TasksOf(Outcomes) /\ Distinct(Outcomes)'
    BY <2>2 DEF TasksOf, Distinct, PlaceInv
  <2>4. TasksOf(Outcomes) \subseteq Tasks
    BY <1>1, OutcomeType
  <2> QED
    BY <1>1, <1>4, <2>1, <2>2, <2>3, <2>4 DEF PlaceInv, CoStates
<1>5. ASSUME NEW t \in Tasks, Start(t) PROVE PlaceInv'
  <2>1. /\ co[t] = "spawned"
        /\ co' = [co EXCEPT ![t] = "attempt"]
        /\ record' = [record EXCEPT ![t] = "Running"]
        /\ UNCHANGED <<queue, report, rx, runningIds>>
    BY <1>5 DEF Start, ServiceStart, SetTaskState, reportVars
  <2>2. \A u \in Tasks \ {t} : record'[u] = record[u]
    BY <1>1, <2>1
  <2>3. record[t] # "Unregistered"
    BY <2>1 DEF SlotInv
  <2> QED
    BY <1>4, <2>1, <2>2, <2>3 DEF CoStates
<1>6. ASSUME NEW t \in Tasks, Again(t) PROVE PlaceInv'
  <2>1. /\ co[t] \in {"attempt", "delay"}
        /\ UNCHANGED <<queue, report, rx, runningIds, record>>
    BY <1>6 DEF Again, reportVars
  <2>2. PICK s \in {"attempt", "delay"} : co' = [co EXCEPT ![t] = s]
    BY <1>6 DEF Again
  <2>3. record[t] # "Unregistered"
    BY <2>1 DEF SlotInv
  <2> QED
    BY <1>4, <2>1, <2>2, <2>3 DEF CoStates
<1>7. ASSUME NEW t \in Tasks, NEW s \in Terminal, Ends(t, s) PROVE PlaceInv'
  <2>1. /\ co[t] \in {"attempt", "delay"}
        /\ co' = [co EXCEPT ![t] = "ended"]
        /\ record' = [record EXCEPT ![t] = s]
        /\ rx' = Append(rx, Result(t, s))
        /\ Result(t, s) \in Results /\ Result(t, s).task = t
        /\ runningIds' = runningIds \ {t}
        /\ UNCHANGED <<queue, report>>
    BY <1>1, <1>7, EndsFacts DEF reportVars
  <2>2. Live' = Live \ {t}
    BY <1>1, <2>1 DEF Live
  <2>3. TasksOf(rx)' = TasksOf(rx) \cup {t}
    <3>1. TasksOf(Append(rx, Result(t, s))) = TasksOf(rx) \cup {t}
      BY <2>1, ChannelFacts, TasksOfAppend
    <3>2. TasksOf(rx)' = TasksOf(rx')
      BY DEF TasksOf
    <3> QED
      BY <2>1, <3>1, <3>2
  <2>4. Outcomes' = Outcomes
    BY <2>1 DEF Outcomes
  <2>5. TasksOf(Outcomes)' = TasksOf(Outcomes) /\ Distinct(Outcomes)'
    BY <2>4 DEF TasksOf, Distinct, PlaceInv
  <2>6. TasksOf(Outcomes) \subseteq Tasks
    BY <1>1, OutcomeType
  <2>7. t \notin TasksOf(Outcomes)
    BY <2>1 DEF PlaceInv
  <2> QED
    BY <1>1, <2>1, <2>2, <2>3, <2>5, <2>6, <2>7 DEF PlaceInv
<1>8. CASE Receive
  <2> DEFINE r == Head(rx)
  <2>1. /\ rx # <<>> /\ rx' = Tail(rx)
        /\ r \in Results
        /\ Outcomes \in Seq(Results)
        /\ Outcomes' = Append(Outcomes, r)
        /\ UNCHANGED <<queue, co, runningIds, record>>
    BY <1>1, <1>8, ReceiveFacts DEF Outcomes
  <2>2. /\ TasksOf(Tail(rx)) = TasksOf(rx) \ {r.task}
        /\ r.task \in TasksOf(rx)
    BY <2>1, ChannelFacts, TasksOfTail
  <2>3. r.task \notin TasksOf(Outcomes)
    BY <2>2 DEF PlaceInv
  <2>4. /\ TasksOf(Append(Outcomes, r)) = TasksOf(Outcomes) \cup {r.task}
        /\ Distinct(Append(Outcomes, r))
    BY <2>1, <2>3, TasksOfAppend, DistinctAppend DEF PlaceInv
  <2>5. /\ TasksOf(rx)' = TasksOf(rx) \ {r.task}
        /\ TasksOf(Outcomes)' = TasksOf(Outcomes) \cup {r.task}
        /\ Distinct(Outcomes)'
    <3>1. /\ TasksOf(rx)' = TasksOf(rx')
          /\ TasksOf(Outcomes)' = TasksOf(Outcomes')
          /\ Distinct(Outcomes)' = Distinct(Outcomes')
      BY DEF TasksOf, Distinct
    <3> QED
      BY <2>1, <2>2, <2>4, <3>1
  <2>6. co[r.task] = "ended"
    BY <2>2, ChannelFacts
  <2>7. Live' = Live
    BY <2>1 DEF Live
  <2> HIDE DEF r
  <2> QED
    BY <2>1, <2>2, <2>5, <2>6, <2>7 DEF PlaceInv
<1>9. CASE UNCHANGED <<queue, co, rx, runningIds, record, report.outcomes>>
  <2>1. /\ Live' = Live
        /\ TasksOf(rx)' = TasksOf(rx)
        /\ TasksOf(Outcomes)' = TasksOf(Outcomes)
        /\ Distinct(Outcomes)' = Distinct(Outcomes)
    BY <1>9 DEF Live, Outcomes, TasksOf, Distinct
  <2> QED
    BY <1>9, <2>1 DEF PlaceInv
<1>10. ASSUME NEW ok \in BOOLEAN, RunRollback(ok) PROVE PlaceInv'
  BY <1>9, <1>10 DEF RunRollback, ServiceRollback
<1>11. CASE Idle
  BY <1>9, <1>11 DEF Idle, reportVars
<1> QED
  BY <1>1, <1>2, <1>3, <1>5, <1>6, <1>7, <1>8, <1>10, <1>11, StepShapes

\* At the start every registered task is queued.
LEMMA PlaceInit == Init => PlaceInv
<1> SUFFICES ASSUME Init PROVE PlaceInv
  OBVIOUS
<1>1. Outcomes = <<>> /\ rx = <<>>
  BY DEF Init, EmptyReport, Outcomes
<1>2. TasksOf(Outcomes) = {} /\ TasksOf(rx) = {} /\ Distinct(Outcomes)
  BY <1>1, EmptySeq DEF TasksOf, Distinct
<1>3. /\ \A t \in Tasks : co[t] = "none"
      /\ \A t \in Tasks : record[t] # "Unregistered" => t \in queue
      /\ runningIds = {}
  BY DEF Init
<1>4. Live = {}
  BY <1>3 DEF Live
<1> QED
  BY <1>2, <1>3, <1>4 DEF PlaceInv

\* The places are four, and a registered task is in one.
LEMMA OnePlace == SlotInv /\ PlaceInv => OnePlaceEach
<1> SUFFICES ASSUME SlotInv, PlaceInv PROVE OnePlaceEach
  OBVIOUS
<1>1. ASSUME NEW t \in Tasks
      PROVE  LET places == <<t \in queue, t \in Live, t \in TasksOf(rx),
                             t \in TasksOf(report.outcomes)>>
             IN  Cardinality({i \in 1..4 : places[i]})
                     = IF record[t] = "Unregistered" THEN 0 ELSE 1
  <2> DEFINE places == <<t \in queue, t \in Live, t \in TasksOf(rx),
                         t \in TasksOf(report.outcomes)>>
             In == {i \in 1..4 : places[i]}
  <2>1. co[t] \in CoStates
    BY DEF SlotInv, TypeOK
  <2>2. /\ t \in queue <=> co[t] = "none" /\ record[t] # "Unregistered"
        /\ t \in Live <=> co[t] \in {"spawned", "attempt", "delay"}
        /\ t \in TasksOf(rx) => co[t] = "ended"
        /\ t \in TasksOf(Outcomes) => co[t] = "ended"
        /\ co[t] = "ended" => t \in TasksOf(rx) \/ t \in TasksOf(Outcomes)
        /\ ~(t \in TasksOf(rx) /\ t \in TasksOf(Outcomes))
        /\ record[t] = "Unregistered" => co[t] = "none"
    BY ChannelFacts DEF PlaceInv, SlotInv, Live
  <2>3. /\ In \subseteq {1, 2, 3, 4}
        /\ 1 \in In <=> t \in queue
        /\ 2 \in In <=> t \in Live
        /\ 3 \in In <=> t \in TasksOf(rx)
        /\ 4 \in In <=> t \in TasksOf(Outcomes)
    <3>1. /\ places[1] = (t \in queue)
          /\ places[2] = (t \in Live)
          /\ places[3] = (t \in TasksOf(rx))
          /\ places[4] = (t \in TasksOf(Outcomes))
      BY DEF Outcomes
    <3> HIDE DEF places
    <3>2. /\ In \subseteq {1, 2, 3, 4}
          /\ \A i \in {1, 2, 3, 4} : i \in In <=> places[i]
      OBVIOUS
    <3> HIDE DEF In
    <3> QED
      BY <3>1, <3>2
  <2> HIDE DEF In
  <2>4. CASE record[t] = "Unregistered"
    <3>1. In = {}
      BY <2>2, <2>3, <2>4
    <3> QED
      BY <2>4, <3>1, FS_EmptySet DEF In
  <2>5. CASE record[t] # "Unregistered"
    <3>1. In = {1} \/ In = {2} \/ In = {3} \/ In = {4}
      BY <2>1, <2>2, <2>3, <2>5 DEF CoStates
    <3>2. Cardinality(In) = 1
      BY <3>1, FS_Singleton
    <3> QED
      BY <2>5, <3>2 DEF In
  <2> QED
    BY <2>4, <2>5
<1>2. /\ Cardinality(TasksOf(report.outcomes)) = Len(report.outcomes)
      /\ Cardinality(TasksOf(rx)) = Len(rx)
  BY ChannelFacts, OutcomeType, DistinctCount DEF PlaceInv, Outcomes
<1>3. runningIds = Live
  BY DEF PlaceInv
<1> QED
  BY <1>1, <1>2, <1>3 DEF OnePlaceEach

\* Every step keeps the places, so they can be used as an invariant.
LEMMA PlaceInvariant == Spec => []PlaceInv
<1>1. SlotInv /\ PlaceInv /\ [Next]_vars => PlaceInv'
  BY PlaceStep
<1> QED
  BY <1>1, PlaceInit, SlotInvariant, PTL DEF Spec

\* Whatever fails, is retried, cancelled or added, each registered task is
\* queued, alive, under way or reported, in one of them only: run() loses no
\* task and reports none twice, and running_ids names the live ones.
THEOREM OnePlaceHolds == Spec => []OnePlaceEach
BY OnePlace, SlotInvariant, PlaceInvariant, PTL


-----------------------------------------------------------------------------
(* The report and the records.                                             *)

\* A coroutine and the record of its task move together.
LEMMA StoryStep ==
    ASSUME SlotInv, StoryInv, [Next]_vars
    PROVE  StoryInv'
<1>1. TypeOK /\ co \in [Tasks -> CoStates] /\ record \in [Tasks -> TaskStates]
  BY DEF SlotInv, TypeOK
<1>2. ASSUME NEW t \in Tasks, AddTask(t) PROVE StoryInv'
  <2>1. /\ record[t] = "Unregistered"
        /\ record' = [record EXCEPT ![t] = "Pending"]
        /\ co' = co
    BY <1>2 DEF AddTask, ServiceRegister, SetTaskState
  <2>2. co[t] = "none"
    BY <2>1 DEF SlotInv
  <2> QED
    BY <1>1, <2>1, <2>2 DEF StoryInv
<1>3. ASSUME NEW t \in Tasks, Dispatch(t) PROVE StoryInv'
  <2>1. /\ co[t] = "none" /\ record[t] # "Unregistered"
        /\ co' = [co EXCEPT ![t] = "spawned"]
        /\ record' = record
    BY <1>3, DispatchFacts
  <2>2. record[t] = "Pending"
    BY <2>1 DEF StoryInv
  <2> QED
    BY <1>1, <2>1, <2>2 DEF StoryInv
<1>4. ASSUME NEW t \in Tasks, Start(t) PROVE StoryInv'
  <2>1. /\ co' = [co EXCEPT ![t] = "attempt"]
        /\ record' = [record EXCEPT ![t] = "Running"]
    BY <1>4 DEF Start, ServiceStart, SetTaskState
  <2> QED
    BY <1>1, <2>1 DEF StoryInv
<1>5. ASSUME NEW t \in Tasks, Again(t) PROVE StoryInv'
  <2>1. co[t] \in {"attempt", "delay"} /\ record' = record
    BY <1>5 DEF Again
  <2>2. PICK s \in {"attempt", "delay"} : co' = [co EXCEPT ![t] = s]
    BY <1>5 DEF Again
  <2> QED
    BY <1>1, <2>1, <2>2 DEF StoryInv
<1>6. ASSUME NEW t \in Tasks, NEW s \in Terminal, Ends(t, s) PROVE StoryInv'
  <2>1. /\ co' = [co EXCEPT ![t] = "ended"]
        /\ record' = [record EXCEPT ![t] = s]
    BY <1>1, <1>6, EndsFacts
  <2> QED
    BY <1>1, <2>1 DEF StoryInv
<1>7. CASE UNCHANGED <<co, record>>
  BY <1>7 DEF StoryInv
<1>8. CASE Receive
  BY <1>7, <1>8 DEF Receive
<1>9. ASSUME NEW ok \in BOOLEAN, RunRollback(ok) PROVE StoryInv'
  BY <1>7, <1>9 DEF RunRollback, ServiceRollback
<1>10. CASE Idle
  BY <1>7, <1>10 DEF Idle
<1> QED
  BY <1>1, <1>2, <1>3, <1>4, <1>5, <1>6, <1>8, <1>9, <1>10, StepShapes

\* The record of a task that has ended does not change again, and only the
\* receipt of a result adds to the report.
LEMMA RecordSteps ==
    ASSUME SlotInv, StoryInv, [Next]_vars
    PROVE  /\ \A t \in Tasks : co[t] = "ended" => record'[t] = record[t]
           /\ \/ Receive
              \/ /\ UNCHANGED <<report.outcomes, report.failures, report.cancelled>>
                 /\ \/ rx' = rx
                    \/ \E t \in Tasks, s \in Terminal : Ends(t, s)
<1>1. TypeOK /\ co \in [Tasks -> CoStates] /\ record \in [Tasks -> TaskStates]
  BY DEF SlotInv, TypeOK
<1> DEFINE Kept == \A t \in Tasks : co[t] = "ended" => record'[t] = record[t]
           Same == UNCHANGED <<report.outcomes, report.failures, report.cancelled>>
<1>2. ASSUME NEW t \in Tasks, AddTask(t) PROVE Kept /\ Same /\ rx' = rx
  <2>1. /\ record[t] = "Unregistered"
        /\ record' = [record EXCEPT ![t] = "Pending"]
        /\ UNCHANGED <<report, rx>>
    BY <1>2 DEF AddTask, ServiceRegister, SetTaskState, reportVars
  <2>2. co[t] = "none"
    BY <2>1 DEF SlotInv
  <2> QED
    BY <1>1, <2>1, <2>2
<1>3. ASSUME NEW t \in Tasks, Dispatch(t) PROVE Kept /\ Same /\ rx' = rx
  BY <1>3, DispatchFacts DEF reportVars
<1>4. ASSUME NEW t \in Tasks, Start(t) PROVE Kept /\ Same /\ rx' = rx
  <2>1. /\ co[t] = "spawned"
        /\ record' = [record EXCEPT ![t] = "Running"]
        /\ UNCHANGED <<report, rx>>
    BY <1>4 DEF Start, ServiceStart, SetTaskState, reportVars
  <2> QED
    BY <1>1, <2>1
<1>5. ASSUME NEW t \in Tasks, Again(t) PROVE Kept /\ Same /\ rx' = rx
  BY <1>5 DEF Again, reportVars
<1>6. ASSUME NEW t \in Tasks, NEW s \in Terminal, Ends(t, s) PROVE Kept /\ Same
  <2>1. /\ co[t] \in {"attempt", "delay"}
        /\ record' = [record EXCEPT ![t] = s]
        /\ report' = report
    BY <1>1, <1>6, EndsFacts DEF reportVars
  <2> QED
    BY <1>1, <2>1
<1>7. CASE Receive
  BY <1>7 DEF Receive
<1>8. ASSUME NEW ok \in BOOLEAN, RunRollback(ok) PROVE Kept /\ Same /\ rx' = rx
  BY <1>8 DEF RunRollback, ServiceRollback
<1>9. CASE Idle
  BY <1>9 DEF Idle, reportVars
<1> QED
  BY <1>1, <1>2, <1>3, <1>4, <1>5, <1>6, <1>7, <1>8, <1>9, StepShapes

\* A result is made with the record, and neither changes after that.
LEMMA ResultStep ==
    ASSUME SlotInv, PlaceInv, StoryInv, ResultInv, [Next]_vars
    PROVE  ResultInv'
<1>1. /\ TypeOK /\ co \in [Tasks -> CoStates] /\ record \in [Tasks -> TaskStates]
      /\ rx \in Seq(Results) /\ Len(rx) \in Nat
  BY ChannelType DEF SlotInv, TypeOK
<1>2. \A i \in 1..Len(rx) :
         rx[i].task \in Tasks /\ co[rx[i].task] = "ended"
  BY <1>1, ChannelType DEF SlotInv
<1>3. \A i \in 1..Len(Outcomes) :
         Outcomes[i].task \in Tasks /\ co[Outcomes[i].task] = "ended"
  <2>1. \A i \in 1..Len(Outcomes) : Outcomes[i].task \in TasksOf(Outcomes)
    BY DEF TasksOf
  <2> QED
    BY <1>1, <2>1, OutcomeType DEF PlaceInv
<1>4. /\ \A i \in 1..Len(rx) : rx[i].state = record'[rx[i].task]
      /\ \A i \in 1..Len(Outcomes) : Outcomes[i].state = record'[Outcomes[i].task]
  BY <1>2, <1>3, RecordSteps DEF ResultInv
<1>5. CASE Receive
  <2> DEFINE r == Head(rx)
  <2>1. /\ rx # <<>> /\ rx' = Tail(rx) /\ r \in Results
        /\ Outcomes \in Seq(Results)
        /\ Outcomes' = Append(Outcomes, r)
    BY <1>1, <1>5, ReceiveFacts DEF Outcomes
  <2>2. /\ r = rx[1] /\ Len(rx) \in Nat \ {0}
        /\ Len(rx') = Len(rx) - 1
        /\ \A i \in 1..Len(rx') : rx'[i] = rx[i + 1]
    BY <1>1, <2>1, HeadTailProperties, EmptySeq
  <2>3. /\ Len(Outcomes) \in Nat
        /\ Len(Outcomes') = Len(Outcomes) + 1
        /\ \A i \in 1..Len(Outcomes) : Outcomes'[i] = Outcomes[i]
        /\ Outcomes'[Len(Outcomes) + 1] = r
    BY <2>1, AppendProperties, LenProperties
  <2> HIDE DEF r
  <2>4. \A i \in 1..Len(rx') : rx'[i].state = record'[rx'[i].task]
    <3>1. \A i \in 1..Len(rx') : i + 1 \in 1..Len(rx)
      BY <2>2
    <3> QED
      BY <1>4, <2>2, <3>1
  <2>5. r.state = record'[r.task]
    <3>1. 1 \in 1..Len(rx)
      BY <2>2
    <3> QED
      BY <1>4, <2>2, <3>1
  <2>6. \A i \in 1..Len(Outcomes') : i \in 1..Len(Outcomes) \/ i = Len(Outcomes) + 1
    BY <2>3
  <2>7. \A i \in 1..Len(Outcomes') : Outcomes'[i].state = record'[Outcomes'[i].task]
    BY <1>4, <2>3, <2>5, <2>6
  <2> QED
    BY <2>4, <2>7 DEF ResultInv
<1>6. CASE ~Receive
  <2>1. Outcomes' = Outcomes
    BY <1>6, RecordSteps DEF Outcomes
  <2>2. CASE rx' = rx
    BY <1>4, <2>1, <2>2 DEF ResultInv
  <2>3. ASSUME NEW t \in Tasks, NEW s \in Terminal, Ends(t, s) PROVE ResultInv'
    <3>1. /\ rx' = Append(rx, Result(t, s))
          /\ Result(t, s) \in Results
          /\ Result(t, s).task = t /\ Result(t, s).state = s
          /\ record' = [record EXCEPT ![t] = s]
      BY <1>1, <2>3, EndsFacts
    <3>2. /\ Len(rx') = Len(rx) + 1
          /\ \A i \in 1..Len(rx) : rx'[i] = rx[i]
          /\ rx'[Len(rx) + 1].task = t /\ rx'[Len(rx) + 1].state = s
      BY <1>1, <3>1, AppendProperties
    <3>3. record'[t] = s
      BY <1>1, <3>1
    <3>4. \A i \in 1..Len(rx') : i \in 1..Len(rx) \/ i = Len(rx) + 1
      BY <1>1, <3>2
    <3>5. \A i \in 1..Len(rx') : rx'[i].state = record'[rx'[i].task]
      BY <1>4, <3>2, <3>3, <3>4
    <3> QED
      BY <1>4, <2>1, <3>5 DEF ResultInv
  <2> QED
    BY <1>6, <2>2, <2>3, RecordSteps
<1> QED
  BY <1>5, <1>6

\* What the receipt of a result adds to the failures and to the flag.
LEMMA SummaryReceive ==
    ASSUME TypeOK, SummaryInv, Receive
    PROVE  SummaryInv'
<1> DEFINE r == Head(rx)
           n == Len(Outcomes)
           f == report.failures
           p == Len(f)
           f1 == report'.failures
<1>1. /\ r \in Results
      /\ Outcomes \in Seq(Results)
      /\ Outcomes' = Append(Outcomes, r)
      /\ report' = Recorded(r)
  BY ReceiveFacts DEF Outcomes
<1>2. /\ n \in Nat /\ Len(Outcomes') = n + 1
      /\ \A i \in 1..n : Outcomes'[i] = Outcomes[i]
      /\ Outcomes'[n + 1] = r
  BY <1>1, AppendProperties, LenProperties
<1>3. /\ r.task \in Tasks /\ r.state \in Terminal
      /\ r = Result(r.task, r.state)
  BY <1>1 DEF Results, Result
<1>4. f \in Seq(Tasks) /\ p \in Nat
  BY LenProperties DEF TypeOK
<1>5. /\ f1 = IF r.state = "Failed" THEN Append(f, r.task) ELSE f
      /\ report'.cancelled = (report.cancelled \/ r.state = "Cancelled")
  BY <1>1 DEF Recorded
<1>6. /\ Len(f1) = IF r.state = "Failed" THEN p + 1 ELSE p
      /\ \A k \in 1..p : f1[k] = f[k]
      /\ r.state = "Failed" => f1[p + 1] = r.task
  BY <1>3, <1>4, <1>5, AppendProperties
<1>7. SummaryInv' <=>
      /\ \A i \in 1..Len(Outcomes') :
            Outcomes'[i].state = "Failed" =>
                \E k \in 1..Len(f1) : f1[k] = Outcomes'[i].task
      /\ \A k \in 1..Len(f1) :
            \E i \in 1..Len(Outcomes') :
               /\ Outcomes'[i] = Result(f1[k], "Failed")
               /\ \A l \in 1..(k - 1) :
                     \E j \in 1..(i - 1) : f1[l] = Outcomes'[j].task
      /\ report'.cancelled <=>
            \E i \in 1..Len(Outcomes') : Outcomes'[i].state = "Cancelled"
  BY DEF SummaryInv, Result
<1> HIDE DEF r, n, f, p, f1
<1>8. \A i \in 1..(n + 1) : i \in 1..n \/ i = n + 1
  BY <1>2
<1>9. ASSUME NEW i \in 1..(n + 1), Outcomes'[i].state = "Failed"
      PROVE  \E k \in 1..Len(f1) : f1[k] = Outcomes'[i].task
  <2>1. CASE i = n + 1
    <3>1. p + 1 \in 1..Len(f1) /\ f1[p + 1] = r.task
      BY <1>2, <1>4, <1>6, <1>9, <2>1
    <3> QED
      BY <1>2, <2>1, <3>1
  <2>2. CASE i \in 1..n
    <3>1. PICK k \in 1..p : f[k] = Outcomes[i].task
      BY <1>2, <1>9, <2>2 DEF SummaryInv, n, p, f
    <3>2. k \in 1..Len(f1) /\ f1[k] = f[k]
      BY <1>4, <1>6
    <3> QED
      BY <1>2, <2>2, <3>1, <3>2
  <2> QED
    BY <1>8, <2>1, <2>2
<1>10. ASSUME NEW k \in 1..p
       PROVE  \E i \in 1..n : f[k] = Outcomes[i].task
  <2>1. PICK i \in 1..n : Outcomes[i] = Result(f[k], "Failed")
    BY DEF SummaryInv, n, p, f
  <2>2. Result(f[k], "Failed").task = f[k]
    BY DEF Result
  <2> QED
    BY <2>1, <2>2
<1>11. ASSUME NEW k \in 1..Len(f1)
       PROVE  \E i \in 1..(n + 1) :
                 /\ Outcomes'[i] = Result(f1[k], "Failed")
                 /\ \A l \in 1..(k - 1) :
                       \E j \in 1..(i - 1) : f1[l] = Outcomes'[j].task
  <2>1. CASE k \in 1..p
    <3>1. PICK i \in 1..n :
             /\ Outcomes[i] = Result(f[k], "Failed")
             /\ \A l \in 1..(k - 1) : \E j \in 1..(i - 1) : f[l] = Outcomes[j].task
      BY <2>1 DEF SummaryInv, n, p, f
    <3>2. i \in 1..(n + 1) /\ Outcomes'[i] = Result(f1[k], "Failed")
      BY <1>2, <1>6, <2>1, <3>1
    <3>3. ASSUME NEW l \in 1..(k - 1)
          PROVE  \E j \in 1..(i - 1) : f1[l] = Outcomes'[j].task
      <4>1. PICK j \in 1..(i - 1) : f[l] = Outcomes[j].task
        BY <3>1
      <4>2. l \in 1..p /\ j \in 1..n
        BY <1>2, <1>4, <2>1
      <4> QED
        BY <1>2, <1>6, <4>1, <4>2
    <3> QED
      BY <3>2, <3>3
  <2>2. CASE k \notin 1..p
    <3>1. r.state = "Failed" /\ k = p + 1 /\ f1[k] = r.task
      BY <1>4, <1>6, <2>2
    <3>2. n + 1 \in 1..(n + 1) /\ Outcomes'[n + 1] = Result(f1[k], "Failed")
      BY <1>2, <1>3, <3>1
    <3>3. ASSUME NEW l \in 1..(k - 1)
          PROVE  \E j \in 1..((n + 1) - 1) : f1[l] = Outcomes'[j].task
      <4>1. l \in 1..p
        BY <1>4, <3>1
      <4>2. PICK j \in 1..n : f[l] = Outcomes[j].task
        BY <1>10, <4>1
      <4>3. j \in 1..((n + 1) - 1)
        BY <1>2
      <4> QED
        BY <1>2, <1>6, <4>1, <4>2, <4>3
    <3> QED
      BY <3>2, <3>3
  <2> QED
    BY <2>1, <2>2
<1>12. report'.cancelled <=>
          \E i \in 1..(n + 1) : Outcomes'[i].state = "Cancelled"
  <2>1. report.cancelled <=> \E i \in 1..n : Outcomes[i].state = "Cancelled"
    BY DEF SummaryInv, n
  <2>2. n + 1 \in 1..(n + 1) /\ \A i \in 1..n : i \in 1..(n + 1)
    BY <1>2
  <2> QED
    BY <1>2, <1>5, <1>8, <2>1, <2>2
<1> QED
  BY <1>2, <1>7, <1>9, <1>11, <1>12

\* Nothing but the receipt of a result changes the summary.
LEMMA SummaryStep ==
    ASSUME SlotInv, StoryInv, SummaryInv, [Next]_vars
    PROVE  SummaryInv'
<1>1. CASE Receive
  BY <1>1, SummaryReceive DEF SlotInv
<1>2. CASE ~Receive
  <2>1. /\ Outcomes' = Outcomes
        /\ report'.failures = report.failures
        /\ report'.cancelled = report.cancelled
    BY <1>2, RecordSteps DEF Outcomes
  <2> QED
    BY <2>1 DEF SummaryInv
<1> QED
  BY <1>1, <1>2

\* At the start there is nothing to tell.
LEMMA StoryInit == Init => StoryInv /\ ResultInv /\ SummaryInv
<1> SUFFICES ASSUME Init PROVE StoryInv /\ ResultInv /\ SummaryInv
  OBVIOUS
<1>1. StoryInv
  BY DEF Init, StoryInv
<1>2. Len(Outcomes) = 0 /\ Len(rx) = 0 /\ Len(report.failures) = 0
  BY EmptySeq DEF Init, EmptyReport, Outcomes
<1>3. ~report.cancelled
  BY DEF Init, EmptyReport
<1>4. ResultInv
  BY <1>2 DEF ResultInv
<1>5. SummaryInv
  BY <1>2, <1>3 DEF SummaryInv
<1> QED
  BY <1>1, <1>4, <1>5

\* The places, the records and the report are kept together by every step.
THEOREM ReportInvariant == Spec => []ReportInv
<1>1. Init => ReportInv
  BY PlaceInit, StoryInit DEF ReportInv
<1>2. SlotInv /\ ReportInv /\ [Next]_vars => ReportInv'
  BY PlaceStep, StoryStep, ResultStep, SummaryStep DEF ReportInv
<1> QED
  BY <1>1, <1>2, SlotInvariant, PTL DEF Spec

\* The report of run() and the records of TaskService are kept apart and tell
\* the same: each outcome is its task's record, the failures are the failed
\* outcomes in their order, and cancelled is set iff an outcome was.
THEOREM ReportTellsRecords == Spec => []ReportMatchesRecords
<1>1. ReportInv => ReportMatchesRecords
  <2> SUFFICES ASSUME ReportInv PROVE ReportMatchesRecords
    OBVIOUS
  <2>1. \A i \in 1..Len(Outcomes) : Outcomes[i].state = record[Outcomes[i].task]
    BY DEF ReportInv, ResultInv
  <2>2. ASSUME NEW k \in 1..Len(report.failures)
        PROVE  \E i \in 1..Len(Outcomes) :
                  /\ Outcomes[i] = Result(report.failures[k], "Failed")
                  /\ \A l \in 1..(k - 1) :
                        report.failures[l] \in {Outcomes[j].task : j \in 1..(i - 1)}
    <3>1. PICK i \in 1..Len(Outcomes) :
             /\ Outcomes[i] = Result(report.failures[k], "Failed")
             /\ \A l \in 1..(k - 1) :
                   \E j \in 1..(i - 1) : report.failures[l] = Outcomes[j].task
      BY DEF ReportInv, SummaryInv
    <3> QED
      BY <3>1
  <2> QED
    BY <2>1, <2>2 DEF ReportInv, SummaryInv, ReportMatchesRecords, Outcomes
<1> QED
  BY <1>1, ReportInvariant, PTL


-----------------------------------------------------------------------------
(* TaskPool.                                                               *)

\* The abstract state is a function of these.
LEMMA PoolStutters ==
    ASSUME record' = record, report'.outcomes = report.outcomes,
           pc \in {"rollback", "done"} <=> pc' \in {"rollback", "done"}
    PROVE  UNCHANGED Pool!vars
BY DEF Pool!vars, TasksOf

\* The first poll of a task is Start: its slot is one of at most Limit.
LEMMA StartRefines ==
    ASSUME SlotInv, StoryInv, WithinLimits, LoopDrains, NEW t \in Tasks, Start(t)
    PROVE  Pool!Start(t)
<1>1. /\ TypeOK /\ co \in [Tasks -> CoStates] /\ record \in [Tasks -> TaskStates]
  BY DEF SlotInv, TypeOK
<1>2. /\ co[t] = "spawned"
      /\ record' = [record EXCEPT ![t] = "Running"]
      /\ UNCHANGED <<pc, report>>
  BY DEF Start, ServiceStart, SetTaskState, reportVars
<1>3. record[t] = "Pending"
  BY <1>2 DEF StoryInv
<1>4. t \in Live /\ t \in InFlight
  BY <1>2 DEF Live, InFlight
<1>5. pc \notin {"rollback", "done"}
  BY <1>4 DEF LoopDrains
<1>6. Cardinality(Pool!Running) < GlobalLimit
  <2>1. Pool!Running \in SUBSET (Live \ {t})
    BY <1>1, <1>3 DEF Pool!Running, StoryInv, Live, CoStates, Terminal
  <2>2. IsFiniteSet(Live)
    <3>1. Live \subseteq Tasks
      BY DEF Live
    <3> QED
      BY <3>1, TasksAssumption, FS_Subset
  <2>3. /\ IsFiniteSet(Live \ {t})
        /\ Cardinality(Live \ {t}) = Cardinality(Live) - 1
    BY <1>4, <2>2, FS_RemoveElement
  <2>4. /\ IsFiniteSet(Pool!Running)
        /\ Cardinality(Pool!Running) <= Cardinality(Live \ {t})
    BY <2>1, <2>3, FS_Subset
  <2>5. /\ Cardinality(Live) \in Nat
        /\ Cardinality(Live \ {t}) \in Nat
        /\ Cardinality(Pool!Running) \in Nat
    BY <2>2, <2>3, <2>4, FS_CardinalityType
  <2>6. Cardinality(Live) <= GlobalLimit
    BY DEF WithinLimits
  <2>7. \A a, b, c, d \in Int : a <= b /\ b = c - 1 /\ c <= d => a < d
    OBVIOUS
  <2>8. GlobalLimit \in Nat
    BY LimitsType
  <2> QED
    BY <2>3, <2>4, <2>5, <2>6, <2>7, <2>8
<1>7. TasksOf(report.outcomes)' = TasksOf(report.outcomes)
  BY <1>2 DEF TasksOf
<1>8. Pool!Cardinality(Pool!Running) = Cardinality(Pool!Running)
  BY DEF Pool!Cardinality, Cardinality
<1>9. Pool!Cardinality(Pool!Running) < GlobalLimit
  BY <1>6, <1>8
<1> QED
  BY <1>2, <1>3, <1>5, <1>7, <1>9 DEF Pool!Start

\* A task that settles is Finish.
LEMMA EndsRefines ==
    ASSUME SlotInv, StoryInv, LoopDrains,
           NEW t \in Tasks, NEW s \in Terminal, Ends(t, s)
    PROVE  Pool!Finish(t, s)
<1>1. TypeOK
  BY DEF SlotInv
<1>2. /\ co[t] \in {"attempt", "delay"}
      /\ record' = [record EXCEPT ![t] = s]
      /\ UNCHANGED <<pc, report>>
  BY <1>1, EndsFacts DEF reportVars
<1>3. record[t] = "Running"
  BY <1>2 DEF StoryInv
<1>4. t \in InFlight
  BY <1>2 DEF Live, InFlight
<1>5. pc \notin {"rollback", "done"}
  BY <1>4 DEF LoopDrains
<1>6. TasksOf(report.outcomes)' = TasksOf(report.outcomes)
  BY <1>2 DEF TasksOf
<1> QED
  BY <1>2, <1>3, <1>5, <1>6 DEF Pool!Finish

\* The receipt of a result is Report, of a task not reported before.
LEMMA ReceiveRefines ==
    ASSUME SlotInv, PlaceInv, StoryInv, Receive
    PROVE  \E t \in Tasks : Pool!Report(t)
<1> DEFINE r == Head(rx)
<1>1. TypeOK
  BY DEF SlotInv
<1>2. /\ pc = "select" /\ pc' = "load"
      /\ rx # <<>> /\ r \in Results
      /\ Outcomes \in Seq(Results)
      /\ Outcomes' = Append(Outcomes, r)
      /\ record' = record
  BY <1>1, ReceiveFacts DEF Outcomes
<1>3. r.task \in TasksOf(rx)
  BY <1>2, ChannelFacts, TasksOfTail
<1>4. r.task \in Tasks /\ co[r.task] = "ended"
  BY <1>3, ChannelFacts
<1>5. record[r.task] \in Terminal /\ r.task \notin TasksOf(Outcomes)
  BY <1>3, <1>4 DEF StoryInv, PlaceInv
<1>6. TasksOf(Append(Outcomes, r)) = TasksOf(Outcomes) \cup {r.task}
  BY <1>2, TasksOfAppend
<1>7. TasksOf(report.outcomes)' = TasksOf(Outcomes')
  BY DEF TasksOf, Outcomes
<1>8. Pool!Terminal = Terminal
  BY DEF Pool!Terminal, Terminal
<1> HIDE DEF r
<1>9. Pool!Report(r.task)
  BY <1>2, <1>5, <1>6, <1>7, <1>8 DEF Pool!Report, Outcomes
<1> QED
  BY <1>4, <1>9

\* Leaving the loop is Return: what was started has been reported.
LEMMA ReturnRefines ==
    ASSUME SlotInv, PlaceInv, StoryInv, Idle,
           pc \notin {"rollback", "done"}, pc' \in {"rollback", "done"}
    PROVE  Pool!Return
<1>1. /\ TypeOK /\ co \in [Tasks -> CoStates]
  BY DEF SlotInv, TypeOK
<1>2. globalRunning = 0
  BY DEF Idle
<1>3. InFlight = {}
  <2>1. IsFiniteSet(InFlight) /\ Cardinality(InFlight) = 0
    BY <1>1, <1>2, InFlightFinite DEF SlotInv, SlotsAgree
  <2> QED
    BY <2>1, FS_EmptySet
<1>4. ASSUME NEW t \in Tasks, record[t] \in {"Running"} \cup Terminal
      PROVE  t \in TasksOf(Outcomes)
  <2>1. t \notin Live /\ t \notin TasksOf(rx)
    BY <1>3 DEF InFlight
  <2>2. co[t] \in {"none", "ended"}
    BY <1>1, <2>1 DEF Live, CoStates
  <2>3. co[t] = "ended"
    BY <1>4, <2>2 DEF StoryInv, Terminal
  <2> QED
    BY <2>1, <2>3 DEF PlaceInv
<1>5. record' = record /\ report' = report
  BY DEF Idle, reportVars
<1>6. TasksOf(report.outcomes)' = TasksOf(report.outcomes)
  BY <1>5 DEF TasksOf
<1>7. Pool!Terminal = Terminal
  BY DEF Pool!Terminal, Terminal
<1> QED
  BY <1>4, <1>5, <1>6, <1>7 DEF Pool!Return, Outcomes

\* Every step of run_inner is a step of TaskPool or leaves its state alone.
LEMMA StepRefines ==
    ASSUME SlotInv, PlaceInv, StoryInv, WithinLimits, LoopDrains, [Next]_vars
    PROVE  [Pool!Next]_(Pool!vars)
<1>1. TypeOK
  BY DEF SlotInv
<1>2. ASSUME NEW t \in Tasks, AddTask(t) PROVE Pool!Next
  <2>1. /\ record[t] = "Unregistered"
        /\ record' = [record EXCEPT ![t] = "Pending"]
        /\ UNCHANGED <<pc, report>>
    BY <1>2 DEF AddTask, ServiceRegister, SetTaskState, reportVars
  <2>2. TasksOf(report.outcomes)' = TasksOf(report.outcomes)
    BY <2>1 DEF TasksOf
  <2>3. Pool!Register(t)
    BY <2>1, <2>2 DEF Pool!Register
  <2> QED
    BY <2>3 DEF Pool!Next
<1>3. ASSUME NEW t \in Tasks, Dispatch(t) PROVE UNCHANGED Pool!vars
  BY <1>3, DispatchFacts, PoolStutters DEF reportVars
<1>4. ASSUME NEW t \in Tasks, Start(t) PROVE Pool!Next
  BY <1>4, StartRefines DEF Pool!Next
<1>5. ASSUME NEW t \in Tasks, Again(t) PROVE UNCHANGED Pool!vars
  BY <1>5, PoolStutters DEF Again, reportVars
<1>6. ASSUME NEW t \in Tasks, NEW s \in Terminal, Ends(t, s) PROVE Pool!Next
  <2>1. Pool!Finish(t, s)
    BY <1>6, EndsRefines
  <2>2. s \in Pool!Terminal
    BY DEF Pool!Terminal, Terminal
  <2> QED
    BY <2>1, <2>2 DEF Pool!Next
<1>7. CASE Receive
  BY <1>7, ReceiveRefines DEF Pool!Next
<1>8. ASSUME NEW ok \in BOOLEAN, RunRollback(ok) PROVE UNCHANGED Pool!vars
  <2>1. record' = record /\ report'.outcomes = report.outcomes /\ pc' = pc
    BY <1>8 DEF RunRollback, ServiceRollback
  <2> QED
    BY <2>1, PoolStutters
<1>9. CASE Idle
  <2>1. record' = record /\ report'.outcomes = report.outcomes
    BY <1>9 DEF Idle, reportVars
  <2>2. CASE pc \notin {"rollback", "done"} /\ pc' \in {"rollback", "done"}
    BY <1>9, <2>2, ReturnRefines DEF Pool!Next
  <2>3. CASE pc \in {"rollback", "done"} <=> pc' \in {"rollback", "done"}
    BY <2>1, <2>3, PoolStutters
  <2>4. pc \in {"rollback", "done"} => pc' \in {"rollback", "done"}
    BY <1>9 DEF Idle
  <2> QED
    BY <2>2, <2>3, <2>4
<1> QED
  BY <1>1, <1>2, <1>3, <1>4, <1>5, <1>6, <1>7, <1>8, <1>9, StepShapes

\* run_inner implements TaskPool, for any tasks, limits and options and with
\* control operations on any thread: a task starts at most once and within the
\* limit, ends in one final state, is reported once, and run() leaves its loop
\* only when all it started has been reported.
THEOREM TaskPoolImplemented == Spec => ImplementsTaskPool
<1>1. Init => Pool!Init
  <2> SUFFICES ASSUME Init PROVE Pool!Init
    OBVIOUS
  <2>1. TasksOf(report.outcomes) = {}
    BY EmptySeq DEF Init, EmptyReport, TasksOf
  <2> QED
    BY <2>1 DEF Init, Pool!Init
<1>2. SlotInv /\ ReportInv /\ WithinLimits /\ LoopDrains /\ [Next]_vars
        => [Pool!Next]_(Pool!vars)
  BY StepRefines DEF ReportInv
<1> QED
  BY <1>1, <1>2, SlotInvariant, ReportInvariant, LimitsHold, NothingLeftBehind, PTL
  DEF Spec, ImplementsTaskPool, Pool!Spec


-----------------------------------------------------------------------------
(* The history.                                                            *)

\* History g is h with something after it.
Grows(h, g) ==
    /\ Len(h) \in Nat /\ Len(g) \in Nat /\ Len(h) <= Len(g)
    /\ \A i \in 1..Len(h) : g[i] = h[i]

\* The order of two ends does not change while the first task ends no more.
LEMMA BeforeKept ==
    ASSUME NEW h, NEW g, Grows(h, g), NEW t, NEW u,
           \A i \in 1..Len(g) : EndsAt(g, i, t) => i \in 1..Len(h),
           EndedBefore(h, t, u)
    PROVE  EndedBefore(g, t, u)
<1> SUFFICES ASSUME NEW i \in 1..Len(g), NEW j \in 1..Len(g),
                    EndsAt(g, i, t), EndsAt(g, j, u)
             PROVE  i < j
  BY DEF EndedBefore
<1>1. i \in 1..Len(h) /\ EndsAt(h, i, t)
  BY DEF EndsAt, Grows
<1>2. CASE j \in 1..Len(h)
  <2>1. EndsAt(h, j, u)
    BY <1>2 DEF EndsAt, Grows
  <2> QED
    BY <1>1, <1>2, <2>1 DEF EndedBefore
<1>3. CASE j \notin 1..Len(h)
  BY <1>1, <1>3 DEF Grows
<1> QED
  BY <1>2, <1>3

\* A task that ends now ends after those that have ended.
LEMMA BeforeNew ==
    ASSUME NEW h, NEW g, Grows(h, g), NEW t, NEW u,
           \A i \in 1..Len(g) : EndsAt(g, i, t) => i \in 1..Len(h),
           \A i \in 1..Len(h) : ~EndsAt(h, i, u)
    PROVE  EndedBefore(g, t, u)
<1>1. EndedBefore(h, t, u)
  BY DEF EndedBefore
<1> QED
  BY <1>1, BeforeKept

\* One event more.
LEMMA OneEvent ==
    ASSUME TypeOK, NEW t \in Tasks, NEW k \in EventKinds, EmitEvents(t, <<k>>)
    PROVE  /\ Grows(events, events')
           /\ Len(events') = Len(events) + 1
           /\ events'[Len(events) + 1].task = t
           /\ events'[Len(events) + 1].kind = k
<1> DEFINE new == [i \in 1..Len(<<k>>) |-> Event(t, <<k>>[i])]
           n == Len(events)
<1>1. events \in Seq(Events) /\ n \in Nat
  BY LenProperties DEF TypeOK, Events
<1>2. new \in Seq(Events) /\ Len(new) = 1 /\ new[1] = Event(t, k)
  BY DEF Event, Events
<1>3. events' = events \o new
  BY DEF EmitEvents
<1> HIDE DEF new
<1>4. /\ Len(events') = n + 1
      /\ \A i \in 1..(n + 1) : events'[i] = IF i <= n THEN events[i] ELSE new[i - n]
  <2>1. /\ Len(events \o new) = n + Len(new)
        /\ \A i \in 1..n + Len(new) :
              (events \o new)[i] = IF i <= n THEN events[i] ELSE new[i - n]
    BY <1>1, <1>2, ConcatProperties
  <2> QED
    BY <1>1, <1>2, <1>3, <2>1
<1>5. \A i \in 1..n : events'[i] = events[i]
  BY <1>1, <1>4
<1>6. events'[n + 1] = Event(t, k)
  BY <1>1, <1>2, <1>4
<1> QED
  BY <1>1, <1>4, <1>5, <1>6 DEF Grows, Event

\* Two events more.
LEMMA TwoEvents ==
    ASSUME TypeOK, NEW t \in Tasks, NEW k \in EventKinds, NEW l \in EventKinds,
           EmitEvents(t, <<k, l>>)
    PROVE  /\ Grows(events, events')
           /\ Len(events') = Len(events) + 2
           /\ events'[Len(events) + 1].task = t
           /\ events'[Len(events) + 1].kind = k
           /\ events'[Len(events) + 2].task = t
           /\ events'[Len(events) + 2].kind = l
<1> DEFINE new == [i \in 1..Len(<<k, l>>) |-> Event(t, <<k, l>>[i])]
           n == Len(events)
<1>1. events \in Seq(Events) /\ n \in Nat
  BY LenProperties DEF TypeOK, Events
<1>2. /\ new \in Seq(Events) /\ Len(new) = 2
      /\ new[1] = Event(t, k) /\ new[2] = Event(t, l)
  BY DEF Event, Events
<1>3. events' = events \o new
  BY DEF EmitEvents
<1> HIDE DEF new
<1>4. /\ Len(events') = n + 2
      /\ \A i \in 1..(n + 2) : events'[i] = IF i <= n THEN events[i] ELSE new[i - n]
  <2>1. /\ Len(events \o new) = n + Len(new)
        /\ \A i \in 1..n + Len(new) :
              (events \o new)[i] = IF i <= n THEN events[i] ELSE new[i - n]
    BY <1>1, <1>2, ConcatProperties
  <2> QED
    BY <1>1, <1>2, <1>3, <2>1
<1>5. \A i \in 1..n : events'[i] = events[i]
  BY <1>1, <1>4
<1>6. events'[n + 1] = Event(t, k) /\ events'[n + 2] = Event(t, l)
  BY <1>1, <1>2, <1>4
<1> QED
  BY <1>1, <1>4, <1>5, <1>6 DEF Grows, Event

\* Nothing ends: the events that are new are not ends, nor are the records.
Quiet ==
    /\ Grows(events, events')
    /\ \A i \in 1..Len(events') :
          i \in 1..Len(events) \/ events'[i].kind \notin Terminal
    /\ \A t \in Tasks : record[t] \in Terminal \/ record'[t] \in Terminal
                            => record'[t] = record[t]

\* What is left of a stack when its top is popped.
LEMMA PopProperties ==
    ASSUME NEW stack \in Seq(Tasks), stack # <<>>
    PROVE  LET rest == SubSeq(stack, 1, Len(stack) - 1)
           IN  /\ Len(rest) = Len(stack) - 1
               /\ \A m \in 1..Len(rest) : rest[m] = stack[m]
<1>1. Len(stack) \in Nat \ {0}
  BY EmptySeq
<1>2. PICK n \in Nat : Len(stack) = n + 1
  <2>1. \A l \in Nat \ {0} : l - 1 \in Nat /\ l = (l - 1) + 1
    OBVIOUS
  <2> QED
    BY <1>1, <2>1
<1>3. Len(stack) - 1 = n
  BY <1>2
<1>4. \A m \in 1..n : stack[m] \in Tasks
  BY <1>2, ElementOfSeq
<1> DEFINE rest == SubSeq(stack, 1, n)
<1>5. /\ Len(rest) = IF 1 <= n THEN n - 1 + 1 ELSE 0
      /\ \A m \in 1..(n - 1 + 1) : rest[m] = stack[1 + m - 1]
  BY <1>4, SubSeqProperties
<1> HIDE DEF rest
<1>6. Len(rest) = n /\ \A m \in 1..n : rest[m] = stack[m]
  BY <1>5
<1> QED
  BY <1>3, <1>6 DEF rest

\* A rollback starts and ends.
LEMMA RollbackFacts ==
    ASSUME TypeOK, NEW ok \in BOOLEAN, RunRollback(ok)
    PROVE  /\ pc = "rollback" /\ pc' = pc
           /\ RollbackNeeded /\ RollbackNeeded'
           /\ Len(rollbackStack) \in Nat \ {0}
           /\ rollbackStack[Len(rollbackStack)] \in Tasks
           /\ Len(rollbackStack') = Len(rollbackStack) - 1
           /\ \A m \in 1..Len(rollbackStack') : rollbackStack'[m] = rollbackStack[m]
           /\ Grows(events, events')
           /\ Len(events') = Len(events) + 2
           /\ events'[Len(events) + 1].task = rollbackStack[Len(rollbackStack)]
           /\ events'[Len(events) + 1].kind = "RollbackStarted"
           /\ events'[Len(events) + 2].kind \in {"RollbackCompleted", "RollbackFailed"}
           /\ Quiet
           /\ Outcomes' = Outcomes
           /\ UNCHANGED <<co, rx, record>>
<1> DEFINE L == Len(rollbackStack)
           t == rollbackStack[L]
           kind == IF ok THEN "RollbackCompleted" ELSE "RollbackFailed"
<1>1. /\ rollbackStack \in Seq(Tasks) /\ L \in Nat \ {0} /\ t \in Tasks
  BY EmptySeq, ElementOfSeq DEF RunRollback, TypeOK
<1>2. /\ pc = "rollback" /\ pc' = pc /\ RollbackNeeded
      /\ report'.failures = report.failures
      /\ report'.cancelled = report.cancelled
      /\ report'.outcomes = report.outcomes
      /\ UNCHANGED <<co, rx, record>>
      /\ EmitEvents(t, <<"RollbackStarted", kind>>)
      /\ rollbackStack' = SubSeq(rollbackStack, 1, L - 1)
  BY DEF RunRollback, ServiceRollback
<1>3. RollbackNeeded'
  BY <1>2 DEF RollbackNeeded
<1>4. /\ Len(rollbackStack') = L - 1
      /\ \A m \in 1..Len(rollbackStack') : rollbackStack'[m] = rollbackStack[m]
  <2>1. rollbackStack # <<>>
    BY DEF RunRollback
  <2> QED
    BY <1>1, <1>2, <2>1, PopProperties
<1>5. "RollbackStarted" \in EventKinds /\ kind \in EventKinds
  BY DEF EventKinds
<1> HIDE DEF kind, t
<1>6. /\ Grows(events, events')
      /\ Len(events') = Len(events) + 2
      /\ events'[Len(events) + 1].task = t
      /\ events'[Len(events) + 1].kind = "RollbackStarted"
      /\ events'[Len(events) + 2].kind = kind
  BY <1>1, <1>2, <1>5, TwoEvents
<1>7. \A i \in 1..Len(events') :
         i \in 1..Len(events) \/ i = Len(events) + 1 \/ i = Len(events) + 2
  BY <1>6 DEF Grows
<1>8. kind \in {"RollbackCompleted", "RollbackFailed"}
  BY DEF kind
<1>9. Quiet
  BY <1>2, <1>6, <1>7, <1>8 DEF Quiet, Terminal
<1> QED
  BY <1>1, <1>2, <1>3, <1>4, <1>6, <1>8, <1>9 DEF Outcomes, t

\* What a task's end adds to the history.
LEMMA EndsHistory ==
    ASSUME TypeOK, NEW t \in Tasks, NEW s \in Terminal, Ends(t, s)
    PROVE  /\ Grows(events, events')
           /\ Len(events') = Len(events) + 1
           /\ events'[Len(events) + 1].task = t
           /\ events'[Len(events) + 1].kind = s
<1>1. EmitEvents(t, <<s>>)
  BY DEF Ends, Settle, ServiceSettle
<1>2. s \in EventKinds
  BY DEF EventKinds
<1> QED
  BY <1>1, <1>2, OneEvent

\* Every step but an end and a rollback adds at most Started events.
LEMMA QuietSteps ==
    ASSUME SlotInv, StoryInv, [Next]_vars
    PROVE  \/ \E t \in Tasks, s \in Terminal : Ends(t, s)
           \/ \E ok \in BOOLEAN : RunRollback(ok)
           \/ /\ Quiet
              /\ \A i \in 1..Len(events') :
                    i \in 1..Len(events) \/ events'[i].kind = "Started"
              /\ \/ Receive
                 \/ UNCHANGED <<rx, report, rollbackStack>>
<1>1. /\ TypeOK /\ record \in [Tasks -> TaskStates]
      /\ events \in Seq(Events) /\ Len(events) \in Nat
  <2>1. TypeOK /\ events \in Seq(Events)
    BY DEF SlotInv, TypeOK, Events
  <2> QED
    BY <2>1, LenProperties DEF TypeOK
<1> DEFINE Goal == /\ Quiet
                   /\ \A i \in 1..Len(events') :
                         i \in 1..Len(events) \/ events'[i].kind = "Started"
<1>2. ASSUME events' = events,
             \A t \in Tasks : record[t] \in Terminal \/ record'[t] \in Terminal
                                  => record'[t] = record[t]
      PROVE  Goal
  BY <1>1, <1>2 DEF Quiet, Grows
<1>3. ASSUME NEW t \in Tasks, AddTask(t)
      PROVE  Goal /\ UNCHANGED <<rx, report, rollbackStack>>
  <2>1. /\ record[t] = "Unregistered"
        /\ record' = [record EXCEPT ![t] = "Pending"]
        /\ UNCHANGED <<events, rx, report, rollbackStack>>
    BY <1>3 DEF AddTask, ServiceRegister, SetTaskState, reportVars
  <2>2. \A u \in Tasks : record[u] \in Terminal \/ record'[u] \in Terminal
                             => record'[u] = record[u]
    BY <1>1, <2>1 DEF Terminal
  <2> QED
    BY <1>2, <2>1, <2>2
<1>4. ASSUME NEW t \in Tasks, Dispatch(t)
      PROVE  Goal /\ UNCHANGED <<rx, report, rollbackStack>>
  BY <1>2, <1>4, DispatchFacts DEF reportVars
<1>5. ASSUME NEW t \in Tasks, Start(t)
      PROVE  Goal /\ UNCHANGED <<rx, report, rollbackStack>>
  <2>1. /\ co[t] = "spawned"
        /\ record' = [record EXCEPT ![t] = "Running"]
        /\ EmitEvents(t, <<"Started">>)
        /\ UNCHANGED <<rx, report, rollbackStack>>
    BY <1>5 DEF Start, ServiceStart, SetTaskState, reportVars
  <2>2. record[t] = "Pending"
    BY <2>1 DEF StoryInv
  <2>3. "Started" \in EventKinds
    BY DEF EventKinds
  <2>4. /\ Grows(events, events')
        /\ Len(events') = Len(events) + 1
        /\ events'[Len(events) + 1].kind = "Started"
    BY <1>1, <2>1, <2>3, OneEvent
  <2>5. \A i \in 1..Len(events') : i \in 1..Len(events) \/ i = Len(events) + 1
    BY <1>1, <2>4
  <2>6. \A u \in Tasks : record[u] \in Terminal \/ record'[u] \in Terminal
                             => record'[u] = record[u]
    BY <1>1, <2>1, <2>2 DEF Terminal
  <2> QED
    BY <2>1, <2>4, <2>5, <2>6 DEF Quiet, Terminal
<1>6. ASSUME NEW t \in Tasks, Again(t)
      PROVE  Goal /\ UNCHANGED <<rx, report, rollbackStack>>
  BY <1>2, <1>6 DEF Again, reportVars
<1>7. ASSUME Receive PROVE Goal
  <2>1. UNCHANGED <<events, record>>
    BY <1>7 DEF Receive
  <2> QED
    BY <1>2, <2>1
<1>8. ASSUME Idle PROVE Goal /\ UNCHANGED <<rx, report, rollbackStack>>
  <2>1. UNCHANGED <<events, record, rx, report, rollbackStack>>
    BY <1>8 DEF Idle, reportVars
  <2> QED
    BY <1>2, <2>1
<1> HIDE DEF Goal
<1>9. \/ \E t \in Tasks, s \in Terminal : Ends(t, s)
      \/ \E ok \in BOOLEAN : RunRollback(ok)
      \/ Goal /\ (Receive \/ UNCHANGED <<rx, report, rollbackStack>>)
  BY <1>1, <1>3, <1>4, <1>5, <1>6, <1>7, <1>8, StepShapes
<1> QED
  BY <1>9 DEF Goal

\* A running task has no end in the history.
LEMMA NotEndedYet ==
    ASSUME EndInv, NEW t \in Tasks, record[t] \notin Terminal
    PROVE  \A i \in 1..Len(events) : ~EndsAt(events, i, t)
BY DEF EndInv, EndsAt

\* What is quiet ends nobody.
LEMMA QuietEnds ==
    ASSUME TypeOK, EndInv, Quiet
    PROVE  EndInv'
<1>1. /\ \A i \in 1..Len(events) :
            events[i].task \in Tasks /\ events'[i] = events[i] /\ i \in 1..Len(events')
      /\ \A i \in 1..Len(events') :
            events'[i].kind \in Terminal => i \in 1..Len(events)
  <2>1. \A i \in 1..Len(events) : events[i] \in Events
    BY ElementOfSeq DEF TypeOK, Events
  <2> QED
    BY <2>1 DEF Quiet, Grows, Events
<1>2. ASSUME NEW i \in 1..Len(events'), events'[i].kind \in Terminal
      PROVE  record'[events'[i].task] = events'[i].kind
  BY <1>1, <1>2 DEF EndInv, Quiet
<1>3. ASSUME NEW i \in 1..Len(events'), NEW j \in 1..Len(events'),
             events'[i].kind \in Terminal, events'[j].kind \in Terminal,
             events'[i].task = events'[j].task
      PROVE  i = j
  BY <1>1, <1>3 DEF EndInv
<1>4. ASSUME NEW t \in Tasks, record'[t] \in Terminal
      PROVE  \E i \in 1..Len(events') : EndsAt(events', i, t)
  <2>1. record[t] \in Terminal
    BY <1>4 DEF Quiet
  <2>2. PICK i \in 1..Len(events) : EndsAt(events, i, t)
    BY <2>1 DEF EndInv
  <2> QED
    BY <1>1, <2>2 DEF EndsAt
<1> QED
  BY <1>2, <1>3, <1>4 DEF EndInv

\* A task that settles ends once, as it is recorded.
LEMMA EndsEnd ==
    ASSUME SlotInv, StoryInv, EndInv, NEW t \in Tasks, NEW s \in Terminal, Ends(t, s)
    PROVE  EndInv'
<1> DEFINE n == Len(events)
<1>1. TypeOK /\ record \in [Tasks -> TaskStates]
  BY DEF SlotInv, TypeOK
<1>2. /\ record' = [record EXCEPT ![t] = s] /\ co[t] \in {"attempt", "delay"}
  BY <1>1, EndsFacts
<1>3. /\ n \in Nat /\ Len(events') = n + 1
      /\ \A i \in 1..n : events'[i] = events[i]
      /\ events'[n + 1].task = t /\ events'[n + 1].kind = s
  BY <1>1, EndsHistory DEF Grows
<1>4. record[t] \notin Terminal
  BY <1>2 DEF StoryInv, Terminal
<1>5. \A i \in 1..n : events[i].task = t => events[i].kind \notin Terminal
  BY <1>4, NotEndedYet DEF EndsAt
<1>6. \A i \in 1..n : events[i].task \in Tasks
  <2>1. \A i \in 1..n : events[i] \in Events
    BY <1>1, ElementOfSeq DEF TypeOK, Events
  <2> QED
    BY <2>1 DEF Events
<1>7. /\ \A i \in 1..(n + 1) : i \in 1..n \/ i = n + 1
      /\ \A i \in 1..n : i \in 1..(n + 1)
      /\ n + 1 \in 1..(n + 1)
  BY <1>3
<1> HIDE DEF n
<1>8. ASSUME NEW i \in 1..(n + 1), events'[i].kind \in Terminal
      PROVE  record'[events'[i].task] = events'[i].kind
  <2>1. CASE i = n + 1
    BY <1>1, <1>2, <1>3, <2>1
  <2>2. CASE i \in 1..n
    <3>1. events[i].task # t /\ events[i].task \in Tasks
      BY <1>3, <1>5, <1>6, <1>8, <2>2
    <3>2. record'[events[i].task] = record[events[i].task]
      BY <1>1, <1>2, <3>1
    <3>3. record[events[i].task] = events[i].kind
      BY <1>3, <1>8, <2>2 DEF EndInv, n
    <3> QED
      BY <1>3, <2>2, <3>2, <3>3
  <2> QED
    BY <1>7, <2>1, <2>2
<1>9. ASSUME NEW i \in 1..(n + 1), NEW j \in 1..(n + 1),
             events'[i].kind \in Terminal, events'[j].kind \in Terminal,
             events'[i].task = events'[j].task
      PROVE  i = j
  <2>1. CASE i \in 1..n /\ j \in 1..n
    BY <1>3, <1>9, <2>1 DEF EndInv, n
  <2>2. CASE i = n + 1 /\ j \in 1..n
    BY <1>3, <1>5, <1>9, <2>2
  <2>3. CASE i \in 1..n /\ j = n + 1
    BY <1>3, <1>5, <1>9, <2>3
  <2> QED
    BY <1>7, <2>1, <2>2, <2>3
<1>10. ASSUME NEW u \in Tasks, record'[u] \in Terminal
       PROVE  \E i \in 1..(n + 1) : EndsAt(events', i, u)
  <2>1. CASE u = t
    BY <1>3, <1>7, <2>1 DEF EndsAt
  <2>2. CASE u # t
    <3>1. record[u] \in Terminal
      BY <1>1, <1>2, <1>10, <2>2
    <3>2. PICK i \in 1..n : EndsAt(events, i, u)
      BY <3>1 DEF EndInv, n
    <3> QED
      BY <1>3, <1>7, <3>2 DEF EndsAt
  <2> QED
    BY <2>1, <2>2
<1> QED
  BY <1>3, <1>8, <1>9, <1>10 DEF EndInv

\* One end each, and the one recorded: kept by every step.
LEMMA EndStep ==
    ASSUME SlotInv, StoryInv, EndInv, [Next]_vars
    PROVE  EndInv'
<1>1. TypeOK
  BY DEF SlotInv
<1>2. ASSUME NEW ok \in BOOLEAN, RunRollback(ok) PROVE Quiet
  BY <1>1, <1>2, RollbackFacts
<1> QED
  BY <1>1, <1>2, QuietSteps, QuietEnds, EndsEnd


-----------------------------------------------------------------------------
(* The order of ends, the stack of rollbacks and what was undone.          *)

\* Quiet steps, and ends of other tasks, do not change who ended before whom.
LEMMA QuietOrder ==
    ASSUME Quiet, NEW t, NEW u, EndedBefore(events, t, u)
    PROVE  EndedBefore(events', t, u)
<1>1. \A i \in 1..Len(events') : EndsAt(events', i, t) => i \in 1..Len(events)
  BY DEF Quiet, EndsAt
<1> QED
  BY <1>1, BeforeKept DEF Quiet

\* The tasks in the channel and on the stack have ended.
LEMMA EndedTasks ==
    ASSUME SlotInv, StackInv
    PROVE  /\ Len(rx) \in Nat /\ Len(rollbackStack) \in Nat
           /\ \A i \in 1..Len(rx) : rx[i].task \in Tasks /\ co[rx[i].task] = "ended"
           /\ \A m \in 1..Len(rollbackStack) :
                 /\ rollbackStack[m] \in Tasks
                 /\ record[rollbackStack[m]] = "Completed"
<1>1. TypeOK /\ rollbackStack \in Seq(Tasks)
  BY DEF SlotInv, TypeOK
<1>2. \A m \in 1..Len(rollbackStack) : rollbackStack[m] \in Tasks
  BY <1>1, ElementOfSeq
<1>3. Len(rx) \in Nat /\ \A i \in 1..Len(rx) : rx[i].task \in Tasks
  BY <1>1, ChannelType
<1>4. Len(rollbackStack) \in Nat
  BY <1>1, LenProperties
<1> QED
  BY <1>2, <1>3, <1>4 DEF SlotInv, StackInv

\* The receipt of a result moves its rollback behind those of earlier ends.
LEMMA ReceiveOrder ==
    ASSUME SlotInv, OrderInv, Quiet, Receive
    PROVE  OrderInv'
<1> DEFINE r == Head(rx)
           L == Len(rollbackStack)
<1>1. /\ TypeOK /\ rollbackStack \in Seq(Tasks)
  BY DEF SlotInv, TypeOK
<1>2. /\ rx # <<>> /\ rx' = Tail(rx) /\ r \in Results
      /\ rollbackStack' = Stacked(r)
      /\ events' = events
  BY <1>1, ReceiveFacts
<1>3. /\ r = rx[1] /\ Len(rx) \in Nat \ {0}
      /\ Len(rx') = Len(rx) - 1
      /\ \A i \in 1..Len(rx') : rx'[i] = rx[i + 1]
  BY <1>1, <1>2, HeadTailProperties, EmptySeq DEF TypeOK
<1>4. /\ 1 \in 1..Len(rx)
      /\ \A i \in 1..Len(rx') : i + 1 \in 1..Len(rx) /\ 1 < i + 1 /\ i \in Int
  BY <1>3
<1>5. L \in Nat
  BY <1>1, LenProperties
<1>6. \/ rollbackStack' = rollbackStack
      \/ /\ Len(rollbackStack') = L + 1
         /\ \A m \in 1..L : rollbackStack'[m] = rollbackStack[m]
         /\ rollbackStack'[L + 1] = r.task
  <2>1. r.task \in Tasks
    BY <1>2 DEF Results
  <2> QED
    BY <1>1, <1>2, <2>1, AppendProperties DEF Stacked
<1> HIDE DEF r
<1>7. ASSUME NEW i \in 1..Len(rx'), NEW j \in 1..Len(rx'), i < j
      PROVE  EndedBefore(events', rx'[i].task, rx'[j].task)
  <2>1. i + 1 < j + 1
    BY <1>4, <1>7
  <2> QED
    BY <1>2, <1>3, <1>4, <2>1 DEF OrderInv
<1>8. \A m \in 1..L, i \in 1..Len(rx') :
         EndedBefore(events, rollbackStack[m], rx'[i].task)
  BY <1>3, <1>4 DEF OrderInv
<1>9. \A i \in 1..Len(rx') : EndedBefore(events, r.task, rx'[i].task)
  BY <1>3, <1>4 DEF OrderInv
<1>10. \A m \in 1..L : EndedBefore(events, rollbackStack[m], r.task)
  BY <1>3, <1>4 DEF OrderInv
<1>11. CASE rollbackStack' = rollbackStack
  BY <1>2, <1>7, <1>8, <1>11 DEF OrderInv
<1>12. CASE rollbackStack' # rollbackStack
  <2>1. /\ Len(rollbackStack') = L + 1
        /\ \A m \in 1..L : rollbackStack'[m] = rollbackStack[m]
        /\ rollbackStack'[L + 1] = r.task
    BY <1>6, <1>12
  <2> HIDE DEF L
  <2>2. \A m \in 1..(L + 1) : m \in 1..L \/ m = L + 1
    BY <1>5
  <2>3. \A m \in 1..(L + 1), i \in 1..Len(rx') :
           EndedBefore(events', rollbackStack'[m], rx'[i].task)
    BY <1>2, <1>8, <1>9, <2>1, <2>2
  <2>4. ASSUME NEW m \in 1..(L + 1), NEW n \in 1..(L + 1), m < n
        PROVE  EndedBefore(events', rollbackStack'[m], rollbackStack'[n])
    <3>1. m \in 1..L
      BY <1>5, <2>4
    <3>2. CASE n \in 1..L
      BY <1>2, <2>1, <2>4, <3>1, <3>2 DEF OrderInv, L
    <3>3. CASE n = L + 1
      BY <1>2, <1>10, <2>1, <3>1, <3>3
    <3> QED
      BY <2>2, <3>2, <3>3
  <2> QED
    BY <1>7, <2>1, <2>3, <2>4 DEF OrderInv
<1> QED
  BY <1>11, <1>12

\* Channel and stack keep the order of ends.
LEMMA OrderStep ==
    ASSUME SlotInv, StoryInv, EndInv, StackInv, OrderInv, [Next]_vars
    PROVE  OrderInv'
<1>1. TypeOK /\ rx \in Seq(Results)
  BY DEF SlotInv, TypeOK
<1>2. /\ Len(rx) \in Nat /\ Len(rollbackStack) \in Nat
      /\ \A i \in 1..Len(rx) : rx[i].task \in Tasks /\ co[rx[i].task] = "ended"
      /\ \A m \in 1..Len(rollbackStack) :
            rollbackStack[m] \in Tasks /\ record[rollbackStack[m]] = "Completed"
  BY EndedTasks
<1>3. ASSUME NEW t \in Tasks, NEW s \in Terminal, Ends(t, s) PROVE OrderInv'
  <2>1. /\ co[t] \in {"attempt", "delay"}
        /\ rx' = Append(rx, Result(t, s)) /\ Result(t, s) \in Results
        /\ Result(t, s).task = t
        /\ rollbackStack' = rollbackStack
    BY <1>1, <1>3, EndsFacts DEF reportVars
  <2>2. record[t] = "Running"
    BY <2>1 DEF StoryInv
  <2>3. /\ Grows(events, events')
        /\ Len(events') = Len(events) + 1
        /\ events'[Len(events) + 1].task = t
    BY <1>1, <1>3, EndsHistory
  <2>4. \A i \in 1..Len(events') : i \in 1..Len(events) \/ i = Len(events) + 1
    BY <2>3 DEF Grows
  <2>5. ASSUME NEW u, u # t
        PROVE  \A i \in 1..Len(events') : EndsAt(events', i, u) => i \in 1..Len(events)
    BY <2>3, <2>4, <2>5 DEF EndsAt
  <2>6. \A u, v : u # t /\ EndedBefore(events, u, v) => EndedBefore(events', u, v)
    BY <2>3, <2>5, BeforeKept
  <2>7. \A i \in 1..Len(events) : ~EndsAt(events, i, t)
    BY <2>2, NotEndedYet DEF Terminal
  <2>8. \A u : u # t => EndedBefore(events', u, t)
    BY <2>3, <2>5, <2>7, BeforeNew
  <2>9. /\ \A i \in 1..Len(rx) : rx[i].task # t
        /\ \A m \in 1..Len(rollbackStack) : rollbackStack[m] # t
    BY <1>2, <2>1, <2>2
  <2>10. /\ Len(rx') = Len(rx) + 1
         /\ \A i \in 1..Len(rx) : rx'[i] = rx[i]
         /\ rx'[Len(rx) + 1].task = t
    BY <1>1, <2>1, AppendProperties
  <2>11. \A i \in 1..Len(rx') : i \in 1..Len(rx) \/ i = Len(rx) + 1
    BY <1>2, <2>10
  <2>12. ASSUME NEW i \in 1..Len(rx'), NEW j \in 1..Len(rx'), i < j
         PROVE  EndedBefore(events', rx'[i].task, rx'[j].task)
    <3>1. i \in 1..Len(rx)
      BY <1>2, <2>10, <2>12
    <3>2. CASE j \in 1..Len(rx)
      <4>1. EndedBefore(events, rx[i].task, rx[j].task)
        BY <2>12, <3>1, <3>2 DEF OrderInv
      <4> QED
        BY <2>6, <2>9, <2>10, <3>1, <3>2, <4>1
    <3>3. CASE j = Len(rx) + 1
      BY <2>8, <2>9, <2>10, <3>1, <3>3
    <3> QED
      BY <2>11, <3>2, <3>3
  <2>13. ASSUME NEW m \in 1..Len(rollbackStack), NEW i \in 1..Len(rx')
         PROVE  EndedBefore(events', rollbackStack[m], rx'[i].task)
    <3>1. CASE i \in 1..Len(rx)
      <4>1. EndedBefore(events, rollbackStack[m], rx[i].task)
        BY <3>1 DEF OrderInv
      <4> QED
        BY <2>6, <2>9, <2>10, <3>1, <4>1
    <3>2. CASE i = Len(rx) + 1
      BY <2>8, <2>9, <2>10, <3>2
    <3> QED
      BY <2>11, <3>1, <3>2
  <2>14. \A m, n \in 1..Len(rollbackStack) :
            m < n => EndedBefore(events', rollbackStack[m], rollbackStack[n])
    BY <2>6, <2>9 DEF OrderInv
  <2> QED
    BY <2>1, <2>12, <2>13, <2>14 DEF OrderInv
<1>4. ASSUME NEW ok \in BOOLEAN, RunRollback(ok) PROVE OrderInv'
  <2>1. /\ Len(rollbackStack) \in Nat \ {0}
        /\ Len(rollbackStack') = Len(rollbackStack) - 1
        /\ \A m \in 1..Len(rollbackStack') : rollbackStack'[m] = rollbackStack[m]
        /\ Quiet /\ rx' = rx
    BY <1>1, <1>4, RollbackFacts
  <2>2. \A t, u : EndedBefore(events, t, u) => EndedBefore(events', t, u)
    BY <2>1, QuietOrder
  <2>3. \A m \in 1..Len(rollbackStack') : m \in 1..Len(rollbackStack)
    BY <2>1
  <2> QED
    BY <2>1, <2>2, <2>3 DEF OrderInv
<1>5. ASSUME Quiet, UNCHANGED <<rx, rollbackStack>> PROVE OrderInv'
  <2>1. \A t, u : EndedBefore(events, t, u) => EndedBefore(events', t, u)
    BY <1>5, QuietOrder
  <2> QED
    BY <1>5, <2>1 DEF OrderInv
<1>6. ASSUME Quiet, Receive PROVE OrderInv'
  BY <1>6, ReceiveOrder
<1> QED
  BY <1>3, <1>4, <1>5, <1>6, QuietSteps

\* No rollback has started before the loop is left.
LEMMA NoneUndone ==
    ASSUME UndoInv, pc \notin {"rollback", "done"}
    PROVE  \A i \in 1..Len(events) : events[i].kind # "RollbackStarted"
BY DEF UndoInv

\* Once the loop is left, nothing runs: only rollbacks, additions and the return.
LEMMA AfterLoop ==
    ASSUME SlotInv, LoopDrains, [Next]_vars, pc \in {"rollback", "done"}
    PROVE  \/ \E ok \in BOOLEAN : RunRollback(ok)
           \/ /\ UNCHANGED <<rx, report, rollbackStack, events>>
              /\ pc' \in {"rollback", "done"}
              /\ \A t \in Tasks : record[t] # "Unregistered" => record'[t] = record[t]
              /\ pc' = "done" => \/ pc = "done"
                                 \/ ~RollbackNeeded \/ rollbackStack = <<>>
<1>1. TypeOK /\ record \in [Tasks -> TaskStates]
  BY DEF SlotInv, TypeOK
<1>2. \A t \in Tasks : co[t] \notin {"spawned", "attempt", "delay"}
  BY DEF LoopDrains, InFlight, Live
<1> DEFINE Calm == /\ UNCHANGED <<rx, report, rollbackStack, events>>
                   /\ pc' \in {"rollback", "done"}
                   /\ \A t \in Tasks : record[t] # "Unregistered" => record'[t] = record[t]
                   /\ pc' = "done" => \/ pc = "done"
                                      \/ ~RollbackNeeded \/ rollbackStack = <<>>
<1>3. ASSUME NEW t \in Tasks, AddTask(t) PROVE Calm
  <2>1. /\ record[t] = "Unregistered"
        /\ record' = [record EXCEPT ![t] = "Pending"]
        /\ UNCHANGED <<pc, rx, report, rollbackStack, events>>
    BY <1>3 DEF AddTask, ServiceRegister, SetTaskState, reportVars
  <2> QED
    BY <1>1, <2>1
<1>4. ASSUME NEW t \in Tasks, Dispatch(t) PROVE FALSE
  BY <1>4 DEF Dispatch
<1>5. ASSUME NEW t \in Tasks, Start(t) PROVE FALSE
  BY <1>2, <1>5 DEF Start
<1>6. ASSUME NEW t \in Tasks, Again(t) PROVE FALSE
  BY <1>2, <1>6 DEF Again
<1>7. ASSUME NEW t \in Tasks, NEW s \in Terminal, Ends(t, s) PROVE FALSE
  BY <1>2, <1>7 DEF Ends
<1>8. ASSUME Receive PROVE FALSE
  BY <1>8 DEF Receive
<1>9. ASSUME Idle PROVE Calm
  BY <1>9 DEF Idle, reportVars
<1> HIDE DEF Calm
<1>10. (\E ok \in BOOLEAN : RunRollback(ok)) \/ Calm
  BY <1>1, <1>3, <1>4, <1>5, <1>6, <1>7, <1>8, <1>9, StepShapes
<1> QED
  BY <1>10 DEF Calm

\* In the loop, no step starts a rollback.
LEMMA InLoop ==
    ASSUME SlotInv, StoryInv, UndoInv, [Next]_vars, pc \notin {"rollback", "done"}
    PROVE  \A i \in 1..Len(events') : events'[i].kind # "RollbackStarted"
<1>1. TypeOK
  BY DEF SlotInv
<1>2. ASSUME NEW t \in Tasks, NEW s \in Terminal, Ends(t, s)
      PROVE  \A i \in 1..Len(events') : events'[i].kind # "RollbackStarted"
  <2>1. /\ Grows(events, events')
        /\ Len(events') = Len(events) + 1
        /\ events'[Len(events) + 1].kind = s
    BY <1>1, <1>2, EndsHistory
  <2>2. \A i \in 1..Len(events') : i \in 1..Len(events) \/ i = Len(events) + 1
    BY <2>1 DEF Grows
  <2> QED
    BY <2>1, <2>2, NoneUndone DEF Grows, Terminal
<1>3. ASSUME NEW ok \in BOOLEAN, RunRollback(ok) PROVE FALSE
  BY <1>3 DEF RunRollback
<1>4. ASSUME Quiet, \A i \in 1..Len(events') :
                       i \in 1..Len(events) \/ events'[i].kind = "Started"
      PROVE  \A i \in 1..Len(events') : events'[i].kind # "RollbackStarted"
  BY <1>4, NoneUndone DEF Quiet, Grows
<1> QED
  BY <1>2, <1>3, <1>4, QuietSteps


\* The return is preceded by the rollback loop.
LEMMA NotDoneYet ==
    ASSUME TypeOK, [Next]_vars, pc \notin {"rollback", "done"}
    PROVE  pc' # "done"
<1>1. ASSUME NEW t \in Tasks, AddTask(t) PROVE pc' = pc
  BY <1>1 DEF AddTask
<1>2. ASSUME NEW t \in Tasks, Dispatch(t) PROVE pc' = pc
  BY <1>2 DEF Dispatch
<1>3. ASSUME NEW t \in Tasks, Start(t) PROVE pc' = pc
  BY <1>3 DEF Start
<1>4. ASSUME NEW t \in Tasks, Again(t) PROVE pc' = pc
  BY <1>4 DEF Again
<1>5. ASSUME NEW t \in Tasks, NEW s \in Terminal, Ends(t, s) PROVE pc' = pc
  BY <1>5, EndsFacts
<1>6. ASSUME Receive PROVE pc' = "load"
  BY <1>6 DEF Receive
<1>7. ASSUME NEW ok \in BOOLEAN, RunRollback(ok) PROVE pc' = pc
  BY <1>7 DEF RunRollback
<1>8. ASSUME Idle PROVE pc' # "done"
  BY <1>8 DEF Idle
<1> QED
  BY <1>1, <1>2, <1>3, <1>4, <1>5, <1>6, <1>7, <1>8, StepShapes

\* When run() is done and a rollback was due, the stack is empty.
LEMMA DoneStep ==
    ASSUME SlotInv, StackInv, LoopDrains, [Next]_vars, pc' = "done", RollbackNeeded'
    PROVE  rollbackStack' = <<>>
<1>1. TypeOK
  BY DEF SlotInv
<1>2. pc \in {"rollback", "done"}
  BY <1>1, NotDoneYet
<1>3. ASSUME NEW ok \in BOOLEAN, RunRollback(ok) PROVE FALSE
  BY <1>3 DEF RunRollback
<1>4. /\ UNCHANGED <<report, rollbackStack>>
      /\ pc = "done" \/ ~RollbackNeeded \/ rollbackStack = <<>>
  BY <1>2, <1>3, AfterLoop
<1>5. RollbackNeeded
  BY <1>4 DEF RollbackNeeded
<1> QED
  BY <1>4, <1>5 DEF StackInv

\* The stack holds what can still be rolled back, after every step.
LEMMA StackStep ==
    ASSUME SlotInv, ReportInv, LoopDrains, StackInv, [Next]_vars
    PROVE  StackInv'
<1> DEFINE L == Len(rollbackStack)
           InStack(t) == \E m \in 1..Len(rollbackStack) : rollbackStack[m] = t
           Undone(t) == \E i \in 1..Len(events) :
                           events[i].task = t /\ events[i].kind = "RollbackStarted"
           InStack1(t) == \E m \in 1..Len(rollbackStack') : rollbackStack'[m] = t
           Undone1(t) == \E i \in 1..Len(events') :
                            events'[i].task = t /\ events'[i].kind = "RollbackStarted"
<1>1. /\ TypeOK /\ co \in [Tasks -> CoStates] /\ record \in [Tasks -> TaskStates]
      /\ rollbackStack \in Seq(Tasks) /\ L \in Nat
  <2>1. TypeOK /\ rollbackStack \in Seq(Tasks)
    BY DEF SlotInv, TypeOK
  <2> QED
    BY <2>1, LenProperties DEF TypeOK
<1>2. PlaceInv /\ StoryInv /\ ResultInv
  BY DEF ReportInv
<1>3. ASSUME NEW t \in Tasks, co[t] = "ended" PROVE record'[t] = record[t]
  BY <1>2, <1>3, RecordSteps
<1>4. ASSUME NEW t \in Tasks, record[t] = "Completed" PROVE co[t] = "ended"
  BY <1>1, <1>2, <1>4 DEF StoryInv, CoStates
<1>5. \A m \in 1..L :
         /\ rollbackStack[m] \in Compensable
         /\ record'[rollbackStack[m]] = "Completed"
  BY <1>3, <1>4, EndedTasks DEF StackInv
<1>6. ASSUME NEW t \in TasksOf(Outcomes)
      PROVE  t \in Tasks /\ record'[t] = record[t]
  BY <1>1, <1>2, <1>3, OutcomeType DEF PlaceInv
<1>7. ASSUME NEW t \in TasksOf(Outcomes), t \in Compensable, record'[t] = "Completed"
      PROVE  InStack(t) \/ Undone(t)
  BY <1>6, <1>7 DEF StackInv
<1>8. (pc' = "done" /\ RollbackNeeded') => rollbackStack' = <<>>
  BY DoneStep
<1>9. ASSUME Grows(events, events'), NEW t, Undone(t) PROVE Undone1(t)
  <2>1. PICK i \in 1..Len(events) :
           events[i].task = t /\ events[i].kind = "RollbackStarted"
    BY <1>9
  <2>2. i \in 1..Len(events') /\ events'[i] = events[i]
    BY <1>9 DEF Grows
  <2> QED
    BY <2>1, <2>2
<1>10. StackInv' <=>
         /\ \A m \in 1..Len(rollbackStack') :
               /\ rollbackStack'[m] \in Compensable
               /\ record'[rollbackStack'[m]] = "Completed"
         /\ \A t \in TasksOf(Outcomes)' :
               (t \in Compensable /\ record'[t] = "Completed") => InStack1(t) \/ Undone1(t)
         /\ (pc' = "done" /\ RollbackNeeded') => rollbackStack' = <<>>
  BY DEF StackInv
<1>11. ASSUME Grows(events, events'), Outcomes' = Outcomes,
              rollbackStack' = rollbackStack
       PROVE  StackInv'
  <2>1. TasksOf(Outcomes)' = TasksOf(Outcomes)
    BY <1>11 DEF TasksOf
  <2>2. \A t : InStack(t) => InStack1(t)
    BY <1>11
  <2> HIDE DEF InStack, Undone, InStack1, Undone1
  <2>3. \A t \in TasksOf(Outcomes)' :
           (t \in Compensable /\ record'[t] = "Completed") => InStack1(t) \/ Undone1(t)
    BY <1>7, <1>9, <1>11, <2>1, <2>2
  <2> QED
    BY <1>5, <1>8, <1>10, <1>11, <2>3
<1>12. ASSUME NEW t \in Tasks, NEW s \in Terminal, Ends(t, s) PROVE StackInv'
  <2>1. Grows(events, events') /\ UNCHANGED reportVars
    BY <1>1, <1>12, EndsHistory, EndsFacts
  <2>2. Outcomes' = Outcomes /\ rollbackStack' = rollbackStack
    BY <2>1 DEF reportVars, Outcomes
  <2> QED
    BY <1>11, <2>1, <2>2
<1>13. ASSUME Quiet, UNCHANGED <<rx, report, rollbackStack>> PROVE StackInv'
  BY <1>11, <1>13 DEF Quiet, Outcomes
<1>14. ASSUME NEW ok \in BOOLEAN, RunRollback(ok) PROVE StackInv'
  <2> DEFINE n == Len(events)
             t == rollbackStack[L]
  <2>1. /\ L \in Nat \ {0}
        /\ Len(rollbackStack') = L - 1
        /\ \A m \in 1..Len(rollbackStack') : rollbackStack'[m] = rollbackStack[m]
        /\ Grows(events, events')
        /\ Len(events') = n + 2
        /\ events'[n + 1].task = t
        /\ events'[n + 1].kind = "RollbackStarted"
        /\ Outcomes' = Outcomes
    BY <1>1, <1>14, RollbackFacts
  <2>2. TasksOf(Outcomes)' = TasksOf(Outcomes)
    BY <2>1 DEF TasksOf
  <2>3. n + 1 \in 1..Len(events')
    BY <2>1 DEF Grows
  <2>4. Undone1(t)
    BY <2>1, <2>3
  <2>5. /\ \A m \in 1..L : m \in 1..Len(rollbackStack') \/ m = L
        /\ \A m \in 1..Len(rollbackStack') : m \in 1..L
    BY <2>1
  <2>6. \A u : InStack(u) => InStack1(u) \/ u = t
    BY <2>1, <2>5
  <2>7. \A m \in 1..Len(rollbackStack') :
           /\ rollbackStack'[m] \in Compensable
           /\ record'[rollbackStack'[m]] = "Completed"
    BY <1>5, <2>1, <2>5
  <2> HIDE DEF InStack, Undone, InStack1, Undone1
  <2>8. \A u \in TasksOf(Outcomes)' :
           (u \in Compensable /\ record'[u] = "Completed") => InStack1(u) \/ Undone1(u)
    BY <1>7, <1>9, <2>1, <2>2, <2>4, <2>6
  <2> QED
    BY <1>8, <1>10, <2>7, <2>8
<1>15. ASSUME Quiet, Receive PROVE StackInv'
  <2> DEFINE r == Head(rx)
  <2>1. /\ rx # <<>> /\ r \in Results
        /\ Outcomes \in Seq(Results)
        /\ Outcomes' = Append(Outcomes, r)
        /\ rollbackStack' = Stacked(r)
    BY <1>1, <1>15, ReceiveFacts DEF Outcomes
  <2>2. r.task \in Tasks
    BY <2>1 DEF Results
  <2>3. r.state = record[r.task] /\ co[r.task] = "ended"
    <3>1. r = rx[1] /\ 1 \in 1..Len(rx)
      BY <1>1, <2>1, EmptySeq DEF TypeOK
    <3> QED
      BY <1>2, <3>1 DEF ResultInv, SlotInv
  <2>4. record'[r.task] = r.state
    BY <1>3, <2>2, <2>3
  <2>5. \/ /\ rollbackStack' = rollbackStack
           /\ ~(r.state = "Completed" /\ r.task \in Compensable)
        \/ /\ r.state = "Completed" /\ r.task \in Compensable
           /\ Len(rollbackStack') = L + 1
           /\ \A m \in 1..L : rollbackStack'[m] = rollbackStack[m]
           /\ rollbackStack'[L + 1] = r.task
    BY <1>1, <2>1, <2>2, AppendProperties DEF Stacked
  <2>6. TasksOf(Outcomes)' = TasksOf(Outcomes) \cup {r.task}
    <3>1. TasksOf(Append(Outcomes, r)) = TasksOf(Outcomes) \cup {r.task}
      BY <2>1, TasksOfAppend
    <3>2. TasksOf(Outcomes)' = TasksOf(Outcomes')
      BY DEF TasksOf
    <3> QED
      BY <2>1, <3>1, <3>2
  <2>7. Grows(events, events')
    BY <1>15 DEF Quiet
  <2> HIDE DEF r
  <2>8. CASE rollbackStack' = rollbackStack /\ ~(r.state = "Completed" /\ r.task \in Compensable)
    <3>1. \A u : InStack(u) => InStack1(u)
      BY <2>8
    <3> HIDE DEF InStack, Undone, InStack1, Undone1
    <3>2. \A u \in TasksOf(Outcomes)' :
             (u \in Compensable /\ record'[u] = "Completed") => InStack1(u) \/ Undone1(u)
      BY <1>7, <1>9, <2>4, <2>6, <2>7, <2>8, <3>1
    <3> QED
      BY <1>5, <1>8, <1>10, <2>8, <3>2
  <2>9. CASE /\ r.state = "Completed" /\ r.task \in Compensable
             /\ Len(rollbackStack') = L + 1
             /\ \A m \in 1..L : rollbackStack'[m] = rollbackStack[m]
             /\ rollbackStack'[L + 1] = r.task
    <3>1. /\ \A m \in 1..Len(rollbackStack') : m \in 1..L \/ m = L + 1
          /\ \A m \in 1..L : m \in 1..Len(rollbackStack')
          /\ L + 1 \in 1..Len(rollbackStack')
      BY <1>1, <2>9
    <3>2. \A u : InStack(u) => InStack1(u)
      BY <2>9, <3>1
    <3>3. InStack1(r.task)
      BY <2>9, <3>1
    <3>4. \A m \in 1..Len(rollbackStack') :
             /\ rollbackStack'[m] \in Compensable
             /\ record'[rollbackStack'[m]] = "Completed"
      BY <1>5, <2>4, <2>9, <3>1
    <3> HIDE DEF InStack, Undone, InStack1, Undone1
    <3>5. \A u \in TasksOf(Outcomes)' :
             (u \in Compensable /\ record'[u] = "Completed") => InStack1(u) \/ Undone1(u)
      BY <1>7, <1>9, <2>6, <2>7, <3>2, <3>3
    <3> QED
      BY <1>8, <1>10, <3>4, <3>5
  <2> QED
    BY <2>5, <2>8, <2>9
<1> QED
  BY <1>2, <1>12, <1>13, <1>14, <1>15, QuietSteps

\* What was undone, and in which order, after every step.
LEMMA UndoStep ==
    ASSUME SlotInv, ReportInv, LoopDrains, HistoryInv, [Next]_vars
    PROVE  UndoInv'
<1>1. TypeOK /\ StoryInv /\ EndInv /\ OrderInv /\ StackInv /\ UndoInv
  BY DEF SlotInv, ReportInv, HistoryInv
<1>2. CASE pc \notin {"rollback", "done"}
  BY <1>1, <1>2, InLoop DEF UndoInv
<1>3. CASE pc \in {"rollback", "done"}
  <2>1. ASSUME UNCHANGED <<report, rollbackStack, events>>, pc' \in {"rollback", "done"}
        PROVE  UndoInv'
    <3>1. RollbackNeeded' = RollbackNeeded
      BY <2>1 DEF RollbackNeeded
    <3> QED
      BY <1>1, <2>1, <3>1 DEF UndoInv
  <2>2. ASSUME NEW ok \in BOOLEAN, RunRollback(ok) PROVE UndoInv'
    <3> DEFINE n == Len(events)
               L == Len(rollbackStack)
               t == rollbackStack[L]
    <3>1. /\ pc' = "rollback" /\ RollbackNeeded'
          /\ L \in Nat \ {0} /\ t \in Tasks
          /\ Len(rollbackStack') = L - 1
          /\ \A m \in 1..Len(rollbackStack') : rollbackStack'[m] = rollbackStack[m]
          /\ n \in Nat /\ Len(events') = n + 2
          /\ \A i \in 1..n : events'[i] = events[i]
          /\ events'[n + 1].task = t
          /\ events'[n + 1].kind = "RollbackStarted"
          /\ events'[n + 2].kind # "RollbackStarted"
          /\ Quiet
      BY <1>1, <2>2, RollbackFacts DEF Grows
    <3>2. \A u, v : EndedBefore(events, u, v) => EndedBefore(events', u, v)
      BY <3>1, QuietOrder
    <3>3. /\ \A i \in 1..(n + 2) : i \in 1..n \/ i = n + 1 \/ i = n + 2
          /\ L \in 1..L
          /\ \A m \in 1..(L - 1) : m \in 1..L /\ m < L
      <4>1. n \in Nat /\ L \in Nat \ {0}
        BY <3>1
      <4> HIDE DEF n, L
      <4> QED
        BY <4>1
    <3>4. t \in Compensable /\ record[t] = "Completed"
      BY <1>1, <3>3 DEF StackInv
    <3>5. PICK e \in 1..n : events[e].task = t /\ events[e].kind = "Completed"
      <4>1. PICK e \in 1..n : EndsAt(events, e, t)
        BY <1>1, <3>1, <3>4 DEF EndInv, Terminal
      <4>2. events[e].kind = "Completed"
        BY <1>1, <3>4, <4>1 DEF EndInv, EndsAt
      <4> QED
        BY <4>1, <4>2 DEF EndsAt
    <3>6. \A m \in 1..(L - 1) : EndedBefore(events', rollbackStack'[m], t)
      BY <1>1, <3>1, <3>2, <3>3 DEF OrderInv
    <3>7. ASSUME NEW i \in 1..n, events[i].kind = "RollbackStarted"
          PROVE  /\ events[i].task \in Compensable
                 /\ \E j \in 1..(i - 1) :
                       events'[j].task = events[i].task /\ events'[j].kind = "Completed"
                 /\ \A m \in 1..(L - 1) :
                       EndedBefore(events', rollbackStack'[m], events[i].task)
                 /\ \A k \in 1..(n + 2) :
                       events'[k].kind = "RollbackStarted" /\ i < k
                           => EndedBefore(events', events'[k].task, events[i].task)
      <4>1. events[i].task \in Compensable
        BY <1>1, <3>7 DEF UndoInv
      <4>2. PICK j \in 1..(i - 1) :
               events[j].task = events[i].task /\ events[j].kind = "Completed"
        BY <1>1, <3>7 DEF UndoInv
      <4>3. j \in 1..n
        BY <3>1
      <4>4. \A m \in 1..L : EndedBefore(events', rollbackStack[m], events[i].task)
        BY <1>1, <3>2, <3>7 DEF UndoInv
      <4>5. ASSUME NEW k \in 1..(n + 2), events'[k].kind = "RollbackStarted", i < k
            PROVE  EndedBefore(events', events'[k].task, events[i].task)
        <5>1. CASE k \in 1..n
          <6>1. EndedBefore(events, events[k].task, events[i].task)
            BY <1>1, <3>1, <3>7, <4>5, <5>1 DEF UndoInv
          <6> QED
            BY <3>1, <3>2, <5>1, <6>1
        <5>2. CASE k = n + 1
          BY <3>1, <3>3, <4>4, <5>2
        <5> QED
          BY <3>1, <3>3, <4>5, <5>1, <5>2
      <4>6. \E l \in 1..(i - 1) :
               events'[l].task = events[i].task /\ events'[l].kind = "Completed"
        BY <3>1, <4>2, <4>3
      <4>7. \A m \in 1..(L - 1) :
               EndedBefore(events', rollbackStack'[m], events[i].task)
        BY <3>1, <3>3, <4>4
      <4> QED
        BY <4>1, <4>5, <4>6, <4>7
    <3> HIDE DEF n, L, t
    <3>8. ASSUME NEW i \in 1..(n + 2), events'[i].kind = "RollbackStarted"
          PROVE  /\ events'[i].task \in Compensable
                 /\ \E j \in 1..(i - 1) :
                       events'[j].task = events'[i].task /\ events'[j].kind = "Completed"
                 /\ \A m \in 1..(L - 1) :
                       EndedBefore(events', rollbackStack'[m], events'[i].task)
                 /\ \A k \in 1..(n + 2) :
                       events'[k].kind = "RollbackStarted" /\ i < k
                           => EndedBefore(events', events'[k].task, events'[i].task)
      <4>1. CASE i \in 1..n
        <5>1. events'[i] = events[i]
          BY <3>1, <4>1
        <5> QED
          BY <3>7, <3>8, <4>1, <5>1
      <4>2. CASE i = n + 1
        <5>1. e \in 1..(i - 1) /\ events'[e] = events[e]
          BY <3>1, <4>2
        <5>2. \A k \in 1..(n + 2) : i < k => k = n + 2
          BY <3>1, <4>2
        <5> QED
          BY <3>1, <3>4, <3>5, <3>6, <4>2, <5>1, <5>2
      <4> QED
        BY <3>1, <3>3, <3>8, <4>1, <4>2
    <3> QED
      BY <3>1, <3>8 DEF UndoInv
  <2> QED
    BY <1>3, <2>1, <2>2, AfterLoop
<1> QED
  BY <1>2, <1>3

\* At the start nothing has happened.
LEMMA HistoryInit == Init => HistoryInv
<1> SUFFICES ASSUME Init PROVE HistoryInv
  OBVIOUS
<1>1. /\ Len(events) = 0 /\ Len(rx) = 0 /\ Len(rollbackStack) = 0
      /\ Len(Outcomes) = 0
      /\ pc = "load"
      /\ \A t \in Tasks : record[t] \notin Terminal
  BY EmptySeq DEF Init, EmptyReport, Outcomes, Terminal
<1>2. TasksOf(Outcomes) = {}
  BY <1>1 DEF TasksOf
<1> QED
  BY <1>1, <1>2 DEF HistoryInv, EndInv, OrderInv, StackInv, UndoInv

\* Ends, their order, the stack and what was undone, kept by every step.
THEOREM HistoryInvariant == Spec => []HistoryInv
<1>1. SlotInv /\ ReportInv /\ LoopDrains /\ HistoryInv /\ [Next]_vars => HistoryInv'
  BY EndStep, OrderStep, StackStep, UndoStep DEF HistoryInv, ReportInv
<1> QED
  BY <1>1, HistoryInit, SlotInvariant, ReportInvariant, NothingLeftBehind, PTL DEF Spec


\* A rollback was due iff some task is recorded as failed or cancelled, once all
\* have been reported.
LEMMA DueIsNeeded ==
    ASSUME SlotInv, ReportInv, InFlight = {}
    PROVE  RollbackNeeded <=>
              /\ RollbackOnError
              /\ \E t \in Tasks : record[t] \in {"Failed", "Cancelled"}
<1>1. TypeOK /\ PlaceInv /\ StoryInv /\ ResultInv /\ SummaryInv
  BY DEF SlotInv, ReportInv
<1>2. co \in [Tasks -> CoStates] /\ report.failures \in Seq(Tasks)
  BY <1>1 DEF TypeOK
<1>3. ASSUME NEW t \in Tasks, record[t] \in {"Failed", "Cancelled"}
      PROVE  report.failures # <<>> \/ report.cancelled
  <2>1. co[t] = "ended"
    BY <1>1, <1>2, <1>3 DEF StoryInv, CoStates
  <2>2. t \in TasksOf(Outcomes)
    BY <1>1, <2>1 DEF PlaceInv, InFlight
  <2>3. PICK i \in 1..Len(Outcomes) : Outcomes[i].task = t
    BY <2>2 DEF TasksOf
  <2>4. Outcomes[i].state = record[t]
    BY <1>1, <2>3 DEF ResultInv
  <2>5. CASE record[t] = "Failed"
    <3>1. \E k \in 1..Len(report.failures) : TRUE
      BY <1>1, <2>4, <2>5 DEF SummaryInv
    <3>2. report.failures # <<>>
      BY <3>1, EmptySeq
    <3> QED
      BY <3>2
  <2>6. CASE record[t] = "Cancelled"
    BY <1>1, <2>4, <2>6 DEF SummaryInv
  <2> QED
    BY <1>3, <2>5, <2>6
<1>4. ASSUME report.failures # <<>> \/ report.cancelled
      PROVE  \E t \in Tasks : record[t] \in {"Failed", "Cancelled"}
  <2>1. PICK i \in 1..Len(Outcomes) : Outcomes[i].state \in {"Failed", "Cancelled"}
    <3>1. CASE report.cancelled
      BY <1>1, <3>1 DEF SummaryInv
    <3>2. CASE report.failures # <<>>
      <4>1. 1 \in 1..Len(report.failures)
        BY <1>2, <3>2, EmptySeq
      <4>2. PICK i \in 1..Len(Outcomes) :
               Outcomes[i] = Result(report.failures[1], "Failed")
        BY <1>1, <4>1 DEF SummaryInv
      <4>3. Outcomes[i].state = "Failed"
        BY <4>2 DEF Result
      <4> QED
        BY <4>3
    <3> QED
      BY <1>4, <3>1, <3>2
  <2>2. Outcomes[i].task \in Tasks
    BY <1>1, OutcomeType
  <2>3. record[Outcomes[i].task] = Outcomes[i].state
    BY <1>1 DEF ResultInv
  <2> QED
    BY <2>1, <2>2, <2>3
<1> QED
  BY <1>3, <1>4 DEF RollbackNeeded

\* What the invariants say of a run that has returned.
LEMMA RollbackAtReturn ==
    ASSUME SlotInv, ReportInv, HistoryInv, LoopDrains
    PROVE  RollbackComplete
<1> SUFFICES ASSUME pc = "done" PROVE RollbackComplete
  BY DEF RollbackComplete
<1> DEFINE started == {i \in 1..Len(events) : events[i].kind = "RollbackStarted"}
           owed == {j \in 1..Len(events) : /\ events[j].kind = "Completed"
                                           /\ events[j].task \in Compensable}
           undoes == {p \in started \X owed : events[p[1]].task = events[p[2]].task}
           due == /\ RollbackOnError
                  /\ \E t \in Tasks : record[t] \in {"Failed", "Cancelled"}
           startedFirst(t, u) ==
                \E m, n \in 1..Len(events) :
                    /\ m < n
                    /\ events[m] = Event(t, "Started") /\ events[n] = Event(u, "Started")
<1>1. /\ TypeOK /\ PlaceInv /\ StoryInv
      /\ EndInv /\ OrderInv /\ StackInv /\ UndoInv
  BY DEF SlotInv, ReportInv, HistoryInv
<1>2. InFlight = {}
  BY DEF LoopDrains
<1>3. due <=> RollbackNeeded
  BY <1>2, DueIsNeeded
<1>4. /\ co \in [Tasks -> CoStates]
      /\ Len(events) \in Nat
      /\ \A i \in 1..Len(events) : events[i].task \in Tasks
  <2>1. events \in Seq(Events)
    BY <1>1 DEF TypeOK, Events
  <2>2. \A i \in 1..Len(events) : events[i] \in Events
    BY <2>1, ElementOfSeq
  <2> QED
    BY <1>1, <2>1, <2>2, LenProperties DEF TypeOK, Events
<1>5. ASSUME RollbackNeeded, NEW j \in owed
      PROVE  \E i \in started : events[i].task = events[j].task
  <2> DEFINE t == events[j].task
  <2>1. t \in Tasks /\ t \in Compensable /\ record[t] = "Completed"
    BY <1>1, <1>4 DEF EndInv, Terminal
  <2>2. co[t] = "ended"
    BY <1>1, <1>4, <2>1 DEF StoryInv, CoStates
  <2>3. t \in TasksOf(Outcomes)
    BY <1>1, <1>2, <2>1, <2>2 DEF PlaceInv, InFlight
  <2>4. rollbackStack = <<>>
    BY <1>1, <1>5 DEF StackInv
  <2>5. \A m \in 1..Len(rollbackStack) : FALSE
    BY <2>4, EmptySeq
  <2> HIDE DEF t
  <2>6. \E i \in 1..Len(events) :
           events[i].task = t /\ events[i].kind = "RollbackStarted"
    BY <1>1, <2>1, <2>3, <2>5 DEF StackInv
  <2> QED
    BY <2>6 DEF t
<1>6. ASSUME NEW i \in started
      PROVE  /\ RollbackNeeded
             /\ \E j \in owed : j < i /\ events[i].task = events[j].task
  <2>1. /\ RollbackNeeded /\ events[i].task \in Compensable
        /\ i \in 1..Len(events)
    BY <1>1 DEF UndoInv
  <2>2. PICK j \in 1..(i - 1) :
           events[j].task = events[i].task /\ events[j].kind = "Completed"
    BY <1>1 DEF UndoInv
  <2>3. j \in 1..Len(events) /\ j < i
    BY <1>4, <2>1
  <2>4. j \in owed
    BY <2>1, <2>2, <2>3
  <2> QED
    BY <2>1, <2>2, <2>3, <2>4
<1>7. ASSUME NEW i \in started, NEW j \in owed, NEW k \in started, NEW l \in owed,
             events[i].task = events[j].task, events[k].task = events[l].task, i < k
      PROVE  l < j
  <2>1. /\ i \in 1..Len(events) /\ j \in 1..Len(events)
        /\ k \in 1..Len(events) /\ l \in 1..Len(events)
    OBVIOUS
  <2>2. EndedBefore(events, events[k].task, events[i].task)
    BY <1>1, <1>7, <2>1 DEF UndoInv
  <2>3. EndsAt(events, l, events[k].task) /\ EndsAt(events, j, events[i].task)
    BY <1>7 DEF EndsAt, Terminal
  <2> QED
    BY <2>1, <2>2, <2>3 DEF EndedBefore
<1>8. \A i \in started, j \in owed :
         <<i, j>> \in undoes <=> events[i].task = events[j].task
  OBVIOUS
<1>9. ASSUME NEW p \in undoes
      PROVE  p[1] \in started /\ p[2] \in owed /\ events[p[1]].task = events[p[2]].task
  OBVIOUS
<1>10. RollbackComplete <=>
          /\ due => \A j \in owed : \E i \in started : <<i, j>> \in undoes
          /\ \A i \in started : due /\ \E j \in owed : j < i /\ <<i, j>> \in undoes
          /\ \A p, q \in undoes : p[1] < q[1] =>
                /\ p[2] # q[2]
                /\ ~ /\ p[2] < q[2]
                     /\ startedFirst(events[p[1]].task, events[q[1]].task)
  BY DEF RollbackComplete
<1>11. \A p \in undoes : p[2] \in Nat
  BY <1>4
<1> HIDE DEF started, owed, undoes, due, startedFirst
<1>12. due => \A j \in owed : \E i \in started : <<i, j>> \in undoes
  BY <1>3, <1>5, <1>8
<1>13. \A i \in started : due /\ \E j \in owed : j < i /\ <<i, j>> \in undoes
  BY <1>3, <1>6, <1>8
<1>14. ASSUME NEW p \in undoes, NEW q \in undoes, p[1] < q[1]
       PROVE  p[2] # q[2] /\ ~(p[2] < q[2])
  <2>1. q[2] < p[2]
    BY <1>7, <1>9, <1>14
  <2> QED
    BY <1>11, <2>1
<1> QED
  BY <1>10, <1>12, <1>13, <1>14

\* When run() returns after a failure or a cancellation with rollback_on_error,
\* every completed task with a rollback was rolled back, once, and the later of two
\* that started and completed in the same order first; otherwise nobody was - however
\* tasks interleave, whichever thread controls them and whatever their runners do.
THEOREM RollbackIsComplete == Spec => []RollbackComplete
BY RollbackAtReturn, SlotInvariant, ReportInvariant, HistoryInvariant,
   NothingLeftBehind, PTL

-----------------------------------------------------------------------------
(* The order of a serial run.                                              *)

\* In a serial run a free slot means that nothing is in flight, so the scan
\* chooses among the whole queue.
LEMMA SerialChoice ==
    ASSUME SlotInv, Mode = "Serial", NEW t \in Tasks, Dispatch(t)
    PROVE  /\ InFlight = {}
           /\ \A u \in queue \ {t} : Precedes(t, u)
<1>1. TypeOK /\ globalRunning \in Nat
  BY DEF SlotInv, TypeOK
<1>2. globalRunning = 0
  BY <1>1 DEF Dispatch, IsNext, GlobalLimit
<1>3. InFlight = {}
  <2>1. IsFiniteSet(InFlight) /\ Cardinality(InFlight) = 0
    BY <1>1, <1>2, InFlightFinite DEF SlotInv, SlotsAgree
  <2> QED
    BY <2>1, FS_EmptySet
<1>4. \A g \in Groups : GroupHasRoom(g)
  <2>1. \A g \in Groups : InGroup(InFlight, g) = {}
    BY <1>3 DEF InGroup
  <2>2. \A g \in Groups : groupRunning[g] = 0
    BY <2>1, FS_EmptySet DEF SlotInv, SlotsAgree
  <2> QED
    BY <2>2, LimitsType DEF GroupHasRoom
<1>5. Runnable = queue
  BY <1>1, <1>4, TasksAssumption DEF Runnable, TypeOK
<1> QED
  BY <1>3, <1>5 DEF Dispatch, IsNext

\* In a serial run the task whose result arrives is the only one in flight.
LEMMA SerialReceipt ==
    ASSUME SlotInv, Mode = "Serial", Receive
    PROVE  /\ Head(rx).task \in InFlight
           /\ InFlight' = {}
<1> DEFINE t == Head(rx).task
<1>1. TypeOK /\ globalRunning \in Nat
  BY DEF SlotInv, TypeOK
<1>2. rx # <<>> /\ rx' = Tail(rx) /\ co' = co
  BY <1>1, ReceiveFacts
<1>3. TasksOf(Tail(rx)) = TasksOf(rx) \ {t} /\ t \in TasksOf(rx)
  BY <1>2, ChannelFacts, TasksOfTail
<1>4. InFlight' = InFlight \ {t} /\ t \in InFlight
  <2>1. TasksOf(rx)' = TasksOf(rx')
    BY DEF TasksOf
  <2>2. Live' = Live
    BY <1>2 DEF Live
  <2>3. t \notin Live
    BY <1>3, ChannelFacts DEF Live
  <2> QED
    BY <1>2, <1>3, <2>1, <2>2, <2>3 DEF InFlight
<1>5. IsFiniteSet(InFlight) /\ Cardinality(InFlight) = globalRunning
  BY <1>1, InFlightFinite DEF SlotInv, SlotsAgree
<1>6. globalRunning <= 1
  BY DEF SlotInv, GlobalLimit
<1>7. IsFiniteSet(InFlight \ {t}) /\ Cardinality(InFlight \ {t}) = Cardinality(InFlight) - 1
  BY <1>4, <1>5, FS_RemoveElement
<1>8. Cardinality(InFlight \ {t}) \in Nat
  BY <1>7, FS_CardinalityType
<1>9. Cardinality(InFlight \ {t}) = 0
  BY <1>1, <1>5, <1>6, <1>7, <1>8
<1> QED
  BY <1>4, <1>7, <1>9, FS_EmptySet

\* The order of a serial run is kept by every step.
LEMMA SerialStep ==
    ASSUME SlotInv, PlaceInv, SerialInv, [Next]_vars
    PROVE  SerialInv'
<1> SUFFICES ASSUME Mode = "Serial", "add" \notin Controls
             PROVE  /\ \A t \in Tasks, u \in queue' : co'[t] # "none" => Precedes(t, u)
                    /\ \A t \in TasksOf(Outcomes)', u \in InFlight' : Precedes(t, u)
                    /\ \A i, j \in 1..Len(Outcomes') :
                          i < j => Precedes(Outcomes'[i].task, Outcomes'[j].task)
  BY DEF SerialInv, Precedes
<1> DEFINE Goal == /\ \A t \in Tasks, u \in queue' : co'[t] # "none" => Precedes(t, u)
                   /\ \A t \in TasksOf(Outcomes)', u \in InFlight' : Precedes(t, u)
                   /\ \A i, j \in 1..Len(Outcomes') :
                         i < j => Precedes(Outcomes'[i].task, Outcomes'[j].task)
<1>1. /\ TypeOK /\ co \in [Tasks -> CoStates] /\ queue \subseteq Tasks
  BY DEF SlotInv, TypeOK
<1>2. /\ \A t \in Tasks, u \in queue : co[t] # "none" => Precedes(t, u)
      /\ \A t \in TasksOf(Outcomes), u \in InFlight : Precedes(t, u)
      /\ \A i, j \in 1..Len(Outcomes) :
            i < j => Precedes(Outcomes[i].task, Outcomes[j].task)
  BY DEF SerialInv
<1>3. ASSUME NEW t \in Tasks, AddTask(t) PROVE FALSE
  BY <1>3 DEF AddTask, MayControl
<1>4. ASSUME NEW t \in Tasks, Dispatch(t) PROVE Goal
  <2>1. /\ co[t] = "none" /\ t \in queue
        /\ queue' = queue \ {t}
        /\ co' = [co EXCEPT ![t] = "spawned"]
        /\ UNCHANGED <<report, rx>>
    BY <1>4, DispatchFacts DEF reportVars
  <2>2. InFlight = {} /\ \A u \in queue \ {t} : Precedes(t, u)
    BY <1>4, SerialChoice
  <2>3. InFlight' = {t}
    <3>1. Live' = Live \cup {t}
      BY <1>1, <2>1 DEF Live
    <3>2. TasksOf(rx)' = TasksOf(rx)
      BY <2>1 DEF TasksOf
    <3> QED
      BY <2>2, <3>1, <3>2 DEF InFlight
  <2>4. Outcomes' = Outcomes /\ TasksOf(Outcomes)' = TasksOf(Outcomes)
    BY <2>1 DEF Outcomes, TasksOf
  <2>5. \A u \in TasksOf(Outcomes) : u \in Tasks /\ co[u] = "ended"
    BY <1>1, OutcomeType DEF PlaceInv
  <2>6. \A u \in TasksOf(Outcomes) : Precedes(u, t)
    BY <1>2, <2>1, <2>5
  <2>7. ASSUME NEW v \in Tasks, NEW u \in queue', co'[v] # "none" PROVE Precedes(v, u)
    <3>1. u \in queue \ {t}
      BY <2>1
    <3>2. CASE v = t
      BY <2>2, <3>1, <3>2
    <3>3. CASE v # t
      BY <1>1, <1>2, <2>1, <2>7, <3>1, <3>3
    <3> QED
      BY <3>2, <3>3
  <2> QED
    BY <1>2, <2>3, <2>4, <2>6, <2>7
<1>5. ASSUME InFlight' = InFlight, queue' = queue, Outcomes' = Outcomes,
             \A t \in Tasks : co'[t] # "none" => co[t] # "none"
      PROVE  Goal
  <2>1. TasksOf(Outcomes)' = TasksOf(Outcomes)
    BY <1>5 DEF TasksOf
  <2> QED
    BY <1>2, <1>5, <2>1
<1>6. ASSUME NEW t \in Tasks, co[t] \in {"spawned", "attempt", "delay"},
             NEW s \in {"attempt", "delay"},
             co' = [co EXCEPT ![t] = s], UNCHANGED <<queue, report, rx>>
      PROVE  Goal
  <2>1. Live' = Live
    BY <1>1, <1>6 DEF Live
  <2>2. InFlight' = InFlight
    BY <1>6, <2>1, InFlightFromParts
  <2>3. \A u \in Tasks : co'[u] # "none" => co[u] # "none"
    BY <1>1, <1>6
  <2>4. Outcomes' = Outcomes
    BY <1>6 DEF Outcomes
  <2> QED
    BY <1>5, <1>6, <2>2, <2>3, <2>4
<1>7. ASSUME NEW t \in Tasks, Start(t) PROVE Goal
  <2>1. /\ co[t] = "spawned"
        /\ co' = [co EXCEPT ![t] = "attempt"]
        /\ UNCHANGED <<queue, report, rx>>
    BY <1>7 DEF Start, reportVars
  <2> QED
    BY <1>6, <2>1
<1>8. ASSUME NEW t \in Tasks, Again(t) PROVE Goal
  <2>1. co[t] \in {"attempt", "delay"} /\ UNCHANGED <<queue, report, rx>>
    BY <1>8 DEF Again, reportVars
  <2>2. PICK s \in {"attempt", "delay"} : co' = [co EXCEPT ![t] = s]
    BY <1>8 DEF Again
  <2> QED
    BY <1>6, <2>1, <2>2
<1>9. ASSUME NEW t \in Tasks, NEW s \in Terminal, Ends(t, s) PROVE Goal
  <2>1. /\ co[t] \in {"attempt", "delay"}
        /\ co' = [co EXCEPT ![t] = "ended"]
        /\ rx' = Append(rx, Result(t, s))
        /\ Result(t, s) \in Results /\ Result(t, s).task = t
        /\ UNCHANGED <<queue, report>>
    BY <1>1, <1>9, EndsFacts DEF reportVars
  <2>2. Live' = Live \ {t} /\ t \in Live
    BY <1>1, <2>1 DEF Live
  <2>3. TasksOf(rx)' = TasksOf(rx) \cup {t}
    <3>1. TasksOf(Append(rx, Result(t, s))) = TasksOf(rx) \cup {t}
      BY <2>1, ChannelFacts, TasksOfAppend
    <3>2. TasksOf(rx)' = TasksOf(rx')
      BY DEF TasksOf
    <3> QED
      BY <2>1, <3>1, <3>2
  <2>4. InFlight' = InFlight
    BY <2>2, <2>3 DEF InFlight
  <2>5. \A u \in Tasks : co'[u] # "none" => co[u] # "none"
    BY <1>1, <2>1
  <2>6. Outcomes' = Outcomes
    BY <2>1 DEF Outcomes
  <2> QED
    BY <1>5, <2>1, <2>4, <2>5, <2>6
<1>10. ASSUME Receive PROVE Goal
  <2> DEFINE r == Head(rx)
             n == Len(Outcomes)
  <2>1. /\ r \in Results
        /\ Outcomes \in Seq(Results)
        /\ Outcomes' = Append(Outcomes, r)
        /\ queue' = queue /\ co' = co
    BY <1>1, <1>10, ReceiveFacts DEF Outcomes
  <2>2. r.task \in InFlight /\ InFlight' = {}
    BY <1>10, SerialReceipt
  <2>3. /\ n \in Nat /\ Len(Outcomes') = n + 1
        /\ \A i \in 1..n : Outcomes'[i] = Outcomes[i]
        /\ Outcomes'[n + 1] = r
    BY <2>1, AppendProperties, LenProperties
  <2>4. \A i \in 1..n : Precedes(Outcomes[i].task, r.task)
    BY <1>2, <2>2 DEF TasksOf
  <2> HIDE DEF r, n
  <2>5. \A i \in 1..(n + 1) : i \in 1..n \/ i = n + 1
    BY <2>3
  <2>6. ASSUME NEW i \in 1..(n + 1), NEW j \in 1..(n + 1), i < j
        PROVE  Precedes(Outcomes'[i].task, Outcomes'[j].task)
    <3>1. i \in 1..n
      BY <2>3, <2>6
    <3>2. CASE j \in 1..n
      BY <1>2, <2>3, <2>6, <3>1, <3>2 DEF n
    <3>3. CASE j = n + 1
      BY <2>3, <2>4, <3>1, <3>3
    <3> QED
      BY <2>5, <3>2, <3>3
  <2> QED
    BY <1>2, <2>1, <2>2, <2>3, <2>6
<1>11. ASSUME UNCHANGED <<queue, co, rx, report.outcomes>> PROVE Goal
  <2>1. InFlight' = InFlight
    BY <1>11, InFlightFromParts DEF Live
  <2>2. Outcomes' = Outcomes
    BY <1>11 DEF Outcomes
  <2> QED
    BY <1>5, <1>11, <2>1, <2>2
<1>12. ASSUME NEW ok \in BOOLEAN, RunRollback(ok) PROVE Goal
  BY <1>11, <1>12 DEF RunRollback
<1>13. ASSUME Idle PROVE Goal
  BY <1>11, <1>13 DEF Idle, reportVars
<1> HIDE DEF Goal
<1>14. Goal
  BY <1>1, <1>3, <1>4, <1>7, <1>8, <1>9, <1>10, <1>12, <1>13, StepShapes
<1> QED
  BY <1>14 DEF Goal

\* In a serial run to which nothing is added, the results arrive in the order of
\* priority and id, whatever fails, is retried, paused or cancelled.
THEOREM SerialInOrder == Spec => []SerialOrder
<1>1. Init => SerialInv
  <2> SUFFICES ASSUME Init PROVE SerialInv
    OBVIOUS
  <2>1. Len(Outcomes) = 0 /\ \A t \in Tasks : co[t] = "none"
    BY EmptySeq DEF Init, EmptyReport, Outcomes
  <2>2. TasksOf(Outcomes) = {}
    BY <2>1 DEF TasksOf
  <2> QED
    BY <2>1, <2>2 DEF SerialInv
<1>2. SlotInv /\ PlaceInv /\ SerialInv /\ [Next]_vars => SerialInv'
  BY SerialStep
<1>3. SerialInv => SerialOrder
  BY DEF SerialInv, SerialOrder, Precedes, Outcomes
<1> QED
  BY <1>1, <1>2, <1>3, SlotInvariant, PlaceInvariant, PTL DEF Spec
=============================================================================
