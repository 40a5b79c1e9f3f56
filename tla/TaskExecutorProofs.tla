------------------------- MODULE TaskExecutorProofs -------------------------
(***************************************************************************)
(* Theorems about TaskExecutor, for every set of tasks, every limit and    *)
(* every use of the control operations, on one thread or on several.       *)
(***************************************************************************)
EXTENDS TaskExecutor, SequenceTheorems, FiniteSetTheorems, TLAPS

-----------------------------------------------------------------------------
(* Type correctness.                                                       *)

Events == [task : Tasks, kind : EventKinds]

\* Appending the events of one service call keeps the history well typed.
LEMMA EmitEventsType ==
    ASSUME events \in Seq(Events), NEW t \in Tasks, NEW kinds \in Seq(EventKinds),
           EmitEvents(t, kinds)
    PROVE  events' \in Seq(Events)
<1> DEFINE new == [i \in 1..Len(kinds) |-> Event(t, kinds[i])]
<1>1. new \in Seq(Events)
  BY DEF Event, Events
<1>2. events' = events \o new
  BY DEF EmitEvents
<1> QED
  BY <1>1, <1>2

\* The limits are positive numbers.
LEMMA LimitsType ==
    /\ GlobalLimit \in Nat \ {0}
    /\ \A g \in Groups : GroupLimit(g) \in Nat \ {0}
BY OptionsAssumption DEF GlobalLimit, GroupLimit, AtLeastOne

\* What is left alone keeps its type.
LEMMA SettleType ==
    ASSUME TypeOK, NEW t \in Tasks, NEW s \in Terminal, Settle(t, s)
    PROVE  TypeOK'
<1>1. events' \in Seq(Events)
  <2>1. <<s>> \in Seq(EventKinds)
    BY DEF EventKinds
  <2> QED
    BY <2>1, EmitEventsType DEF Settle, ServiceSettle, TypeOK, Events
<1>2. rx' \in Seq(Results)
  BY DEF Settle, TypeOK, Results, Result
<1>3. /\ co' \in [Tasks -> CoStates]
      /\ record' \in [Tasks -> TaskStates]
      /\ runningIds' \subseteq Tasks
  BY DEF Settle, ServiceSettle, SetTaskState, TypeOK, CoStates, TaskStates
<1> QED
  BY <1>1, <1>2, <1>3
  DEF Settle, TypeOK, Events, controlVars, slotVars, reportVars

\* A failed attempt, retried or not, keeps every type.
LEMMA AttemptFailedType ==
    ASSUME TypeOK, NEW t \in Tasks, AttemptFailed(t)
    PROVE  TypeOK'
<1>1. CASE Settle(t, "Failed")
  BY <1>1, SettleType DEF Terminal
<1>2. CASE ~Settle(t, "Failed")
  <2>1. co' \in [Tasks -> CoStates] /\ attempts' \in [Tasks -> Nat]
    <3>1. CASE t \in Delayed
      BY <1>2, <3>1 DEF AttemptFailed, TypeOK, CoStates
    <3>2. CASE t \notin Delayed
      <4>1. attempts' = [attempts EXCEPT ![t] = @ + 1] /\ co' = co
        BY <1>2, <3>2 DEF AttemptFailed
      <4>2. attempts[t] + 1 \in Nat
        BY DEF TypeOK
      <4> QED
        BY <4>1, <4>2 DEF TypeOK
    <3> QED
      BY <3>1, <3>2
  <2> QED
    BY <1>2, <2>1
    DEF AttemptFailed, TypeOK, controlVars, slotVars, reportVars
<1> QED
  BY <1>1, <1>2

\* Receiving a result keeps every type.
LEMMA ReceiveType ==
    ASSUME TypeOK, Receive
    PROVE  TypeOK'
<1> DEFINE r == Head(rx)
<1>1. r \in Results /\ rx' \in Seq(Results)
  BY HeadTailProperties DEF Receive, TypeOK
<1>2. r.task \in Tasks /\ r.state \in Terminal /\ GroupOf[r.task] \in Groups
  BY <1>1, TasksAssumption DEF Results
<1>3. Recorded(r) \in [outcomes : Seq(Results), failures : Seq(Tasks),
                       rolledBack : Seq(Tasks), cancelled : BOOLEAN]
  <2> DEFINE o == Append(report.outcomes, r)
             f == IF r.state = "Failed" THEN Append(report.failures, r.task)
                                        ELSE report.failures
             c == report.cancelled \/ r.state = "Cancelled"
  <2>1. o \in Seq(Results) /\ f \in Seq(Tasks) /\ c \in BOOLEAN
    BY <1>1, <1>2 DEF TypeOK
  <2>2. Recorded(r) = [outcomes |-> o, failures |-> f,
                       rolledBack |-> report.rolledBack, cancelled |-> c]
    BY DEF Recorded
  <2> HIDE DEF o, f, c
  <2> QED
    BY <2>1, <2>2 DEF TypeOK
<1>4. Stacked(r) \in Seq(Tasks)
  BY <1>1, <1>2 DEF Stacked, TypeOK
<1>5. /\ globalRunning' \in Nat
      /\ groupRunning' \in [Groups -> Nat]
  <2>1. \A n \in Nat : Decrement(n) \in Nat
    BY DEF Decrement
  <2> QED
    BY <1>2, <2>1 DEF Receive, TypeOK
<1>6. cancelled' \in BOOLEAN /\ stopped' \in BOOLEAN
  BY OptionsAssumption DEF Receive, TypeOK
<1> QED
  BY <1>1, <1>3, <1>4, <1>5, <1>6 DEF Receive, TypeOK, PCs

\* Popping and running a rollback keeps every type.
LEMMA RunRollbackType ==
    ASSUME TypeOK, NEW ok \in BOOLEAN, RunRollback(ok)
    PROVE  TypeOK'
<1> DEFINE n == Len(rollbackStack)
           t == rollbackStack[n]
<1>1. n \in Nat \ {0} /\ t \in Tasks
  BY EmptySeq, ElementOfSeq DEF RunRollback, TypeOK
<1>2. events' \in Seq(Events)
  <2>1. <<"RollbackStarted", IF ok THEN "RollbackCompleted" ELSE "RollbackFailed">>
            \in Seq(EventKinds)
    BY DEF EventKinds
  <2> QED
    BY <1>1, <2>1, EmitEventsType
    DEF RunRollback, ServiceRollback, TypeOK, Events
<1>3. rollbackStack' \in Seq(Tasks)
  BY <1>1 DEF RunRollback, TypeOK
<1>4. report' \in [outcomes : Seq(Results), failures : Seq(Tasks),
                   rolledBack : Seq(Tasks), cancelled : BOOLEAN]
  <2> DEFINE b == IF ok THEN Append(report.rolledBack, t) ELSE report.rolledBack
  <2>1. b \in Seq(Tasks)
    BY <1>1 DEF TypeOK
  <2>2. report' = [outcomes |-> report.outcomes, failures |-> report.failures,
                   rolledBack |-> b, cancelled |-> report.cancelled]
    BY DEF RunRollback
  <2> HIDE DEF b
  <2> QED
    BY <2>1, <2>2 DEF TypeOK
<1>5. record' = record
  BY DEF RunRollback, ServiceRollback
<1> QED
  BY <1>2, <1>3, <1>4, <1>5
  DEF RunRollback, TypeOK, Events, controlVars, slotVars

\* The first poll of a coroutine keeps every type.
LEMMA StartType ==
    ASSUME TypeOK, NEW t \in Tasks, Start(t)
    PROVE  TypeOK'
<1>1. events' \in Seq(Events)
  <2>1. <<"Started">> \in Seq(EventKinds)
    BY DEF EventKinds
  <2> QED
    BY <2>1, EmitEventsType DEF Start, ServiceStart, TypeOK, Events
<1>2. record' \in [Tasks -> TaskStates]
  BY DEF Start, ServiceStart, SetTaskState, TypeOK, TaskStates
<1> QED
  BY <1>1, <1>2
  DEF Start, TypeOK, Events, CoStates, controlVars, slotVars, reportVars

\* Spawning a task keeps every type.
LEMMA DispatchType ==
    ASSUME TypeOK, NEW t \in Tasks, Dispatch(t)
    PROVE  TypeOK'
<1>1. GroupOf[t] \in Groups
  BY TasksAssumption
<1>2. groupRunning' \in [Groups -> Nat]
  BY <1>1 DEF Dispatch, TypeOK
<1> QED
  BY <1>2 DEF Dispatch, TypeOK, CoStates, controlVars, reportVars

\* The control operations keep every type.
LEMMA ControlType ==
    ASSUME TypeOK, Control
    PROVE  TypeOK'
<1>1. ASSUME NEW t \in Tasks, AddTask(t) PROVE TypeOK'
  BY <1>1 DEF AddTask, ServiceRegister, SetTaskState, NotifyWaiters, TypeOK,
              TaskStates, controlVars, slotVars, reportVars
<1>2. CASE Pause
  BY <1>2 DEF Pause, TypeOK, slotVars, reportVars, taskVars
<1>3. CASE Resume
  BY <1>3 DEF Resume, NotifyWaiters, TypeOK, slotVars, reportVars, taskVars
<1>4. CASE CancelAll
  BY <1>4 DEF CancelAll, NotifyWaiters, TypeOK, slotVars, reportVars, taskVars
<1>5. ASSUME NEW g \in Groups, CancelGroup(g) PROVE TypeOK'
  BY <1>5 DEF CancelGroup, NotifyWaiters, TypeOK, slotVars, reportVars, taskVars
<1>6. CASE CancelToken
  BY <1>6 DEF CancelToken, TypeOK, slotVars, reportVars, taskVars
<1> QED
  BY <1>1, <1>2, <1>3, <1>4, <1>5, <1>6 DEF Control

\* Every step of run_inner keeps every type.
LEMMA SchedulerType ==
    ASSUME TypeOK, Scheduler
    PROVE  TypeOK'
<1>1. CASE LoadFlags
  BY <1>1 DEF LoadFlags, TypeOK, PCs, controlVars, slotVars, reportVars, taskVars
<1>2. ASSUME NEW t \in Tasks, Dispatch(t) PROVE TypeOK'
  BY <1>2, DispatchType
<1>3. CASE EndDispatch
  BY <1>3 DEF EndDispatch, TypeOK, PCs, controlVars, slotVars, reportVars, taskVars
<1>4. CASE CheckExit
  BY <1>4 DEF CheckExit, TypeOK, PCs, controlVars, slotVars, reportVars, taskVars
<1>5. CASE WakeNotified
  BY <1>5 DEF WakeNotified, TypeOK, PCs, controlVars, slotVars, reportVars, taskVars
<1>6. CASE WakeCancelled
  BY <1>6 DEF WakeCancelled, TypeOK, PCs, slotVars, reportVars, taskVars
<1>7. CASE Receive
  BY <1>7, ReceiveType
<1>8. ASSUME NEW ok \in BOOLEAN, RunRollback(ok) PROVE TypeOK'
  BY <1>8, RunRollbackType
<1>9. CASE Return
  BY <1>9 DEF Return, TypeOK, PCs, controlVars, slotVars, reportVars, taskVars
<1> QED
  BY <1>1, <1>2, <1>3, <1>4, <1>5, <1>6, <1>7, <1>8, <1>9 DEF Scheduler

\* Every step of a task keeps every type.
LEMMA CoroutineType ==
    ASSUME TypeOK, NEW t \in Tasks, Coroutine(t)
    PROVE  TypeOK'
<1>1. CASE Start(t)
  BY <1>1, StartType
<1>2. CASE RunnerOk(t)
  BY <1>2, SettleType DEF RunnerOk, Terminal
<1>3. CASE RunnerErr(t)
  BY <1>3, SettleType, AttemptFailedType DEF RunnerErr, Terminal
<1>4. CASE AttemptTimeout(t)
  BY <1>4, AttemptFailedType DEF AttemptTimeout
<1>5. CASE DelayElapsed(t)
  BY <1>5 DEF DelayElapsed, TypeOK, CoStates, controlVars, slotVars, reportVars
<1>6. CASE ObserveCancel(t)
  BY <1>6, SettleType DEF ObserveCancel, Terminal
<1> QED
  BY <1>1, <1>2, <1>3, <1>4, <1>5, <1>6 DEF Coroutine

\* The state run() starts from is well typed.
LEMMA InitType == Init => TypeOK
<1> SUFFICES ASSUME Init PROVE TypeOK
  OBVIOUS
<1>1. EmptyReport \in [outcomes : Seq(Results), failures : Seq(Tasks),
                       rolledBack : Seq(Tasks), cancelled : BOOLEAN]
  BY DEF EmptyReport
<1> QED
  BY <1>1, EmptySeq, TasksAssumption
  DEF Init, TypeOK, PCs, CoStates, TaskStates

\* The state the scheduler, the tasks and the control operations share keeps its
\* types whatever they do, in whatever order.
THEOREM TypeCorrect == Spec => []TypeOK
<1>1. TypeOK /\ [Next]_vars => TypeOK'
  <2> SUFFICES ASSUME TypeOK, [Next]_vars PROVE TypeOK'
    OBVIOUS
  <2>1. CASE Scheduler
    BY <2>1, SchedulerType
  <2>2. CASE Control
    BY <2>2, ControlType
  <2>3. ASSUME NEW t \in Tasks, Coroutine(t) PROVE TypeOK'
    BY <2>3, CoroutineType
  <2>4. CASE UNCHANGED vars
    BY <2>4 DEF vars, TypeOK, controlVars, slotVars, reportVars, taskVars
  <2> QED
    BY <2>1, <2>2, <2>3, <2>4 DEF Next
<1> QED
  BY InitType, <1>1, PTL DEF Spec

-----------------------------------------------------------------------------
(* The slot counters.                                                      *)

\* What waits in the channel is the result of a task.
LEMMA ChannelType ==
    ASSUME TypeOK
    PROVE  /\ Len(rx) \in Nat
           /\ \A i \in 1..Len(rx) : rx[i].task \in Tasks /\ rx[i].state \in Terminal
<1>1. \A i \in 1..Len(rx) : rx[i] \in Results
  BY ElementOfSeq DEF TypeOK
<1> QED
  BY <1>1, LenProperties DEF TypeOK, Results

\* The tasks in flight are finitely many, so they can be counted.
LEMMA InFlightFinite ==
    ASSUME TypeOK
    PROVE  /\ InFlight \subseteq Tasks
           /\ IsFiniteSet(InFlight)
           /\ \A g \in Groups : IsFiniteSet(InGroup(InFlight, g))
<1>1. TasksOf(rx) \subseteq Tasks
  BY ChannelType DEF TasksOf
<1>2. InFlight \subseteq Tasks
  BY <1>1 DEF InFlight, Live
<1>3. IsFiniteSet(InFlight)
  BY <1>2, TasksAssumption, FS_Subset
<1>4. \A g \in Groups : InGroup(InFlight, g) \in SUBSET InFlight
  BY DEF InGroup
<1> QED
  BY <1>2, <1>3, <1>4, FS_Subset

\* Taking a slot for a task that held none.
LEMMA TakeSlot ==
    ASSUME TypeOK, SlotsAgree, NEW t \in Tasks, t \notin InFlight,
           InFlight' = InFlight \cup {t},
           globalRunning' = globalRunning + 1,
           groupRunning' = [groupRunning EXCEPT ![GroupOf[t]] = @ + 1]
    PROVE  SlotsAgree'
<1>1. Cardinality(InFlight') = Cardinality(InFlight) + 1
  BY InFlightFinite, FS_AddElement
<1>2. ASSUME NEW g \in Groups
      PROVE  groupRunning'[g] = Cardinality(InGroup(InFlight', g))
  <2>1. CASE GroupOf[t] = g
    <3>1. InGroup(InFlight', g) = InGroup(InFlight, g) \cup {t}
      BY <2>1 DEF InGroup
    <3>2. t \notin InGroup(InFlight, g)
      BY DEF InGroup
    <3>3. Cardinality(InGroup(InFlight', g)) = Cardinality(InGroup(InFlight, g)) + 1
      BY <3>1, <3>2, InFlightFinite, FS_AddElement
    <3> QED
      BY <2>1, <3>3 DEF SlotsAgree, TypeOK
  <2>2. CASE GroupOf[t] # g
    <3>1. InGroup(InFlight', g) = InGroup(InFlight, g)
      BY <2>2 DEF InGroup
    <3> QED
      BY <2>2, <3>1 DEF SlotsAgree, TypeOK
  <2> QED
    BY <2>1, <2>2
<1>3. globalRunning' = Cardinality(InFlight')
  BY <1>1 DEF SlotsAgree
<1> QED
  BY <1>2, <1>3 DEF SlotsAgree

\* Giving back the slot of a task that holds one.
LEMMA ReleaseSlot ==
    ASSUME TypeOK, SlotsAgree, NEW t \in Tasks, t \in InFlight,
           InFlight' = InFlight \ {t},
           globalRunning' = Decrement(globalRunning),
           groupRunning' = [groupRunning EXCEPT ![GroupOf[t]] = Decrement(@)]
    PROVE  SlotsAgree'
<1>1. /\ Cardinality(InFlight') = Cardinality(InFlight) - 1
      /\ Cardinality(InFlight) \in Nat
      /\ Cardinality(InFlight) # 0
  <2>1. IsFiniteSet(InFlight) /\ InFlight # {}
    BY InFlightFinite
  <2>2. Cardinality(InFlight) \in Nat /\ Cardinality(InFlight) # 0
    BY <2>1, FS_CardinalityType, FS_EmptySet
  <2>3. Cardinality(InFlight \ {t}) = Cardinality(InFlight) - 1
    BY <2>1, FS_RemoveElement
  <2> QED
    BY <2>2, <2>3
<1>2. ASSUME NEW g \in Groups
      PROVE  groupRunning'[g] = Cardinality(InGroup(InFlight', g))
  <2>1. CASE GroupOf[t] = g
    <3> DEFINE S == InGroup(InFlight, g)
    <3>1. InGroup(InFlight', g) = S \ {t}
      BY <2>1 DEF InGroup
    <3>2. t \in S /\ IsFiniteSet(S)
      BY <2>1, InFlightFinite DEF InGroup
    <3>3. Cardinality(S) \in Nat /\ Cardinality(S) # 0
      BY <3>2, FS_CardinalityType, FS_EmptySet
    <3>4. Cardinality(S \ {t}) = Cardinality(S) - 1
      BY <3>2, FS_RemoveElement
    <3>5. groupRunning[g] = Cardinality(S)
      BY DEF SlotsAgree
    <3>6. groupRunning'[g] = Decrement(groupRunning[g])
      BY <2>1 DEF TypeOK
    <3> HIDE DEF S
    <3> QED
      BY <3>1, <3>3, <3>4, <3>5, <3>6 DEF Decrement
  <2>2. CASE GroupOf[t] # g
    <3>1. InGroup(InFlight', g) = InGroup(InFlight, g)
      BY <2>2 DEF InGroup
    <3> QED
      BY <2>2, <3>1 DEF SlotsAgree, TypeOK
  <2> QED
    BY <2>1, <2>2
<1>3. globalRunning' = Cardinality(InFlight')
  BY <1>1 DEF SlotsAgree, Decrement
<1> QED
  BY <1>2, <1>3 DEF SlotsAgree

\* What SlotInv says of the slots stays true when neither they nor the tasks in
\* flight change.
LEMMA SameSlots ==
    ASSUME SlotInv, InFlight' = InFlight, UNCHANGED slotVars
    PROVE  /\ SlotsAgree'
           /\ globalRunning' <= GlobalLimit
           /\ \A g \in Groups : groupRunning'[g] <= GroupLimit(g)
BY DEF SlotInv, SlotsAgree, InGroup, slotVars

\* Tasks in flight depend on the coroutines and the channel alone.
LEMMA InFlightFromParts ==
    ASSUME Live' = Live, rx' = rx
    PROVE  InFlight' = InFlight
BY DEF InFlight, TasksOf

\* Spawning a task takes exactly one slot, and only if there was one.
LEMMA DispatchSlots ==
    ASSUME SlotInv, TypeOK', NEW t \in Tasks, Dispatch(t)
    PROVE  SlotInv'
<1>1. t \in queue /\ co[t] = "none" /\ record[t] # "Unregistered"
  BY DEF Dispatch, IsNext, Runnable, SlotInv
<1>2. t \notin InFlight
  <2>1. t \notin Live
    BY <1>1 DEF Live
  <2>2. t \notin TasksOf(rx)
    BY <1>1 DEF SlotInv, TasksOf
  <2> QED
    BY <2>1, <2>2 DEF InFlight
<1>3. co' = [co EXCEPT ![t] = "spawned"] /\ rx' = rx /\ record' = record
  BY DEF Dispatch
<1>4. InFlight' = InFlight \cup {t}
  <2>1. Live' = Live \cup {t}
    BY <1>3 DEF Live, SlotInv, TypeOK
  <2>2. TasksOf(rx)' = TasksOf(rx)
    BY <1>3 DEF TasksOf
  <2> QED
    BY <2>1, <2>2 DEF InFlight
<1>5. SlotsAgree'
  BY <1>2, <1>4, TakeSlot DEF SlotInv, Dispatch
<1>6. /\ globalRunning' <= GlobalLimit
      /\ \A g \in Groups : groupRunning'[g] <= GroupLimit(g)
  <2>1. /\ globalRunning < GlobalLimit
        /\ groupRunning[GroupOf[t]] < GroupLimit(GroupOf[t])
    BY DEF Dispatch, IsNext, Runnable, GroupHasRoom
  <2>2. /\ globalRunning' = globalRunning + 1
        /\ groupRunning' = [groupRunning EXCEPT ![GroupOf[t]] = @ + 1]
    BY DEF Dispatch
  <2>3. globalRunning' <= GlobalLimit
    BY <2>1, <2>2, LimitsType DEF SlotInv, TypeOK
  <2>4. ASSUME NEW g \in Groups PROVE groupRunning'[g] <= GroupLimit(g)
    <3>1. CASE g = GroupOf[t]
      <4>1. groupRunning[g] < GroupLimit(g)
        BY <2>1, <3>1
      <4>2. groupRunning'[g] = groupRunning[g] + 1 /\ groupRunning[g] \in Nat
        BY <2>2, <3>1 DEF SlotInv, TypeOK
      <4> QED
        BY <4>1, <4>2, LimitsType
    <3>2. CASE g # GroupOf[t]
      BY <2>2, <3>2 DEF SlotInv, TypeOK
    <3> QED
      BY <3>1, <3>2
  <2> QED
    BY <2>3, <2>4
<1>7. \A u \in queue' : u \in queue /\ u # t
  BY DEF Dispatch
<1>8. /\ \A u \in Tasks : record'[u] = "Unregistered" => co'[u] = "none"
      /\ \A u \in queue' : record'[u] # "Unregistered" /\ co'[u] = "none"
  BY <1>1, <1>3, <1>7 DEF SlotInv, TypeOK
<1>9. \A i \in 1..Len(rx') : co'[rx'[i].task] = "ended"
  BY <1>1, <1>3, ChannelType DEF SlotInv, TypeOK
<1>10. \A i, j \in 1..Len(rx') : rx'[i].task = rx'[j].task => i = j
  BY <1>3 DEF SlotInv
<1> QED
  BY <1>5, <1>6, <1>8, <1>9, <1>10 DEF SlotInv

\* A task that settles stays in flight: its result is in the channel.
LEMMA SettleSlots ==
    ASSUME SlotInv, TypeOK', NEW t \in Tasks, NEW s \in Terminal,
           co[t] \in {"attempt", "delay"}, Settle(t, s)
    PROVE  SlotInv'
<1> DEFINE n == Len(rx)
<1>1. /\ co' = [co EXCEPT ![t] = "ended"]
      /\ record' = [record EXCEPT ![t] = s]
      /\ queue' = queue
      /\ rx' = Append(rx, Result(t, s))
      /\ UNCHANGED slotVars
  BY DEF Settle, ServiceSettle, SetTaskState
<1>2. Result(t, s) \in Results /\ Result(t, s).task = t
  BY DEF Result, Results
<1>3. /\ n \in Nat
      /\ Len(rx') = n + 1
      /\ \A i \in 1..n : rx'[i] = rx[i]
      /\ rx'[n + 1].task = t
  BY <1>1, <1>2, AppendProperties DEF SlotInv, TypeOK
<1>4. \A i \in 1..n : rx[i].task # t /\ rx[i].task \in Tasks
  BY ChannelType DEF SlotInv
<1>5. InFlight' = InFlight
  <2>1. Live' = Live \ {t} /\ t \in Live
    BY <1>1 DEF Live, SlotInv, TypeOK
  <2>2. TasksOf(rx)' = TasksOf(rx) \cup {t}
    BY <1>3 DEF TasksOf
  <2> QED
    BY <2>1, <2>2 DEF InFlight
<1>6. /\ \A u \in Tasks : record'[u] = "Unregistered" => co'[u] = "none"
      /\ \A u \in queue' : record'[u] # "Unregistered" /\ co'[u] = "none"
  BY <1>1 DEF SlotInv, TypeOK, Terminal
<1>7. \A i \in 1..Len(rx') : co'[rx'[i].task] = "ended"
  <2>1. co'[t] = "ended" /\ \A u \in Tasks \ {t} : co'[u] = co[u]
    BY <1>1 DEF SlotInv, TypeOK
  <2>2. \A i \in 1..n : co'[rx'[i].task] = "ended"
    BY <1>3, <1>4, <2>1 DEF SlotInv
  <2> QED
    BY <1>3, <2>1, <2>2
<1>8. \A i, j \in 1..Len(rx') : rx'[i].task = rx'[j].task => i = j
  BY <1>3, <1>4 DEF SlotInv
<1> QED
  BY <1>1, <1>5, <1>6, <1>7, <1>8, SameSlots DEF SlotInv

\* Receiving a result gives back exactly the slot of its task.
LEMMA ReceiveSlots ==
    ASSUME SlotInv, TypeOK', Receive
    PROVE  SlotInv'
<1> DEFINE t == rx[1].task
<1>1. /\ Head(rx) = rx[1]
      /\ Len(rx) \in Nat \ {0}
      /\ Len(rx') = Len(rx) - 1
      /\ \A i \in 1..Len(rx') : rx'[i] = rx[i + 1]
  BY HeadTailProperties, EmptySeq DEF Receive, SlotInv, TypeOK
<1>2. t \in Tasks /\ co[t] = "ended"
  BY <1>1, ChannelType DEF SlotInv
<1>3. co' = co /\ record' = record /\ queue' = queue
  BY DEF Receive
<1>4. \A i \in 1..Len(rx') : rx'[i].task # t
  BY <1>1 DEF SlotInv
<1>5. InFlight' = InFlight \ {t} /\ t \in InFlight
  <2>1. TasksOf(rx)' = TasksOf(rx) \ {t} /\ t \in TasksOf(rx)
    <3>1. TasksOf(rx)' \subseteq TasksOf(rx) \ {t}
      BY <1>1, <1>4 DEF TasksOf
    <3>2. ASSUME NEW i \in 1..Len(rx), rx[i].task # t
          PROVE  rx[i].task \in TasksOf(rx)'
      <4>1. i # 1
        BY <3>2
      <4>2. i - 1 \in 1..Len(rx') /\ rx'[i - 1] = rx[i]
        BY <4>1, <1>1
      <4> QED
        BY <4>2 DEF TasksOf
    <3>3. TasksOf(rx) \ {t} \subseteq TasksOf(rx)'
      BY <3>2 DEF TasksOf
    <3>4. t \in TasksOf(rx)
      <4>1. 1 \in 1..Len(rx)
        BY <1>1
      <4> QED
        BY <4>1 DEF TasksOf
    <3> QED
      BY <3>1, <3>3, <3>4
  <2>2. Live' = Live /\ t \notin Live
    BY <1>2, <1>3 DEF Live
  <2> QED
    BY <2>1, <2>2 DEF InFlight
<1>6. /\ globalRunning' = Decrement(globalRunning)
      /\ groupRunning' = [groupRunning EXCEPT ![GroupOf[t]] = Decrement(@)]
  BY <1>1 DEF Receive
<1>7. SlotsAgree'
  BY <1>2, <1>5, <1>6, ReleaseSlot DEF SlotInv
<1>8. /\ globalRunning' <= GlobalLimit
      /\ \A g \in Groups : groupRunning'[g] <= GroupLimit(g)
  <2>1. \A n, m \in Nat : n <= m => Decrement(n) <= m
    BY DEF Decrement
  <2> QED
    BY ZenonT(40), <1>2, <1>6, <2>1, LimitsType, TasksAssumption DEF SlotInv, TypeOK
<1>9. \A i \in 1..Len(rx') : i + 1 \in 1..Len(rx)
  BY <1>1
<1>10. \A i \in 1..Len(rx') : co'[rx'[i].task] = "ended"
  BY <1>1, <1>3, <1>9 DEF SlotInv
<1>11. ASSUME NEW i \in 1..Len(rx'), NEW j \in 1..Len(rx'),
              rx'[i].task = rx'[j].task
       PROVE  i = j
  <2>1. i + 1 = j + 1
    BY <1>1, <1>9, <1>11 DEF SlotInv
  <2> QED
    BY <1>1, <2>1
<1> QED
  BY <1>3, <1>7, <1>8, <1>10, <1>11 DEF SlotInv

\* Steps that move neither a queued task, nor a coroutine, nor a result.
LEMMA IdleSlots ==
    ASSUME SlotInv, TypeOK', UNCHANGED <<queue, co, rx, record, slotVars>>
    PROVE  SlotInv'
<1>1. InFlight' = InFlight
  BY InFlightFromParts DEF Live
<1> QED
  BY <1>1, SameSlots DEF SlotInv

\* No slot is taken before the scheduler starts.
LEMMA InitSlots == Init => SlotInv
<1> SUFFICES ASSUME Init PROVE SlotInv
  OBVIOUS
<1>1. InFlight = {}
  BY EmptySeq DEF Init, InFlight, Live, TasksOf
<1>2. \A g \in Groups : InGroup(InFlight, g) = {}
  BY <1>1 DEF InGroup
<1>3. SlotsAgree
  BY <1>1, <1>2, FS_EmptySet DEF Init, SlotsAgree
<1>4. Len(rx) = 0 /\ globalRunning = 0 /\ \A g \in Groups : groupRunning[g] = 0
  BY EmptySeq DEF Init
<1>5. \A i \in 1..Len(rx) : FALSE
  BY <1>4
<1>6. /\ \A t \in Tasks : record[t] = "Unregistered" => co[t] = "none"
      /\ \A t \in queue : record[t] # "Unregistered" /\ co[t] = "none"
  BY TasksAssumption DEF Init
<1> QED
  BY <1>3, <1>4, <1>5, <1>6, InitType, LimitsType DEF SlotInv

\* The control operations leave the slots alone.
LEMMA ControlSlots ==
    ASSUME SlotInv, TypeOK', Control
    PROVE  SlotInv'
<1>1. ASSUME NEW t \in Tasks, AddTask(t) PROVE SlotInv'
  <2>1. /\ queue' = queue \cup {t}
        /\ record' = [record EXCEPT ![t] = "Pending"]
        /\ record[t] = "Unregistered"
        /\ UNCHANGED <<co, rx, slotVars>>
    BY <1>1 DEF AddTask, ServiceRegister, SetTaskState
  <2>2. InFlight' = InFlight
    BY <2>1, InFlightFromParts DEF Live
  <2>3. /\ \A u \in Tasks : record'[u] = "Unregistered" => co'[u] = "none"
        /\ \A u \in queue' : record'[u] # "Unregistered" /\ co'[u] = "none"
    BY <2>1 DEF SlotInv, TypeOK
  <2> QED
    BY <2>1, <2>2, <2>3, SameSlots DEF SlotInv
<1>2. CASE UNCHANGED <<queue, co, rx, record, slotVars>>
  BY <1>2, IdleSlots
<1> QED
  BY <1>1, <1>2
  DEF Control, Pause, Resume, CancelAll, CancelGroup, CancelToken, taskVars

\* Every step of run_inner keeps the slots right.
LEMMA SchedulerSlots ==
    ASSUME SlotInv, TypeOK', Scheduler
    PROVE  SlotInv'
<1>1. ASSUME NEW t \in Tasks, Dispatch(t) PROVE SlotInv'
  BY <1>1, DispatchSlots
<1>2. CASE Receive
  BY <1>2, ReceiveSlots
<1>3. CASE LoadFlags \/ EndDispatch \/ CheckExit \/ WakeNotified
           \/ WakeCancelled \/ Return
  <2>1. UNCHANGED <<queue, co, rx, record, slotVars>>
    BY <1>3 DEF LoadFlags, EndDispatch, CheckExit, WakeNotified, WakeCancelled,
                Return, taskVars
  <2> QED
    BY <2>1, IdleSlots
<1>4. ASSUME NEW ok \in BOOLEAN, RunRollback(ok) PROVE SlotInv'
  <2>1. UNCHANGED <<queue, co, rx, record, slotVars>>
    BY <1>4 DEF RunRollback, ServiceRollback
  <2> QED
    BY <2>1, IdleSlots
<1> QED
  BY <1>1, <1>2, <1>3, <1>4 DEF Scheduler

\* A step of a live coroutine that stays live.
LEMMA LiveSlots ==
    ASSUME SlotInv, TypeOK', NEW t \in Tasks, t \in Live,
           co'[t] \in {"attempt", "delay"},
           \A u \in Tasks \ {t} : co'[u] = co[u],
           record'[t] = "Running" \/ record' = record,
           \A u \in Tasks \ {t} : record'[u] = record[u],
           UNCHANGED <<queue, rx, slotVars>>
    PROVE  SlotInv'
<1>1. Live' = Live
  BY DEF Live
<1>2. InFlight' = InFlight
  BY <1>1, InFlightFromParts
<1>3. co[t] # "none" /\ co[t] # "ended" /\ record[t] # "Unregistered"
  BY DEF Live, SlotInv
<1>4. \A u \in queue : u # t /\ u \in Tasks
  BY <1>3 DEF SlotInv, TypeOK
<1>5. /\ \A u \in Tasks : record'[u] = "Unregistered" => co'[u] = "none"
      /\ \A u \in queue' : record'[u] # "Unregistered" /\ co'[u] = "none"
  BY <1>3, <1>4 DEF SlotInv
<1>6. \A i \in 1..Len(rx) : rx[i].task \in Tasks /\ rx[i].task # t
  BY <1>3, ChannelType DEF SlotInv
<1>7. \A i \in 1..Len(rx') : co'[rx'[i].task] = "ended"
  BY <1>6 DEF SlotInv
<1> QED
  BY <1>2, <1>5, <1>7, SameSlots DEF SlotInv

\* A failed attempt keeps its slot until its result is received.
LEMMA AttemptFailedSlots ==
    ASSUME SlotInv, TypeOK', NEW t \in Tasks, co[t] = "attempt", AttemptFailed(t)
    PROVE  SlotInv'
<1>1. CASE Settle(t, "Failed")
  BY <1>1, SettleSlots DEF Terminal
<1>2. CASE ~Settle(t, "Failed")
  <2>1. /\ UNCHANGED <<queue, rx, record, slotVars>>
        /\ co' = co \/ co' = [co EXCEPT ![t] = "delay"]
    BY <1>2 DEF AttemptFailed
  <2>2. t \in Live /\ co \in [Tasks -> CoStates]
    BY DEF Live, SlotInv, TypeOK
  <2>3. /\ co'[t] \in {"attempt", "delay"}
        /\ \A u \in Tasks \ {t} : co'[u] = co[u]
    BY <2>1, <2>2
  <2> QED
    BY <2>1, <2>2, <2>3, LiveSlots
<1> QED
  BY <1>1, <1>2

\* Every step of a task keeps the slots right.
LEMMA CoroutineSlots ==
    ASSUME SlotInv, TypeOK', NEW t \in Tasks, Coroutine(t)
    PROVE  SlotInv'
<1>1. CASE Start(t)
  <2>1. /\ co[t] = "spawned"
        /\ co' = [co EXCEPT ![t] = "attempt"]
        /\ record' = [record EXCEPT ![t] = "Running"]
        /\ UNCHANGED <<queue, rx, slotVars>>
    BY <1>1 DEF Start, ServiceStart, SetTaskState
  <2>2. t \in Live
    BY <2>1 DEF Live
  <2>3. /\ co'[t] = "attempt"
        /\ record'[t] = "Running"
        /\ \A u \in Tasks \ {t} : co'[u] = co[u] /\ record'[u] = record[u]
    BY <2>1 DEF SlotInv, TypeOK
  <2> QED
    BY <2>1, <2>2, <2>3, LiveSlots
<1>2. CASE RunnerOk(t)
  BY <1>2, SettleSlots DEF RunnerOk, Terminal
<1>3. CASE RunnerErr(t)
  BY <1>3, SettleSlots, AttemptFailedSlots DEF RunnerErr, Terminal
<1>4. CASE AttemptTimeout(t)
  BY <1>4, AttemptFailedSlots DEF AttemptTimeout
<1>5. CASE DelayElapsed(t)
  <2>1. /\ co[t] = "delay"
        /\ co' = [co EXCEPT ![t] = "attempt"]
        /\ UNCHANGED <<queue, rx, record, slotVars>>
    BY <1>5 DEF DelayElapsed
  <2>2. t \in Live
    BY <2>1 DEF Live
  <2>3. co'[t] = "attempt" /\ \A u \in Tasks \ {t} : co'[u] = co[u]
    BY <2>1 DEF SlotInv, TypeOK
  <2> QED
    BY <2>1, <2>2, <2>3, LiveSlots
<1>6. CASE ObserveCancel(t)
  BY <1>6, SettleSlots DEF ObserveCancel, Terminal
<1> QED
  BY <1>1, <1>2, <1>3, <1>4, <1>5, <1>6 DEF Coroutine

\* The strengthened invariant of the slot counters of run_inner is inductive.
THEOREM SlotInvariant == Spec => []SlotInv
<1>1. SlotInv /\ TypeOK' /\ [Next]_vars => SlotInv'
  <2> SUFFICES ASSUME SlotInv, TypeOK', [Next]_vars PROVE SlotInv'
    OBVIOUS
  <2>1. CASE Scheduler
    BY <2>1, SchedulerSlots
  <2>2. CASE Control
    BY <2>2, ControlSlots
  <2>3. ASSUME NEW t \in Tasks, Coroutine(t) PROVE SlotInv'
    BY <2>3, CoroutineSlots
  <2>4. CASE UNCHANGED vars
    BY <2>4, IdleSlots DEF vars, taskVars
  <2> QED
    BY <2>1, <2>2, <2>3, <2>4 DEF Next
<1> QED
  BY InitSlots, <1>1, TypeCorrect, PTL DEF Spec

\* run_inner's two slot counters always count the tasks in flight.
THEOREM SlotsCorrect == Spec => []SlotsAgree
<1>1. SlotInv => SlotsAgree
  BY DEF SlotInv
<1> QED
  BY <1>1, SlotInvariant, PTL

\* So the concurrency limits of TaskRunOptions hold, whatever is retried,
\* cancelled, paused or added, from whichever thread.
THEOREM LimitsHold == Spec => []WithinLimits
<1>1. SlotInv => WithinLimits
  <2> SUFFICES ASSUME SlotInv PROVE WithinLimits
    OBVIOUS
  <2>1. TypeOK /\ SlotsAgree
    BY DEF SlotInv
  <2>2. /\ Live \in SUBSET InFlight
        /\ \A g \in Groups : InGroup(Live, g) \in SUBSET InGroup(InFlight, g)
    BY DEF InFlight, InGroup
  <2>3. /\ Cardinality(Live) <= Cardinality(InFlight)
        /\ IsFiniteSet(Live)
    BY <2>1, <2>2, InFlightFinite, FS_Subset
  <2>4. Cardinality(Live) <= GlobalLimit
    BY <2>1, <2>3, FS_CardinalityType, LimitsType, InFlightFinite
    DEF SlotInv, SlotsAgree
  <2>5. ASSUME NEW g \in Groups
        PROVE  Cardinality(InGroup(Live, g)) <= GroupLimit(g)
    <3> DEFINE S == InGroup(InFlight, g)
               L == InGroup(Live, g)
    <3>1. IsFiniteSet(S) /\ L \in SUBSET S
      BY <2>1, <2>2, InFlightFinite
    <3>2. IsFiniteSet(L) /\ Cardinality(L) <= Cardinality(S)
      BY <3>1, FS_Subset
    <3>3. Cardinality(S) \in Nat /\ Cardinality(L) \in Nat
      BY <3>1, <3>2, FS_CardinalityType
    <3>4. Cardinality(S) <= GroupLimit(g)
      BY DEF SlotInv, SlotsAgree
    <3>5. \A i, j, k \in Nat : (i <= j /\ j <= k) => i <= k
      OBVIOUS
    <3>6. GroupLimit(g) \in Nat
      BY LimitsType
    <3> QED
      BY <3>2, <3>3, <3>4, <3>5, <3>6
  <2> QED
    BY <2>4, <2>5 DEF WithinLimits
<1> QED
  BY <1>1, SlotInvariant, PTL

-----------------------------------------------------------------------------
(* No wake-up is lost on one thread.                                       *)

\* Between the end of dispatching and the select!, nothing that matters can
\* change when control operations share the scheduler's thread.
WakeInv ==
    (pc \in {"exit", "select"} /\ ~notified /\ ~paused /\ ~stopped)
        => (Runnable = {} \/ globalRunning >= GlobalLimit)

\* When control operations run on the scheduler's thread, a scheduler that
\* sleeps unnotified, not paused and not stopped, has nothing it could start:
\* resume and add_task never slip in between its last look and its sleep.
THEOREM NoLostWakeup ==
    ASSUME SharedThread
    PROVE  Spec => []WorkConserving
<1>1. Init => WakeInv
  BY DEF Init, WakeInv
<1>2. TypeOK /\ WakeInv /\ [Next]_vars => WakeInv'
  <2> SUFFICES ASSUME TypeOK, WakeInv, [Next]_vars,
                      pc' \in {"exit", "select"}, ~notified', ~paused', ~stopped'
               PROVE  Runnable' = {} \/ globalRunning' >= GlobalLimit
    BY DEF WakeInv
  <2>1. CASE Scheduler
    <3>1. CASE LoadFlags
      BY <2>1, <3>1 DEF LoadFlags, controlVars
    <3>2. CASE EndDispatch
      BY <3>2 DEF EndDispatch, Runnable, GroupHasRoom, slotVars
    <3>3. CASE CheckExit
      BY <3>3 DEF CheckExit, WakeInv, Runnable, GroupHasRoom, slotVars, controlVars
    <3>4. pc' = pc \/ LoadFlags \/ EndDispatch \/ CheckExit
              \/ pc' \in {"load", "done"}
      BY <2>1 DEF Scheduler, Dispatch, WakeNotified, WakeCancelled, Receive,
                  RunRollback, Return
    <3>5. CASE pc' = pc
      <4>1. pc \notin {"dispatch", "rollback"}
        BY <3>5
      <4> QED
        BY <2>1, <3>1, <3>2, <3>3, <3>5, <4>1
        DEF Scheduler, Dispatch, WakeNotified, WakeCancelled, Receive,
            RunRollback, Return
    <3> QED
      BY <3>1, <3>2, <3>3, <3>4, <3>5
  <2>2. CASE Control
    <3>1. Awaiting /\ pc' = pc
      BY <2>2 DEF Control, AddTask, Pause, Resume, CancelAll, CancelGroup,
                  CancelToken, MayControl
    <3>2. pc = "select"
      BY <3>1 DEF Awaiting
    <3>3. CASE NotifyWaiters
      BY <3>2, <3>3 DEF NotifyWaiters
    <3>4. CASE Pause \/ CancelToken
      BY <3>2, <3>4 DEF Pause, CancelToken, WakeInv, Runnable, GroupHasRoom, slotVars
    <3> QED
      BY <2>2, <3>3, <3>4 DEF Control, AddTask, Resume, CancelAll, CancelGroup
  <2>3. ASSUME NEW t \in Tasks, Coroutine(t)
        PROVE  Runnable' = {} \/ globalRunning' >= GlobalLimit
    <3>1. UNCHANGED <<queue, controlVars, notified, pc, slotVars>>
      BY <2>3
      DEF Coroutine, Start, RunnerOk, RunnerErr, AttemptTimeout, DelayElapsed,
          ObserveCancel, AttemptFailed, Settle
    <3> QED
      BY <3>1 DEF WakeInv, Runnable, GroupHasRoom, slotVars, controlVars
  <2>4. CASE UNCHANGED vars
    BY <2>4 DEF vars, WakeInv, Runnable, GroupHasRoom, slotVars, controlVars
  <2> QED
    BY <2>1, <2>2, <2>3, <2>4 DEF Next
<1>3. WakeInv => WorkConserving
  BY DEF WakeInv, WorkConserving
<1> QED
  BY <1>1, <1>2, <1>3, TypeCorrect, PTL DEF Spec

-----------------------------------------------------------------------------
(* What run_inner leaves behind, and what a stop prevents.                 *)

\* The exit test saw no slot in use, and none is taken after it.
DrainInv == pc \in {"rollback", "done"} => globalRunning = 0

\* run() leaves its loop only when every task it started has been reported.
THEOREM NothingLeftBehind == Spec => []LoopDrains
<1>1. Init => DrainInv
  BY DEF Init, DrainInv
<1>2. DrainInv /\ [Next]_vars => DrainInv'
  <2> SUFFICES ASSUME DrainInv, [Next]_vars PROVE DrainInv'
    OBVIOUS
  <2>1. CASE Scheduler
    BY <2>1
    DEF Scheduler, LoadFlags, Dispatch, EndDispatch, CheckExit, WakeNotified,
        WakeCancelled, Receive, RunRollback, Return, DrainInv, slotVars
  <2>2. CASE Control
    BY <2>2
    DEF Control, AddTask, Pause, Resume, CancelAll, CancelGroup, CancelToken,
        DrainInv, slotVars
  <2>3. ASSUME NEW t \in Tasks, Coroutine(t) PROVE DrainInv'
    BY <2>3
    DEF Coroutine, Start, RunnerOk, RunnerErr, AttemptTimeout, DelayElapsed,
        ObserveCancel, AttemptFailed, Settle, DrainInv, slotVars
  <2>4. CASE UNCHANGED vars
    BY <2>4 DEF vars, DrainInv, slotVars
  <2> QED
    BY <2>1, <2>2, <2>3, <2>4 DEF Next
<1>3. DrainInv /\ SlotInv => LoopDrains
  <2> SUFFICES ASSUME DrainInv, SlotInv, pc \in {"rollback", "done"}
               PROVE  InFlight = {}
    BY DEF LoopDrains
  <2>1. Cardinality(InFlight) = 0
    BY DEF DrainInv, SlotInv, SlotsAgree
  <2>2. IsFiniteSet(InFlight)
    BY InFlightFinite DEF SlotInv
  <2> QED
    BY <2>1, <2>2, FS_EmptySet
<1> QED
  BY <1>1, <1>2, <1>3, SlotInvariant, PTL DEF Spec

\* Tasks are dispatched only by a turn of the loop that saw stopped unset, and
\* on one thread nothing sets it during that turn.
StopInv == pc = "dispatch" => ~stopped

\* When control operations run on the scheduler's thread, no task is started
\* once stopped is set.
THEOREM StopHolds ==
    ASSUME SharedThread
    PROVE  Spec => NoStartAfterStop
<1> DEFINE Started == \E t \in Tasks : co[t] = "none" /\ co'[t] # "none"
<1>1. Init => StopInv
  BY DEF Init, StopInv
<1>2. StopInv /\ [Next]_vars => StopInv'
  <2> SUFFICES ASSUME StopInv, [Next]_vars PROVE StopInv'
    OBVIOUS
  <2>1. CASE Scheduler
    BY <2>1
    DEF Scheduler, LoadFlags, Dispatch, EndDispatch, CheckExit, WakeNotified,
        WakeCancelled, Receive, RunRollback, Return, StopInv, controlVars
  <2>2. CASE Control
    BY <2>2
    DEF Control, AddTask, Pause, Resume, CancelAll, CancelGroup, CancelToken,
        MayControl, Awaiting, StopInv, controlVars
  <2>3. ASSUME NEW t \in Tasks, Coroutine(t) PROVE StopInv'
    BY <2>3
    DEF Coroutine, Start, RunnerOk, RunnerErr, AttemptTimeout, DelayElapsed,
        ObserveCancel, AttemptFailed, Settle, StopInv, controlVars
  <2>4. CASE UNCHANGED vars
    BY <2>4 DEF vars, StopInv, controlVars
  <2> QED
    BY <2>1, <2>2, <2>3, <2>4 DEF Next
<1>3. TypeOK /\ StopInv /\ [Next]_vars => (Started => ~stopped)
  <2> SUFFICES ASSUME TypeOK, StopInv, [Next]_vars, Started PROVE ~stopped
    OBVIOUS
  <2>1. PICK t \in Tasks : co[t] = "none" /\ co'[t] # "none"
    OBVIOUS
  <2>2. CASE Scheduler
    <3>1. \E u \in Tasks : Dispatch(u)
      BY <2>1, <2>2
      DEF Scheduler, LoadFlags, EndDispatch, CheckExit, WakeNotified,
          WakeCancelled, Receive, RunRollback, Return, taskVars
    <3> QED
      BY <3>1 DEF Dispatch, StopInv
  <2>3. CASE Control
    BY <2>1, <2>3
    DEF Control, AddTask, Pause, Resume, CancelAll, CancelGroup, CancelToken,
        taskVars
  <2>4. ASSUME NEW u \in Tasks, Coroutine(u) PROVE FALSE
    <3>1. co[u] \in {"spawned", "attempt", "delay"}
      BY <2>4
      DEF Coroutine, Start, RunnerOk, RunnerErr, AttemptTimeout, DelayElapsed,
          ObserveCancel
    <3>2. \E s \in CoStates : co' = [co EXCEPT ![u] = s] \/ co' = co
      BY <2>4
      DEF Coroutine, Start, RunnerOk, RunnerErr, AttemptTimeout, DelayElapsed,
          ObserveCancel, AttemptFailed, Settle, CoStates
    <3> QED
      BY <2>1, <3>1, <3>2 DEF TypeOK
  <2>5. CASE UNCHANGED vars
    BY <2>1, <2>5 DEF vars, taskVars
  <2> QED
    BY <2>2, <2>3, <2>4, <2>5 DEF Next
<1>4. TypeOK /\ StopInv /\ [Next]_vars
        => [\A t \in Tasks : (co[t] = "none" /\ co'[t] # "none") => ~stopped]_vars
  BY <1>3
<1> QED
  BY <1>1, <1>2, <1>4, TypeCorrect, PTL DEF Spec, NoStartAfterStop

-----------------------------------------------------------------------------
(* Retries.                                                                *)

\* A task that waits to be retried has an attempt left, and a task recorded as
\* Failed has ended with none left.
AttemptInv ==
    \A t \in Tasks :
        /\ attempts[t] <= MaxRetries[t] + 1
        /\ co[t] = "delay" => attempts[t] <= MaxRetries[t]
        /\ record[t] = "Failed" => /\ attempts[t] = MaxRetries[t] + 1
                                   /\ co[t] = "ended"

\* A failed attempt is retried only while an attempt is left.
LEMMA AttemptFailedCount ==
    ASSUME TypeOK, AttemptInv, NEW t \in Tasks, co[t] = "attempt",
           AttemptFailed(t)
    PROVE  AttemptInv'
<1>1. /\ attempts[t] \in Nat /\ MaxRetries[t] \in Nat
      /\ co \in [Tasks -> CoStates] /\ attempts \in [Tasks -> Nat]
      /\ record \in [Tasks -> TaskStates]
  BY TasksAssumption DEF TypeOK
<1>2. CASE ~MayRetry(t) /\ Settle(t, "Failed")
  <2>1. attempts[t] = MaxRetries[t] + 1
    BY <1>1, <1>2 DEF MayRetry, AttemptInv
  <2>2. /\ co' = [co EXCEPT ![t] = "ended"]
        /\ record' = [record EXCEPT ![t] = "Failed"]
        /\ attempts' = attempts
    BY <1>2 DEF Settle, ServiceSettle, SetTaskState
  <2> QED
    BY <1>1, <2>1, <2>2 DEF AttemptInv
<1>3. CASE MayRetry(t)
  <2>1. attempts[t] <= MaxRetries[t]
    BY <1>3 DEF MayRetry
  <2>2. /\ record' = record
        /\ \/ co' = [co EXCEPT ![t] = "delay"] /\ attempts' = attempts
           \/ co' = co /\ attempts' = [attempts EXCEPT ![t] = @ + 1]
    BY <1>3 DEF AttemptFailed
  <2>3. record[t] # "Failed"
    BY DEF AttemptInv
  <2> QED
    BY <1>1, <2>1, <2>2, <2>3 DEF AttemptInv
<1> QED
  BY <1>2, <1>3 DEF AttemptFailed

\* Settling a task as completed or cancelled does not touch its attempts.
LEMMA SettleCount ==
    ASSUME TypeOK, AttemptInv, NEW t \in Tasks,
           NEW s \in {"Completed", "Cancelled"}, Settle(t, s)
    PROVE  AttemptInv'
<1>1. /\ co' = [co EXCEPT ![t] = "ended"]
      /\ record' = [record EXCEPT ![t] = s]
      /\ attempts' = attempts
  BY DEF Settle, ServiceSettle, SetTaskState
<1> QED
  BY <1>1 DEF AttemptInv, TypeOK

\* Every step of a task counts its attempts within max_retries.
LEMMA CoroutineCount ==
    ASSUME TypeOK, AttemptInv, NEW t \in Tasks, Coroutine(t)
    PROVE  AttemptInv'
<1>1. /\ attempts[t] \in Nat /\ MaxRetries[t] \in Nat
      /\ co \in [Tasks -> CoStates] /\ attempts \in [Tasks -> Nat]
      /\ record \in [Tasks -> TaskStates]
  BY TasksAssumption DEF TypeOK
<1>2. CASE Start(t)
  <2>1. /\ co[t] = "spawned"
        /\ co' = [co EXCEPT ![t] = "attempt"]
        /\ attempts' = [attempts EXCEPT ![t] = 1]
        /\ record' = [record EXCEPT ![t] = "Running"]
    BY <1>2 DEF Start, ServiceStart, SetTaskState
  <2> QED
    BY <1>1, <2>1 DEF AttemptInv
<1>3. CASE RunnerOk(t)
  BY <1>3, SettleCount DEF RunnerOk
<1>4. CASE RunnerErr(t)
  BY <1>4, SettleCount, AttemptFailedCount DEF RunnerErr
<1>5. CASE AttemptTimeout(t)
  BY <1>5, AttemptFailedCount DEF AttemptTimeout
<1>6. CASE DelayElapsed(t)
  <2>1. /\ co[t] = "delay"
        /\ co' = [co EXCEPT ![t] = "attempt"]
        /\ attempts' = [attempts EXCEPT ![t] = @ + 1]
        /\ record' = record
    BY <1>6 DEF DelayElapsed
  <2> QED
    BY <1>1, <2>1 DEF AttemptInv
<1>7. CASE ObserveCancel(t)
  BY <1>7, SettleCount DEF ObserveCancel
<1> QED
  BY <1>2, <1>3, <1>4, <1>5, <1>6, <1>7 DEF Coroutine

\* A task is attempted at most max_retries + 1 times, and it is recorded as
\* Failed only when all of them were used.
THEOREM RetriesBounded == Spec => []AttemptsBounded
<1>1. Init => AttemptInv
  BY TasksAssumption DEF Init, AttemptInv
<1>2. TypeOK /\ SlotInv /\ AttemptInv /\ [Next]_vars => AttemptInv'
  <2> SUFFICES ASSUME TypeOK, SlotInv, AttemptInv, [Next]_vars PROVE AttemptInv'
    OBVIOUS
  <2>1. ASSUME NEW t \in Tasks, Dispatch(t) PROVE AttemptInv'
    <3>1. /\ co[t] = "none"
          /\ co' = [co EXCEPT ![t] = "spawned"]
          /\ UNCHANGED <<attempts, record>>
      BY <2>1 DEF Dispatch, IsNext, Runnable, SlotInv
    <3> QED
      BY <3>1 DEF AttemptInv, TypeOK
  <2>2. ASSUME NEW t \in Tasks, AddTask(t) PROVE AttemptInv'
    <3>1. /\ record' = [record EXCEPT ![t] = "Pending"]
          /\ UNCHANGED <<co, attempts>>
      BY <2>2 DEF AddTask, ServiceRegister, SetTaskState
    <3> QED
      BY <3>1 DEF AttemptInv, TypeOK
  <2>3. ASSUME NEW t \in Tasks, Coroutine(t) PROVE AttemptInv'
    BY <2>3, CoroutineCount
  <2>4. CASE UNCHANGED <<co, attempts, record>>
    BY <2>4 DEF AttemptInv
  <2>5. CASE Scheduler
    BY <2>1, <2>4, <2>5
    DEF Scheduler, LoadFlags, EndDispatch, CheckExit, WakeNotified,
        WakeCancelled, Receive, RunRollback, ServiceRollback, Return, taskVars
  <2>6. CASE Control
    BY <2>2, <2>4, <2>6
    DEF Control, Pause, Resume, CancelAll, CancelGroup, CancelToken, taskVars
  <2> QED
    BY <2>3, <2>4, <2>5, <2>6 DEF Next, vars, taskVars
<1>3. AttemptInv => AttemptsBounded
  BY DEF AttemptInv, AttemptsBounded
<1> QED
  BY <1>1, <1>2, <1>3, TypeCorrect, SlotInvariant, PTL DEF Spec
=============================================================================
