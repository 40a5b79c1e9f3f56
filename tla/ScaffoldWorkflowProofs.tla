----------------------- MODULE ScaffoldWorkflowProofs -----------------------
(***************************************************************************)
(* Theorems about ScaffoldWorkflow, for every workflow, every set of files *)
(* and every step and every undo that fails.                               *)
(***************************************************************************)
EXTENDS ScaffoldWorkflow, SequenceTheorems, TLAPS

-----------------------------------------------------------------------------
(* The inductive invariant.                                                *)

\* What a file may hold that no write has torn.
Whole == SUBSET {"user", "template", "deps", "installed"}

Operations ==
    [from     : Nat,
     target   : Files \cup {"workspace"},
     status   : {"applied", "planned", "skipped", "rolled_back"},
     rollback : {"supported", "completed", "failed", "not_needed",
                 "not_supported", "compensation_available"}]

HookRecords == [op : Nat, file : Files, content : Whole]

\* No step has thrown.
Working == pc \in {"running", "writing", "installing"}

\* A file is torn only by the step that ends the workflow, or by an undo: what is
\* merged, snapshot and put back never is.
Shape ==
    /\ ops \in Seq(Operations) /\ hooks \in Seq(HookRecords)
    /\ Working => disk \in [Files -> Whole]
    /\ before \in [Files -> Whole]
    /\ \A f \in DOMAIN merged : merged[f] \in Whole
    /\ queue \subseteq Targets
    /\ pc = "writing" => DOMAIN merged = Targets

\* How far the workflow and its rollback have come.
Progress ==
    /\ pc \in {"writing", "installing", "undoing", "failed"} => at \in DOMAIN workflow
    /\ pc = "installing" => commands < InstallCommands
    /\ Working => turn = 0
    /\ pc = "failed" => turn = Len(hooks)

\* Hook h is the one of the first write of its file.
FirstHook(h) == \A g \in 1..(h - 1) : hooks[g].file # hooks[h].file

\* Each write has one hook, in order, and the first one of a file puts back what
\* the file held before.
HookStage ==
    /\ \A h \in 1..Len(hooks) :
           hooks[h].op \in 1..Len(ops) /\ ops[hooks[h].op].target = hooks[h].file
    /\ \A g, h \in 1..Len(hooks) : g < h => hooks[g].op < hooks[h].op
    /\ \A i \in 1..Len(ops) :
           ops[i].rollback \in {"supported", "completed", "failed"} =>
               \E h \in 1..Len(hooks) : hooks[h].op = i
    /\ Working => prepared = {hooks[h].file : h \in 1..Len(hooks)}
    /\ \A h \in 1..Len(hooks) :
           FirstHook(h) => hooks[h].content = before[hooks[h].file]

\* The last `turn` hooks have been run, and what a later one restored an earlier
\* one has not touched if it was the first of its file.
UndoStage ==
    /\ \A h \in 1..(Len(hooks) - turn) :
           /\ ops[hooks[h].op].rollback = "supported"
           /\ ops[hooks[h].op].status = "applied"
    /\ \A h \in (Len(hooks) - turn + 1)..Len(hooks) :
           /\ ops[hooks[h].op].rollback \in {"completed", "failed"}
           /\ FirstHook(h) /\ ops[hooks[h].op].rollback = "completed" =>
                  disk[hooks[h].file] = before[hooks[h].file]

\* The step is told, or need not be.
Told(step) ==
    \/ \E i \in NonRevertible : ops[i].from = step
    \/ workflow[step].rollback = "none"
    \/ /\ workflow[step].kind = "firstCommit"
       /\ \E i \in DOMAIN ops : ops[i].from = step /\ ops[i].status = "skipped"

\* Only a step that is not over, or failed, has an effect nobody was told of.
EffectStage ==
    \A step \in effects :
        Told(step) \/ (step = at /\ pc \in {"installing", "undoing", "failed"})

IInv ==
    /\ TypeOK
    /\ Shape
    /\ Progress
    /\ HookStage
    /\ UndoStage
    /\ EffectStage


-----------------------------------------------------------------------------
(* What the invariant says of the sequences, and what a step keeps.        *)

\* The steps, the operations and the hooks are numbered from 1.
LEMMA Numbers ==
    ASSUME IInv
    PROVE  /\ workflow \in Seq(Steps) /\ Len(workflow) \in Nat
           /\ DOMAIN workflow = 1..Len(workflow)
           /\ Len(ops) \in Nat /\ DOMAIN ops = 1..Len(ops)
           /\ Len(hooks) \in Nat /\ DOMAIN hooks = 1..Len(hooks)
           /\ \A i \in 1..Len(ops) : ops[i] \in Operations
           /\ \A h \in 1..Len(hooks) : hooks[h] \in HookRecords
           /\ turn \in Nat /\ at \in Nat
BY WorkflowAssumption DEF IInv, TypeOK, Shape

\* What is merged is whole, if the files of the workspace are.
LEMMA Contained ==
    /\ Targets \subseteq Files
    /\ Whole \subseteq Contents /\ {"torn"} \in Contents
    /\ disk \in [Files -> Whole] => \A f \in Files : MergedContent(f) \in Whole
<1>1. Targets \subseteq Files
  BY WorkflowAssumption DEF Targets
<1>2. Whole \subseteq Contents /\ {"torn"} \in Contents
  <2> DEFINE torn == {"torn"}
  <2>1. Contents = Whole \cup {torn}
    BY DEF Whole, Contents
  <2> HIDE DEF torn
  <2> QED
    BY <2>1 DEF torn
<1>3. ASSUME disk \in [Files -> Whole], NEW f \in Files
      PROVE  MergedContent(f) \in Whole
  <2>1. disk[f] \in Whole
    BY <1>3
  <2> QED
    BY <2>1 DEF MergedContent, Whole
<1> QED
  BY <1>1, <1>2, <1>3

\* A step that leaves the transaction alone, and a rollback that has begun, keeps
\* what is said of them.
LEMMA TransactionKept ==
    ASSUME IInv, UNCHANGED <<workflow, prepared, before, ops, hooks, turn>>,
           Working' => Working, disk' = disk \/ Working
    PROVE  HookStage' /\ UndoStage' /\ \A step : Told(step)' <=> Told(step)
<1>1. HookStage'
  <2>1. Working' => prepared' = {hooks'[h].file : h \in 1..Len(hooks')}
    BY DEF IInv, HookStage
  <2>2. \A h : FirstHook(h)' <=> FirstHook(h)
    BY DEF FirstHook
  <2>3. \A h \in 1..Len(hooks') :
            FirstHook(h)' => hooks'[h].content = before'[hooks'[h].file]
    BY <2>2 DEF IInv, HookStage
  <2>4. /\ \A h \in 1..Len(hooks') :
               /\ hooks'[h].op \in 1..Len(ops')
               /\ ops'[hooks'[h].op].target = hooks'[h].file
        /\ \A g, h \in 1..Len(hooks') : g < h => hooks'[g].op < hooks'[h].op
        /\ \A i \in 1..Len(ops') :
               ops'[i].rollback \in {"supported", "completed", "failed"} =>
                   \E h \in 1..Len(hooks') : hooks'[h].op = i
    BY DEF IInv, HookStage
  <2> QED
    BY <2>1, <2>3, <2>4 DEF HookStage
<1>2. UndoStage'
  <2>1. CASE disk' = disk
    BY <2>1 DEF IInv, UndoStage, FirstHook
  <2>2. CASE Working
    <3>1. turn' = 0
      BY <2>2 DEF IInv, Progress
    <3>2. Len(hooks') \in Nat
      BY Numbers
    <3>3. (Len(hooks') - turn' + 1)..Len(hooks') = {}
      BY <3>1, <3>2
    <3> QED
      BY <3>3 DEF IInv, UndoStage
  <2> QED
    BY <2>1, <2>2
<1>3. \A step : Told(step)' <=> Told(step)
  BY DEF Told, NonRevertible
<1> QED
  BY <1>1, <1>2, <1>3

\* A step that is only begun, returns, throws or ends the workflow, and what it
\* merges, keeps everything.
LEMMA QuietStep ==
    ASSUME IInv, UNCHANGED <<world, workflow, prepared, before, transaction, undoing,
                             effects>>,
           pc = "running" \/ pc = "writing",
           pc' \in {"running", "writing", "installing", "undoing", "completed"},
           at' \in 1..(Len(workflow) + 1),
           pc' \in {"writing", "installing", "undoing"} => at' \in DOMAIN workflow,
           commands' \in 0..InstallCommands,
           pc' = "installing" => commands' < InstallCommands,
           merged' = merged \/ EnsureMerged,
           pc' = "writing" => DOMAIN merged' = Targets,
           queue' \subseteq Targets
    PROVE  IInv'
<1> USE DEF world, transaction, undoing
<1>1. Working
  BY DEF Working
<1>2. HookStage' /\ UndoStage' /\ \A step : Told(step)' <=> Told(step)
  BY <1>1, TransactionKept
<1>3. /\ DOMAIN merged' \in {{}, Targets}
      /\ \A f \in DOMAIN merged' : merged'[f] \in Whole
  <2>1. CASE merged' = merged
    BY <2>1 DEF IInv, TypeOK, Shape
  <2>2. CASE EnsureMerged /\ DOMAIN merged # {}
    BY <2>2 DEF IInv, TypeOK, Shape, EnsureMerged
  <2>3. CASE EnsureMerged /\ DOMAIN merged = {}
    <3>1. merged' = [f \in Targets |-> MergedContent(f)]
      BY <2>3 DEF EnsureMerged
    <3>2. \A f \in Targets : MergedContent(f) \in Whole
      BY <1>1, Contained DEF IInv, Shape
    <3> QED
      BY <3>1, <3>2
  <2> QED
    BY <2>1, <2>2, <2>3
<1>4. Shape'
  BY <1>1, <1>3 DEF IInv, Shape, Working
<1>5. TypeOK'
  BY <1>3, Contained DEF IInv, TypeOK
<1>6. Progress'
  BY <1>1 DEF IInv, Progress, Working
<1>7. EffectStage'
  <2>1. \A step \in effects : Told(step)
    BY DEF IInv, EffectStage
  <2> QED
    BY <1>2, <2>1 DEF EffectStage
<1> QED
  BY <1>2, <1>4, <1>5, <1>6, <1>7 DEF IInv

\* preflight, resolve, render, merge and print; the beginnings of writeFiles and
\* installDependencies, and the end of writeFiles; a call that fails; the end.
LEMMA QuietSteps ==
    ASSUME IInv,
           Calculate \/ Throw \/ Complete \/ MergeFiles \/ StartWriteFiles
               \/ WriteFilesDone \/ StartInstall
    PROVE  IInv'
<1>1. /\ Len(workflow) \in Nat /\ at \in 1..(Len(workflow) + 1)
      /\ DOMAIN workflow = 1..Len(workflow)
      /\ commands \in 0..InstallCommands /\ InstallCommands \in Nat
      /\ queue \subseteq Targets /\ DOMAIN merged \in {{}, Targets}
  BY Numbers, WorkflowAssumption DEF IInv, TypeOK, Shape
<1> USE DEF plan, writing
<1>2. CASE Calculate \/ Throw \/ Complete
  <2>1. /\ pc = "running" /\ pc' \in {"running", "undoing", "completed"}
        /\ at' \in 1..(Len(workflow) + 1)
        /\ pc' = "undoing" => at' \in DOMAIN workflow
    BY <1>1, <1>2 DEF Calculate, Throw, Complete, StepIs, StepReturns, StepThrows
  <2>2. /\ UNCHANGED <<world, workflow, prepared, before, transaction, undoing, effects>>
        /\ merged' = merged /\ queue' = queue /\ commands' = commands
    BY <1>2 DEF Calculate, Throw, Complete
  <2> QED
    BY <1>1, <2>1, <2>2, QuietStep
<1>3. CASE MergeFiles
  <2>1. /\ pc = "running" /\ pc' = "running" /\ at' \in 1..(Len(workflow) + 1)
    BY <1>1, <1>3 DEF MergeFiles, StepIs, StepReturns
  <2>2. /\ UNCHANGED <<world, workflow, prepared, before, transaction, undoing, effects>>
        /\ EnsureMerged /\ queue' = queue /\ commands' = commands
    BY <1>3 DEF MergeFiles
  <2> QED
    BY <1>1, <2>1, <2>2, QuietStep
<1>4. CASE StartWriteFiles
  <2>1. /\ pc = "running" /\ pc' = "writing" /\ at \in DOMAIN workflow /\ at' = at
    BY <1>4 DEF StartWriteFiles, StepIs
  <2>2. /\ UNCHANGED <<world, workflow, prepared, before, transaction, undoing, effects>>
        /\ EnsureMerged /\ queue' = Targets /\ commands' = commands
    BY <1>4 DEF StartWriteFiles
  <2>3. DOMAIN merged' = Targets
    BY <1>1, <2>2 DEF EnsureMerged
  <2> QED
    BY <1>1, <2>1, <2>2, <2>3, QuietStep
<1>5. CASE WriteFilesDone
  <2>1. /\ pc = "writing" /\ pc' = "running" /\ at' \in 1..(Len(workflow) + 1)
    BY <1>1, <1>5 DEF WriteFilesDone, StepReturns, IInv, Progress
  <2>2. /\ UNCHANGED <<world, workflow, prepared, before, transaction, undoing, effects>>
        /\ merged' = merged /\ queue' = queue /\ commands' = commands
    BY <1>5 DEF WriteFilesDone
  <2> QED
    BY <1>1, <2>1, <2>2, QuietStep
<1>6. CASE StartInstall
  <2>1. /\ pc = "running" /\ pc' = "installing" /\ at \in DOMAIN workflow /\ at' = at
        /\ commands' = 0 /\ InstallCommands > 0
    BY <1>6 DEF StartInstall, StepIs
  <2>2. /\ UNCHANGED <<world, workflow, prepared, before, transaction, undoing, effects>>
        /\ merged' = merged /\ queue' = queue
    BY <1>6 DEF StartInstall
  <2> QED
    BY <1>1, <2>1, <2>2, QuietStep
<1> QED
  BY <1>2, <1>3, <1>4, <1>5, <1>6


-----------------------------------------------------------------------------
(* Steps that register what they did.                                      *)

\* The operation that is appended is the last one.
LEMMA Appended ==
    ASSUME IInv, NEW o \in Operations, ops' = Append(ops, o)
    PROVE  /\ ops' \in Seq(Operations) /\ Len(ops') = Len(ops) + 1
           /\ DOMAIN ops' = 1..(Len(ops) + 1)
           /\ \A i \in 1..Len(ops) : ops'[i] = ops[i]
           /\ ops'[Len(ops) + 1] = o
           /\ \A i \in 1..(Len(ops) + 1) : i \in 1..Len(ops) \/ i = Len(ops) + 1
<1>1. ops \in Seq(Operations) /\ Len(ops) \in Nat
  BY Numbers DEF IInv, Shape
<1> QED
  BY <1>1

\* A registration adds an operation without a hook; one that was applied and
\* cannot be reverted is told.
LEMMA RegisterKeeps ==
    ASSUME IInv, Working, at \in DOMAIN workflow,
           NEW status \in {"applied", "planned", "skipped"},
           NEW rollback \in {"not_needed", "not_supported", "compensation_available"},
           Register(status, rollback),
           UNCHANGED <<workflow, prepared, before, turn>>, Working'
    PROVE  /\ HookStage' /\ UndoStage'
           /\ ops' \in Seq(Operations)
           /\ \A i \in DOMAIN ops' : ops'[i].from \in DOMAIN workflow
           /\ \A h \in DOMAIN hooks' :
                 hooks'[h].op \in DOMAIN ops' /\ ops'[hooks'[h].op].target = hooks'[h].file
           /\ \A step : Told(step) => Told(step)'
           /\ \/ status = "applied" /\ rollback # "not_needed"
              \/ status = "skipped" /\ workflow[at].kind = "firstCommit"
              => \A step : step = at => Told(step)'
<1> DEFINE o == Op("workspace", status, rollback)
           n == Len(ops)
<1>1. /\ ops' = Append(ops, o) /\ hooks' = hooks
      /\ o \in Operations
      /\ o.from = at /\ o.status = status /\ o.rollback = rollback
  BY Numbers DEF Register, Op, Operations
<1> HIDE DEF o
<1>2. /\ ops' \in Seq(Operations) /\ Len(ops') = n + 1 /\ DOMAIN ops' = 1..(n + 1)
      /\ \A i \in 1..n : ops'[i] = ops[i]
      /\ ops'[n + 1] = o
      /\ \A i \in 1..(n + 1) : i \in 1..n \/ i = n + 1
  BY <1>1, Appended
<1>3. /\ n \in Nat /\ DOMAIN ops = 1..n /\ 1..n \subseteq 1..(n + 1)
      /\ DOMAIN hooks = 1..Len(hooks) /\ Len(hooks) \in Nat
  BY Numbers
<1> HIDE DEF n
<1>4. HookStage'
  <2>1. \A h \in 1..Len(hooks') :
            hooks'[h].op \in 1..Len(ops') /\ ops'[hooks'[h].op].target = hooks'[h].file
    BY <1>1, <1>2, <1>3 DEF IInv, HookStage, n
  <2>2. \A g, h \in 1..Len(hooks') : g < h => hooks'[g].op < hooks'[h].op
    BY <1>1 DEF IInv, HookStage
  <2>3. ASSUME NEW i \in 1..Len(ops'),
               ops'[i].rollback \in {"supported", "completed", "failed"}
        PROVE  \E h \in 1..Len(hooks') : hooks'[h].op = i
    <3>1. i \in 1..n
      BY <1>1, <1>2, <2>3
    <3> QED
      BY <1>1, <1>2, <2>3, <3>1 DEF IInv, HookStage, n
  <2>4. prepared' = {hooks'[h].file : h \in 1..Len(hooks')}
    BY <1>1 DEF IInv, HookStage
  <2>5. \A h \in 1..Len(hooks') :
            FirstHook(h)' => hooks'[h].content = before'[hooks'[h].file]
    BY <1>1 DEF IInv, HookStage, FirstHook
  <2> QED
    BY <2>1, <2>2, <2>3, <2>4, <2>5 DEF HookStage
<1>5. UndoStage'
  <2>1. turn = 0 /\ turn' = 0
    BY DEF IInv, Progress
  <2>2. (Len(hooks') - turn' + 1)..Len(hooks') = {}
    BY <1>1, <1>3, <2>1
  <2>3. \A h \in 1..Len(hooks) : hooks[h].op \in 1..n
    BY DEF IInv, HookStage, n
  <2>4. \A h \in 1..Len(hooks) : /\ ops[hooks[h].op].rollback = "supported"
                                 /\ ops[hooks[h].op].status = "applied"
    BY <1>3, <2>1 DEF IInv, UndoStage
  <2>5. 1..(Len(hooks') - turn') = 1..Len(hooks)
    BY <1>1, <1>3, <2>1
  <2> QED
    BY <1>1, <1>2, <2>2, <2>3, <2>4, <2>5 DEF UndoStage
<1>6. \A i \in DOMAIN ops' : ops'[i].from \in DOMAIN workflow
  BY <1>1, <1>2, <1>3 DEF IInv, TypeOK
<1>7. ASSUME NEW step, Told(step)
      PROVE  Told(step)'
  <2>1. NonRevertible \subseteq NonRevertible'
    BY <1>2, <1>3 DEF NonRevertible
  <2> QED
    BY <1>2, <1>3, <1>7, <2>1 DEF Told, NonRevertible
<1>8. ASSUME status = "applied", rollback # "not_needed", NEW step, step = at
      PROVE  Told(step)'
  <2>1. n + 1 \in NonRevertible'
    BY <1>1, <1>2, <1>3, <1>8 DEF NonRevertible
  <2> QED
    BY <1>1, <1>2, <1>8, <2>1 DEF Told
<1>9. ASSUME status = "skipped", workflow[at].kind = "firstCommit", NEW step, step = at
      PROVE  Told(step)'
  <2>1. n + 1 \in DOMAIN ops' /\ ops'[n + 1].from = at /\ ops'[n + 1].status = "skipped"
    BY <1>1, <1>2, <1>3, <1>9
  <2> QED
    BY <1>9, <2>1 DEF Told
<1>10. \A h \in DOMAIN hooks' :
           hooks'[h].op \in DOMAIN ops' /\ ops'[hooks'[h].op].target = hooks'[h].file
  BY <1>1, <1>2, <1>3, <1>4 DEF HookStage
<1> QED
  BY <1>2, <1>4, <1>5, <1>6, <1>7, <1>8, <1>9, <1>10


\* A step that registers nothing, or did so, and changed the repository or the
\* package.json, keeps everything, if what it did and did not tell is its own.
LEMMA OtherStep ==
    ASSUME IInv, Working, at \in DOMAIN workflow,
           HookStage', UndoStage', ops' \in Seq(Operations), hooks' = hooks,
           \A i \in DOMAIN ops' : ops'[i].from \in DOMAIN workflow,
           \A h \in DOMAIN hooks' :
               hooks'[h].op \in DOMAIN ops' /\ ops'[hooks'[h].op].target = hooks'[h].file,
           \A step : Told(step) => Told(step)',
           UNCHANGED <<plan, writing, undoing>>,
           disk' \in [Files -> Whole], repo' \in BOOLEAN,
           commands' \in 0..InstallCommands,
           effects \subseteq effects', effects' \subseteq effects \cup {at},
           \/ pc' = "running" /\ at' = at + 1
              /\ \A step : step = at /\ step \in effects' => Told(step)'
           \/ pc' = "installing" /\ at' = at /\ commands' < InstallCommands
           \/ pc' = "undoing" /\ at' = at,
           pc = "running" \/ pc = "installing"
    PROVE  IInv'
<1> USE DEF plan, writing, undoing
<1>1. /\ DOMAIN workflow = 1..Len(workflow) /\ Len(workflow) \in Nat
      /\ at \in Nat /\ at' \in 1..(Len(workflow) + 1)
  BY Numbers
<1>2. Shape'
  BY DEF IInv, Shape, Working
<1>3. \A i \in DOMAIN ops' : ops'[i] \in Operations
  OBVIOUS
<1>4. TypeOK'
  <2>1. disk' \in [Files -> Contents] /\ before' \in [Files -> Contents]
    BY Contained DEF IInv, Shape
  <2>2. \A i \in DOMAIN ops' :
           /\ ops'[i].target \in Files \cup {"workspace"}
           /\ ops'[i].status \in {"applied", "planned", "skipped", "rolled_back"}
           /\ ops'[i].rollback \in {"supported", "completed", "failed", "not_needed",
                                   "not_supported", "compensation_available"}
    BY <1>3 DEF Operations
  <2>3. pc' \in {"running", "writing", "installing", "undoing", "completed", "failed"}
    OBVIOUS
  <2>4. effects' \subseteq DOMAIN workflow'
    BY DEF IInv, TypeOK
  <2> QED
    BY <1>1, <2>1, <2>2, <2>3, <2>4 DEF IInv, TypeOK
<1>5. Progress'
  BY <1>1 DEF IInv, Progress, Working
<1>6. EffectStage'
  <2> SUFFICES ASSUME NEW step \in effects'
               PROVE  Told(step)' \/ (step = at' /\ pc' \in {"installing", "undoing", "failed"})
    BY DEF EffectStage
  <2>1. step = at \/ Told(step)
    BY DEF IInv, EffectStage
  <2> QED
    BY <2>1
<1> QED
  BY <1>2, <1>4, <1>5, <1>6 DEF IInv

\* A planned or a skipped step.
LEMMA SkippedSteps ==
    ASSUME IInv, SkipInstall \/ SkipGitInit \/ PlanFirstCommit
    PROVE  IInv'
<1>1. PICK status \in {"planned", "skipped"} : Register(status, "not_needed")
  BY DEF SkipInstall, SkipGitInit, PlanFirstCommit
<1>2. /\ pc = "running" /\ at \in DOMAIN workflow /\ pc' = "running" /\ at' = at + 1
      /\ UNCHANGED <<world, plan, writing, commands, undoing, effects>>
  BY DEF SkipInstall, SkipGitInit, PlanFirstCommit, StepIs, StepReturns
<1>3. Working /\ Working'
  BY <1>2 DEF Working
<1>4. UNCHANGED <<workflow, prepared, before, turn, hooks, disk, repo>>
  BY <1>1, <1>2 DEF world, plan, writing, undoing, Register
<1>5. /\ HookStage' /\ UndoStage' /\ ops' \in Seq(Operations)
      /\ \A i \in DOMAIN ops' : ops'[i].from \in DOMAIN workflow
      /\ \A h \in DOMAIN hooks' :
             hooks'[h].op \in DOMAIN ops' /\ ops'[hooks'[h].op].target = hooks'[h].file
      /\ \A step : Told(step) => Told(step)'
  BY <1>1, <1>2, <1>3, <1>4, RegisterKeeps
<1>6. /\ disk' \in [Files -> Whole] /\ repo' \in BOOLEAN
      /\ commands' \in 0..InstallCommands
  BY <1>2, <1>3, <1>4 DEF IInv, TypeOK, Shape
<1>7. \A step : step = at /\ step \in effects' => Told(step)'
  BY <1>2, <1>5 DEF IInv, EffectStage
<1> QED
  BY <1>2, <1>3, <1>4, <1>5, <1>6, <1>7, OtherStep

\* What a step that did something registers is told, or its author said that it
\* need not be.
LEMMA RegisteredTold ==
    /\ Registered \in {"not_needed", "not_supported", "compensation_available"}
    /\ Registered = "not_needed" => workflow[at].rollback = "none"
BY DEF Registered

\* A git repository is made, or a commit, or a commit is not needed.
LEMMA GitSteps ==
    ASSUME IInv, GitInit \/ FirstCommit
    PROVE  IInv'
<1>1. /\ pc = "running" /\ at \in DOMAIN workflow /\ pc' = "running" /\ at' = at + 1
      /\ repo' = TRUE
      /\ UNCHANGED <<disk, plan, writing, commands, undoing>>
      /\ \/ effects' = effects \cup {at} /\ Register("applied", Registered)
         \/ /\ workflow[at].kind = "firstCommit"
            /\ effects' = effects \/ effects' = effects \cup {at}
            /\ Register("skipped", "not_needed")
  BY DEF GitInit, FirstCommit, StepIs, StepReturns
<1>2. Working /\ Working'
  BY <1>1 DEF Working
<1>3. PICK status \in {"applied", "skipped"},
           rollback \in {"not_needed", "not_supported", "compensation_available"} :
          /\ Register(status, rollback)
          /\ \/ status = "applied" /\ rollback = Registered
             \/ status = "skipped" /\ workflow[at].kind = "firstCommit"
  BY <1>1, RegisteredTold
<1>4. UNCHANGED <<workflow, prepared, before, turn, hooks>>
  BY <1>1, <1>3 DEF plan, writing, undoing, Register
<1>5. /\ HookStage' /\ UndoStage' /\ ops' \in Seq(Operations)
      /\ \A i \in DOMAIN ops' : ops'[i].from \in DOMAIN workflow
      /\ \A h \in DOMAIN hooks' :
             hooks'[h].op \in DOMAIN ops' /\ ops'[hooks'[h].op].target = hooks'[h].file
      /\ \A step : Told(step) => Told(step)'
      /\ \/ status = "applied" /\ rollback # "not_needed"
         \/ status = "skipped" /\ workflow[at].kind = "firstCommit"
         => \A step : step = at => Told(step)'
  BY <1>1, <1>2, <1>3, <1>4, RegisterKeeps
<1>6. \A step : step = at => Told(step)'
  <2>1. CASE workflow[at].rollback = "none"
    BY <1>4, <2>1 DEF Told
  <2>2. CASE workflow[at].rollback # "none"
    BY <1>3, <1>5, <2>2, RegisteredTold
  <2> QED
    BY <2>1, <2>2
<1>7. /\ disk' \in [Files -> Whole] /\ repo' \in BOOLEAN
      /\ commands' \in 0..InstallCommands
  BY <1>1, <1>2 DEF IInv, TypeOK, Shape
<1>8. effects \subseteq effects' /\ effects' \subseteq effects \cup {at}
  BY <1>1
<1> QED
  BY <1>1, <1>2, <1>4, <1>5, <1>6, <1>7, <1>8, OtherStep

\* A package manager wrote into package.json.
LEMMA InstalledKeeps ==
    ASSUME IInv, Working, Installed
    PROVE  /\ disk' \in [Files -> Whole]
           /\ effects' = effects \cup {at}
<1>1. disk \in [Files -> Whole] /\ PackageJson \in Files
  BY WorkflowAssumption DEF IInv, Shape
<1>2. disk[PackageJson] \cup {"installed"} \in Whole
  BY <1>1 DEF Whole
<1> QED
  BY <1>1, <1>2 DEF Installed

\* The commands of an install, one by one.
LEMMA RunInstallStep ==
    ASSUME IInv, RunInstall
    PROVE  IInv'
<1>1. /\ pc = "installing" /\ Installed
      /\ commands' = commands + 1
      /\ UNCHANGED <<repo, plan, writing, undoing>>
      /\ \/ /\ commands + 1 < InstallCommands
            /\ UNCHANGED <<pc, at, transaction>>
         \/ /\ Register("applied", Registered)
            /\ pc' = "running" /\ at' = at + 1
  BY DEF RunInstall, StepReturns
<1>2. Working /\ Working' /\ at \in DOMAIN workflow
  BY <1>1 DEF Working, IInv, Progress
<1>3. /\ disk' \in [Files -> Whole]
      /\ effects \subseteq effects' /\ effects' \subseteq effects \cup {at}
  BY <1>1, <1>2, InstalledKeeps
<1>4. repo' \in BOOLEAN /\ commands' \in 0..InstallCommands
  BY <1>1, WorkflowAssumption DEF IInv, TypeOK, Progress
<1>5. UNCHANGED <<workflow, prepared, before, turn>>
  BY <1>1 DEF plan, writing, undoing
<1>6. CASE UNCHANGED <<pc, at, transaction>> /\ commands + 1 < InstallCommands
  <2>1. UNCHANGED <<ops, hooks>>
    BY <1>6 DEF transaction
  <2>2. HookStage' /\ UndoStage' /\ \A step : Told(step)' <=> Told(step)
    BY <1>2, <1>5, <2>1, TransactionKept
  <2>3. /\ ops' \in Seq(Operations)
        /\ \A i \in DOMAIN ops' : ops'[i].from \in DOMAIN workflow
        /\ \A h \in DOMAIN hooks' :
             hooks'[h].op \in DOMAIN ops' /\ ops'[hooks'[h].op].target = hooks'[h].file
    BY <2>1 DEF IInv, TypeOK, Shape
  <2>4. pc' = "installing" /\ at' = at /\ commands' < InstallCommands
    BY <1>1, <1>6
  <2> QED
    BY <1>1, <1>2, <1>3, <1>4, <2>1, <2>2, <2>3, <2>4, OtherStep
<1>7. CASE Register("applied", Registered) /\ pc' = "running" /\ at' = at + 1
  <2>1. hooks' = hooks
    BY <1>7 DEF Register
  <2>2. PICK rollback \in {"not_needed", "not_supported", "compensation_available"} :
            rollback = Registered /\ Register("applied", rollback)
    BY <1>7, RegisteredTold
  <2>3. /\ HookStage' /\ UndoStage' /\ ops' \in Seq(Operations)
        /\ \A i \in DOMAIN ops' : ops'[i].from \in DOMAIN workflow
        /\ \A h \in DOMAIN hooks' :
             hooks'[h].op \in DOMAIN ops' /\ ops'[hooks'[h].op].target = hooks'[h].file
        /\ \A step : Told(step) => Told(step)'
        /\ rollback # "not_needed" => \A step : step = at => Told(step)'
    BY <1>2, <1>5, <2>2, RegisterKeeps
  <2>4. \A step : step = at => Told(step)'
    <3>1. CASE workflow[at].rollback = "none"
      BY <1>5, <3>1 DEF Told
    <3>2. CASE workflow[at].rollback # "none"
      BY <2>2, <2>3, <3>2, RegisteredTold
    <3> QED
      BY <3>1, <3>2
  <2> QED
    BY <1>1, <1>2, <1>3, <1>4, <1>7, <2>1, <2>3, <2>4, OtherStep
<1> QED
  BY <1>1, <1>6, <1>7

\* An install or a first commit fails half way.
LEMMA FailingSteps ==
    ASSUME IInv, InstallFails \/ FirstCommitFails
    PROVE  IInv'
<1>1. /\ pc = "installing" \/ pc = "running"
      /\ pc' = "undoing" /\ at' = at
      /\ UNCHANGED <<plan, writing, commands, transaction, undoing>>
  BY DEF InstallFails, FirstCommitFails, StepIs, StepThrows
<1>2. Working /\ at \in DOMAIN workflow
  BY DEF InstallFails, FirstCommitFails, StepIs, Working, IInv, Progress
<1>3. /\ disk' \in [Files -> Whole] /\ repo' \in BOOLEAN
      /\ effects \subseteq effects' /\ effects' \subseteq effects \cup {at}
  <2>1. CASE InstallFails
    <3>1. repo' = repo /\ (Installed \/ UNCHANGED <<disk, effects>>)
      BY <2>1 DEF InstallFails
    <3> QED
      BY <1>2, <3>1, InstalledKeeps DEF IInv, TypeOK, Shape
  <2>2. CASE FirstCommitFails
    BY <1>2, <2>2 DEF FirstCommitFails, IInv, Shape
  <2> QED
    BY <2>1, <2>2
<1>4. UNCHANGED <<workflow, prepared, before, turn, ops, hooks>>
  BY <1>1 DEF plan, writing, undoing, transaction
<1>5. HookStage' /\ UndoStage' /\ \A step : Told(step)' <=> Told(step)
  BY <1>2, <1>4, TransactionKept
<1>6. /\ ops' \in Seq(Operations)
      /\ \A i \in DOMAIN ops' : ops'[i].from \in DOMAIN workflow
      /\ \A h \in DOMAIN hooks' :
             hooks'[h].op \in DOMAIN ops' /\ ops'[hooks'[h].op].target = hooks'[h].file
  BY <1>4 DEF IInv, TypeOK, Shape
<1>7. commands' \in 0..InstallCommands
  BY <1>1 DEF IInv, TypeOK
<1> QED
  BY <1>1, <1>2, <1>3, <1>4, <1>5, <1>6, <1>7, OtherStep


-----------------------------------------------------------------------------
(* writeFiles.                                                             *)

\* A further operation takes back nothing that was told.
LEMMA AppendedTold ==
    ASSUME IInv, NEW o \in Operations, ops' = Append(ops, o), workflow' = workflow
    PROVE  \A step : Told(step) => Told(step)'
<1> DEFINE n == Len(ops)
<1>1. /\ DOMAIN ops' = 1..(n + 1) /\ DOMAIN ops = 1..n /\ n \in Nat
      /\ \A i \in 1..n : ops'[i] = ops[i]
  BY Appended, Numbers
<1> HIDE DEF n
<1>2. 1..n \subseteq 1..(n + 1)
  BY <1>1
<1> SUFFICES ASSUME NEW step, Told(step)
             PROVE  Told(step)'
  OBVIOUS
<1>3. NonRevertible \subseteq NonRevertible'
  BY <1>1, <1>2 DEF NonRevertible
<1> QED
  BY <1>1, <1>2, <1>3 DEF Told, NonRevertible

\* createFileRollbackHook looks at a file once: what was taken down for the hooks
\* there are stays.
LEMMA SnapshotKeeps ==
    ASSUME IInv, pc = "writing", NEW f \in queue, Snapshot(f)
    PROVE  /\ f \in Files /\ disk[f] \in Whole /\ merged[f] \in Whole
           /\ disk \in [Files -> Whole]
           /\ prepared' = prepared \cup {f} /\ before' \in [Files -> Whole]
           /\ \A h \in 1..Len(hooks) :
                 before'[hooks[h].file] = before[hooks[h].file]
           /\ (\A h \in 1..Len(hooks) : hooks[h].file # f) => before'[f] = disk[f]
<1>1. Working
  BY DEF Working
<1>2. /\ f \in Targets /\ f \in Files /\ DOMAIN merged = Targets
      /\ disk \in [Files -> Whole] /\ before \in [Files -> Whole]
      /\ prepared = {hooks[h].file : h \in 1..Len(hooks)}
      /\ \A h \in 1..Len(hooks) : hooks[h].file \in Files
  BY <1>1, Contained, Numbers DEF IInv, Shape, HookStage, HookRecords
<1>3. disk[f] \in Whole /\ merged[f] \in Whole
  BY <1>2 DEF IInv, Shape
<1>4. CASE f \in prepared
  BY <1>2, <1>3, <1>4 DEF Snapshot
<1>5. CASE f \notin prepared
  <2>1. before' = [before EXCEPT ![f] = disk[f]] /\ prepared' = prepared \cup {f}
    BY <1>5 DEF Snapshot
  <2>2. \A h \in 1..Len(hooks) : hooks[h].file # f
    BY <1>2, <1>5
  <2> QED
    BY <1>2, <1>3, <2>1, <2>2
<1> QED
  BY <1>4, <1>5

\* A file is written and registered with its hook.
LEMMA WriteFileStep ==
    ASSUME IInv, WriteFile
    PROVE  IInv'
<1> DEFINE n == Len(ops)
           m == Len(hooks)
<1>1. PICK f \in queue :
          /\ Snapshot(f)
          /\ disk' = [disk EXCEPT ![f] = merged[f]]
          /\ ops' = Append(ops, Op(f, "applied", "supported"))
          /\ hooks' = Append(hooks, Hook(f))
          /\ queue' = queue \ {f}
  BY DEF WriteFile
<1>2. /\ pc = "writing" /\ UNCHANGED <<repo, plan, pc, at, commands, undoing, effects>>
  BY DEF WriteFile
<1>3. /\ f \in Files /\ disk[f] \in Whole /\ merged[f] \in Whole
      /\ disk \in [Files -> Whole]
      /\ prepared' = prepared \cup {f} /\ before' \in [Files -> Whole]
      /\ \A h \in 1..m : before'[hooks[h].file] = before[hooks[h].file]
      /\ (\A h \in 1..m : hooks[h].file # f) => before'[f] = disk[f]
  BY <1>1, <1>2, SnapshotKeeps
<1>4. /\ n \in Nat /\ m \in Nat /\ DOMAIN ops = 1..n /\ DOMAIN hooks = 1..m
      /\ at \in DOMAIN workflow /\ at \in Nat /\ turn = 0
      /\ hooks \in Seq(HookRecords)
      /\ Working
  BY <1>2, Numbers DEF IInv, Progress, Shape, Working
<1> DEFINE o  == Op(f, "applied", "supported")
           h0 == Hook(f)
<1>5. /\ o \in Operations /\ o.from = at /\ o.target = f
      /\ o.status = "applied" /\ o.rollback = "supported"
  BY <1>3, <1>4 DEF Op, Operations
<1>6. h0 \in HookRecords /\ h0.op = n + 1 /\ h0.file = f /\ h0.content = disk[f]
  BY <1>3, <1>4 DEF Hook, HookRecords
<1> HIDE DEF o, h0
<1>7. /\ ops' \in Seq(Operations) /\ Len(ops') = n + 1 /\ DOMAIN ops' = 1..(n + 1)
      /\ \A i \in 1..n : ops'[i] = ops[i]
      /\ ops'[n + 1] = o
      /\ \A i \in 1..(n + 1) : i \in 1..n \/ i = n + 1
      /\ \A step : Told(step) => Told(step)'
  BY <1>1, <1>2, <1>5, Appended, AppendedTold DEF o, plan
<1>8. /\ hooks' \in Seq(HookRecords) /\ Len(hooks') = m + 1 /\ DOMAIN hooks' = 1..(m + 1)
      /\ \A h \in 1..m : hooks'[h] = hooks[h]
      /\ hooks'[m + 1] = h0
      /\ \A h \in 1..(m + 1) : h \in 1..m \/ h = m + 1
  BY <1>1, <1>4, <1>6 DEF h0
<1>9. disk' \in [Files -> Whole]
  BY <1>1, <1>3
<1> HIDE DEF n, m
<1>10. \A h \in 1..m : hooks[h].op \in 1..n /\ ops[hooks[h].op].target = hooks[h].file
  BY DEF IInv, HookStage, n, m
<1>11. HookStage'
  <2>1. \A h \in 1..Len(hooks') :
            hooks'[h].op \in 1..Len(ops') /\ ops'[hooks'[h].op].target = hooks'[h].file
    <3>1. \A h \in 1..m : hooks'[h].op \in 1..(n + 1)
                          /\ ops'[hooks'[h].op].target = hooks'[h].file
      BY <1>4, <1>7, <1>8, <1>10
    <3>2. /\ hooks'[m + 1].op \in 1..(n + 1)
          /\ ops'[hooks'[m + 1].op].target = hooks'[m + 1].file
      BY <1>4, <1>5, <1>6, <1>7, <1>8
    <3> QED
      BY <1>7, <1>8, <3>1, <3>2
  <2>2. ASSUME NEW g \in 1..Len(hooks'), NEW h \in 1..Len(hooks'), g < h
        PROVE  hooks'[g].op < hooks'[h].op
    <3>1. g \in 1..m
      BY <1>4, <1>8, <2>2
    <3>2. CASE h \in 1..m
      BY <1>8, <2>2, <3>1, <3>2 DEF IInv, HookStage, m
    <3>3. CASE h = m + 1
      <4>1. hooks'[g].op \in 1..n /\ hooks'[h].op = n + 1
        BY <1>6, <1>8, <1>10, <3>1, <3>3
      <4> QED
        BY <1>4, <4>1
    <3> QED
      BY <1>8, <3>2, <3>3
  <2>3. ASSUME NEW i \in 1..Len(ops'),
               ops'[i].rollback \in {"supported", "completed", "failed"}
        PROVE  \E h \in 1..Len(hooks') : hooks'[h].op = i
    <3>1. CASE i \in 1..n
      <4>1. PICK h \in 1..m : hooks[h].op = i
        BY <1>7, <2>3, <3>1 DEF IInv, HookStage, n, m
      <4> QED
        BY <1>4, <1>8, <4>1
    <3>2. CASE i = n + 1
      BY <1>4, <1>6, <1>8, <3>2
    <3> QED
      BY <1>7, <3>1, <3>2
  <2>4. prepared' = {hooks'[h].file : h \in 1..Len(hooks')}
    <3>1. prepared = {hooks[h].file : h \in 1..m}
      BY <1>4 DEF IInv, HookStage, m
    <3>2. 1..m \subseteq 1..(m + 1) /\ m + 1 \in 1..(m + 1)
      BY <1>4
    <3> QED
      BY <1>3, <1>6, <1>8, <3>1, <3>2
  <2>5. ASSUME NEW h \in 1..Len(hooks'), FirstHook(h)'
        PROVE  hooks'[h].content = before'[hooks'[h].file]
    <3>1. \A g \in 1..(h - 1) : hooks'[g].file # hooks'[h].file
      BY <2>5 DEF FirstHook
    <3>2. CASE h \in 1..m
      <4>1. \A g \in 1..(h - 1) : g \in 1..m
        BY <1>4, <3>2
      <4>2. FirstHook(h)
        BY <1>8, <3>1, <3>2, <4>1 DEF FirstHook
      <4>3. hooks[h].content = before[hooks[h].file]
        BY <3>2, <4>2 DEF IInv, HookStage, m
      <4> QED
        BY <1>3, <1>8, <3>2, <4>3
    <3>3. CASE h = m + 1
      <4>1. h - 1 = m
        BY <1>4, <3>3
      <4>2. \A g \in 1..m : hooks[g].file # f
        BY <1>6, <1>8, <3>1, <3>3, <4>1
      <4> QED
        BY <1>3, <1>6, <1>8, <3>3, <4>2
    <3> QED
      BY <1>8, <3>2, <3>3
  <2> QED
    BY <2>1, <2>2, <2>3, <2>4, <2>5 DEF HookStage
<1>12. UndoStage'
  <2>1. turn' = 0 /\ Len(hooks') - turn' = m + 1
    BY <1>2, <1>4, <1>8 DEF undoing
  <2>2. (Len(hooks') - turn' + 1)..Len(hooks') = {}
    BY <1>4, <1>8, <2>1
  <2>3. \A h \in 1..m : /\ ops[hooks[h].op].rollback = "supported"
                        /\ ops[hooks[h].op].status = "applied"
    BY <1>4 DEF IInv, UndoStage, m
  <2>4. \A h \in 1..(m + 1) : /\ ops'[hooks'[h].op].rollback = "supported"
                              /\ ops'[hooks'[h].op].status = "applied"
    BY <1>5, <1>6, <1>7, <1>8, <1>10, <2>3
  <2> QED
    BY <2>1, <2>2, <2>4 DEF UndoStage
<1>13. Shape'
  BY <1>1, <1>2, <1>3, <1>7, <1>8, <1>9 DEF IInv, Shape, plan, Working
<1>14. TypeOK'
  <2>1. disk' \in [Files -> Contents] /\ before' \in [Files -> Contents]
    BY <1>3, <1>9, Contained
  <2>2. \A i \in DOMAIN ops' :
           /\ ops'[i].from \in DOMAIN workflow
           /\ ops'[i].target \in Files \cup {"workspace"}
           /\ ops'[i].status \in {"applied", "planned", "skipped", "rolled_back"}
           /\ ops'[i].rollback \in {"supported", "completed", "failed", "not_needed",
                                   "not_supported", "compensation_available"}
    <3>1. \A i \in 1..n : ops[i].from \in DOMAIN workflow
      BY <1>4 DEF IInv, TypeOK
    <3>2. \A i \in DOMAIN ops' : ops'[i] \in Operations
      BY <1>7
    <3> QED
      BY <1>4, <1>5, <1>7, <3>1, <3>2 DEF Operations
  <2>3. \A h \in DOMAIN hooks' :
           /\ hooks'[h].op \in DOMAIN ops'
           /\ ops'[hooks'[h].op].target = hooks'[h].file
           /\ hooks'[h].content \in Contents
    <3>1. \A h \in DOMAIN hooks' : hooks'[h] \in HookRecords
      BY <1>8
    <3>2. \A h \in DOMAIN hooks' : hooks'[h].content \in Contents
      BY <3>1, Contained DEF HookRecords
    <3> QED
      BY <1>7, <1>8, <1>11, <3>2 DEF HookStage
  <2>4. queue' \subseteq Files /\ prepared' \subseteq Files
    BY <1>1, <1>3 DEF IInv, TypeOK
  <2>5. turn' \in 0..Len(hooks') /\ failures' \in 0..turn'
    BY <1>2, <1>4, <1>8 DEF undoing, IInv, TypeOK
  <2>6. UNCHANGED <<repo, rolledBack, workflow, pc, at, merged, commands, effects>>
    BY <1>2 DEF plan, undoing
  <2> QED
    BY <2>1, <2>2, <2>3, <2>4, <2>5, <2>6 DEF IInv, TypeOK
<1>15. Progress'
  BY <1>2, <1>4 DEF IInv, Progress, Working, plan, undoing
<1>16. EffectStage'
  BY <1>2, <1>7 DEF IInv, EffectStage
<1> QED
  BY <1>11, <1>12, <1>13, <1>14, <1>15, <1>16 DEF IInv

\* A write fails before it is registered, and may tear the file.
LEMMA WriteFileFailsStep ==
    ASSUME IInv, WriteFileFails
    PROVE  IInv'
<1>1. PICK f \in queue :
          /\ Snapshot(f)
          /\ \E content \in {disk[f], {"torn"}} : disk' = [disk EXCEPT ![f] = content]
  BY DEF WriteFileFails
<1>2. /\ pc = "writing" /\ pc' = "undoing" /\ at' = at /\ queue' = {}
      /\ UNCHANGED <<repo, plan, commands, transaction, undoing, effects>>
  BY DEF WriteFileFails, StepThrows
<1>3. /\ f \in Files /\ disk[f] \in Whole /\ disk \in [Files -> Whole]
      /\ prepared' = prepared \cup {f} /\ before' \in [Files -> Whole]
      /\ \A h \in 1..Len(hooks) : before'[hooks[h].file] = before[hooks[h].file]
  BY <1>1, <1>2, SnapshotKeeps
<1>4. /\ UNCHANGED <<workflow, merged, ops, hooks, turn, failures, rolledBack>>
      /\ ~Working' /\ Working /\ turn = 0 /\ at \in DOMAIN workflow
  BY <1>2 DEF plan, transaction, undoing, Working, IInv, Progress
<1>5. HookStage'
  <2>1. \A h \in 1..Len(hooks') :
            FirstHook(h)' => hooks'[h].content = before'[hooks'[h].file]
    BY <1>3, <1>4 DEF IInv, HookStage, FirstHook
  <2> QED
    BY <1>4, <2>1 DEF IInv, HookStage
<1>6. UndoStage'
  <2>1. (Len(hooks') - turn' + 1)..Len(hooks') = {}
    BY <1>4, Numbers
  <2> QED
    BY <1>4, <2>1 DEF IInv, UndoStage
<1>7. Shape'
  BY <1>2, <1>3, <1>4 DEF IInv, Shape
<1>8. TypeOK'
  <2>1. disk' \in [Files -> Contents] /\ before' \in [Files -> Contents]
    <3>1. disk \in [Files -> Contents] /\ {disk[f], {"torn"}} \subseteq Contents
      BY <1>3, Contained DEF IInv, TypeOK
    <3> QED
      BY <1>1, <1>3, <3>1, Contained
  <2>2. queue' \subseteq Files /\ prepared' \subseteq Files
    BY <1>2, <1>3 DEF IInv, TypeOK
  <2> QED
    BY <1>2, <1>4, <2>1, <2>2 DEF IInv, TypeOK
<1>9. Progress'
  BY <1>2, <1>4 DEF IInv, Progress
<1>10. EffectStage'
  BY <1>2, <1>4 DEF IInv, EffectStage, Told, NonRevertible
<1> QED
  BY <1>5, <1>6, <1>7, <1>8, <1>9, <1>10 DEF IInv


-----------------------------------------------------------------------------
(* rollbackTransaction.                                                    *)

\* One hook is run: its operation, and at most its file, change.  An undo that
\* succeeded put back the content of the hook.
LEMMA HookRun ==
    ASSUME IInv, pc = "undoing", turn < Len(hooks), NEW new \in Operations,
           ops' = [ops EXCEPT ![NextHook.op] = new],
           new.from = ops[NextHook.op].from, new.target = ops[NextHook.op].target,
           new.rollback \in {"completed", "failed"},
           turn' = turn + 1, disk' \in [Files -> Contents],
           \A f \in Files : f # NextHook.file => disk'[f] = disk[f],
           new.rollback = "completed" => disk'[NextHook.file] = NextHook.content,
           failures' \in 0..turn',
           UNCHANGED <<repo, plan, pc, at, writing, commands, hooks, rolledBack, effects>>
    PROVE  IInv'
<1> DEFINE n == Len(ops)
           m == Len(hooks)
           k == m - turn
           i == NextHook.op
<1>1. /\ n \in Nat /\ DOMAIN ops = 1..n /\ m \in Nat /\ DOMAIN hooks = 1..m
      /\ turn \in Nat /\ k \in 1..m
      /\ \A h \in 1..m : hooks[h].op \in 1..n /\ hooks[h].file \in Files
      /\ ~Working /\ ~Working'
  BY SMTT(30), Numbers DEF IInv, HookStage, HookRecords, Working
<1>2. NextHook = hooks[k] /\ i = hooks[k].op /\ i \in 1..n /\ NextHook.file = hooks[k].file
  BY <1>1 DEF NextHook
<1> HIDE DEF n, m, k, i
<1>3. UNCHANGED <<workflow, merged, queue, prepared, before>>
  BY DEF plan, writing
<1>4. /\ ops' \in Seq(Operations) /\ DOMAIN ops' = 1..n /\ Len(ops') = n
      /\ ops'[i] = new /\ \A j \in 1..n : j # i => ops'[j] = ops[j]
      /\ \A j \in 1..n : ops'[j].from = ops[j].from /\ ops'[j].target = ops[j].target
  <2>1. ops \in Seq(Operations) /\ ops' = [ops EXCEPT ![i] = new]
    BY DEF IInv, Shape, i
  <2>2. ops' \in Seq(Operations) /\ DOMAIN ops' = 1..n /\ Len(ops') = n
    BY <1>1, <1>2, <2>1 DEF n
  <2>3. ops'[i] = new /\ \A j \in 1..n : j # i => ops'[j] = ops[j]
    BY <1>1, <1>2, <2>1
  <2> QED
    BY <2>2, <2>3 DEF i
<1>5. \A h \in 1..m : h # k => hooks[h].op # i
  <2> SUFFICES ASSUME NEW h \in 1..m, h # k
               PROVE  hooks[h].op # i
    OBVIOUS
  <2>1. \A g, l \in 1..m : g < l => hooks[g].op < hooks[l].op
    BY DEF IInv, HookStage, m
  <2>2. h < k \/ k < h
    BY <1>1
  <2>3. hooks[h].op < hooks[k].op \/ hooks[k].op < hooks[h].op
    BY <1>1, <2>1, <2>2
  <2> QED
    BY <1>1, <1>2, <2>3
<1>6. /\ \A h \in 1..k : /\ ops[hooks[h].op].rollback = "supported"
                         /\ ops[hooks[h].op].status = "applied"
      /\ \A h \in (k + 1)..m :
            /\ ops[hooks[h].op].rollback \in {"completed", "failed"}
            /\ FirstHook(h) /\ ops[hooks[h].op].rollback = "completed" =>
                  disk[hooks[h].file] = before[hooks[h].file]
      /\ \A h \in 1..m : FirstHook(h) => hooks[h].content = before[hooks[h].file]
  BY DEF IInv, UndoStage, HookStage, m, k
<1>7. HookStage'
  <2>1. \A h \in 1..Len(hooks') :
            hooks'[h].op \in 1..Len(ops') /\ ops'[hooks'[h].op].target = hooks'[h].file
    BY <1>1, <1>4 DEF IInv, HookStage, m
  <2>2. \A g, h \in 1..Len(hooks') : g < h => hooks'[g].op < hooks'[h].op
    BY DEF IInv, HookStage
  <2>3. ASSUME NEW j \in 1..Len(ops'),
               ops'[j].rollback \in {"supported", "completed", "failed"}
        PROVE  \E h \in 1..Len(hooks') : hooks'[h].op = j
    <3>1. CASE j = i
      BY <1>1, <1>2, <3>1 DEF m
    <3>2. CASE j # i
      BY <1>4, <2>3, <3>2 DEF IInv, HookStage, n
    <3> QED
      BY <3>1, <3>2
  <2>4. \A h \in 1..Len(hooks') :
            FirstHook(h)' => hooks'[h].content = before'[hooks'[h].file]
    BY <1>3 DEF IInv, HookStage, FirstHook
  <2> QED
    BY <1>1, <2>1, <2>2, <2>3, <2>4 DEF HookStage
<1>8. UndoStage'
  <2>1. Len(hooks') - turn' = k - 1 /\ Len(hooks') - turn' + 1 = k /\ Len(hooks') = m
    BY <1>1 DEF k, m
  <2>2. \A h \in 1..(k - 1) : /\ ops'[hooks'[h].op].rollback = "supported"
                              /\ ops'[hooks'[h].op].status = "applied"
    <3>1. \A h \in 1..(k - 1) : h \in 1..m /\ h \in 1..k /\ h # k
      BY <1>1
    <3> QED
      BY <1>1, <1>4, <1>5, <1>6, <3>1
  <2>3. ASSUME NEW h \in k..m
        PROVE  /\ ops'[hooks'[h].op].rollback \in {"completed", "failed"}
               /\ FirstHook(h)' /\ ops'[hooks'[h].op].rollback = "completed" =>
                      disk'[hooks'[h].file] = before'[hooks'[h].file]
    <3>1. FirstHook(h)' <=> FirstHook(h)
      BY DEF FirstHook
    <3>2. CASE h = k
      BY <1>1, <1>2, <1>3, <1>4, <1>6, <3>1, <3>2
    <3>3. CASE h # k
      <4>1. h \in (k + 1)..m /\ h \in 1..m /\ k \in 1..(h - 1)
        BY <1>1, <3>3
      <4>2. ops'[hooks[h].op] = ops[hooks[h].op]
        BY <1>1, <1>4, <1>5, <3>3, <4>1
      <4>3. FirstHook(h) => disk'[hooks[h].file] = disk[hooks[h].file]
        BY <1>1, <1>2, <4>1 DEF FirstHook
      <4> QED
        BY <1>3, <1>6, <3>1, <4>1, <4>2, <4>3
    <3> QED
      BY <3>2, <3>3
  <2> QED
    BY <2>1, <2>2, <2>3 DEF UndoStage
<1>9. Shape'
  BY <1>1, <1>3, <1>4 DEF IInv, Shape
<1>10. TypeOK'
  <2>1. \A j \in DOMAIN ops' :
           /\ ops'[j].from \in DOMAIN workflow
           /\ ops'[j].target \in Files \cup {"workspace"}
           /\ ops'[j].status \in {"applied", "planned", "skipped", "rolled_back"}
           /\ ops'[j].rollback \in {"supported", "completed", "failed", "not_needed",
                                   "not_supported", "compensation_available"}
    <3>1. \A j \in 1..n : ops[j].from \in DOMAIN workflow
      BY <1>1 DEF IInv, TypeOK
    <3>2. \A j \in DOMAIN ops' : ops'[j] \in Operations
      BY <1>4
    <3> QED
      BY <1>4, <3>1, <3>2 DEF Operations
  <2>2. \A h \in DOMAIN hooks' :
           /\ hooks'[h].op \in DOMAIN ops'
           /\ ops'[hooks'[h].op].target = hooks'[h].file
           /\ hooks'[h].content \in Contents
    BY <1>1, <1>4 DEF IInv, TypeOK
  <2>3. turn' \in 0..Len(hooks')
    BY <1>1
  <2> QED
    BY <1>3, <2>1, <2>2, <2>3 DEF IInv, TypeOK
<1>11. Progress'
  BY <1>1, <1>3 DEF IInv, Progress
<1>12. EffectStage'
  <2>1. ops[i].rollback = "supported" /\ ops[i].status = "applied"
    BY <1>1, <1>2, <1>6
  <2>2. NonRevertible \subseteq NonRevertible'
    BY <1>1, <1>4, <2>1 DEF NonRevertible
  <2>3. ASSUME NEW step, Told(step)
        PROVE  Told(step)'
    BY <1>1, <1>3, <1>4, <2>1, <2>2, <2>3 DEF Told, NonRevertible
  <2> QED
    BY <2>3 DEF IInv, EffectStage
<1> QED
  BY <1>7, <1>8, <1>9, <1>10, <1>11, <1>12 DEF IInv

\* The hook that is next, and its operation.
LEMMA HookTurn ==
    ASSUME IInv, turn < Len(hooks)
    PROVE  /\ NextHook \in HookRecords
           /\ NextHook.file \in Files /\ NextHook.content \in Whole
           /\ NextHook.op \in DOMAIN ops /\ ops[NextHook.op] \in Operations
<1>1. Len(hooks) - turn \in 1..Len(hooks)
  BY Numbers
<1>2. NextHook \in HookRecords /\ NextHook.op \in 1..Len(ops)
  BY <1>1, Numbers DEF NextHook, IInv, HookStage
<1> QED
  BY <1>2, Numbers DEF HookRecords

\* An undo.
LEMMA UndoStep ==
    ASSUME IInv, Undo
    PROVE  IInv'
<1>1. /\ pc = "undoing" /\ turn < Len(hooks) /\ turn' = turn + 1
      /\ disk' = [disk EXCEPT ![NextHook.file] = NextHook.content]
      /\ UNCHANGED <<repo, plan, pc, at, writing, commands, hooks, failures,
                     rolledBack, effects>>
  BY DEF Undo
<1>2. /\ NextHook.file \in Files /\ NextHook.content \in Whole
      /\ NextHook.op \in DOMAIN ops /\ ops[NextHook.op] \in Operations
  BY <1>1, HookTurn
<1> DEFINE i   == NextHook.op
           new == [ops[i] EXCEPT !.status = "rolled_back", !.rollback = "completed"]
<1>3. /\ new \in Operations /\ new.from = ops[i].from /\ new.target = ops[i].target
      /\ new.rollback = "completed"
  BY <1>2 DEF Operations
<1>4. ops' = [ops EXCEPT ![i] = new]
  <2>1. ops' = [ops EXCEPT ![i].status = "rolled_back", ![i].rollback = "completed"]
    BY DEF Undo
  <2> QED
    BY <1>2, <2>1
<1>5. /\ disk' \in [Files -> Contents]
      /\ \A f \in Files : f # NextHook.file => disk'[f] = disk[f]
      /\ disk'[NextHook.file] = NextHook.content
  BY <1>1, <1>2, Contained DEF IInv, TypeOK
<1>6. failures' \in 0..turn'
  BY <1>1, Numbers DEF IInv, TypeOK
<1> HIDE DEF new, i
<1> QED
  BY <1>1, <1>3, <1>4, <1>5, <1>6, HookRun DEF i

\* An undo that fails, and may tear the file it writes.
LEMMA UndoFailsStep ==
    ASSUME IInv, UndoFails
    PROVE  IInv'
<1>1. /\ pc = "undoing" /\ turn < Len(hooks) /\ turn' = turn + 1
      /\ disk' = disk \/ disk' = [disk EXCEPT ![NextHook.file] = {"torn"}]
      /\ failures' = failures + 1
      /\ UNCHANGED <<repo, plan, pc, at, writing, commands, hooks, rolledBack, effects>>
  BY DEF UndoFails
<1>2. /\ NextHook.file \in Files /\ NextHook.op \in DOMAIN ops
      /\ ops[NextHook.op] \in Operations
  BY <1>1, HookTurn
<1> DEFINE i   == NextHook.op
           new == [ops[i] EXCEPT !.rollback = "failed"]
<1>3. /\ new \in Operations /\ new.from = ops[i].from /\ new.target = ops[i].target
      /\ new.rollback = "failed"
  BY <1>2 DEF Operations
<1>4. ops' = [ops EXCEPT ![i] = new]
  <2>1. ops' = [ops EXCEPT ![i].rollback = "failed"]
    BY DEF UndoFails
  <2> QED
    BY <1>2, <2>1
<1>5. /\ disk' \in [Files -> Contents]
      /\ \A f \in Files : f # NextHook.file => disk'[f] = disk[f]
  <2> DEFINE torn == {"torn"}
  <2>1. torn \in Contents
    BY Contained
  <2> HIDE DEF torn
  <2>2. disk' = disk \/ disk' = [disk EXCEPT ![NextHook.file] = torn]
    BY <1>1 DEF torn
  <2> QED
    BY <1>2, <2>1, <2>2 DEF IInv, TypeOK
<1>6. failures' \in 0..turn'
  BY <1>1, Numbers DEF IInv, TypeOK
<1> HIDE DEF new, i
<1> QED
  BY <1>1, <1>3, <1>4, <1>5, <1>6, HookRun DEF i

\* The rollback is over when every hook has had its turn.
LEMMA RollbackEndsStep ==
    ASSUME IInv, RollbackEnds
    PROVE  IInv'
<1>1. /\ pc = "undoing" /\ pc' = "failed" /\ turn = Len(hooks) /\ rolledBack' = TRUE
      /\ UNCHANGED <<disk, repo, workflow, merged, at, queue, prepared, before, commands,
                     ops, hooks, turn, failures, effects>>
  BY DEF RollbackEnds, world, plan, writing, transaction
<1>2. ~Working /\ ~Working'
  BY <1>1 DEF Working
<1>3. HookStage' /\ UndoStage' /\ \A step : Told(step)' <=> Told(step)
  BY <1>1, <1>2, TransactionKept
<1>4. TypeOK' /\ Shape' /\ Progress'
  BY <1>1, <1>2 DEF IInv, TypeOK, Shape, Progress
<1>5. EffectStage'
  BY <1>1, <1>3 DEF IInv, EffectStage
<1> QED
  BY <1>3, <1>4, <1>5 DEF IInv

-----------------------------------------------------------------------------
(* The theorems.                                                           *)

\* Every step keeps the invariant.
LEMMA NextInductive ==
    ASSUME IInv, [Next]_vars
    PROVE  IInv'
<1>1. CASE Next
  BY <1>1, QuietSteps, WriteFileStep, WriteFileFailsStep, SkippedSteps, GitSteps,
     RunInstallStep, FailingSteps, UndoStep, UndoFailsStep, RollbackEndsStep DEF Next
<1>2. CASE UNCHANGED vars
  <2>1. /\ Working' <=> Working
        /\ UNCHANGED <<disk, repo, workflow, pc, at, merged, queue, commands, prepared,
             ops, hooks, turn, failures, rolledBack, before, effects>>
    BY <1>2 DEF vars, Working
  <2>2. HookStage' /\ UndoStage' /\ \A step : Told(step)' <=> Told(step)
    BY <2>1, TransactionKept
  <2>3. TypeOK' /\ Shape' /\ Progress'
    BY <2>1 DEF IInv, TypeOK, Shape, Progress
  <2>4. EffectStage'
    BY <2>1, <2>2 DEF IInv, EffectStage
  <2> QED
    BY <2>2, <2>3, <2>4 DEF IInv
<1> QED
  BY <1>1, <1>2

\* The invariant holds through any workflow and its rollback.
THEOREM Inductive == Spec => []IInv
<1>1. Init => IInv
  <2> SUFFICES ASSUME Init PROVE IInv
    OBVIOUS
  <2>1. disk \in [Files -> Whole] /\ before \in [Files -> Whole]
    <3> DEFINE user == {"user"}
    <3>1. {} \in Whole /\ user \in Whole
      BY DEF Whole
    <3>2. disk \in [Files -> {{}, user}] /\ before = disk
      BY DEF Init
    <3> HIDE DEF user
    <3> QED
      BY <3>1, <3>2
  <2>2. disk \in [Files -> Contents] /\ before \in [Files -> Contents]
    BY <2>1, Contained
  <2>3. workflow \in Seq(Steps) /\ Len(workflow) \in Nat /\ InstallCommands \in Nat
    BY WorkflowAssumption DEF Init
  <2>4. ops = <<>> /\ hooks = <<>> /\ merged = <<>>
        /\ DOMAIN ops = {} /\ DOMAIN hooks = {} /\ DOMAIN merged = {}
        /\ Len(ops) = 0 /\ Len(hooks) = 0
    BY DEF Init
  <2>5. TypeOK
    <3>1. /\ repo \in BOOLEAN /\ rolledBack \in BOOLEAN /\ workflow \in Workflows
          /\ pc \in {"running", "writing", "installing", "undoing", "completed", "failed"}
          /\ queue \subseteq Files /\ prepared \subseteq Files
          /\ effects \subseteq DOMAIN workflow
      BY DEF Init
    <3>2. /\ at \in 1..(Len(workflow) + 1) /\ commands \in 0..InstallCommands
          /\ turn \in 0..Len(hooks) /\ failures \in 0..turn
      BY <2>3, <2>4 DEF Init
    <3> QED
      BY <2>2, <2>4, <3>1, <3>2 DEF TypeOK
  <2>6. Shape /\ Progress
    BY <2>1, <2>4 DEF Init, Shape, Progress
  <2>7. HookStage /\ UndoStage /\ EffectStage
    BY <2>4 DEF Init, HookStage, UndoStage, EffectStage
  <2> QED
    BY <2>5, <2>6, <2>7 DEF IInv
<1>2. IInv /\ [Next]_vars => IInv'
  BY NextInductive
<1> QED
  BY <1>1, <1>2, PTL DEF Spec

\* TypeOK: besides the types, every hook belongs to an operation on its file, and
\* no more hooks are run than there are.
THEOREM TypeCorrect == Spec => []TypeOK
<1>1. IInv => TypeOK
  BY DEF IInv
<1> QED
  BY <1>1, Inductive, PTL

\* RollbackRestores: after rollbackTransaction no registered write is left
\* unattended, and a file whose first write was undone is as it was, whatever
\* else failed.
THEOREM RollbackIsComplete == Spec => []RollbackRestores
<1>1. IInv => RollbackRestores
  <2> SUFFICES ASSUME IInv, pc = "failed", NEW i \in DOMAIN ops
               PROVE  /\ ops[i].rollback # "supported"
                      /\ \A f \in Files :
                            FirstWrite(f, i) /\ ops[i].rollback = "completed" =>
                                disk[f] = before[f]
    BY DEF RollbackRestores
  <2>1. /\ turn = Len(hooks) /\ Len(hooks) \in Nat /\ i \in 1..Len(ops)
        /\ \A h \in 1..Len(hooks) : hooks[h].op \in Nat
    BY Numbers DEF IInv, Progress, HookRecords
  <2>2. \A h \in 1..Len(hooks) :
            /\ ops[hooks[h].op].rollback \in {"completed", "failed"}
            /\ FirstHook(h) /\ ops[hooks[h].op].rollback = "completed" =>
                  disk[hooks[h].file] = before[hooks[h].file]
    <3>1. Len(hooks) - turn + 1 = 1
      BY <2>1
    <3> QED
      BY <3>1 DEF IInv, UndoStage
  <2>3. ops[i].rollback \in {"supported", "completed", "failed"} =>
            \E h \in 1..Len(hooks) : hooks[h].op = i
    BY <2>1 DEF IInv, HookStage
  <2>4. ops[i].rollback # "supported"
    BY <2>2, <2>3
  <2>5. ASSUME NEW f \in Files, FirstWrite(f, i), ops[i].rollback = "completed"
        PROVE  disk[f] = before[f]
    <3>1. PICK h \in 1..Len(hooks) : hooks[h].op = i
      BY <2>3, <2>5
    <3>2. hooks[h].file = f
      BY <2>5, <3>1 DEF IInv, HookStage, FirstWrite
    <3>3. FirstHook(h)
      <4> SUFFICES ASSUME NEW g \in 1..(h - 1)
                   PROVE  hooks[g].file # hooks[h].file
        BY DEF FirstHook
      <4>1. g \in 1..Len(hooks) /\ g < h
        BY <2>1
      <4>2. hooks[g].op \in 1..(i - 1)
        <5>1. hooks[g].op < hooks[h].op /\ hooks[g].op \in 1..Len(ops)
          BY <4>1 DEF IInv, HookStage
        <5> QED
          BY <2>1, <3>1, <5>1
      <4>3. ops[hooks[g].op].target = hooks[g].file
        BY <4>1 DEF IInv, HookStage
      <4> QED
        BY <2>5, <3>2, <4>2, <4>3 DEF FirstWrite
    <3> QED
      BY <2>2, <2>5, <3>1, <3>2, <3>3
  <2> QED
    BY <2>4, <2>5
<1> QED
  BY <1>1, Inductive, PTL

\* EffectsReported: what a step changed beside its files is told to the user when
\* the workflow is over, but for the step that failed and what need not be told.
THEOREM EffectsAreReported == Spec => []EffectsReported
<1>1. IInv => EffectsReported
  BY DEF IInv, EffectStage, Told, EffectsReported
<1> QED
  BY <1>1, Inductive, PTL
=============================================================================
