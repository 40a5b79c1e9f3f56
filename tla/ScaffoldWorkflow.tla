-------------------------- MODULE ScaffoldWorkflow --------------------------
(***************************************************************************)
(* A declarative workflow of a dynamic command: executeDeclarativeWorkflow *)
(* runs its steps in order.  Every write of a file registers a rollback    *)
(* hook with the transaction; when a step throws, the hooks are run in     *)
(* reverse, the transaction is called rolled back, and the error tells     *)
(* which operations cannot be undone.                                      *)
(*                                                                         *)
(* Every call of a tool may fail.  A failed write may leave half a file,   *)
(* since the host truncates and then writes; a failed install command may  *)
(* have changed package.json; and an undo may fail like any other write.   *)
(*                                                                         *)
(* Abstracted: a file is the set of what went into it; postActions is the  *)
(* run of the actions it expands to; templates and the dependency plan are *)
(* constants, for they are memoised; directories, labels, the text of the  *)
(* summary and other processes in the workspace are left out.              *)
(***************************************************************************)
EXTENDS Naturals, Sequences, FiniteSets

CONSTANTS
    Order,           \* the files, as localeCompare sorts them
    PackageJson,     \* one of them
    Rendered,        \* files the templates render
    Replaced,        \* files whose merge rule is `replace`
    HasPatch,        \* the dependency plan patches package.json
    InstallCommands, \* how many commands installCommands holds
    Workflows        \* workflows a manifest may declare

Files == {Order[i] : i \in DOMAIN Order}

Kinds == {"calc", "merge", "write", "install", "gitInit", "firstCommit"}

\* What a step registers instead of its compensation, if its author says so.
Overrides == {"inherit", "none", "unsupported"}

Steps == [kind : Kinds, execute : BOOLEAN, skipIfExists : BOOLEAN,
          rollback : Overrides]

ASSUME WorkflowAssumption ==
    /\ Order \in Seq(Files)
    /\ PackageJson \in Files
    /\ Rendered \subseteq Files /\ Replaced \subseteq Files
    /\ HasPatch \in BOOLEAN /\ InstallCommands \in Nat
    /\ Workflows \subseteq Seq(Steps)

\* What a file holds; the empty set is no file.
Contents == (SUBSET {"user", "template", "deps", "installed"}) \cup {{"torn"}}

VARIABLES
    disk,       \* the files of the workspace
    repo,       \* it is a git repository
    workflow,   \* the steps
    pc,         \* where the workflow is
    at,         \* the current step
    merged,     \* state.mergedFiles, empty before the merge
    queue,      \* files the current writeFiles has yet to write
    commands,   \* install commands run by the current step
    prepared,   \* state.preparedRollbackFiles
    ops,        \* transaction.operations
    hooks,      \* transaction.rollbackHooks
    turn,       \* how many of them rollbackTransaction has run
    failures,   \* how many transaction.rollbackFailures there are
    rolledBack, \* transaction.rolledBack
    before,     \* what a file held before the workflow first wrote it
    effects     \* steps that changed anything but through writeFiles

world       == <<disk, repo>>
plan        == <<workflow, merged>>
transaction == <<ops, hooks>>
undoing     == <<turn, failures, rolledBack>>
writing     == <<queue, prepared, before>>
vars == <<disk, repo, workflow, pc, at, merged, queue, commands, prepared,
          ops, hooks, turn, failures, rolledBack, before, effects>>

Init ==
    /\ disk \in [Files -> {{}, {"user"}}]
    /\ repo \in BOOLEAN
    /\ workflow \in Workflows
    /\ pc = "running" /\ at = 1
    /\ merged = <<>> /\ queue = {} /\ commands = 0 /\ prepared = {}
    /\ ops = <<>> /\ hooks = <<>>
    /\ turn = 0 /\ failures = 0 /\ rolledBack = FALSE
    /\ before = disk /\ effects = {}

-----------------------------------------------------------------------------
(* Steps and the transaction.                                              *)

StepIs(kind) ==
    pc = "running" /\ at \in DOMAIN workflow /\ workflow[at].kind = kind

\* The step returned: on to the next one.
StepReturns == pc' = "running" /\ at' = at + 1

\* The step threw: the rollback begins.
StepThrows == pc' = "undoing" /\ at' = at

Op(target, status, rollback) ==
    [from |-> at, target |-> target, status |-> status, rollback |-> rollback]

\* A step without a hook registers what it did.
Register(status, rollback) ==
    /\ ops' = Append(ops, Op("workspace", status, rollback))
    /\ hooks' = hooks

\* The mapped rollback of a step that did something: the author's override,
\* or the compensation of the handler.
Registered ==
    CASE workflow[at].rollback = "none"        -> "not_needed"
      [] workflow[at].rollback = "unsupported" -> "not_supported"
      [] OTHER                                 -> "compensation_available"

\* A summary that forgets the operations with a compensation.
NonRevertibleUnsupported ==
    {i \in DOMAIN ops :
        ops[i].status = "applied" /\ ops[i].rollback = "not_supported"}

NonRevertible ==
    {i \in DOMAIN ops :
        /\ ops[i].status = "applied"
        /\ ops[i].rollback \in {"not_supported", "compensation_available"}}

\* Preflight, the resolve steps, renderTemplates and printSummary.
Calculate ==
    /\ StepIs("calc")
    /\ StepReturns
    /\ UNCHANGED <<world, plan, writing, commands, transaction, undoing, effects>>

\* state.dependencyPlan is there: a step that has returned needed it.
DependencyPlanned ==
    \E i \in 1..(at - 1) : workflow[i].kind \in {"merge", "write", "install"}

\* Before a step changed anything, a call of it failed; what is memoised is
\* not called again.
Throw ==
    /\ pc = "running" /\ at \in DOMAIN workflow
    /\ workflow[at].kind \in {"merge", "write"} => DOMAIN merged = {}
    /\ workflow[at].kind = "install" => ~DependencyPlanned
    /\ workflow[at].kind = "firstCommit" => workflow[at].execute
    /\ StepThrows
    /\ UNCHANGED <<world, plan, writing, commands, transaction, undoing, effects>>

Complete ==
    /\ pc = "running" /\ at > Len(workflow)
    /\ pc' = "completed"
    /\ UNCHANGED <<world, plan, writing, commands, transaction, undoing, effects, at>>

-----------------------------------------------------------------------------
(* Merging and writing.                                                    *)

Targets == Rendered \cup IF HasPatch THEN {PackageJson} ELSE {}

\* mergeTargetFile: package.json keeps what it has, whatever its rule says.
MergedContent(f) ==
    (IF f # PackageJson /\ f \in Replaced THEN {} ELSE disk[f])
        \cup (IF f \in Rendered THEN {"template"} ELSE {})
        \cup (IF f = PackageJson /\ HasPatch THEN {"deps"} ELSE {})

EnsureMerged ==
    merged' = IF DOMAIN merged # {} THEN merged
              ELSE [f \in Targets |-> MergedContent(f)]

MergeFiles ==
    /\ StepIs("merge")
    /\ EnsureMerged
    /\ StepReturns
    /\ UNCHANGED <<world, workflow, writing, commands, transaction, undoing, effects>>

StartWriteFiles ==
    /\ StepIs("write")
    /\ EnsureMerged
    /\ queue' = Targets
    /\ pc' = "writing"
    /\ UNCHANGED <<world, workflow, at, prepared, before, commands, transaction,
                   undoing, effects>>

\* createFileRollbackHook: what the undo of the next write will put back.
Snapshot(f) ==
    /\ prepared' = prepared \cup {f}
    /\ before' = IF f \in prepared THEN before ELSE [before EXCEPT ![f] = disk[f]]

\* A hook that is numbered before its operation got its number.
HookOfPrevious(f) == [op |-> Len(ops), file |-> f, content |-> disk[f]]

Hook(f) == [op |-> Len(ops) + 1, file |-> f, content |-> disk[f]]

\* The files are written in the order of localeCompare.
ComesNext(f) ==
    \E i \in DOMAIN Order : Order[i] = f /\ \A j \in 1..(i - 1) : Order[j] \notin queue

WriteFile ==
    /\ pc = "writing"
    /\ \E f \in queue :
           /\ ComesNext(f)
           /\ Snapshot(f)
           /\ disk' = [disk EXCEPT ![f] = merged[f]]
           /\ ops' = Append(ops, Op(f, "applied", "supported"))
           /\ hooks' = Append(hooks, Hook(f))
           /\ queue' = queue \ {f}
    /\ UNCHANGED <<repo, plan, pc, at, commands, undoing, effects>>

\* The write fails before it is registered: nothing will undo it.
WriteFileFails ==
    /\ pc = "writing"
    /\ \E f \in queue :
           /\ ComesNext(f)
           /\ Snapshot(f)
           /\ \E content \in {disk[f], {"torn"}} : disk' = [disk EXCEPT ![f] = content]
    /\ queue' = {}
    /\ StepThrows
    /\ UNCHANGED <<repo, plan, commands, transaction, undoing, effects>>

WriteFilesDone ==
    /\ pc = "writing" /\ queue = {}
    /\ StepReturns
    /\ UNCHANGED <<world, plan, writing, commands, transaction, undoing, effects>>

-----------------------------------------------------------------------------
(* Installing dependencies.                                                *)

SkipInstall ==
    /\ StepIs("install")
    /\ InstallCommands = 0 \/ ~workflow[at].execute
    /\ Register(IF InstallCommands = 0 THEN "skipped" ELSE "planned", "not_needed")
    /\ StepReturns
    /\ UNCHANGED <<world, plan, writing, commands, undoing, effects>>

StartInstall ==
    /\ StepIs("install")
    /\ InstallCommands > 0 /\ workflow[at].execute
    /\ pc' = "installing" /\ commands' = 0
    /\ UNCHANGED <<world, plan, at, writing, transaction, undoing, effects>>

\* A package manager wrote package.json and whatever else it writes.
Installed ==
    /\ disk' = [disk EXCEPT ![PackageJson] = @ \cup {"installed"}]
    /\ effects' = effects \cup {at}

\* The last command is followed by the registration.
RunInstall ==
    /\ pc = "installing"
    /\ Installed
    /\ commands' = commands + 1
    /\ IF commands + 1 < InstallCommands
       THEN UNCHANGED <<pc, at, transaction>>
       ELSE Register("applied", Registered) /\ StepReturns
    /\ UNCHANGED <<repo, plan, writing, undoing>>

\* A command fails, with or without an effect, or the compensation of the
\* last one cannot be computed.
InstallFails ==
    /\ pc = "installing"
    /\ \/ Installed
       \/ UNCHANGED <<disk, effects>>
    /\ StepThrows
    /\ UNCHANGED <<repo, plan, writing, commands, transaction, undoing>>

-----------------------------------------------------------------------------
(* Git.                                                                    *)

SkipGitInit ==
    /\ StepIs("gitInit")
    /\ (repo /\ workflow[at].skipIfExists) \/ ~workflow[at].execute
    /\ Register(IF repo /\ workflow[at].skipIfExists THEN "skipped" ELSE "planned",
                "not_needed")
    /\ StepReturns
    /\ UNCHANGED <<world, plan, writing, commands, undoing, effects>>

GitInit ==
    /\ StepIs("gitInit")
    /\ ~(repo /\ workflow[at].skipIfExists) /\ workflow[at].execute
    /\ repo' = TRUE
    /\ effects' = effects \cup {at}
    /\ Register("applied", Registered)
    /\ StepReturns
    /\ UNCHANGED <<disk, plan, writing, commands, undoing>>

PlanFirstCommit ==
    /\ StepIs("firstCommit") /\ ~workflow[at].execute
    /\ Register("planned", "not_needed")
    /\ StepReturns
    /\ UNCHANGED <<world, plan, writing, commands, undoing, effects>>

\* The commit makes the repository first if there is none; with nothing to
\* commit it is skipped, the new repository notwithstanding.
FirstCommit ==
    /\ StepIs("firstCommit") /\ workflow[at].execute
    /\ repo' = TRUE
    /\ \/ /\ effects' = effects \cup {at}
          /\ Register("applied", Registered)
       \/ /\ effects' = IF repo THEN effects ELSE effects \cup {at}
          /\ Register("skipped", "not_needed")
    /\ StepReturns
    /\ UNCHANGED <<disk, plan, writing, commands, undoing>>

\* A call after `git init` fails.
FirstCommitFails ==
    /\ StepIs("firstCommit") /\ workflow[at].execute /\ ~repo
    /\ repo' = TRUE
    /\ effects' = effects \cup {at}
    /\ StepThrows
    /\ UNCHANGED <<disk, plan, writing, commands, transaction, undoing>>

-----------------------------------------------------------------------------
(* rollbackTransaction.                                                    *)

\* An undo in the order of the writes.
NextHookForward == hooks[turn + 1]

NextHook == hooks[Len(hooks) - turn]

Undo ==
    /\ pc = "undoing" /\ turn < Len(hooks)
    /\ disk' = [disk EXCEPT ![NextHook.file] = NextHook.content]
    /\ ops' = [ops EXCEPT ![NextHook.op].status = "rolled_back",
                          ![NextHook.op].rollback = "completed"]
    /\ turn' = turn + 1
    /\ UNCHANGED <<repo, plan, pc, at, writing, commands, hooks, failures,
                   rolledBack, effects>>

\* An undo fails and the rollback goes on.  Only a write can be half done.
UndoFails ==
    /\ pc = "undoing" /\ turn < Len(hooks)
    /\ \/ disk' = disk
       \/ NextHook.content # {} /\ disk' = [disk EXCEPT ![NextHook.file] = {"torn"}]
    /\ ops' = [ops EXCEPT ![NextHook.op].rollback = "failed"]
    /\ failures' = failures + 1
    /\ turn' = turn + 1
    /\ UNCHANGED <<repo, plan, pc, at, writing, commands, hooks, rolledBack, effects>>

RollbackEnds ==
    /\ pc = "undoing" /\ turn = Len(hooks)
    /\ rolledBack' = TRUE
    /\ pc' = "failed"
    /\ UNCHANGED <<world, plan, at, writing, commands, transaction, turn, failures,
                   effects>>

Next ==
    \/ Calculate \/ Throw \/ Complete
    \/ MergeFiles \/ StartWriteFiles \/ WriteFile \/ WriteFileFails \/ WriteFilesDone
    \/ SkipInstall \/ StartInstall \/ RunInstall \/ InstallFails
    \/ SkipGitInit \/ GitInit \/ PlanFirstCommit \/ FirstCommit \/ FirstCommitFails
    \/ Undo \/ UndoFails \/ RollbackEnds

Spec == Init /\ [][Next]_vars

-----------------------------------------------------------------------------
(* Properties.                                                             *)

\* Every variable has its type; a hook belongs to one operation, in order,
\* and the rollback runs no more hooks than there are.
TypeOK ==
    /\ disk \in [Files -> Contents] /\ before \in [Files -> Contents]
    /\ repo \in BOOLEAN /\ rolledBack \in BOOLEAN
    /\ workflow \in Workflows
    /\ pc \in {"running", "writing", "installing", "undoing", "completed", "failed"}
    /\ at \in 1..(Len(workflow) + 1)
    /\ DOMAIN merged \in {{}, Targets}
    /\ \A f \in DOMAIN merged : merged[f] \in Contents
    /\ queue \subseteq Files /\ prepared \subseteq Files
    /\ commands \in 0..InstallCommands
    /\ \A i \in DOMAIN ops :
           /\ ops[i].from \in DOMAIN workflow
           /\ ops[i].target \in Files \cup {"workspace"}
           /\ ops[i].status \in {"applied", "planned", "skipped", "rolled_back"}
           /\ ops[i].rollback \in {"supported", "completed", "failed", "not_needed",
                                   "not_supported", "compensation_available"}
    /\ \A h \in DOMAIN hooks :
           /\ hooks[h].op \in DOMAIN ops
           /\ ops[hooks[h].op].target = hooks[h].file
           /\ hooks[h].content \in Contents
    /\ turn \in 0..Len(hooks) /\ failures \in 0..turn
    /\ effects \subseteq DOMAIN workflow

FirstWrite(f, i) ==
    ops[i].target = f /\ \A j \in 1..(i - 1) : ops[j].target # f

\* After a failed workflow every registered write has been undone or is told as
\* a rollback that failed (one that failed itself, and may have torn the file, is
\* registered nowhere); and a file whose first write was undone holds what
\* it held before the workflow first wrote it, however often it was written,
\* torn or changed by an install since, and whatever other undos failed.
RollbackRestores ==
    pc = "failed" =>
        \A i \in DOMAIN ops :
            /\ ops[i].rollback # "supported"
            /\ \A f \in Files :
                   FirstWrite(f, i) /\ ops[i].rollback = "completed" =>
                       disk[f] = before[f]

\* When a workflow is over, every step that changed the workspace beside its
\* files is among the operations the user is told cannot be reverted, except
\* the step that failed, one whose author declared that no rollback is
\* needed, and a first commit that made a repository and then was skipped.
EffectsReported ==
    pc \in {"completed", "failed"} =>
        \A step \in effects :
            \/ \E i \in NonRevertible : ops[i].from = step
            \/ pc = "failed" /\ step = at
            \/ workflow[step].rollback = "none"
            \/ /\ workflow[step].kind = "firstCommit"
               /\ \E i \in DOMAIN ops : ops[i].from = step /\ ops[i].status = "skipped"

=============================================================================
