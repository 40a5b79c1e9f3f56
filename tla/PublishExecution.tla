-------------------------- MODULE PublishExecution --------------------------
(***************************************************************************)
(* product.publish of the node bridge: handlePublish prepares a manifest   *)
(* of npm packages and, with `execute`, publishes them one by one, with    *)
(* retries and an optional rollback, writing what it completed back to     *)
(* publish-manifest.json, from which a later `--resume` continues.         *)
(*                                                                         *)
(* A behaviour is a series of invocations of the command, each with its    *)
(* own options and package set; an invocation may die at any step, a write *)
(* may fail or leave half a file, and npm may fail, fail for a while, or   *)
(* fail although the registry took the package.  A package stands for a    *)
(* name at a version.                                                      *)
(*                                                                         *)
(* Abstracted: the files staged beside the manifest, publish-report.json   *)
(* (written after the manifest and never read back: only that its write    *)
(* may fail is kept), the log of attempts, delays, and other publishers.   *)
(***************************************************************************)
EXTENDS Naturals, Sequences, FiniteSets

CONSTANTS
    Packages,   \* what may be published
    Position,   \* where a package comes by role and then by name
    Builds,     \* the package sets an invocation may find in the pack root
    Options,    \* the command lines
    MaxRetries, \* --max-retries
    ViewAnswers,\* npm view always finds a version that is there
    MaxRuns     \* bound: invocations

Flags == [resume : BOOLEAN, clean : BOOLEAN, execute : BOOLEAN,
          dry : BOOLEAN, yes : BOOLEAN, rollback : BOOLEAN]

ASSUME PackagesAssumption ==
    /\ IsFiniteSet(Packages)
    /\ Position \in [Packages -> Nat]
    /\ \A p, q \in Packages : Position[p] = Position[q] => p = q
    /\ Builds \subseteq SUBSET Packages

ASSUME BoundsAssumption ==
    /\ Options \subseteq Flags
    /\ MaxRetries \in Nat
    /\ ViewAnswers \in BOOLEAN
    /\ MaxRuns \in Nat

Ids == 1..Cardinality(Packages)

\* publish-manifest.json: missing, not JSON, or holding completedSteps: ids,
\* whatever package they stood for and whether or not that was a dry run.
NoFile    == [is |-> "missing", done |-> {}]
Torn      == [is |-> "torn", done |-> {}]
Json(set) == [is |-> "json", done |-> set]

VARIABLES
    registry,   \* packages npm has
    manifest,   \* publish-manifest.json
    pc,         \* where the invocation is
    kont,       \* which of its persists is under way
    opts,       \* its options
    plan,       \* manifest.steps: step i publishes plan[i]
    completed,  \* execution.completedSteps
    thisRun,    \* completedThisRun
    at,         \* the step of the loop
    attempt,    \* attempts of that step so far
    undo,       \* rollback commands not yet executed
    mine,       \* what this invocation put into the registry and left there
    lost,       \* ... of which npm said that it failed
    runs        \* invocations so far

stores == <<registry, manifest>>
ghost  == <<mine, lost>>
vars   == <<registry, manifest, pc, kont, opts, plan, completed, thisRun, at,
            attempt, undo, mine, lost, runs>>

Init ==
    /\ registry = {} /\ manifest = NoFile
    /\ pc = "idle" /\ kont = "start"
    /\ opts = [f \in {"resume", "clean", "execute", "dry", "yes", "rollback"} |-> FALSE]
    /\ plan = <<>> /\ completed = {} /\ thisRun = <<>>
    /\ at = 1 /\ attempt = 0 /\ undo = 0
    /\ mine = {} /\ lost = {} /\ runs = 0

-----------------------------------------------------------------------------
(* The plan of an invocation *)

\* createPublishOrder: platform binaries, the official CLI, the product.
PublishOrder(S) ==
    [i \in 1..Cardinality(S) |->
        CHOOSE p \in S : Cardinality({q \in S : Position[q] <= Position[p]}) = i]

\* Mutant of ResumedSteps: nothing is inherited.
ResumedStepsForgotten(previous, steps) == {}

\* collectResumedSteps: ids are positions, publish-1, publish-2, ...
ResumedSteps(previous, steps) ==
    {i \in previous.done : i <= Len(steps)}

\* preparePublishArtifacts empties the output directory before anything
\* looks at --resume.
AfterPrepare(o) == IF o.clean THEN NoFile ELSE manifest

Persist(k) == pc' = "manifest" /\ kont' = k

NewRun(o, steps, inherited) ==
    /\ opts' = o /\ plan' = steps /\ completed' = inherited
    /\ thisRun' = <<>> /\ at' = 1 /\ attempt' = 0 /\ undo' = 0
    /\ mine' = {} /\ lost' = {}
    /\ runs' = runs + 1

\* handlePublish up to the first write.
Invoke(o, S) ==
    LET steps    == PublishOrder(S)
        previous == IF o.resume THEN AfterPrepare(o) ELSE NoFile
    IN  /\ pc = "idle" /\ runs < MaxRuns
        /\ ~(o.resume /\ o.clean)
        /\ previous # Torn
        /\ manifest' = AfterPrepare(o)
        /\ NewRun(o, steps, ResumedSteps(previous, steps))
        /\ Persist("start")
        /\ UNCHANGED registry

\* --resume without --no-clean, or with a manifest that does not parse: an
\* error, after the output directory was emptied in the first case.
InvokeRejected(o, S) ==
    /\ pc = "idle" /\ runs < MaxRuns
    /\ o.resume /\ (o.clean \/ manifest = Torn)
    /\ manifest' = AfterPrepare(o)
    /\ NewRun(o, PublishOrder(S), {})
    /\ UNCHANGED <<registry, pc, kont>>

-----------------------------------------------------------------------------
(* persistPublishArtifacts: the manifest, then the report *)

\* createExecutionRollbackPlan and the decision to execute it.
StepFailed ==
    /\ IF opts.rollback /\ ~opts.dry /\ thisRun # <<>>
       THEN pc' = "rollback" /\ undo' = Len(thisRun) /\ UNCHANGED kont
       ELSE Persist("abort") /\ UNCHANGED undo

WriteManifest ==
    /\ pc = "manifest"
    /\ manifest' = Json(completed)
    /\ pc' = "report"
    /\ UNCHANGED <<registry, kont, opts, plan, completed, thisRun, at, attempt,
                   undo, ghost, runs>>

\* Where an invocation goes on after the report is written.
WriteReport ==
    /\ pc = "report"
    /\ pc' = CASE kont = "start" /\ opts.execute -> "preflight"
               [] kont \in {"checked", "step"}   -> "step"
               [] OTHER                          -> "idle"
    /\ UNCHANGED <<stores, kont, opts, plan, completed, thisRun, at, attempt,
                   undo, ghost, runs>>

\* A write throws.  After the preflight the error is persisted; after a step
\* it counts as the failure of that step; elsewhere the command ends with it.
WriteFails ==
    /\ pc \in {"manifest", "report"}
    /\ manifest' \in IF pc = "manifest" THEN {manifest, Torn} ELSE {manifest}
    /\ CASE kont = "checked" -> Persist("abort") /\ UNCHANGED undo
         [] kont = "step"    -> StepFailed
         [] OTHER            -> pc' = "idle" /\ UNCHANGED <<kont, undo>>
    /\ UNCHANGED <<registry, opts, plan, completed, thisRun, at, attempt,
                   ghost, runs>>

-----------------------------------------------------------------------------
(* executePublishManifest *)

PlanPackages == {plan[i] : i \in 1..Len(plan)}

\* The version conflicts the preflight may see, among all steps of the plan:
\* npm view may fail to report a version.
Conflicts ==
    LET there == registry \cap PlanPackages
    IN  IF ViewAnswers THEN {there} ELSE SUBSET there

\* Mutant of Preflight: --yes is not asked for.
PreflightWithoutYes ==
    /\ pc = "preflight"
    /\ \E fault \in BOOLEAN, conflicts \in Conflicts :
          IF conflicts = {} /\ ~fault THEN Persist("checked") ELSE Persist("abort")
    /\ UNCHANGED <<stores, opts, plan, completed, thisRun, at, attempt, undo,
                   ghost, runs>>

\* runPublishPreflight passes, or finds a fault: no --yes, a conflict, or a
\* missing tarball or login.
Preflight ==
    /\ pc = "preflight"
    /\ \E fault \in BOOLEAN, conflicts \in Conflicts :
          IF (opts.dry \/ opts.yes) /\ conflicts = {} /\ ~fault
          THEN Persist("checked")
          ELSE Persist("abort")
    /\ UNCHANGED <<stores, opts, plan, completed, thisRun, at, attempt, undo,
                   ghost, runs>>

\* Mutant of NextStep: one step too many.
NextStepTooFar ==
    /\ pc = "step"
    /\ IF at > Len(plan) + 1
       THEN Persist("end") /\ UNCHANGED <<at, attempt>>
       ELSE IF at \in completed
       THEN at' = at + 1 /\ UNCHANGED <<pc, kont, attempt>>
       ELSE pc' = "publish" /\ attempt' = 1 /\ UNCHANGED <<kont, at>>
    /\ UNCHANGED <<stores, opts, plan, completed, thisRun, undo, ghost, runs>>

\* The head of the loop over the steps.
NextStep ==
    /\ pc = "step"
    /\ IF at > Len(plan)
       THEN Persist("end") /\ UNCHANGED <<at, attempt>>
       ELSE IF at \in completed
       THEN at' = at + 1 /\ UNCHANGED <<pc, kont, attempt>>
       ELSE pc' = "publish" /\ attempt' = 1 /\ UNCHANGED <<kont, at>>
    /\ UNCHANGED <<stores, opts, plan, completed, thisRun, undo, ghost, runs>>

\* Mutant of PublishSucceeds: the loop goes on without a persist.
PublishSucceedsUnsaved ==
    /\ pc = "publish"
    /\ IF opts.dry
       THEN UNCHANGED <<registry, mine>>
       ELSE /\ plan[at] \notin registry
            /\ registry' = registry \cup {plan[at]}
            /\ mine' = mine \cup {plan[at]}
    /\ completed' = completed \cup {at}
    /\ thisRun' = Append(thisRun, at)
    /\ pc' = "step"
    /\ UNCHANGED <<manifest, kont, opts, plan, at, attempt, undo, lost, runs>>

\* npm publish succeeds: a version that is there already is refused.
PublishSucceeds ==
    /\ pc = "publish"
    /\ IF opts.dry
       THEN UNCHANGED <<registry, mine>>
       ELSE /\ plan[at] \notin registry
            /\ registry' = registry \cup {plan[at]}
            /\ mine' = mine \cup {plan[at]}
    /\ completed' = completed \cup {at}
    /\ thisRun' = Append(thisRun, at)
    /\ Persist("step")
    /\ UNCHANGED <<manifest, opts, plan, at, attempt, undo, lost, runs>>

\* npm publish fails.  When the answer of the registry is lost the package
\* may be there nevertheless.
PublishFails(retriable) ==
    /\ pc = "publish"
    /\ \/ UNCHANGED <<registry, mine, lost>>
       \/ /\ ~opts.dry /\ plan[at] \notin registry
          /\ registry' = registry \cup {plan[at]}
          /\ mine' = mine \cup {plan[at]}
          /\ lost' = lost \cup {plan[at]}
    /\ IF retriable /\ attempt < MaxRetries + 1
       THEN attempt' = attempt + 1 /\ UNCHANGED <<pc, kont, undo>>
       ELSE StepFailed /\ UNCHANGED attempt
    /\ UNCHANGED <<manifest, opts, plan, completed, thisRun, at, runs>>

\* Mutant of Unpublish: in publish order.
UnpublishForward ==
    LET first == plan[thisRun[Len(thisRun) + 1 - undo]]
    IN  /\ pc = "rollback" /\ undo > 0
        /\ registry' = registry \ {first}
        /\ mine' = mine \ {first}
        /\ undo' = undo - 1
        /\ UNCHANGED <<manifest, pc, kont, opts, plan, completed, thisRun, at,
                       attempt, lost, runs>>

\* executeNpmRollbackPlan: the packages of this run, the last one first.
Unpublish ==
    /\ pc = "rollback" /\ undo > 0
    /\ registry' = registry \ {plan[thisRun[undo]]}
    /\ mine' = mine \ {plan[thisRun[undo]]}
    /\ undo' = undo - 1
    /\ UNCHANGED <<manifest, pc, kont, opts, plan, completed, thisRun, at,
                   attempt, lost, runs>>

\* The first npm unpublish that fails ends the rollback; so does the last.
RollbackEnds ==
    /\ pc = "rollback"
    /\ Persist("abort")
    /\ UNCHANGED <<stores, opts, plan, completed, thisRun, at, attempt, undo,
                   ghost, runs>>

\* The process is killed, possibly within the write of the manifest.
Crash ==
    /\ pc # "idle"
    /\ manifest' \in IF pc = "manifest" THEN {manifest, Torn} ELSE {manifest}
    /\ pc' = "idle"
    /\ UNCHANGED <<registry, kont, opts, plan, completed, thisRun, at, attempt,
                   undo, ghost, runs>>

RunStep ==
    \/ WriteManifest \/ WriteReport \/ WriteFails
    \/ Preflight \/ NextStep
    \/ PublishSucceeds \/ (\E r \in BOOLEAN : PublishFails(r))
    \/ Unpublish \/ RollbackEnds

Next ==
    \/ \E o \in Options, S \in Builds : Invoke(o, S) \/ InvokeRejected(o, S)
    \/ RunStep
    \/ Crash

Spec == Init /\ [][Next]_vars

-----------------------------------------------------------------------------
(* Properties *)

Recorded == manifest.done

\* The run is neither over nor on its way out.
Going ==
    \/ pc \in {"preflight", "step", "publish"}
    \/ pc \in {"manifest", "report"} /\ kont # "abort"

TypeOK ==
    /\ registry \subseteq Packages
    /\ manifest \in [is : {"missing", "torn", "json"}, done : SUBSET Ids]
    /\ manifest.is # "json" => manifest.done = {}
    /\ pc \in {"idle", "manifest", "report", "preflight", "step", "publish", "rollback"}
    /\ kont \in {"start", "checked", "step", "abort", "end"}
    /\ opts \in Flags
    /\ plan \in Seq(Packages) /\ Len(plan) <= Cardinality(Packages)
    /\ completed \subseteq Ids
    /\ thisRun \in Seq(1..Len(plan))
    /\ at \in 1..(Len(plan) + 1)
    /\ pc = "publish" => at <= Len(plan)
    /\ attempt \in 0..(MaxRetries + 1)
    /\ undo \in 0..Len(thisRun)
    /\ mine \subseteq Packages /\ lost \subseteq Packages
    /\ runs \in 0..MaxRuns

\* No npm publish starts before all that this run has published is in a whole
\* file: a run whose write tore publishes nothing more.  A whole file trails
\* by one package at most (besides those npm denied).  And what a real run
\* that started afresh has recorded by then, it has published.  Only what a
\* run does itself is compared: a resume inherits ids, of a dry run, of
\* another plan or of packages taken out, and a torn file tells nothing.
RecordFollowsRegistry ==
    LET published == mine \ lost
        recorded  == {plan[i] : i \in Recorded \cap (1..Len(plan))}
    IN  /\ pc \in {"step", "publish"} =>
              /\ manifest # Torn
              /\ published \subseteq recorded
              /\ ~opts.resume /\ ~opts.dry => recorded = published
        /\ manifest # Torn => Cardinality(published \ recorded) <= 1

\* What a run completed is an initial part of its plan, and a rollback takes
\* the packages out from the end: none is left without what it depends on,
\* but for those whose publish npm denied.
DependentsLeaveFirst ==
    /\ \A i \in completed : 1..i \subseteq completed
    /\ \E k \in 0..Len(thisRun) :
          mine \ lost = {plan[thisRun[i]] : i \in 1..k}

\* The registry changes only under `execute` and `yes`, never in a dry run;
\* what leaves it was put there by this very run, under rollbackOnFailure.
RegistryGuarded ==
    [][ /\ registry' # registry => opts.execute /\ opts.yes /\ ~opts.dry
        /\ registry \ registry' # {} =>
              opts.rollback /\ registry \ registry' \subseteq mine ]_vars

\* A run that resumes loses nothing of the record that is still in its plan,
\* at whatever step it fails, least of all in a preflight that finds the
\* completed packages in the registry: unless the write of the file is torn.
\* Then the run, if it lives, has the whole record in memory and is on its way
\* out; and no later run resumes from the torn file as if it were empty.
ResumeKeepsRecord ==
    [][ /\ pc # "idle" /\ opts.resume =>
              LET kept(record) == {i \in Recorded : i <= Len(plan)} \subseteq record
              IN  \/ kept(Recorded')
                  \/ /\ pc = "manifest" /\ manifest' = Torn
                     /\ pc' # "idle" => kept(completed') /\ ~Going'
        /\ manifest = Torn /\ runs' # runs /\ opts'.resume => pc' = "idle" ]_vars

\* Said at execution.ts:105: a run can be resumed at any moment.  At least no
\* step it completed may stop the preflight of the next one.
CompletedStepsDoNotConflict ==
    pc = "preflight" =>
        \A conflicts \in Conflicts : conflicts \cap {plan[i] : i \in completed} = {}
=============================================================================
