----------------------- MODULE PublishExecutionProofs -----------------------
(***************************************************************************)
(* Theorems about PublishExecution, for every set of packages, every       *)
(* series of invocations and every step at which they fail or die.         *)
(***************************************************************************)
EXTENDS PublishExecution, SequenceTheorems, FiniteSetTheorems, TLAPS

-----------------------------------------------------------------------------
(* The inductive invariant.                                                *)

\* The ids of a record are the first ones.
FirstIds(record) == \A i \in record : 1..i \subseteq record

\* The loop has every step behind it; the one it publishes is not done.
LoopStage ==
    /\ FirstIds(completed) /\ FirstIds(Recorded)
    /\ \A i, j \in 1..Len(plan) : plan[i] = plan[j] => i = j
    /\ 1..(at - 1) \subseteq completed
    /\ pc = "publish" => at \notin completed

\* Each step this run completed is in its record, and none is there twice; a
\* run that started afresh records no other.
RunRecorded ==
    /\ \A i, j \in 1..Len(thisRun) : thisRun[i] = thisRun[j] => i = j
    /\ \A i \in 1..Len(thisRun) : thisRun[i] \in completed
    /\ ~opts.resume => completed \subseteq {thisRun[i] : i \in 1..Len(thisRun)}

\* What this run put into the registry and npm admits: its first k steps.
Left(k) == mine \ lost = {plan[thisRun[i]] : i \in 1..k}

\* All its steps, as long as it goes on; as many as are not undone, in the
\* rollback; a first part of them, afterwards.
LeftStage ==
    /\ opts.dry => mine = {} /\ lost = {}
    /\ Going /\ ~opts.dry => Left(Len(thisRun))
    /\ pc = "rollback" => Left(undo)
    /\ \E k \in 0..Len(thisRun) : Left(k)
    /\ mine \subseteq registry /\ lost \subseteq registry
    /\ \A i \in 1..Len(thisRun) : plan[thisRun[i]] \notin lost

\* The packages the ids of a record stand for in the plan.
Named(record) == {plan[i] : i \in record \cap (1..Len(plan))}

\* The file says what the run has completed, but for the step it is about to
\* write; a resumed run has all of the file that its plan has.
FileStage ==
    /\ pc \in {"report", "preflight", "step", "publish"} => manifest = Json(completed)
    /\ manifest # Torn => (mine \ lost) \ Named(Recorded) \subseteq Named({at})
    /\ pc # "idle" /\ opts.resume =>
          {i \in Recorded : i <= Len(plan)} \subseteq completed

\* What the options allowed on the way here.
Allowed ==
    /\ pc \in {"preflight", "step", "publish", "rollback"} => opts.execute
    /\ pc \in {"manifest", "report"} /\ kont \in {"checked", "step"} => opts.execute
    /\ \/ pc \in {"step", "publish", "rollback"}
       \/ pc \in {"manifest", "report"} /\ kont \in {"checked", "step"}
       => opts.dry \/ opts.yes
    /\ pc = "rollback" => opts.rollback /\ ~opts.dry

IInv ==
    /\ TypeOK
    /\ LoopStage
    /\ RunRecorded
    /\ LeftStage
    /\ FileStage
    /\ Allowed


-----------------------------------------------------------------------------
(* createPublishOrder.                                                     *)

\* The packages of S that come no later than p, and how many they are.
Upto(S, p) == {q \in S : Position[q] <= Position[p]}
Rank(S)    == [p \in S |-> Cardinality(Upto(S, p))]

\* Different packages of S have different ranks, in the order of position.
LEMMA RankOrdered ==
    ASSUME NEW S \in SUBSET Packages
    PROVE  /\ IsFiniteSet(S) /\ Cardinality(S) \in Nat
           /\ \A p \in S : Rank(S)[p] \in 1..Cardinality(S)
           /\ \A p, q \in S : Position[p] < Position[q] => Rank(S)[p] < Rank(S)[q]
<1> USE PackagesAssumption
<1>1. IsFiniteSet(S) /\ Cardinality(S) \in Nat
  BY FS_Subset, FS_CardinalityType
<1>2. \A p \in S : Upto(S, p) \in SUBSET S /\ p \in Upto(S, p)
  BY DEF Upto
<1>3. ASSUME NEW p \in S
      PROVE  Rank(S)[p] \in 1..Cardinality(S)
  <2>1. /\ Cardinality(Upto(S, p)) <= Cardinality(S)
        /\ IsFiniteSet(Upto(S, p))
    BY <1>1, <1>2, FS_Subset
  <2>2. Cardinality(Upto(S, p)) \in Nat /\ Cardinality(Upto(S, p)) # 0
    BY <1>2, <2>1, FS_CardinalityType, FS_EmptySet
  <2> QED
    BY <1>1, <2>1, <2>2 DEF Rank
<1>4. ASSUME NEW p \in S, NEW q \in S, Position[p] < Position[q]
      PROVE  Rank(S)[p] < Rank(S)[q]
  <2>1. Upto(S, p) \in SUBSET Upto(S, q) /\ q \notin Upto(S, p) /\ q \in Upto(S, q)
    BY <1>4 DEF Upto
  <2>2. IsFiniteSet(Upto(S, q)) /\ IsFiniteSet(Upto(S, p))
    BY <1>1, <1>2, FS_Subset
  <2>3. /\ Cardinality(Upto(S, p)) <= Cardinality(Upto(S, q))
        /\ Cardinality(Upto(S, p)) # Cardinality(Upto(S, q))
    BY <2>1, <2>2, FS_Subset
  <2>4. Cardinality(Upto(S, p)) \in Nat /\ Cardinality(Upto(S, q)) \in Nat
    BY <2>2, FS_CardinalityType
  <2> QED
    BY <2>3, <2>4 DEF Rank
<1> QED
  BY <1>1, <1>3, <1>4

\* Every rank up to the number of packages is that of one of them.
LEMMA RankOnto ==
    ASSUME NEW S \in SUBSET Packages, NEW i \in 1..Cardinality(S)
    PROVE  \E p \in S : Rank(S)[p] = i
<1> DEFINE T == 1..Cardinality(S)
<1>1. /\ IsFiniteSet(S) /\ Cardinality(S) \in Nat
      /\ \A p \in S : Rank(S)[p] \in T
      /\ \A p, q \in S : Position[p] < Position[q] => Rank(S)[p] < Rank(S)[q]
  BY RankOrdered
<1>2. Rank(S) \in [S -> T]
  <2>1. Rank(S) = [p \in S |-> Rank(S)[p]]
    BY DEF Rank
  <2> QED
    BY <1>1, <2>1
<1>3. \A p, q \in S : Rank(S)[p] = Rank(S)[q] => p = q
  <2> SUFFICES ASSUME NEW p \in S, NEW q \in S, p # q
               PROVE  Rank(S)[p] # Rank(S)[q]
    OBVIOUS
  <2>1. Position[p] \in Nat /\ Position[q] \in Nat /\ Position[p] # Position[q]
    BY PackagesAssumption
  <2>2. Position[p] < Position[q] \/ Position[q] < Position[p]
    BY <2>1
  <2>3. Rank(S)[p] \in Nat /\ Rank(S)[q] \in Nat
    BY <1>1
  <2> QED
    BY <1>1, <2>2, <2>3
<1>4. Rank(S) \in Injection(S, T)
  BY <1>2, <1>3 DEF Injection, IsInjective
<1>5. IsFiniteSet(T) /\ Cardinality(T) = Cardinality(S)
  BY <1>1, FS_Interval
<1>6. Rank(S) \in Surjection(S, T)
  BY <1>4, <1>5, FS_Injection
<1> QED
  BY <1>6 DEF Surjection

\* createPublishOrder returns every package of the set once, what comes first by
\* role and name first: a package never precedes one it depends on.
THEOREM PublishOrderSorted ==
    ASSUME NEW S \in SUBSET Packages
    PROVE  /\ PublishOrder(S) \in Seq(S)
           /\ Len(PublishOrder(S)) = Cardinality(S)
           /\ Cardinality(S) <= Cardinality(Packages)
           /\ \A p \in S : \E i \in 1..Cardinality(S) : PublishOrder(S)[i] = p
           /\ \A i, j \in 1..Cardinality(S) :
                 i < j => Position[PublishOrder(S)[i]] < Position[PublishOrder(S)[j]]
<1> DEFINE n == Cardinality(S)
           o == PublishOrder(S)
<1>1. /\ n \in Nat /\ n <= Cardinality(Packages)
      /\ \A p \in S : Rank(S)[p] \in 1..n
      /\ \A p, q \in S : Position[p] < Position[q] => Rank(S)[p] < Rank(S)[q]
  BY RankOrdered, PackagesAssumption, FS_Subset
<1>2. \A i \in 1..n : o[i] \in S /\ Rank(S)[o[i]] = i
  <2> SUFFICES ASSUME NEW i \in 1..n
               PROVE  o[i] \in S /\ Rank(S)[o[i]] = i
    OBVIOUS
  <2>1. \E p \in S : Cardinality({q \in S : Position[q] <= Position[p]}) = i
    BY RankOnto DEF Rank, Upto
  <2>2. o[i] = CHOOSE p \in S : Cardinality({q \in S : Position[q] <= Position[p]}) = i
    BY DEF PublishOrder
  <2> QED
    BY <2>1, <2>2 DEF Rank, Upto
<1>3. o \in Seq(S) /\ Len(o) = n
  <2> DEFINE e(i) == CHOOSE p \in S : Cardinality({q \in S : Position[q] <= Position[p]}) = i
  <2>1. o = [i \in 1..n |-> e(i)]
    BY DEF PublishOrder
  <2>2. \A i \in 1..n : e(i) \in S
    BY <1>2, <2>1
  <2> HIDE DEF o, n, e
  <2> QED
    BY <1>1, <2>1, <2>2
<1>4. ASSUME NEW p, NEW q, p \in S, q \in S, Rank(S)[p] < Rank(S)[q]
      PROVE  Position[p] < Position[q]
  <2>1. Position[p] \in Nat /\ Position[q] \in Nat
    BY <1>4, PackagesAssumption
  <2>2. Rank(S)[p] \in Nat /\ Rank(S)[q] \in Nat
    BY <1>1, <1>4
  <2>3. CASE Position[q] < Position[p]
    BY <1>1, <1>4, <2>2, <2>3
  <2>4. CASE Position[q] = Position[p]
    BY <1>4, <2>2, <2>4, PackagesAssumption
  <2> QED
    BY <2>1, <2>3, <2>4
<1>5. \A i, j \in 1..n : i < j => Position[o[i]] < Position[o[j]]
  <2> HIDE DEF o, n
  <2> QED
    BY <1>2, <1>4
<1>6. ASSUME NEW p \in S
      PROVE  \E i \in 1..n : o[i] = p
  <2> DEFINE i == Rank(S)[p]
  <2>1. i \in 1..n /\ o[i] \in S /\ Rank(S)[o[i]] = i
    BY <1>1, <1>2
  <2>2. CASE Position[o[i]] = Position[p]
    BY <2>1, <2>2, PackagesAssumption
  <2>3. CASE Position[o[i]] # Position[p]
    <3>1. Position[o[i]] < Position[p] \/ Position[p] < Position[o[i]]
      BY <2>1, <2>3, PackagesAssumption
    <3> QED
      BY <1>1, <2>1, <3>1
  <2> QED
    BY <2>2, <2>3
<1> QED
  BY <1>1, <1>3, <1>5, <1>6


-----------------------------------------------------------------------------
(* Lemmas about records and files.                                         *)

\* The file of a record holds it; a torn file and a missing one hold nothing.
LEMMA Files ==
    /\ Torn.done = {} /\ Torn.is = "torn" /\ NoFile.done = {} /\ NoFile.is = "missing"
    /\ \A set : Json(set).done = set /\ Json(set).is = "json" /\ Json(set) # Torn
    /\ Torn \in [is : {"missing", "torn", "json"}, done : SUBSET Ids]
    /\ NoFile \in [is : {"missing", "torn", "json"}, done : SUBSET Ids]
    /\ \A set \in SUBSET Ids :
          Json(set) \in [is : {"missing", "torn", "json"}, done : SUBSET Ids]
BY DEF Torn, NoFile, Json

\* The ids of a record, cut off at n, are still the first ones.
LEMMA FirstIdsCut ==
    ASSUME NEW record \in SUBSET Ids, FirstIds(record), NEW n \in Nat
    PROVE  FirstIds({i \in record : i <= n})
<1> SUFFICES ASSUME NEW i \in record, i <= n, NEW j \in 1..i
             PROVE  j \in record /\ j <= n
  BY DEF FirstIds
<1>1. i \in Nat /\ j <= i
  BY DEF Ids
<1> QED
  BY <1>1 DEF FirstIds

-----------------------------------------------------------------------------
(* The steps that only write, decide or die.                               *)

\* What a step that leaves the plan, the record and the registry alone keeps.
Settled == UNCHANGED <<registry, opts, plan, completed, thisRun, mine, lost>>

LEMMA SettledKeeps ==
    ASSUME IInv, Settled
    PROVE  /\ RunRecorded'
           /\ FirstIds(completed)'
           /\ \A k : Left(k)' <=> Left(k)
           /\ opts.dry' => mine' = {} /\ lost' = {}
           /\ \E k \in 0..Len(thisRun') : Left(k)'
           /\ mine' \subseteq registry' /\ lost' \subseteq registry'
           /\ \A i \in 1..Len(thisRun') : plan'[thisRun'[i]] \notin lost'
           /\ \A i, j \in 1..Len(plan') : plan'[i] = plan'[j] => i = j
           /\ \A record : Named(record)' = Named(record)
<1> USE DEF IInv, Settled
<1>1. RunRecorded' /\ FirstIds(completed)'
  BY DEF RunRecorded, LoopStage, FirstIds
<1>2. /\ \A k : Left(k)' <=> Left(k)
      /\ \A record : Named(record)' = Named(record)
  BY DEF Left, Named
<1>3. /\ opts.dry' => mine' = {} /\ lost' = {}
      /\ \E k \in 0..Len(thisRun') : Left(k)'
      /\ mine' \subseteq registry' /\ lost' \subseteq registry'
      /\ \A i \in 1..Len(thisRun') : plan'[thisRun'[i]] \notin lost'
  BY <1>2 DEF LeftStage
<1> QED
  BY <1>1, <1>2, <1>3 DEF LoopStage, FileStage

\* What an invocation put into the registry and npm admits is in its record.
LEMMA MineRecorded ==
    ASSUME IInv
    PROVE  mine \ lost \subseteq Named(completed)
<1>1. PICK k \in 0..Len(thisRun) : Left(k)
  BY DEF IInv, LeftStage
<1> SUFFICES ASSUME NEW p \in mine \ lost
             PROVE  p \in Named(completed)
  OBVIOUS
<1>2. PICK i \in 1..k : p = plan[thisRun[i]]
  BY <1>1 DEF Left
<1>3. Len(thisRun) \in Nat /\ i \in 1..Len(thisRun)
  BY DEF IInv, TypeOK
<1>4. thisRun[i] \in completed /\ thisRun[i] \in 1..Len(plan)
  BY <1>3, ElementOfSeq DEF IInv, TypeOK, RunRecorded
<1> QED
  BY <1>2, <1>4 DEF Named

\* The record is written: the file then trails the registry in nothing.
LEMMA WriteManifestStep ==
    ASSUME IInv, WriteManifest
    PROVE  IInv'
<1> USE DEF IInv, WriteManifest, ghost
<1>1. manifest' = Json(completed) /\ manifest'.done = completed
  BY Files
<1>2. Settled
  BY DEF Settled
<1>3. TypeOK'
  BY <1>1, Files DEF TypeOK
<1>4. LoopStage'
  BY <1>1, <1>2, SettledKeeps DEF LoopStage, Settled, Recorded, FirstIds
<1>5. LeftStage'
  BY <1>2, SettledKeeps DEF LeftStage, Settled, Going
<1>6. FileStage'
  <2>1. (mine \ lost) \ Named(completed) = {}
    BY MineRecorded
  <2> QED
    BY <1>1, <1>2, <2>1, SettledKeeps DEF FileStage, Settled, Recorded
<1>7. Allowed'
  BY DEF Allowed
<1> QED
  BY <1>2, <1>3, <1>4, <1>5, <1>6, <1>7, SettledKeeps

\* A step that leaves the file alone too, and the loop, keeps what is said of it,
\* unless it begins to rely on the file.
LEMMA FileKept ==
    ASSUME IInv, Settled, UNCHANGED <<manifest, at>>,
           pc' \in {"report", "preflight", "step", "publish"} =>
               pc \in {"report", "preflight", "step", "publish"},
           pc' # "idle" => pc # "idle",
           pc' = "publish" => at \notin completed
    PROVE  LoopStage' /\ FileStage' /\ RunRecorded'
<1> USE DEF IInv
<1>1. LoopStage'
  BY SettledKeeps DEF LoopStage, Settled, Recorded, FirstIds
<1>2. FileStage'
  BY DEF FileStage, Settled, Recorded, Named
<1> QED
  BY <1>1, <1>2, SettledKeeps

\* The report is written: the run goes on to its preflight or its loop, or ends.
LEMMA WriteReportStep ==
    ASSUME IInv, WriteReport
    PROVE  IInv'
<1>1. /\ pc = "report"
      /\ \/ kont = "start" /\ opts.execute /\ pc' = "preflight"
         \/ kont \in {"checked", "step"} /\ pc' = "step"
         \/ pc' = "idle"
      /\ UNCHANGED <<stores, kont, opts, plan, completed, thisRun, at, attempt,
                     undo, ghost, runs>>
  BY DEF WriteReport
<1> USE DEF IInv, ghost, stores
<1>2. Settled
  BY <1>1 DEF Settled
<1>3. TypeOK'
  BY <1>1 DEF TypeOK
<1>4. LoopStage' /\ FileStage' /\ RunRecorded'
  BY <1>1, <1>2, FileKept
<1>5. LeftStage'
  BY <1>1, <1>2, SettledKeeps DEF LeftStage, Settled, Going
<1>6. Allowed'
  BY <1>1 DEF Allowed
<1> QED
  BY <1>3, <1>4, <1>5, <1>6

\* The preflight passes or finds a fault.
LEMMA PreflightStep ==
    ASSUME IInv, Preflight
    PROVE  IInv'
<1>0. /\ pc = "preflight"
      /\ UNCHANGED <<stores, opts, plan, completed, thisRun, at, attempt, undo,
                     ghost, runs>>
  BY DEF Preflight
<1>1. /\ pc' = "manifest"
      /\ \/ kont' = "abort"
         \/ kont' = "checked" /\ (opts.dry \/ opts.yes)
  <2>1. PICK fault \in BOOLEAN, conflicts \in Conflicts :
            IF (opts.dry \/ opts.yes) /\ conflicts = {} /\ ~fault
            THEN Persist("checked")
            ELSE Persist("abort")
    BY DEF Preflight
  <2>2. CASE (opts.dry \/ opts.yes) /\ conflicts = {} /\ ~fault
    <3>1. Persist("checked")
      BY <2>1, <2>2
    <3> QED
      BY <2>2, <3>1 DEF Persist
  <2>3. CASE ~((opts.dry \/ opts.yes) /\ conflicts = {} /\ ~fault)
    <3>1. Persist("abort")
      BY <2>1, <2>3
    <3>2. pc' = "manifest" /\ kont' = "abort"
      BY <3>1 DEF Persist
    <3> QED
      BY <3>2
  <2> QED
    BY <2>2, <2>3
<1> USE DEF IInv, ghost, stores
<1>2. Settled
  BY <1>0, <1>1 DEF Settled
<1>3. TypeOK'
  BY <1>0, <1>1 DEF TypeOK
<1>4. LoopStage' /\ FileStage' /\ RunRecorded'
  BY <1>0, <1>1, <1>2, FileKept
<1>5. LeftStage'
  BY <1>0, <1>1, <1>2, SettledKeeps DEF LeftStage, Settled, Going
<1>6. Allowed'
  BY <1>0, <1>1 DEF Allowed
<1> QED
  BY <1>3, <1>4, <1>5, <1>6

\* The rollback ends, wherever it has come.
LEMMA RollbackEndsStep ==
    ASSUME IInv, RollbackEnds
    PROVE  IInv'
<1>1. /\ pc = "rollback" /\ pc' = "manifest" /\ kont' = "abort"
      /\ UNCHANGED <<stores, opts, plan, completed, thisRun, at, attempt, undo,
                     ghost, runs>>
  BY DEF RollbackEnds, Persist
<1> USE DEF IInv, ghost, stores
<1>2. Settled
  BY <1>1 DEF Settled
<1>3. TypeOK'
  BY <1>1 DEF TypeOK
<1>4. LoopStage' /\ FileStage' /\ RunRecorded'
  BY <1>1, <1>2, FileKept
<1>5. LeftStage'
  BY <1>1, <1>2, SettledKeeps DEF LeftStage, Settled, Going
<1>6. Allowed'
  BY <1>1 DEF Allowed
<1> QED
  BY <1>3, <1>4, <1>5, <1>6

\* A write that fails, or a process that dies in it, leaves the file as it was or
\* half of it; nothing then relies on the file.
LEMMA FileLostOrKept ==
    ASSUME IInv, Settled, UNCHANGED at,
           manifest' = manifest \/ manifest' = Torn,
           pc' \in {"idle", "manifest", "rollback"}, pc # "idle"
    PROVE  /\ LoopStage' /\ FileStage' /\ RunRecorded'
           /\ manifest' \in [is : {"missing", "torn", "json"}, done : SUBSET Ids]
           /\ manifest'.is # "json" => manifest'.done = {}
<1> USE DEF IInv
<1>1. CASE manifest' = manifest
  <2>1. LoopStage' /\ FileStage' /\ RunRecorded'
    BY <1>1, FileKept
  <2> QED
    BY <1>1, <2>1 DEF TypeOK
<1>2. CASE manifest' = Torn
  <2>1. Recorded' = {}
    BY <1>2, Files DEF Recorded
  <2>2. LoopStage'
    BY <2>1, SettledKeeps DEF LoopStage, FirstIds, Settled
  <2>3. FileStage'
    BY <1>2, <2>1, SettledKeeps DEF FileStage, Settled
  <2> QED
    BY <1>2, <2>2, <2>3, Files, SettledKeeps
<1> QED
  BY <1>1, <1>2

\* The process dies.
LEMMA CrashStep ==
    ASSUME IInv, Crash
    PROVE  IInv'
<1>1. /\ pc # "idle" /\ pc' = "idle"
      /\ manifest' = manifest \/ manifest' = Torn
      /\ UNCHANGED <<registry, kont, opts, plan, completed, thisRun, at, attempt,
                     undo, ghost, runs>>
  BY DEF Crash
<1> USE DEF IInv, ghost
<1>2. Settled
  BY <1>1 DEF Settled
<1>3. /\ LoopStage' /\ FileStage' /\ RunRecorded'
      /\ manifest' \in [is : {"missing", "torn", "json"}, done : SUBSET Ids]
      /\ manifest'.is # "json" => manifest'.done = {}
  BY <1>1, <1>2, FileLostOrKept
<1>4. TypeOK'
  BY <1>1, <1>3 DEF TypeOK
<1>5. LeftStage'
  BY <1>1, <1>2, SettledKeeps DEF LeftStage, Settled, Going
<1>6. Allowed'
  BY <1>1 DEF Allowed
<1> QED
  BY <1>3, <1>4, <1>5, <1>6

\* A write throws: the run ends, persists the failure, or rolls back all of what
\* it published.
LEMMA WriteFailsStep ==
    ASSUME IInv, WriteFails
    PROVE  IInv'
<1>1. /\ pc \in {"manifest", "report"}
      /\ manifest' = manifest \/ manifest' = Torn
      /\ UNCHANGED <<registry, opts, plan, completed, thisRun, at, attempt,
                     ghost, runs>>
  BY DEF WriteFails
<1>2. \/ pc' = "manifest" /\ kont' = "abort" /\ undo' = undo
      \/ /\ pc' = "rollback" /\ kont = "step" /\ kont' = kont
         /\ undo' = Len(thisRun) /\ opts.rollback /\ ~opts.dry
      \/ pc' = "idle" /\ kont' = kont /\ undo' = undo
  <2>1. CASE kont = "checked"
    BY <2>1 DEF WriteFails, Persist
  <2>2. CASE kont = "step"
    BY <2>2 DEF WriteFails, StepFailed, Persist
  <2>3. CASE kont \notin {"checked", "step"}
    BY <2>3 DEF WriteFails
  <2> QED
    BY <2>1, <2>2, <2>3
<1> USE DEF IInv, ghost
<1>3. Settled
  BY <1>1 DEF Settled
<1>4. /\ LoopStage' /\ FileStage' /\ RunRecorded'
      /\ manifest' \in [is : {"missing", "torn", "json"}, done : SUBSET Ids]
      /\ manifest'.is # "json" => manifest'.done = {}
  BY <1>1, <1>2, <1>3, FileLostOrKept
<1>5. TypeOK'
  <2>1. Len(thisRun) \in 0..Len(thisRun)
    BY DEF TypeOK
  <2> QED
    BY <1>1, <1>2, <1>4, <2>1 DEF TypeOK
<1>6. LeftStage'
  <2>1. pc' = "rollback" => Left(undo')
    BY <1>1, <1>2 DEF LeftStage, Going
  <2> QED
    BY <1>1, <1>2, <1>3, <2>1, SettledKeeps DEF LeftStage, Settled, Going
<1>7. Allowed'
  BY <1>1, <1>2 DEF Allowed
<1> QED
  BY <1>4, <1>5, <1>6, <1>7


-----------------------------------------------------------------------------
(* The loop over the steps.                                                *)

\* The loop passes a step that is done, begins one that is not, or is over.
LEMMA NextStepStep ==
    ASSUME IInv, NextStep
    PROVE  IInv'
<1>1. /\ pc = "step"
      /\ \/ /\ at > Len(plan) /\ pc' = "manifest" /\ kont' = "end"
            /\ at' = at /\ attempt' = attempt
         \/ /\ at <= Len(plan) /\ at \in completed /\ at' = at + 1
            /\ pc' = pc /\ kont' = kont /\ attempt' = attempt
         \/ /\ at <= Len(plan) /\ at \notin completed
            /\ pc' = "publish" /\ attempt' = 1 /\ kont' = kont /\ at' = at
      /\ UNCHANGED <<stores, opts, plan, completed, thisRun, undo, ghost, runs>>
  BY DEF NextStep, Persist, IInv, TypeOK
<1> USE DEF IInv, ghost, stores
<1>2. Settled
  BY <1>1 DEF Settled
<1>3. TypeOK'
  BY <1>1, BoundsAssumption DEF TypeOK
<1>4. manifest = Json(completed) /\ Recorded = completed
  BY <1>1, Files DEF FileStage, Recorded
<1>5. LoopStage'
  <2>1. 1..(at' - 1) \subseteq completed
    BY <1>1 DEF LoopStage, TypeOK
  <2>2. FirstIds(Recorded)'
    BY <1>1, <1>2, SettledKeeps DEF LoopStage, Recorded, FirstIds
  <2> QED
    BY <1>1, <1>2, <2>1, <2>2, SettledKeeps DEF LoopStage
<1>6. FileStage'
  <2>1. (mine \ lost) \ Named(completed) = {}
    BY MineRecorded
  <2> QED
    BY <1>1, <1>2, <1>4, <2>1, SettledKeeps DEF FileStage, Settled, Recorded
<1>7. LeftStage'
  BY <1>1, <1>2, SettledKeeps DEF LeftStage, Settled, Going
<1>8. Allowed'
  BY <1>1 DEF Allowed
<1> QED
  BY <1>2, <1>3, <1>5, <1>6, <1>7, <1>8, SettledKeeps

\* What npm publish is called for: a package of the plan, none of those this run
\* has completed, and the file has every earlier one.
LEMMA Publishing ==
    ASSUME IInv, pc = "publish"
    PROVE  /\ at \in 1..Len(plan) /\ at \in Ids /\ plan[at] \in Packages
           /\ at \notin completed /\ opts.execute /\ (opts.dry \/ opts.yes)
           /\ \A i \in 1..Len(thisRun) : /\ thisRun[i] \in 1..Len(plan)
                                         /\ thisRun[i] # at
                                         /\ plan[thisRun[i]] # plan[at]
           /\ manifest = Json(completed) /\ Recorded = completed
           /\ mine \ lost \subseteq Named(Recorded)
<1> USE DEF IInv
<1>1. Len(plan) \in Nat /\ Cardinality(Packages) \in Nat
  BY PackagesAssumption, FS_CardinalityType DEF TypeOK
<1>2. at \in 1..Len(plan) /\ at \in Ids
  BY <1>1 DEF TypeOK, Ids
<1>3. plan[at] \in Packages
  BY <1>2, ElementOfSeq DEF TypeOK
<1>4. at \notin completed /\ opts.execute /\ (opts.dry \/ opts.yes)
  BY DEF LoopStage, Allowed
<1>5. ASSUME NEW i \in 1..Len(thisRun)
      PROVE  /\ thisRun[i] \in 1..Len(plan) /\ thisRun[i] # at
             /\ plan[thisRun[i]] # plan[at]
  <2>1. thisRun[i] \in 1..Len(plan)
    BY ElementOfSeq DEF TypeOK
  <2>2. thisRun[i] \in completed
    BY DEF RunRecorded
  <2> QED
    BY <1>2, <1>4, <2>1, <2>2 DEF LoopStage
<1>6. manifest = Json(completed) /\ Recorded = completed
  BY Files DEF FileStage, Recorded
<1> QED
  BY <1>2, <1>3, <1>4, <1>5, <1>6, MineRecorded

\* A package is published: it is the next of the plan, and the file is to follow.
LEMMA PublishSucceedsStep ==
    ASSUME IInv, PublishSucceeds
    PROVE  IInv'
<1> DEFINE n == Len(thisRun)
<1>1. /\ pc = "publish" /\ pc' = "manifest" /\ kont' = "step"
      /\ completed' = completed \cup {at}
      /\ thisRun' = Append(thisRun, at)
      /\ UNCHANGED <<manifest, opts, plan, at, attempt, undo, lost, runs>>
  BY DEF PublishSucceeds, Persist
<1>2. /\ at \in 1..Len(plan) /\ at \in Ids /\ plan[at] \in Packages
      /\ at \notin completed /\ opts.execute /\ (opts.dry \/ opts.yes)
      /\ \A i \in 1..n : /\ thisRun[i] \in 1..Len(plan)
                         /\ thisRun[i] # at
                         /\ plan[thisRun[i]] # plan[at]
      /\ manifest = Json(completed) /\ Recorded = completed
      /\ mine \ lost \subseteq Named(Recorded)
  BY <1>1, Publishing
<1>3. opts.dry \in BOOLEAN
  BY DEF IInv, TypeOK, Flags
<1>4. /\ opts.dry => registry' = registry /\ mine' = mine
      /\ ~opts.dry => /\ plan[at] \notin registry
                      /\ registry' = registry \cup {plan[at]}
                      /\ mine' = mine \cup {plan[at]}
  BY DEF PublishSucceeds
<1>5. /\ thisRun' \in Seq(1..Len(plan)) /\ n \in Nat /\ Len(thisRun') = n + 1
      /\ \A i \in 1..n : thisRun'[i] = thisRun[i]
      /\ thisRun'[n + 1] = at
  BY <1>1, <1>2, AppendProperties, LenProperties DEF IInv, TypeOK
<1> HIDE DEF n
<1>7. TypeOK'
  <2>1. /\ registry' \subseteq Packages /\ mine' \subseteq Packages
        /\ completed' \subseteq Ids
    BY <1>1, <1>2, <1>3, <1>4 DEF IInv, TypeOK
  <2>2. undo' \in 0..Len(thisRun')
    BY <1>1, <1>5 DEF IInv, TypeOK, n
  <2> QED
    BY <1>1, <1>5, <2>1, <2>2 DEF IInv, TypeOK
<1>9. LoopStage'
  <2>1. FirstIds(completed)'
    <3>1. 1..at \subseteq completed'
      <4>1. \A j \in 1..at : j = at \/ j \in 1..(at - 1)
        BY <1>2
      <4> QED
        BY <1>1, <4>1 DEF IInv, LoopStage
    <3> QED
      BY <1>1, <3>1 DEF IInv, LoopStage, FirstIds
  <2>2. FirstIds(Recorded)'
    BY <1>1 DEF IInv, LoopStage, FirstIds, Recorded
  <2>3. 1..(at' - 1) \subseteq completed'
    BY <1>1 DEF IInv, LoopStage
  <2> QED
    BY <1>1, <2>1, <2>2, <2>3 DEF IInv, LoopStage
<1>10. RunRecorded'
  <2>1. \A i, j \in 1..Len(thisRun') : thisRun'[i] = thisRun'[j] => i = j
    <3>1. \A i \in 1..(n + 1) : i \in 1..n \/ i = n + 1
      BY <1>5
    <3>2. \A i, j \in 1..n : thisRun[i] = thisRun[j] => i = j
      BY DEF IInv, RunRecorded, n
    <3>3. \A i \in 1..n : thisRun[i] # at
      BY <1>2
    <3> QED
      BY <1>5, <3>1, <3>2, <3>3
  <2>2. \A i \in 1..Len(thisRun') : thisRun'[i] \in completed'
    <3>1. \A i \in 1..(n + 1) : i \in 1..n \/ i = n + 1
      BY <1>5
    <3> QED
      BY <1>1, <1>5, <3>1 DEF IInv, RunRecorded, n
  <2>3. ASSUME ~opts.resume
        PROVE  completed' \subseteq {thisRun'[i] : i \in 1..Len(thisRun')}
    <3>1. 1..n \subseteq 1..(n + 1) /\ n + 1 \in 1..(n + 1)
      BY <1>5
    <3>2. completed \subseteq {thisRun[i] : i \in 1..n}
      BY <2>3 DEF IInv, RunRecorded, n
    <3> QED
      BY <1>1, <1>5, <3>1, <3>2
  <2> QED
    BY <1>1, <2>1, <2>2, <2>3 DEF RunRecorded
<1>11. LeftStage'
  <2>1. /\ opts'.dry => mine' = {} /\ lost' = {}
        /\ mine' \subseteq registry' /\ lost' \subseteq registry'
    BY <1>1, <1>3, <1>4 DEF IInv, LeftStage
  <2>2. CASE opts.dry
    <3>1. mine' = {} /\ Left(0)'
      BY <1>1, <2>1, <2>2 DEF Left
    <3>2. lost' = {}
      BY <1>1, <2>1, <2>2
    <3> QED
      BY <1>1, <1>5, <2>1, <2>2, <3>1, <3>2 DEF LeftStage, Going
  <2>3. CASE ~opts.dry
    <3>1. mine \ lost = {plan[thisRun[i]] : i \in 1..n}
      BY <1>1, <2>3 DEF IInv, LeftStage, Going, Left, n
    <3>2. plan[at] \notin lost
      BY <1>4, <2>3 DEF IInv, LeftStage
    <3>3. mine' \ lost' = {plan[thisRun[i]] : i \in 1..n} \cup {plan[at]}
      BY <1>1, <1>4, <2>3, <3>1, <3>2
    <3>4. \A i \in 1..(n + 1) : i \in 1..n \/ i = n + 1
      BY <1>5
    <3>5. {plan'[thisRun'[i]] : i \in 1..(n + 1)}
              = {plan[thisRun[i]] : i \in 1..n} \cup {plan[at]}
      <4>1. 1..n \subseteq 1..(n + 1) /\ n + 1 \in 1..(n + 1)
        BY <1>5
      <4> QED
        BY <1>1, <1>5, <3>4, <4>1
    <3>6. Left(Len(thisRun))'
      BY <1>5, <3>3, <3>5 DEF Left
    <3>7. \A i \in 1..Len(thisRun') : plan'[thisRun'[i]] \notin lost'
      BY <1>1, <1>5, <3>2, <3>4 DEF IInv, LeftStage, n
    <3>8. \E k \in 0..Len(thisRun') : Left(k)'
      BY <1>5, <3>6
    <3> QED
      BY <1>1, <2>1, <3>6, <3>7, <3>8 DEF LeftStage
  <2> QED
    BY <2>2, <2>3
<1>12. FileStage'
  <2>1. (mine' \ lost') \ Named(Recorded)' \subseteq Named({at})'
    <3>1. Named(Recorded)' = Named(Recorded) /\ Named({at})' = {plan[at]}
      BY <1>1, <1>2 DEF Named, Recorded
    <3> QED
      BY <1>1, <1>2, <1>3, <1>4, <3>1
  <2>3. opts'.resume =>
            {i \in Recorded' : i <= Len(plan')} \subseteq completed'
    BY <1>1 DEF IInv, FileStage, Recorded
  <2> QED
    BY <1>1, <2>1, <2>3 DEF FileStage
<1>13. Allowed'
  BY <1>1, <1>2 DEF Allowed
<1> QED
  BY <1>7, <1>9, <1>10, <1>11, <1>12, <1>13 DEF IInv


\* npm publish fails: tried again, or the run ends in the rollback of all it
\* published or in the abort.  What npm denied is lost, not published.
LEMMA PublishFailsStep ==
    ASSUME IInv, NEW retriable \in BOOLEAN, PublishFails(retriable)
    PROVE  IInv'
<1> DEFINE n == Len(thisRun)
<1>1. /\ pc = "publish"
      /\ UNCHANGED <<manifest, opts, plan, completed, thisRun, at, runs>>
  BY DEF PublishFails
<1>2. /\ at \in 1..Len(plan) /\ at \in Ids /\ plan[at] \in Packages
      /\ at \notin completed /\ opts.execute /\ (opts.dry \/ opts.yes)
      /\ \A i \in 1..n : /\ thisRun[i] \in 1..Len(plan)
                         /\ thisRun[i] # at
                         /\ plan[thisRun[i]] # plan[at]
      /\ manifest = Json(completed) /\ Recorded = completed
      /\ mine \ lost \subseteq Named(Recorded)
  BY <1>1, Publishing
<1>3. \/ UNCHANGED <<registry, mine, lost>>
      \/ /\ ~opts.dry /\ plan[at] \notin registry
         /\ registry' = registry \cup {plan[at]}
         /\ mine' = mine \cup {plan[at]}
         /\ lost' = lost \cup {plan[at]}
  BY DEF PublishFails
<1>4. \/ /\ pc' = "publish" /\ kont' = kont /\ undo' = undo
         /\ attempt' = attempt + 1 /\ attempt < MaxRetries + 1
      \/ /\ pc' = "rollback" /\ kont' = kont /\ undo' = n /\ attempt' = attempt
         /\ opts.rollback /\ ~opts.dry
      \/ /\ pc' = "manifest" /\ kont' = "abort" /\ undo' = undo /\ attempt' = attempt
  <2>1. CASE retriable /\ attempt < MaxRetries + 1
    BY <2>1 DEF PublishFails
  <2>2. CASE ~(retriable /\ attempt < MaxRetries + 1)
    <3>1. StepFailed /\ attempt' = attempt
      BY <2>2 DEF PublishFails
    <3> QED
      BY <3>1 DEF StepFailed, Persist
  <2> QED
    BY <2>1, <2>2
<1>5. n \in Nat /\ n \in 0..n
  BY DEF IInv, TypeOK
<1>6. TypeOK'
  <2>1. /\ registry' \subseteq Packages /\ mine' \subseteq Packages
        /\ lost' \subseteq Packages
    BY <1>2, <1>3 DEF IInv, TypeOK
  <2>2. attempt' \in 0..(MaxRetries + 1) /\ undo' \in 0..Len(thisRun')
    BY <1>1, <1>4, <1>5, BoundsAssumption DEF IInv, TypeOK
  <2>3. /\ pc' \in {"idle", "manifest", "report", "preflight", "step", "publish", "rollback"}
        /\ kont' \in {"start", "checked", "step", "abort", "end"}
        /\ pc' = "publish" => at' <= Len(plan')
    BY <1>1, <1>4 DEF IInv, TypeOK
  <2> QED
    BY <1>1, <2>1, <2>2, <2>3 DEF IInv, TypeOK
<1>7. mine' \ lost' = mine \ lost
  <2>1. CASE UNCHANGED <<registry, mine, lost>>
    BY <2>1
  <2>2. CASE /\ ~opts.dry /\ plan[at] \notin registry
             /\ registry' = registry \cup {plan[at]}
             /\ mine' = mine \cup {plan[at]}
             /\ lost' = lost \cup {plan[at]}
    <3>1. plan[at] \notin mine
      BY <2>2 DEF IInv, LeftStage
    <3> QED
      BY <2>2, <3>1
  <2> QED
    BY <1>3, <2>1, <2>2
<1> HIDE DEF n
<1>8. LoopStage'
  BY <1>1, <1>2, <1>4 DEF IInv, LoopStage, FirstIds, Recorded
<1>9. RunRecorded'
  BY <1>1 DEF IInv, RunRecorded
<1>10. \A k : Left(k)' <=> Left(k)
  BY <1>1, <1>7 DEF Left
<1>11. LeftStage'
  <2>1. /\ opts'.dry => mine' = {} /\ lost' = {}
        /\ mine' \subseteq registry' /\ lost' \subseteq registry'
    BY <1>1, <1>3 DEF IInv, LeftStage
  <2>2. ~opts.dry => Left(Len(thisRun))
    BY <1>1 DEF IInv, LeftStage, Going
  <2>3. \A i \in 1..Len(thisRun') : plan'[thisRun'[i]] \notin lost'
    BY <1>1, <1>2, <1>3 DEF IInv, LeftStage, n
  <2>4. \E k \in 0..Len(thisRun') : Left(k)'
    BY <1>1, <1>10 DEF IInv, LeftStage
  <2>5. pc' = "rollback" => Left(undo)'
    BY <1>1, <1>4, <1>7, <2>2 DEF n, Left
  <2>6. ~opts'.dry => Left(Len(thisRun))'
    BY <1>1, <1>7, <2>2 DEF Left
  <2> QED
    BY <2>1, <2>3, <2>4, <2>5, <2>6 DEF LeftStage
<1>12. FileStage'
  <2>3. (mine' \ lost') \ Named(Recorded)' = {}
    <3>1. Named(Recorded)' = Named(Recorded)
      BY <1>1 DEF Named, Recorded
    <3> QED
      BY <1>2, <1>7, <3>1
  <2>4. opts'.resume =>
            {i \in Recorded' : i <= Len(plan')} \subseteq completed'
    BY <1>1 DEF IInv, FileStage, Recorded
  <2>5. manifest' = Json(completed')
    BY <1>1, <1>2
  <2> QED
    BY <1>1, <2>3, <2>4, <2>5 DEF IInv, FileStage
<1>13. Allowed'
  BY <1>1, <1>2, <1>4 DEF Allowed
<1> QED
  BY <1>6, <1>8, <1>9, <1>11, <1>12, <1>13 DEF IInv

-----------------------------------------------------------------------------
(* The rollback.                                                           *)

\* The last package that is left is the one that is taken out.
LEMMA Undoing ==
    ASSUME IInv, pc = "rollback", undo > 0
    PROVE  /\ undo \in 1..Len(thisRun)
           /\ plan[thisRun[undo]] \in Packages
           /\ plan[thisRun[undo]] \in mine \ lost
           /\ mine \ lost = {plan[thisRun[i]] : i \in 1..undo}
           /\ {plan[thisRun[i]] : i \in 1..(undo - 1)}
                  = {plan[thisRun[i]] : i \in 1..undo} \ {plan[thisRun[undo]]}
<1> USE DEF IInv
<1>1. undo \in 1..Len(thisRun) /\ Len(thisRun) \in Nat /\ undo \in Nat
  BY DEF TypeOK
<1>2. mine \ lost = {plan[thisRun[i]] : i \in 1..undo}
  BY DEF LeftStage, Left
<1>3. thisRun[undo] \in 1..Len(plan)
  BY <1>1, ElementOfSeq DEF TypeOK
<1>4. plan[thisRun[undo]] \in Packages
  BY <1>3, ElementOfSeq DEF TypeOK
<1>5. ASSUME NEW i \in 1..(undo - 1)
      PROVE  plan[thisRun[i]] # plan[thisRun[undo]]
  <2>1. i \in 1..Len(thisRun) /\ i # undo
    BY <1>1
  <2>2. thisRun[i] \in 1..Len(plan) /\ thisRun[i] # thisRun[undo]
    BY <1>1, <2>1, ElementOfSeq DEF TypeOK, RunRecorded
  <2> QED
    BY <1>3, <2>2 DEF LoopStage
<1>6. \A i \in 1..undo : i = undo \/ i \in 1..(undo - 1)
  BY <1>1
<1>7. 1..(undo - 1) \subseteq 1..undo /\ undo \in 1..undo
  BY <1>1
<1> QED
  BY <1>1, <1>2, <1>4, <1>5, <1>6, <1>7

\* A package is taken out of the registry again.
LEMMA UnpublishStep ==
    ASSUME IInv, Unpublish
    PROVE  IInv'
<1> DEFINE p == plan[thisRun[undo]]
<1>1. /\ pc = "rollback" /\ undo > 0
      /\ registry' = registry \ {p} /\ mine' = mine \ {p}
      /\ undo' = undo - 1
      /\ UNCHANGED <<manifest, pc, kont, opts, plan, completed, thisRun, at,
                     attempt, lost, runs>>
  BY DEF Unpublish
<1>2. /\ undo \in 1..Len(thisRun)
      /\ p \in Packages /\ p \in mine \ lost
      /\ mine \ lost = {plan[thisRun[i]] : i \in 1..undo}
      /\ {plan[thisRun[i]] : i \in 1..(undo - 1)}
             = {plan[thisRun[i]] : i \in 1..undo} \ {p}
  BY <1>1, Undoing
<1> HIDE DEF p
<1>3. TypeOK'
  <2>1. undo' \in 0..Len(thisRun')
    BY <1>1, <1>2 DEF IInv, TypeOK
  <2> QED
    BY <1>1, <1>2, <2>1 DEF IInv, TypeOK
<1>4. LoopStage' /\ RunRecorded'
  BY <1>1 DEF IInv, LoopStage, RunRecorded, FirstIds, Recorded
<1>5. LeftStage'
  <2>1. mine' \ lost' = {plan[thisRun[i]] : i \in 1..(undo - 1)}
    BY <1>1, <1>2
  <2>2. Left(undo)'
    BY <1>1, <2>1 DEF Left
  <2>3. undo' \in 0..Len(thisRun')
    BY <1>3 DEF TypeOK
  <2>4. opts.dry => FALSE
    BY <1>1 DEF IInv, Allowed
  <2>5. mine' \subseteq registry' /\ lost' \subseteq registry'
    BY <1>1, <1>2 DEF IInv, LeftStage
  <2>6. ~Going'
    BY <1>1 DEF Going
  <2>7. \A i \in 1..Len(thisRun') : plan'[thisRun'[i]] \notin lost'
    BY <1>1 DEF IInv, LeftStage
  <2> QED
    BY <1>1, <2>2, <2>3, <2>4, <2>5, <2>6, <2>7 DEF LeftStage
<1>6. FileStage'
  <2>1. mine' \ lost' \subseteq mine \ lost
    BY <1>1
  <2>2. Named(Recorded)' = Named(Recorded) /\ Named({at})' = Named({at})
    BY <1>1 DEF Named, Recorded
  <2>3. manifest' # Torn => (mine' \ lost') \ Named(Recorded)' \subseteq Named({at})'
    BY <1>1, <2>1, <2>2 DEF IInv, FileStage
  <2>4. {i \in Recorded' : i <= Len(plan')} = {i \in Recorded : i <= Len(plan)}
    BY <1>1 DEF Recorded
  <2> QED
    BY <1>1, <2>3, <2>4 DEF IInv, FileStage
<1>7. Allowed'
  BY <1>1 DEF IInv, Allowed
<1> QED
  BY <1>3, <1>4, <1>5, <1>6, <1>7 DEF IInv

-----------------------------------------------------------------------------
(* A new invocation.                                                       *)

\* The plan of an invocation, and the record it inherits, are as the loop needs
\* them.
LEMMA NewRunKeeps ==
    ASSUME IInv, pc = "idle", NEW o \in Options, NEW S \in Builds,
           NEW inherited \in SUBSET Ids,
           NewRun(o, PublishOrder(S), inherited), FirstIds(inherited),
           inherited \subseteq manifest.done, ~o.resume => inherited = {},
           runs < MaxRuns,
           UNCHANGED registry,
           manifest' = manifest \/ manifest' = NoFile,
           pc' = "idle" \/ (pc' = "manifest" /\ kont' = "start"),
           kont' \in {"start", "checked", "step", "abort", "end"},
           pc' # "idle" /\ o.resume =>
               /\ manifest' = manifest
               /\ {i \in Recorded : i <= Len(PublishOrder(S))} \subseteq inherited
    PROVE  IInv'
<1>1. /\ opts' = o /\ plan' = PublishOrder(S) /\ completed' = inherited
      /\ thisRun' = <<>> /\ at' = 1 /\ attempt' = 0 /\ undo' = 0
      /\ mine' = {} /\ lost' = {} /\ runs' = runs + 1
  BY DEF NewRun
<1>2. /\ plan' \in Seq(Packages) /\ Len(plan') \in Nat
      /\ Len(plan') <= Cardinality(Packages)
      /\ \A i, j \in 1..Len(plan') : plan'[i] = plan'[j] => i = j
  <2> DEFINE q == PublishOrder(S)
  <2>1. S \in SUBSET Packages
    BY PackagesAssumption
  <2>2. /\ q \in Seq(S) /\ Len(q) = Cardinality(S)
        /\ Cardinality(S) <= Cardinality(Packages)
        /\ \A i, j \in 1..Cardinality(S) : i < j => Position[q[i]] < Position[q[j]]
    BY <2>1, PublishOrderSorted
  <2> HIDE DEF q
  <2>3. q \in Seq(Packages) /\ Len(q) \in Nat
    BY <2>1, <2>2, SeqMonotonic
  <2>4. \A i \in 1..Len(q) : Position[q[i]] \in Nat
    BY <2>3, ElementOfSeq, PackagesAssumption
  <2>5. ASSUME NEW i \in 1..Len(q), NEW j \in 1..Len(q), q[i] = q[j]
        PROVE  i = j
    <3>1. ~(Position[q[i]] < Position[q[j]]) /\ ~(Position[q[j]] < Position[q[i]])
      BY <2>4, <2>5
    <3> QED
      BY <2>2, <2>3, <3>1
  <2> QED
    BY <1>1, <2>2, <2>3, <2>5 DEF q
<1>3. /\ manifest' \in [is : {"missing", "torn", "json"}, done : SUBSET Ids]
      /\ manifest'.is # "json" => manifest'.done = {}
      /\ manifest'.done \subseteq manifest.done
  BY Files DEF IInv, TypeOK
<1>4. TypeOK'
  <2>1. /\ opts' \in Flags /\ runs' \in 0..MaxRuns
        /\ attempt' \in 0..(MaxRetries + 1)
    BY <1>1, BoundsAssumption DEF IInv, TypeOK
  <2>2. thisRun' \in Seq(1..Len(plan')) /\ undo' \in 0..Len(thisRun')
    BY <1>1
  <2>3. at' \in 1..(Len(plan') + 1)
    BY <1>1, <1>2
  <2>4. /\ pc' \in {"idle", "manifest"} /\ pc' # "publish"
        /\ registry' \subseteq Packages
    BY DEF IInv, TypeOK
  <2>5. completed' \subseteq Ids /\ mine' \subseteq Packages /\ lost' \subseteq Packages
    BY <1>1
  <2> QED
    BY <1>2, <1>3, <2>1, <2>2, <2>3, <2>4, <2>5 DEF TypeOK
<1>5. LoopStage'
  <2>1. FirstIds(completed)'
    BY <1>1 DEF FirstIds
  <2>2. FirstIds(Recorded)'
    <3>1. Recorded' = Recorded \/ Recorded' = {}
      BY Files DEF Recorded
    <3> QED
      BY <3>1 DEF IInv, LoopStage, FirstIds
  <2>3. 1..(at' - 1) = {} /\ pc' # "publish"
    BY <1>1
  <2> QED
    BY <1>2, <2>1, <2>2, <2>3 DEF LoopStage
<1>6. RunRecorded' /\ LeftStage'
  <2>1. Len(thisRun') = 0 /\ 1..Len(thisRun') = {}
    BY <1>1
  <2>2. Left(0)'
    BY <1>1 DEF Left
  <2>3. pc' # "rollback"
    OBVIOUS
  <2>4. /\ \A i, j \in 1..Len(thisRun') : thisRun'[i] = thisRun'[j] => i = j
        /\ \A i \in 1..Len(thisRun') : plan'[thisRun'[i]] \notin lost'
    BY <2>1
  <2>5. RunRecorded'
    BY <1>1, <2>1, <2>4 DEF RunRecorded
  <2>6. \E k \in 0..Len(thisRun') : Left(k)'
    BY <2>1, <2>2
  <2>7. Left(Len(thisRun))'
    BY <1>1, <2>1 DEF Left
  <2>8. mine' = {} /\ lost' = {}
    BY <1>1
  <2> QED
    BY <2>3, <2>4, <2>5, <2>6, <2>7, <2>8 DEF LeftStage
<1>7. FileStage'
  <2>2. mine' \ lost' = {}
    BY <1>1
  <2>3. pc' # "idle" /\ opts'.resume =>
            {i \in Recorded' : i <= Len(plan')} \subseteq completed'
    BY <1>1 DEF Recorded
  <2>4. pc' \notin {"report", "preflight", "step", "publish"}
    OBVIOUS
  <2> QED
    BY <2>2, <2>3, <2>4 DEF FileStage
<1>8. Allowed'
  BY DEF Allowed
<1> QED
  BY <1>4, <1>5, <1>6, <1>7, <1>8 DEF IInv

\* An invocation begins.
LEMMA InvokeStep ==
    ASSUME IInv, NEW o \in Options, NEW S \in Builds, Invoke(o, S)
    PROVE  IInv'
<1> DEFINE steps    == PublishOrder(S)
           previous == IF o.resume THEN AfterPrepare(o) ELSE NoFile
           inherited == ResumedSteps(previous, steps)
<1>1. /\ pc = "idle" /\ runs < MaxRuns
      /\ ~(o.resume /\ o.clean)
      /\ manifest' = AfterPrepare(o)
      /\ NewRun(o, steps, inherited)
      /\ pc' = "manifest" /\ kont' = "start"
      /\ UNCHANGED registry
  BY DEF Invoke, Persist
<1>2. /\ manifest' = manifest \/ manifest' = NoFile
      /\ o.resume => manifest' = manifest /\ previous = manifest
      /\ previous = manifest \/ previous = NoFile
  BY <1>1 DEF AfterPrepare
<1>3. Len(steps) \in Nat
  BY PublishOrderSorted, PackagesAssumption, FS_Subset, FS_CardinalityType
<1>4. /\ inherited \in SUBSET Ids /\ inherited \subseteq manifest.done
      /\ FirstIds(inherited)
  <2>1. previous.done \in SUBSET Ids /\ previous.done \subseteq manifest.done
    BY <1>2, Files DEF IInv, TypeOK
  <2>2. FirstIds(previous.done)
    BY <1>2, Files DEF IInv, LoopStage, Recorded, FirstIds
  <2> HIDE DEF previous, steps
  <2> QED
    BY <1>3, <2>1, <2>2, FirstIdsCut DEF ResumedSteps
<1>5. /\ o.resume => {i \in Recorded : i <= Len(steps)} \subseteq inherited
      /\ ~o.resume => inherited = {}
  BY <1>2, Files DEF ResumedSteps, Recorded
<1> HIDE DEF inherited, previous
<1> QED
  BY <1>1, <1>2, <1>4, <1>5, NewRunKeeps

\* An invocation is refused.
LEMMA InvokeRejectedStep ==
    ASSUME IInv, NEW o \in Options, NEW S \in Builds, InvokeRejected(o, S)
    PROVE  IInv'
<1>1. /\ pc = "idle" /\ runs < MaxRuns /\ pc' = "idle" /\ kont' = kont
      /\ NewRun(o, PublishOrder(S), {})
      /\ UNCHANGED registry
      /\ manifest' = manifest \/ manifest' = NoFile
  BY DEF InvokeRejected, AfterPrepare
<1>2. {} \in SUBSET Ids /\ FirstIds({}) /\ {} \subseteq manifest.done
  BY DEF FirstIds
<1>3. kont' \in {"start", "checked", "step", "abort", "end"}
  BY <1>1 DEF IInv, TypeOK
<1> DEFINE none == {}
<1>4. NewRun(o, PublishOrder(S), none) /\ none \in SUBSET Ids
      /\ FirstIds(none) /\ none \subseteq manifest.done
  BY <1>1, <1>2
<1>5. pc' # "idle" /\ o.resume =>
          /\ manifest' = manifest
          /\ {i \in Recorded : i <= Len(PublishOrder(S))} \subseteq none
  <2>1. ~(pc' # "idle")
    BY <1>1
  <2> QED
    BY <2>1
<1>6. ~o.resume => none = {}
  OBVIOUS
<1> HIDE DEF none
<1>7. pc' = "idle" \/ (pc' = "manifest" /\ kont' = "start")
  BY <1>1
<1> QED
  BY <1>1, <1>3, <1>4, <1>5, <1>6, <1>7, NewRunKeeps

-----------------------------------------------------------------------------
(* The theorems.                                                           *)

\* Every step keeps the invariant.
LEMMA NextInductive ==
    ASSUME IInv, [Next]_vars
    PROVE  IInv'
<1>1. CASE \E o \in Options, S \in Builds : Invoke(o, S) \/ InvokeRejected(o, S)
  BY <1>1, InvokeStep, InvokeRejectedStep
<1>2. CASE RunStep
  BY <1>2, WriteManifestStep, WriteReportStep, WriteFailsStep, PreflightStep,
     NextStepStep, PublishSucceedsStep, PublishFailsStep, UnpublishStep,
     RollbackEndsStep DEF RunStep
<1>3. CASE Crash
  BY <1>3, CrashStep
<1>4. CASE UNCHANGED vars
  <2> USE <1>4 DEF vars, IInv
  <2>1. TypeOK' /\ Allowed'
    BY DEF TypeOK, Allowed
  <2>2. LoopStage' /\ RunRecorded'
    BY DEF LoopStage, FirstIds, Recorded, RunRecorded
  <2>3. LeftStage' /\ FileStage'
    BY DEF LeftStage, Left, Going, FileStage, Recorded, Named
  <2> QED
    BY <2>1, <2>2, <2>3
<1> QED
  BY <1>1, <1>2, <1>3, <1>4 DEF Next

\* The invariant holds through any series of invocations.
THEOREM Inductive == Spec => []IInv
<1>1. Init => IInv
  <2> SUFFICES ASSUME Init PROVE IInv
    OBVIOUS
  <2>1. Cardinality(Packages) \in Nat
    BY PackagesAssumption, FS_CardinalityType
  <2>2. opts \in Flags
    BY DEF Init, Flags
  <2>3. TypeOK
    BY <2>1, <2>2, Files, BoundsAssumption DEF Init, TypeOK
  <2>4. LoopStage /\ RunRecorded
    BY Files DEF Init, LoopStage, RunRecorded, FirstIds, Recorded
  <2>5. LeftStage
    <3>1. Left(0)
      BY DEF Init, Left
    <3> QED
      BY <3>1 DEF Init, LeftStage, Going
  <2>6. FileStage /\ Allowed
    BY Files DEF Init, FileStage, Recorded, Allowed
  <2> QED
    BY <2>3, <2>4, <2>5, <2>6 DEF IInv
<1>2. IInv /\ [Next]_vars => IInv'
  BY NextInductive
<1> QED
  BY <1>1, <1>2, PTL DEF Spec

\* TypeOK, with no more attempts than --max-retries allows and a loop that ends
\* with the plan.
THEOREM TypeCorrect == Spec => []TypeOK
<1>1. IInv => TypeOK
  BY DEF IInv
<1> QED
  BY <1>1, Inductive, PTL

\* RecordFollowsRegistry: when npm publish starts, publish-manifest.json is whole
\* and has all this run has published, and exactly that in a real run that started
\* afresh; a file that is whole trails by one package at most (execution.ts:143).
THEOREM RecordFollows == Spec => []RecordFollowsRegistry
<1>1. IInv => RecordFollowsRegistry
  <2> SUFFICES ASSUME IInv PROVE RecordFollowsRegistry
    OBVIOUS
  <2> DEFINE published == mine \ lost
             recorded  == Named(Recorded)
  <2>1. ASSUME pc \in {"step", "publish"}
        PROVE  /\ manifest # Torn
               /\ published \subseteq recorded
               /\ ~opts.resume /\ ~opts.dry => recorded = published
    <3>1. manifest = Json(completed) /\ Recorded = completed /\ manifest # Torn
      BY <2>1, Files DEF IInv, FileStage, Recorded
    <3>2. published \subseteq recorded
      BY <3>1, MineRecorded
    <3>3. ASSUME ~opts.resume, ~opts.dry, NEW p \in recorded
          PROVE  p \in published
      <4>1. PICK i \in completed : i \in 1..Len(plan) /\ p = plan[i]
        BY <3>1, <3>3 DEF Named
      <4>2. PICK k \in 1..Len(thisRun) : i = thisRun[k]
        BY <3>3, <4>1 DEF IInv, RunRecorded
      <4>3. published = {plan[thisRun[h]] : h \in 1..Len(thisRun)}
        BY <2>1, <3>3 DEF IInv, LeftStage, Going, Left
      <4> QED
        BY <4>1, <4>2, <4>3
    <3> QED
      BY <3>1, <3>2, <3>3
  <2>2. ASSUME manifest # Torn
        PROVE  Cardinality(published \ recorded) <= 1
    <3> DEFINE rest == published \ recorded
    <3>1. rest \in SUBSET {plan[at]}
      BY <2>2 DEF IInv, FileStage, Named
    <3>2. IsFiniteSet({plan[at]}) /\ Cardinality({plan[at]}) = 1
      BY FS_Singleton
    <3> HIDE DEF rest
    <3>3. Cardinality(rest) <= 1
      BY <3>1, <3>2, FS_Subset
    <3> QED
      BY <3>3 DEF rest
  <2> QED
    BY <2>1, <2>2 DEF RecordFollowsRegistry, Named
<1> QED
  BY <1>1, Inductive, PTL

\* DependentsLeaveFirst: what a run completed is a first part of its plan, and what
\* a rollback leaves is a first part of that (execution.ts, rollback.ts).
THEOREM DependentsFirst == Spec => []DependentsLeaveFirst
<1>1. IInv => DependentsLeaveFirst
  <2> SUFFICES ASSUME IInv PROVE DependentsLeaveFirst
    OBVIOUS
  <2>1. \A i \in completed : 1..i \subseteq completed
    BY DEF IInv, LoopStage, FirstIds
  <2>2. \E k \in 0..Len(thisRun) : mine \ lost = {plan[thisRun[i]] : i \in 1..k}
    BY DEF IInv, LeftStage, Left
  <2> QED
    BY <2>1, <2>2 DEF DependentsLeaveFirst
<1> QED
  BY <1>1, Inductive, PTL

\* RegistryGuarded: no step changes the registry but under `execute` and `yes`, and
\* none takes out what this very run did not put there.
THEOREM RegistryIsGuarded == Spec => RegistryGuarded
<1> DEFINE Guarded ==
        /\ registry' # registry => opts.execute /\ opts.yes /\ ~opts.dry
        /\ registry \ registry' # {} =>
              opts.rollback /\ registry \ registry' \subseteq mine
<1>1. IInv /\ [Next]_vars => [Guarded]_vars
  <2> SUFFICES ASSUME IInv, [Next]_vars PROVE Guarded \/ UNCHANGED vars
    OBVIOUS
  <2>1. CASE PublishSucceeds \/ \E r \in BOOLEAN : PublishFails(r)
    <3>1. pc = "publish" /\ (registry' # registry => ~opts.dry)
          /\ registry \subseteq registry'
      BY <2>1 DEF PublishSucceeds, PublishFails, IInv, TypeOK, Flags
    <3>2. opts.execute /\ (opts.dry \/ opts.yes)
      BY <3>1 DEF IInv, Allowed
    <3> QED
      BY <3>1, <3>2
  <2>2. CASE Unpublish
    <3>1. /\ pc = "rollback" /\ undo > 0
          /\ registry' = registry \ {plan[thisRun[undo]]}
      BY <2>2 DEF Unpublish
    <3>2. plan[thisRun[undo]] \in mine
      BY <3>1, Undoing
    <3>3. opts.execute /\ (opts.dry \/ opts.yes) /\ opts.rollback /\ ~opts.dry
      BY <3>1 DEF IInv, Allowed
    <3> QED
      BY <3>1, <3>2, <3>3
  <2>3. CASE registry' = registry
    BY <2>3
  <2>4. CASE \E o \in Options, S \in Builds : Invoke(o, S) \/ InvokeRejected(o, S)
    BY <2>3, <2>4 DEF Invoke, InvokeRejected
  <2>5. CASE WriteManifest \/ WriteReport \/ WriteFails \/ Preflight \/ NextStep
             \/ RollbackEnds \/ Crash
    <3>1. registry' = registry
      BY <2>5 DEF WriteManifest, WriteReport, WriteFails, Preflight, NextStep,
         RollbackEnds, Crash, stores
    <3> QED
      BY <2>3, <3>1
  <2> QED
    BY <2>1, <2>2, <2>4, <2>5 DEF Next, RunStep
<1>2. RegistryGuarded <=> [][Guarded]_vars
  BY PTL DEF RegistryGuarded
<1> QED
  BY <1>1, <1>2, Inductive, PTL DEF Spec

\* ResumeKeepsRecord: a write of a run that resumes either keeps every recorded
\* step of its plan or is torn; the run is then dead, or on its way out with the
\* whole record in memory, and a later --resume is refused (publish.ts, fs.ts).
THEOREM ResumeKeeps == Spec => ResumeKeepsRecord
<1> DEFINE kept(record) == {i \in Recorded : i <= Len(plan)} \subseteq record
           Kept ==
             /\ pc # "idle" /\ opts.resume =>
                   \/ kept(Recorded')
                   \/ /\ pc = "manifest" /\ manifest' = Torn
                      /\ pc' # "idle" => kept(completed') /\ ~Going'
             /\ manifest = Torn /\ runs' # runs /\ opts'.resume => pc' = "idle"
<1>1. IInv /\ [Next]_vars => [Kept]_vars
  <2> SUFFICES ASSUME IInv, [Next]_vars PROVE Kept \/ UNCHANGED vars
    OBVIOUS
  <2>1. pc # "idle" /\ opts.resume => kept(completed)
    BY DEF IInv, FileStage
  <2>2. ASSUME UNCHANGED <<manifest, runs>>
        PROVE  Kept
    BY <2>2 DEF Recorded
  <2>3. CASE WriteManifest
    <3>1. Recorded' = completed /\ runs' = runs
      BY <2>3, Files DEF WriteManifest, Recorded
    <3> QED
      BY <2>1, <3>1
  <2>4. CASE WriteFails \/ Crash
    <3>1. /\ runs' = runs /\ completed' = completed
          /\ manifest' = manifest \/ (pc = "manifest" /\ manifest' = Torn)
          /\ pc' = "idle" \/ pc' = "rollback" \/ (pc' = "manifest" /\ kont' = "abort")
      BY <2>4 DEF WriteFails, Crash, StepFailed, Persist
    <3>2. pc' # "idle" => ~Going'
      BY <3>1 DEF Going
    <3> QED
      BY <2>1, <2>2, <3>1, <3>2
  <2>5. CASE \E o \in Options, S \in Builds : Invoke(o, S) \/ InvokeRejected(o, S)
    <3> PICK o \in Options, S \in Builds : Invoke(o, S) \/ InvokeRejected(o, S)
      BY <2>5
    <3>1. pc = "idle" /\ opts' = o
      BY DEF Invoke, InvokeRejected, NewRun
    <3>2. CASE Invoke(o, S)
      <4>1. ~(o.resume /\ manifest = Torn)
        BY <3>2 DEF Invoke, AfterPrepare
      <4> QED
        BY <3>1, <4>1
    <3>3. CASE InvokeRejected(o, S)
      BY <3>1, <3>3 DEF InvokeRejected
    <3> QED
      BY <3>2, <3>3
  <2>6. CASE WriteReport \/ Preflight \/ NextStep \/ PublishSucceeds
             \/ (\E r \in BOOLEAN : PublishFails(r)) \/ Unpublish \/ RollbackEnds
    <3>1. UNCHANGED <<manifest, runs>>
      BY <2>6 DEF WriteReport, Preflight, NextStep, PublishSucceeds, PublishFails,
         Unpublish, RollbackEnds, stores
    <3> QED
      BY <2>2, <3>1
  <2> QED
    BY <2>3, <2>4, <2>5, <2>6 DEF Next, RunStep
<1>2. ResumeKeepsRecord <=> [][Kept]_vars
  BY PTL DEF ResumeKeepsRecord
<1> QED
  BY <1>1, <1>2, Inductive, PTL DEF Spec
=============================================================================
