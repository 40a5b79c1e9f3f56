------------------------- MODULE RuntimeStoreProofs -------------------------
(***************************************************************************)
(* Theorems about RuntimeStore and the download inside it, for every set   *)
(* of versions, every answer of the server and any number of operations    *)
(* that end, fail or are killed.                                           *)
(***************************************************************************)
EXTENDS RuntimeStore, FiniteSetTheorems, WellFoundedInduction, TLAPS

-----------------------------------------------------------------------------
(* The inductive invariant.                                                *)

\* A fetch belongs to the install that began it, verifies at most Attempts
\* times, and what it has fetched it has verified.
FetchStage ==
    /\ pc = "fetch" <=> dl # "off"
    /\ pc = "fetch" => art = ver
    /\ dl = "off" => tries = 0
    /\ dl # "failed" => tries < Attempts
    /\ dl = "fetched" => Verified(art)
    /\ ExtractsVerified

\* What the disk says in every state: a record has a directory, a whole one
\* has its entries, the pointer names a record, and a state that names a
\* version lists every entry.
DiskStage ==
    /\ \A v \in Installed : payload[v] # "none"
    /\ \A v \in Versions : payload[v] = "whole" => bins[v] = Provides[v]
    /\ MetaMeansUsable
    /\ PointerNamesRecord
    /\ Loaded.current # None => Loaded.entries = Entrypoints

\* What is about to be saved: a version whose shims are still to write, or, when
\* the current version is removed, no version.
SaveStage ==
    pc \in {"unlink", "rename"} =>
        \/ /\ kont = "shims"
           /\ mem = Pointing(ver) /\ ver \in Installed
           /\ todo = Entrypoints
        \/ /\ kont = "delete"
           /\ op = "remove" /\ was
           /\ mem.current = None /\ todo = Entrypoints

\* How far install, use_version and remove have come.
OpStage ==
    /\ pc \in {"fetch", "place", "meta", "first"} => op = "install"
    /\ pc = "meta" => payload[ver] = "whole"
    /\ pc = "first" => ver \in Installed
    /\ pc = "shims" => Loaded.current = ver /\ bins[ver] \subseteq shims \cup todo
    /\ pc = "delete" =>
          /\ op = "remove"
          /\ Loaded.current # ver
          /\ was => Loaded.current = None /\ todo = Entrypoints
    /\ pc = "drop" =>
          /\ op = "remove"
          /\ Loaded.current = None /\ Installed = {}
          /\ shims \subseteq todo

\* After the deletion a remove goes on as a use of the highest version left.
RemoveStage ==
    (/\ op = "remove"
     /\ \/ pc = "shims"
        \/ pc \in {"unlink", "rename"} /\ kont = "shims")
    => Installed # {} /\ ver = Best(Installed)

IInv ==
    /\ TypeOK
    /\ FetchStage
    /\ DiskStage
    /\ SaveStage
    /\ OpStage
    /\ RemoveStage
    /\ pc # "idle" => last = [op |-> "none", ok |-> FALSE]
    /\ SuccessServes


-----------------------------------------------------------------------------
(* Lemmas about the operators.                                             *)

\* A finite set of numbers has a highest one.
LEMMA HighestExists ==
    ASSUME NEW S \in SUBSET Nat, IsFiniteSet(S), S # {}
    PROVE  \E v \in S : \A w \in S : w <= v
<1> DEFINE Bad == {T \in SUBSET S : T # {} /\ ~\E v \in T : \A w \in T : w <= v}
<1>1. SUFFICES ASSUME Bad # {} PROVE FALSE
  OBVIOUS
<1>2. IsWellFoundedOn(StrictSubsetOrdering(S), SUBSET S)
  BY FS_StrictSubsetOrderingWellFounded, FS_FiniteSubsetsOfFinite
<1>3. PICK T \in Bad : \A U \in Bad : <<U, T>> \notin StrictSubsetOrdering(S)
  BY <1>1, <1>2, WFMin
<1>4. PICK x \in T : TRUE
  OBVIOUS
<1>5. T \ {x} \notin Bad
  BY <1>3, <1>4 DEF StrictSubsetOrdering
<1>6. CASE T \ {x} = {}
  <2>1. \A w \in T : w = x
    BY <1>6
  <2> QED
    BY <1>4, <2>1
<1>7. CASE T \ {x} # {}
  <2>1. PICK v \in T \ {x} : \A w \in T \ {x} : w <= v
    BY <1>5, <1>7
  <2>2. CASE x <= v
    BY <2>1, <2>2
  <2>3. CASE ~(x <= v)
    <3>1. \A w \in T : w <= x
      BY <1>4, <2>1, <2>3
    <3> QED
      BY <1>4, <3>1
  <2> QED
    BY <2>2, <2>3
<1> QED
  BY <1>6, <1>7

\* pick_best returns one of the versions it is given, and none is higher.
LEMMA BestIsHighest ==
    ASSUME NEW S \in SUBSET Versions, S # {}
    PROVE  Best(S) \in S /\ \A w \in S : w <= Best(S)
<1>1. \E v \in S : \A w \in S : w <= v
  BY StoreAssumption, FS_Subset, HighestExists
<1> QED
  BY <1>1 DEF Best

\* The states that are saved are states.
LEMMA StateTypes ==
    /\ Blank \in States /\ Blank.current = None
    /\ \A v \in Versions : /\ Pointing(v) \in States
                           /\ Pointing(v).current = v /\ v # None
                           /\ Pointing(v).entries = Entrypoints
    /\ \A v \in Versions : Provides[v] \subseteq Entrypoints
    /\ file \in [there : BOOLEAN, state : States] => Loaded \in States
<1>1. Blank \in States /\ Blank.current = None
  BY DEF Blank, States
<1>2. \A v \in Versions : /\ Pointing(v) \in States
                          /\ Pointing(v).current = v /\ v # None
                          /\ Pointing(v).entries = Entrypoints
  BY StoreAssumption DEF Pointing, States
<1>3. \A v \in Versions : Provides[v] \subseteq Entrypoints
  BY StoreAssumption
<1> QED
  BY <1>1, <1>2, <1>3 DEF Loaded

-----------------------------------------------------------------------------
(* install: the fetch.                                                     *)

\* Each step of the download keeps its types, counts the failed attempts, and
\* ends as fetched only what it verified.
LEMMA DownloadSteps ==
    ASSUME DownloadTypeOK, Download, dl # "off",
           dl # "failed" => tries < Attempts
    PROVE  /\ DownloadTypeOK' /\ art' = art /\ dl' # "off"
           /\ dl' # "failed" => tries' < Attempts
           /\ dl' = "fetched" => Verified(art)'
<1> USE DownloadAssumption DEF DownloadTypeOK
<1>1. Missing \in Files
  BY DEF Missing, Files
<1>2. CASE CacheHit \/ DownloadFails
  BY <1>2 DEF CacheHit, DownloadFails
<1>3. CASE ResponsePartial
  BY <1>3 DEF ResponsePartial
<1>4. CASE ResponseFull
  BY <1>1, <1>4 DEF ResponseFull
<1>5. CASE StreamChunk
  <2>1. PICK g \in BOOLEAN :
           part' = [part EXCEPT ![art] = [len |-> @.len + 1, good |-> @.good /\ g]]
    BY <1>5 DEF StreamChunk
  <2>2. [len |-> part[art].len + 1, good |-> part[art].good /\ g] \in Files
    BY <1>5 DEF StreamChunk, Files
  <2> QED
    BY <1>5, <2>1, <2>2 DEF StreamChunk
<1>6. CASE StreamEnds
  BY <1>1, <1>6 DEF StreamEnds
<1>7. CASE VerifyPasses
  BY <1>7 DEF VerifyPasses, Verified
<1>8. CASE VerifyFails
  BY <1>1, <1>8 DEF VerifyFails
<1> QED
  BY <1>2, <1>3, <1>4, <1>5, <1>6, <1>7, <1>8 DEF Download

\* The disk is as it was.
LEMMA DiskUnchanged ==
    ASSUME DiskStage, UNCHANGED <<payload, bins, meta, file, cut>>
    PROVE  DiskStage' /\ Loaded' = Loaded /\ Installed' = Installed
BY DEF DiskStage, MetaMeansUsable, PointerNamesRecord, Loaded, Installed, Dirs

\* The fetch goes on.
LEMMA FetchGoesOnStep ==
    ASSUME IInv, FetchGoesOn
    PROVE  IInv'
<1> USE DEF IInv, FetchGoesOn, disk, local
<1>1. /\ DownloadTypeOK' /\ art' = art /\ dl' # "off"
      /\ dl' # "failed" => tries' < Attempts
      /\ dl' = "fetched" => Verified(art)'
  BY DownloadSteps DEF TypeOK, FetchStage
<1>2. TypeOK'
  BY <1>1 DEF TypeOK
<1>3. FetchStage'
  BY <1>1 DEF FetchStage, ExtractsVerified
<1>4. DiskStage' /\ Loaded' = Loaded /\ Installed' = Installed
  BY DiskUnchanged
<1>5. SaveStage' /\ OpStage' /\ RemoveStage' /\ SuccessServes'
  BY <1>4 DEF SaveStage, OpStage, RemoveStage, SuccessServes
<1> QED
  BY <1>2, <1>3, <1>4, <1>5

\* An install begins: it fetches the highest version that was asked for.
LEMMA BeginInstallStep ==
    ASSUME IInv, NEW want \in Wants, BeginInstall(want)
    PROVE  IInv'
<1> USE DEF IInv, BeginInstall, Begin, StartFetch, disk
<1>1. Best(want) \in Versions
  BY StoreAssumption, BestIsHighest
<1>2. TypeOK'
  BY <1>1, StoreAssumption DEF TypeOK, DownloadTypeOK, Versions
<1>3. FetchStage'
  BY DEF FetchStage, ExtractsVerified
<1>4. DiskStage'
  BY DiskUnchanged
<1>5. SaveStage' /\ OpStage' /\ RemoveStage' /\ SuccessServes'
  BY DEF SaveStage, OpStage, RemoveStage, SuccessServes
<1> QED
  BY <1>2, <1>3, <1>4, <1>5

\* The end of an operation, and what it holds in memory, are well typed.
LEMMA EndTypes ==
    ASSUME TypeOK, NEW ok \in BOOLEAN, End(ok)
    PROVE  /\ pc' = "idle" /\ last' = [op |-> op, ok |-> ok]
           /\ last' \in [op : {"none", "install", "use", "remove", "gc"}, ok : BOOLEAN]
           /\ mem' \in States /\ kont' = "shims" /\ todo' = {}
BY StateTypes DEF End, Forget, TypeOK

\* The fetch ends; what is placed has been verified, and its directory is free.
LEMMA FetchEndsStep ==
    ASSUME IInv, FetchEnds
    PROVE  IInv'
<1> USE DEF IInv, FetchEnds, End, Forget, Stay, StopFetch, disk
<1>1. TypeOK'
  <2>1. DownloadTypeOK'
    <3>1. /\ dl' = "off" /\ sized' = FALSE /\ tries' = 0
          /\ UNCHANGED <<part, cached, art>>
      OBVIOUS
    <3>2. 0 \in 0..Attempts
      BY DownloadAssumption
    <3> QED
      BY <3>1, <3>2 DEF TypeOK, DownloadTypeOK
  <2>2. CASE End(TRUE) \/ End(FALSE)
    BY <2>1, <2>2, EndTypes DEF TypeOK
  <2>3. CASE pc' = "place" /\ Stay
    BY <2>1, <2>3 DEF TypeOK
  <2> QED
    BY <2>2, <2>3
<1>2. FetchStage'
  BY DownloadAssumption DEF FetchStage, ExtractsVerified, Verified
<1>3. DiskStage'
  BY DiskUnchanged
<1>4. OpStage /\ SuccessServes
  OBVIOUS
<1>5. SaveStage' /\ OpStage' /\ RemoveStage' /\ SuccessServes'
  BY DEF SaveStage, OpStage, RemoveStage, SuccessServes
<1>6. pc' # "idle" => last' = [op |-> "none", ok |-> FALSE]
  OBVIOUS
<1> QED
  BY <1>1, <1>2, <1>3, <1>5, <1>6


-----------------------------------------------------------------------------
(* install: the version is put in place.                                   *)

\* The files are in place, not yet recorded.
LEMMA PlaceStep ==
    ASSUME IInv, Place
    PROVE  IInv'
<1> USE DEF IInv, Place, dlVars, local
<1>1. TypeOK'
  <2>1. Provides[ver] \subseteq Entrypoints
    BY StateTypes DEF TypeOK
  <2> QED
    BY <2>1 DEF TypeOK, DownloadTypeOK
<1>2. FetchStage'
  BY DEF FetchStage, ExtractsVerified
<1>3. Loaded' = Loaded /\ Installed' = Installed
  BY DEF Loaded, Installed
<1>4. ver \in Versions /\ \A v \in Versions :
          /\ payload'[v] = IF v = ver THEN "whole" ELSE payload[v]
          /\ bins'[v] = IF v = ver THEN Provides[ver] ELSE bins[v]
  BY DEF TypeOK
<1>5. DiskStage'
  <2>1. \A v \in Installed : payload'[v] # "none"
    BY <1>4 DEF DiskStage
  <2>2. MetaMeansUsable'
    BY <1>3, <1>4 DEF DiskStage, MetaMeansUsable, Installed
  <2>3. PointerNamesRecord'
    BY <1>3, <1>4 DEF DiskStage, PointerNamesRecord, Installed, Dirs
  <2>4. \A v \in Versions : payload'[v] = "whole" => bins'[v] = Provides[v]
    BY <1>4 DEF DiskStage
  <2> QED
    BY <1>3, <2>1, <2>2, <2>3, <2>4 DEF DiskStage
<1>6. SaveStage' /\ OpStage' /\ RemoveStage' /\ SuccessServes'
  BY <1>3, <1>4 DEF SaveStage, OpStage, RemoveStage, SuccessServes
<1> QED
  BY <1>1, <1>2, <1>5, <1>6

\* The version is recorded: its files are whole.
LEMMA WriteMetaStep ==
    ASSUME IInv, WriteMeta
    PROVE  IInv'
<1> USE DEF IInv, WriteMeta, dlVars, local
<1>1. TypeOK'
  BY DEF TypeOK, DownloadTypeOK
<1>2. FetchStage'
  BY DEF FetchStage, ExtractsVerified
<1>3. Loaded' = Loaded /\ Installed' = Installed \cup {ver} /\ ver \in Versions
  BY DEF Loaded, Installed, TypeOK
<1>4. payload[ver] = "whole" /\ op = "install"
  BY DEF OpStage
<1>5. DiskStage'
  <2>1. \A v \in Installed' : payload'[v] # "none"
    BY <1>3, <1>4 DEF DiskStage
  <2>2. MetaMeansUsable'
    BY <1>3, <1>4 DEF DiskStage, MetaMeansUsable
  <2>3. PointerNamesRecord'
    BY <1>3 DEF DiskStage, PointerNamesRecord, Dirs
  <2> QED
    BY <1>3, <2>1, <2>2, <2>3 DEF DiskStage
<1>6. SaveStage' /\ OpStage' /\ RemoveStage' /\ SuccessServes'
  BY <1>3, <1>4 DEF SaveStage, OpStage, RemoveStage, SuccessServes
<1> QED
  BY <1>1, <1>2, <1>5, <1>6

\* The first version becomes the current one.
LEMMA FirstIsCurrentStep ==
    ASSUME IInv, FirstIsCurrent
    PROVE  IInv'
<1> USE DEF IInv, FirstIsCurrent, Save, dlVars, disk
<1>1. /\ ver \in Versions /\ ver \in Installed /\ op = "install" /\ pc = "first"
      /\ bins[ver] \subseteq Entrypoints
  BY DEF TypeOK, OpStage
<1>3. DiskStage' /\ Loaded' = Loaded /\ Installed' = Installed
  BY DiskUnchanged
<1>4. FetchStage'
  BY DEF FetchStage, ExtractsVerified, End
<1>5. TypeOK'
  <2>1. CASE End(TRUE)
    <3>1. /\ pc' = "idle" /\ mem' \in States /\ kont' = "shims" /\ todo' = {}
          /\ last' \in [op : {"none", "install", "use", "remove", "gc"}, ok : BOOLEAN]
      BY <2>1, EndTypes
    <3> QED
      BY <2>1, <3>1 DEF TypeOK, DownloadTypeOK
  <2>2. CASE /\ Save(Pointing(ver), "shims")
             /\ todo' = Entrypoints /\ UNCHANGED last
    BY <1>1, <2>2, StateTypes DEF TypeOK, DownloadTypeOK
  <2>3. CASE pc' = "shims" /\ todo' = Entrypoints /\ UNCHANGED <<mem, kont, last>>
    BY <1>1, <2>3, StateTypes DEF TypeOK, DownloadTypeOK
  <2> QED
    BY <2>1, <2>2, <2>3
<1>6. SaveStage' /\ OpStage' /\ RemoveStage' /\ SuccessServes'
  BY <1>1, <1>3 DEF SaveStage, OpStage, RemoveStage, SuccessServes, End
<1>7. pc' # "idle" => last' = [op |-> "none", ok |-> FALSE]
  BY <1>1 DEF End
<1> QED
  BY <1>3, <1>4, <1>5, <1>6, <1>7

-----------------------------------------------------------------------------
(* state.json and the shims.                                               *)

\* The old state.json is gone: no version is current meanwhile.
LEMMA SaveUnlinksStep ==
    ASSUME IInv, SaveUnlinks
    PROVE  IInv'
<1> USE DEF IInv, SaveUnlinks, dlVars, local
<1>1. Loaded' = Blank /\ Blank.current = None /\ Installed' = Installed
  BY DEF Loaded, Blank, Installed
<1>2. TypeOK'
  BY StateTypes DEF TypeOK, DownloadTypeOK
<1>3. FetchStage'
  BY DEF FetchStage, ExtractsVerified
<1>4. DiskStage'
  BY <1>1 DEF DiskStage, MetaMeansUsable, PointerNamesRecord
<1>5. SaveStage' /\ OpStage' /\ RemoveStage' /\ SuccessServes'
  BY <1>1 DEF SaveStage, OpStage, RemoveStage, SuccessServes
<1> QED
  BY <1>2, <1>3, <1>4, <1>5

\* The new one is there: it names a version that has a record, or none.
LEMMA SaveRenamesStep ==
    ASSUME IInv, SaveRenames
    PROVE  IInv'
<1> USE DEF IInv, SaveRenames, dlVars, local
<1>1. Loaded' = mem /\ Installed' = Installed /\ Dirs' = Dirs
  BY DEF Loaded, Installed, Dirs
<1>2. TypeOK'
  BY DEF TypeOK, DownloadTypeOK
<1>3. FetchStage'
  BY DEF FetchStage, ExtractsVerified, TypeOK
<1>4. CASE kont = "shims"
  <2>1. mem = Pointing(ver) /\ ver \in Installed /\ todo = Entrypoints
    BY <1>4 DEF SaveStage
  <2>2. /\ mem.current = ver /\ mem.entries = Entrypoints
        /\ bins[ver] \subseteq Entrypoints
    BY <2>1, StateTypes DEF TypeOK
  <2>3. DiskStage'
    BY <1>1, <2>1, <2>2 DEF DiskStage, MetaMeansUsable, PointerNamesRecord, Dirs,
       Installed
  <2>4. SaveStage' /\ OpStage' /\ RemoveStage' /\ SuccessServes'
    BY <1>1, <1>4, <2>1, <2>2
    DEF SaveStage, OpStage, RemoveStage, SuccessServes
  <2> QED
    BY <1>2, <1>3, <2>3, <2>4
<1>5. CASE kont = "delete"
  <2>1. op = "remove" /\ was /\ mem.current = None /\ todo = Entrypoints
    BY <1>5 DEF SaveStage
  <2>2. DiskStage'
    BY <1>1, <2>1 DEF DiskStage, MetaMeansUsable, PointerNamesRecord
  <2>3. ver # None
    BY StoreAssumption DEF TypeOK
  <2>4. SaveStage' /\ OpStage' /\ RemoveStage' /\ SuccessServes'
    BY <1>1, <1>5, <2>1, <2>3
    DEF SaveStage, OpStage, RemoveStage, SuccessServes
  <2> QED
    BY <1>2, <1>3, <2>2, <2>4
<1> QED
  BY <1>4, <1>5 DEF TypeOK

\* The shims are written, one at a time; when all are, the version serves.
LEMMA SyncShimsStep ==
    ASSUME IInv, SyncShims
    PROVE  IInv'
<1> USE DEF IInv, SyncShims, WriteShim, dlVars
<1>1. DiskStage' /\ Loaded' = Loaded /\ Installed' = Installed
  BY DiskUnchanged
<1>2. pc = "shims" /\ Loaded.current = ver /\ bins[ver] \subseteq shims \cup todo
  BY DEF OpStage
<1>3. CASE todo = {} /\ End(TRUE) /\ shims' = shims
  <2>1. TypeOK'
    <3>1. /\ pc' = "idle" /\ mem' \in States /\ kont' = "shims" /\ todo' = {}
          /\ last' \in [op : {"none", "install", "use", "remove", "gc"}, ok : BOOLEAN]
      BY <1>3, EndTypes
    <3> QED
      BY <1>3, <3>1 DEF TypeOK, DownloadTypeOK
  <2>2. FetchStage' /\ SaveStage' /\ OpStage' /\ RemoveStage'
    BY <1>2, <1>3 DEF FetchStage, ExtractsVerified, SaveStage, OpStage, RemoveStage,
       End
  <2>3. /\ Loaded.current = ver /\ bins[ver] \subseteq shims
        /\ op = "remove" => Installed # {} /\ ver = Best(Installed)
    BY <1>2, <1>3 DEF RemoveStage
  <2>4. bins[ver] = Provides[ver] \/ ver \in cut
    <3>1. ver \in Versions /\ ver # None
      BY StoreAssumption DEF TypeOK
    <3> QED
      BY <1>2, <3>1 DEF DiskStage, MetaMeansUsable, PointerNamesRecord
  <2>5. SuccessServes'
    BY <1>1, <1>3, <2>3, <2>4 DEF SuccessServes, End
  <2> QED
    BY <1>1, <1>3, <2>1, <2>2, <2>5 DEF End
<1>4. CASE \E e \in todo : /\ shims' = shims \cup ({e} \cap bins[ver])
                           /\ todo' = todo \ {e}
                           /\ UNCHANGED <<pc, last, mem, kont>>
  <2>1. TypeOK'
    BY <1>4 DEF TypeOK, DownloadTypeOK
  <2>2. FetchStage' /\ SaveStage' /\ RemoveStage' /\ SuccessServes'
    BY <1>1, <1>2, <1>4 DEF FetchStage, ExtractsVerified, SaveStage, RemoveStage,
       SuccessServes
  <2>3. OpStage'
    BY <1>1, <1>2, <1>4 DEF OpStage
  <2> QED
    BY <1>1, <1>4, <2>1, <2>2, <2>3
<1> QED
  BY <1>3, <1>4


-----------------------------------------------------------------------------
(* use_version and remove.                                                 *)

\* A use begins with the highest version that matches, if it has a record.
LEMMA BeginUseStep ==
    ASSUME IInv, NEW want \in Wants, BeginUse(want)
    PROVE  IInv'
<1> DEFINE v == Best(want \cap Dirs)
<1>1. v \in Versions /\ v \in Installed
  BY BestIsHighest DEF BeginUse, Dirs, Installed
<1>2. /\ Begin("use", v) /\ Save(Pointing(v), "shims") /\ todo' = Entrypoints
      /\ UNCHANGED <<dlVars, disk, was, cut>>
  BY DEF BeginUse
<1> HIDE DEF v
<1> USE DEF IInv, Begin, Save, dlVars, disk
<1>3. DiskStage' /\ Loaded' = Loaded /\ Installed' = Installed
  BY <1>2, DiskUnchanged
<1>4. TypeOK'
  <2>1. Pointing(v) \in States /\ ops' \in 0..MaxOps
    BY <1>1, <1>2, StateTypes, StoreAssumption DEF TypeOK
  <2>2. DownloadTypeOK'
    BY <1>2 DEF TypeOK, DownloadTypeOK
  <2> QED
    BY <1>1, <1>2, <2>1, <2>2 DEF TypeOK
<1>5. FetchStage'
  BY <1>2 DEF FetchStage, ExtractsVerified
<1>6. SaveStage' /\ OpStage' /\ RemoveStage' /\ SuccessServes'
  BY <1>1, <1>2, <1>3 DEF SaveStage, OpStage, RemoveStage, SuccessServes
<1>7. last' = [op |-> "none", ok |-> FALSE]
  BY <1>2
<1> QED
  BY <1>3, <1>4, <1>5, <1>6, <1>7

\* A remove begins: nothing is deleted while the pointer names it.
LEMMA BeginRemoveStep ==
    ASSUME IInv, NEW want \in Wants, BeginRemove(want)
    PROVE  IInv'
<1> DEFINE v == Best(want \cap Dirs)
<1>1. v \in Versions /\ v # None
  BY BestIsHighest, StoreAssumption DEF BeginRemove, Dirs
<1>2. /\ Begin("remove", v) /\ was' = (Loaded.current = v)
      /\ IF Loaded.current = v
         THEN Save([Loaded EXCEPT !.current = None], "delete")
         ELSE pc' = "delete" /\ UNCHANGED <<mem, kont>>
      /\ todo' = Loaded.entries
      /\ UNCHANGED <<dlVars, disk, cut>>
  BY DEF BeginRemove
<1> HIDE DEF v
<1> USE DEF IInv, Begin, Save, dlVars, disk
<1>3. DiskStage' /\ Loaded' = Loaded /\ Installed' = Installed
  BY <1>2, DiskUnchanged
<1>4. /\ Loaded \in States /\ [Loaded EXCEPT !.current = None] \in States
      /\ [Loaded EXCEPT !.current = None].current = None
      /\ Loaded.entries \subseteq Entrypoints
  BY StateTypes DEF TypeOK, States
<1>5. FetchStage'
  BY <1>2 DEF FetchStage, ExtractsVerified
<1>6. last' = [op |-> "none", ok |-> FALSE]
  BY <1>2
<1>7. was' \in BOOLEAN /\ ver' = v /\ op' = "remove" /\ ops' \in 0..MaxOps
  BY <1>2, StoreAssumption DEF TypeOK
<1>8. CASE Loaded.current = v
  <2>1. Loaded.entries = Entrypoints
    BY <1>1, <1>8 DEF DiskStage
  <2>2. TypeOK'
    BY <1>1, <1>2, <1>4, <1>6, <1>7, <1>8 DEF TypeOK, DownloadTypeOK
  <2>3. SaveStage' /\ OpStage' /\ RemoveStage' /\ SuccessServes'
    BY <1>2, <1>4, <1>8, <2>1 DEF SaveStage, OpStage, RemoveStage, SuccessServes
  <2> QED
    BY <1>3, <1>5, <1>6, <2>2, <2>3
<1>9. CASE Loaded.current # v
  <2>1. TypeOK'
    BY <1>1, <1>2, <1>4, <1>6, <1>7, <1>9 DEF TypeOK, DownloadTypeOK
  <2>2. SaveStage' /\ OpStage' /\ RemoveStage' /\ SuccessServes'
    BY <1>2, <1>3, <1>9 DEF SaveStage, OpStage, RemoveStage, SuccessServes
  <2> QED
    BY <1>3, <1>5, <1>6, <2>1, <2>2
<1> QED
  BY <1>8, <1>9

\* The directory is deleted; what was the current version is followed by the
\* highest one left.
LEMMA DeleteDirStep ==
    ASSUME IInv, DeleteDir
    PROVE  IInv'
<1> DEFINE left == Installed \ {ver}
<1>1. /\ pc = "delete" /\ op = "remove" /\ Loaded.current # ver
      /\ was => Loaded.current = None /\ todo = Entrypoints
      /\ ver \in Versions
  BY DEF IInv, OpStage, TypeOK, DeleteDir
<1>2. /\ payload' = [payload EXCEPT ![ver] = "none"]
      /\ bins' = [bins EXCEPT ![ver] = {}]
      /\ meta' = [meta EXCEPT ![ver] = FALSE]
      /\ cut' = cut \ {ver}
      /\ UNCHANGED <<dlVars, file, shims, op, was, ops>>
  BY DEF DeleteDir
<1>3. Loaded' = Loaded /\ Installed' = left /\ Dirs' = Dirs \ {ver}
  BY <1>1, <1>2 DEF Loaded, Installed, Dirs, IInv, TypeOK
<1>4. DiskStage'
  <2>1. /\ \A v \in Versions \ {ver} : payload'[v] = payload[v] /\ bins'[v] = bins[v]
        /\ payload'[ver] = "none"
    BY <1>1, <1>2 DEF IInv, TypeOK
  <2>2. \A v \in left : payload'[v] # "none" /\ (payload'[v] = "whole" \/ v \in cut')
    BY <1>2, <2>1 DEF IInv, DiskStage, MetaMeansUsable, Installed
  <2>3. PointerNamesRecord'
    BY <1>1, <1>3 DEF IInv, DiskStage, PointerNamesRecord
  <2>4. \A v \in Versions : payload'[v] = "whole" => bins'[v] = Provides[v]
    BY <2>1 DEF IInv, DiskStage
  <2> QED
    BY <1>3, <2>2, <2>3, <2>4 DEF IInv, DiskStage, MetaMeansUsable
<1>5. FetchStage'
  <2>1. pc' \notin {"fetch", "place"}
    BY DEF DeleteDir, End, Save
  <2> QED
    BY <1>1, <1>2, <2>1 DEF IInv, FetchStage, ExtractsVerified, dlVars
<1>6. /\ DownloadTypeOK' /\ payload' \in [Versions -> {"none", "whole", "part"}]
      /\ bins' \in [Versions -> SUBSET Entrypoints]
      /\ meta' \in [Versions -> BOOLEAN]
      /\ file' \in [there : BOOLEAN, state : States]
      /\ shims' \subseteq Entrypoints /\ op' = "remove" /\ was' \in BOOLEAN
      /\ cut' \subseteq Versions /\ ops' \in 0..MaxOps
  BY <1>1, <1>2 DEF IInv, TypeOK, DownloadTypeOK, dlVars
<1>7. CASE ~was /\ End(TRUE) /\ ver' = ver
  <2>1. TypeOK'
    BY <1>1, <1>6, <1>7, EndTypes DEF IInv, TypeOK
  <2>2. /\ SaveStage' /\ OpStage' /\ RemoveStage' /\ SuccessServes'
        /\ pc' = "idle"
    BY <1>1, <1>2, <1>7
    DEF SaveStage, OpStage, RemoveStage, SuccessServes, End
  <2> QED
    BY <1>4, <1>5, <2>1, <2>2 DEF IInv
<1>8. CASE was /\ left = {} /\ pc' = "drop" /\ ver' = ver /\ Stay
  <2>1. TypeOK'
    BY <1>1, <1>6, <1>8 DEF IInv, TypeOK, Stay
  <2>2. shims' \subseteq todo' /\ Loaded'.current = None
    BY <1>1, <1>2, <1>3, <1>8 DEF IInv, TypeOK, Stay
  <2>3. SaveStage' /\ OpStage' /\ RemoveStage' /\ SuccessServes'
    BY <1>1, <1>2, <1>3, <1>8, <2>2
    DEF IInv, SaveStage, OpStage, RemoveStage, SuccessServes, Stay
  <2>4. last' = [op |-> "none", ok |-> FALSE]
    BY <1>1, <1>8 DEF IInv, Stay
  <2> QED
    BY <1>4, <1>5, <2>1, <2>3, <2>4 DEF IInv
<1>9. CASE /\ was /\ left # {}
           /\ ver' = Best(left)
           /\ Save(Pointing(Best(left)), "shims")
           /\ todo' = Entrypoints /\ UNCHANGED last
  <2>1. Best(left) \in left /\ Best(left) \in Versions
    BY <1>9, BestIsHighest DEF Installed
  <2>2. TypeOK'
    BY <1>1, <1>6, <1>9, <2>1, StateTypes DEF IInv, TypeOK, Save
  <2>3. last' = [op |-> "none", ok |-> FALSE]
    BY <1>1, <1>9 DEF IInv
  <2>4. SaveStage' /\ OpStage' /\ RemoveStage' /\ SuccessServes'
    BY <1>3, <1>9, <2>1, <2>3
    DEF SaveStage, OpStage, RemoveStage, SuccessServes, Save
  <2> QED
    BY <1>4, <1>5, <2>2, <2>3, <2>4 DEF IInv
<1> QED
  BY <1>7, <1>8, <1>9 DEF DeleteDir

\* No version is left: neither are their shims.
LEMMA DropShimsStep ==
    ASSUME IInv, DropShims
    PROVE  IInv'
<1> USE DEF IInv, DropShims, dlVars
<1>1. DiskStage' /\ Loaded' = Loaded /\ Installed' = Installed
  BY DiskUnchanged
<1>2. /\ pc = "drop" /\ op = "remove" /\ Loaded.current = None /\ Installed = {}
      /\ shims \subseteq todo
  BY DEF OpStage
<1>3. CASE todo = {} /\ End(TRUE) /\ shims' = shims
  <2>1. TypeOK'
    <3>1. /\ pc' = "idle" /\ mem' \in States /\ kont' = "shims" /\ todo' = {}
          /\ last' \in [op : {"none", "install", "use", "remove", "gc"}, ok : BOOLEAN]
      BY <1>3, EndTypes
    <3> QED
      BY <1>3, <3>1 DEF TypeOK, DownloadTypeOK
  <2>2. FetchStage' /\ SaveStage' /\ OpStage' /\ RemoveStage'
    BY <1>2, <1>3 DEF FetchStage, ExtractsVerified, SaveStage, OpStage, RemoveStage,
       End
  <2>3. SuccessServes'
    BY <1>1, <1>2, <1>3 DEF SuccessServes, End
  <2> QED
    BY <1>1, <1>3, <2>1, <2>2, <2>3 DEF End
<1>4. CASE \E e \in todo : /\ shims' = shims \ {e}
                           /\ todo' = todo \ {e}
                           /\ UNCHANGED <<pc, last, mem, kont>>
  <2>1. TypeOK'
    BY <1>4 DEF TypeOK, DownloadTypeOK
  <2>2. FetchStage' /\ SaveStage' /\ OpStage' /\ RemoveStage' /\ SuccessServes'
    BY <1>1, <1>2, <1>4 DEF FetchStage, ExtractsVerified, SaveStage, OpStage,
       RemoveStage, SuccessServes
  <2> QED
    BY <1>1, <1>4, <2>1, <2>2
<1> QED
  BY <1>3, <1>4

-----------------------------------------------------------------------------
(* The collector, and the end of the process.                              *)

\* Files of the cache go; nothing is fetched at the time.
LEMMA CollectStep ==
    ASSUME IInv, Collect
    PROVE  IInv'
<1> USE DEF IInv, Collect, Begin, disk
<1>1. Missing \in Files
  BY DownloadAssumption DEF Missing, Files
<1>2. PICK old \in SUBSET Artifacts, oldPart \in SUBSET Artifacts :
          /\ cached' = [a \in Artifacts |-> IF a \in old THEN Missing ELSE cached[a]]
          /\ part' = [a \in Artifacts |-> IF a \in oldPart THEN Missing ELSE part[a]]
  BY DEF CollectCache
<1>3. UNCHANGED <<dl, art, sized, tries>>
  BY DEF CollectCache
<1>4. DownloadTypeOK'
  BY <1>1, <1>2, <1>3 DEF TypeOK, DownloadTypeOK
<1>5. TypeOK'
  BY <1>4, StoreAssumption DEF TypeOK
<1>6. FetchStage'
  BY <1>3 DEF FetchStage, ExtractsVerified
<1>7. DiskStage'
  BY DiskUnchanged
<1>8. SaveStage' /\ OpStage' /\ RemoveStage' /\ SuccessServes'
  BY DEF SaveStage, OpStage, RemoveStage, SuccessServes
<1> QED
  BY <1>5, <1>6, <1>7, <1>8

\* The process dies, or gives up, between two operations of any kind: only a
\* deletion is left half done, and the pointer does not name its version.
LEMMA InterruptedStep ==
    ASSUME IInv, Interrupted
    PROVE  IInv'
<1> USE DEF IInv
<1>1. /\ pc' = "idle" /\ dl' = "off" /\ sized' = FALSE /\ tries' = 0
      /\ mem' = Blank /\ kont' = "shims" /\ todo' = {}
      /\ UNCHANGED <<part, cached, art, file, shims, op, ver, was, last, ops>>
      /\ last = [op |-> "none", ok |-> FALSE]
  BY DEF Interrupted, StopFetch, Forget
<1>2. DownloadTypeOK'
  <2>1. 0 \in 0..Attempts
    BY DownloadAssumption
  <2> QED
    BY <1>1, <2>1 DEF TypeOK, DownloadTypeOK
<1>3. FetchStage'
  BY <1>1, DownloadAssumption DEF FetchStage, ExtractsVerified
<1>4. SaveStage' /\ OpStage' /\ RemoveStage' /\ SuccessServes'
  BY <1>1 DEF SaveStage, OpStage, RemoveStage, SuccessServes
<1>5. CASE UNCHANGED <<payload, bins, meta, cut>>
  <2>1. DiskStage'
    BY <1>1, <1>5, DiskUnchanged
  <2>2. TypeOK'
    BY <1>1, <1>2, <1>5, StateTypes DEF TypeOK
  <2> QED
    BY <1>1, <1>3, <1>4, <2>1, <2>2
<1>6. CASE /\ pc = "delete"
           /\ payload' = [payload EXCEPT ![ver] = "part"]
           /\ \E kept \in SUBSET bins[ver] : bins' = [bins EXCEPT ![ver] = kept]
           /\ meta' \in {meta, [meta EXCEPT ![ver] = FALSE]}
           /\ cut' = cut \cup {ver}
  <2>1. ver \in Versions /\ Loaded.current # ver /\ Loaded' = Loaded
    BY <1>1, <1>6 DEF OpStage, TypeOK, Loaded
  <2>2. /\ Installed' \subseteq Installed
        /\ \A v \in Installed : v # ver => v \in Installed'
        /\ \A v \in Versions : v # ver => payload'[v] = payload[v] /\ bins'[v] = bins[v]
        /\ payload'[ver] = "part"
    BY <1>6, <2>1 DEF TypeOK, Installed
  <2>3. Loaded'.current # None =>
            Loaded'.current \in Installed' /\ Loaded'.current \in Dirs'
    BY <2>1, <2>2 DEF DiskStage, PointerNamesRecord, Dirs
  <2>4. \A v \in Installed' : payload'[v] # "none" /\ (payload'[v] = "whole" \/ v \in cut')
    BY <1>6, <2>2 DEF DiskStage, MetaMeansUsable, Installed
  <2>5. \A v \in Versions : payload'[v] = "whole" => bins'[v] = Provides[v]
    BY <2>2 DEF DiskStage
  <2>6. DiskStage'
    BY <2>1, <2>3, <2>4, <2>5 DEF DiskStage, PointerNamesRecord, MetaMeansUsable
  <2>7. TypeOK'
    <3>1. bins' \in [Versions -> SUBSET Entrypoints]
      BY <1>6, <2>1 DEF TypeOK
    <3>2. /\ payload' \in [Versions -> {"none", "whole", "part"}]
          /\ meta' \in [Versions -> BOOLEAN] /\ cut' \subseteq Versions
      BY <1>6, <2>1 DEF TypeOK
    <3> QED
      BY <1>1, <1>2, <3>1, <3>2, StateTypes DEF TypeOK
  <2> QED
    BY <1>1, <1>3, <1>4, <2>6, <2>7
<1> QED
  BY <1>5, <1>6 DEF Interrupted

-----------------------------------------------------------------------------
(* The theorems.                                                           *)

\* Every step keeps the invariant.
LEMMA NextInductive ==
    ASSUME IInv, [Next]_vars
    PROVE  IInv'
<1>1. CASE \E want \in Wants : BeginInstall(want)
  BY <1>1, BeginInstallStep
<1>2. CASE \E want \in Wants : BeginUse(want) \/ BeginRemove(want)
  BY <1>2, BeginUseStep, BeginRemoveStep
<1>3. CASE Collect \/ Interrupted
  BY <1>3, CollectStep, InterruptedStep
<1>4. CASE Step
  BY <1>4, FetchGoesOnStep, FetchEndsStep, PlaceStep, WriteMetaStep,
     FirstIsCurrentStep, SaveUnlinksStep, SaveRenamesStep, SyncShimsStep,
     DeleteDirStep, DropShimsStep DEF Step
<1>5. CASE UNCHANGED vars
  <2> USE <1>5 DEF vars, dlVars, disk, local, IInv
  <2>1. TypeOK'
    BY DEF TypeOK, DownloadTypeOK
  <2>2. DiskStage' /\ Loaded' = Loaded /\ Installed' = Installed
    BY DiskUnchanged
  <2>3. FetchStage' /\ SaveStage' /\ OpStage' /\ RemoveStage' /\ SuccessServes'
    BY <2>2 DEF FetchStage, ExtractsVerified, Verified, SaveStage, OpStage,
       RemoveStage, SuccessServes
  <2> QED
    BY <2>1, <2>2, <2>3
<1> QED
  BY <1>1, <1>2, <1>3, <1>4, <1>5 DEF Next

\* The invariant holds of every home in which versions were installed, and from
\* then on whatever is done and wherever it is killed.
THEOREM Inductive == Spec => []IInv
<1>1. Init => IInv
  <2> SUFFICES ASSUME Init PROVE IInv
    OBVIOUS
  <2>1. PICK S \in SUBSET Versions, v \in Versions :
            /\ S # {} => v \in S
            /\ HomeOf(S, v)
            /\ ver = v /\ art = v
    BY DEF Init
  <2>2. Missing \in Files /\ 0 \in 0..Attempts /\ 0 \in 0..MaxOps
    BY DownloadAssumption, StoreAssumption DEF Missing, Files
  <2>3. DownloadTypeOK
    BY <2>1, <2>2 DEF Init, DownloadInit, DownloadTypeOK, Versions
  <2>4. /\ file \in [there : BOOLEAN, state : States]
        /\ Loaded = IF S = {} THEN Blank ELSE Pointing(v)
    BY <2>1, StateTypes DEF HomeOf, Loaded
  <2>5. TypeOK
    <3>1. /\ payload \in [Versions -> {"none", "whole", "part"}]
          /\ bins \in [Versions -> SUBSET Entrypoints]
          /\ meta \in [Versions -> BOOLEAN]
          /\ shims \subseteq Entrypoints
      BY <2>1, StateTypes DEF HomeOf
    <3> QED
      BY <2>1, <2>2, <2>3, <2>4, <3>1, StateTypes DEF Init, TypeOK
  <2>6. Installed = S /\ Dirs = S
    BY <2>1 DEF HomeOf, Installed, Dirs
  <2>7. DiskStage
    <3>1. /\ \A w \in Installed : payload[w] = "whole"
          /\ \A w \in Versions : payload[w] = "whole" => bins[w] = Provides[w]
      BY <2>1, <2>6 DEF HomeOf
    <3>2. PointerNamesRecord
      BY <2>1, <2>4, <2>6, StateTypes DEF PointerNamesRecord
    <3>3. Loaded.current # None => Loaded.entries = Entrypoints
      BY <2>1, <2>4, StateTypes
    <3> QED
      BY <3>1, <3>2, <3>3 DEF DiskStage, MetaMeansUsable
  <2>8. /\ FetchStage /\ SaveStage /\ OpStage /\ RemoveStage /\ SuccessServes
        /\ pc = "idle"
    BY DownloadAssumption DEF Init, DownloadInit, FetchStage, ExtractsVerified,
       SaveStage, OpStage, RemoveStage, SuccessServes
  <2> QED
    BY <2>5, <2>7, <2>8 DEF IInv
<1>2. IInv /\ [Next]_vars => IInv'
  BY NextInductive
<1> QED
  BY <1>1, <1>2, PTL DEF Spec

\* TypeOK, with no more failed attempts than FETCH_ATTEMPTS.
THEOREM TypeCorrect == Spec => []TypeOK
<1>1. IInv => TypeOK
  BY DEF IInv
<1> QED
  BY <1>1, Inductive, PTL

\* PointerNamesRecord: wherever install, use_version and remove are killed,
\* state.json names no version without metadata (store.rs).
THEOREM PointerSound == Spec => []PointerNamesRecord
<1>1. IInv => PointerNamesRecord
  BY DEF IInv, DiskStage
<1> QED
  BY <1>1, Inductive, PTL

\* MetaMeansUsable: a recorded version has all its files, unless a deletion of
\* it was cut short (store.rs, install and remove).
THEOREM RecordsUsable == Spec => []MetaMeansUsable
<1>1. IInv => MetaMeansUsable
  BY DEF IInv, DiskStage
<1> QED
  BY <1>1, Inductive, PTL

\* SuccessServes: a use or a remove that succeeded leaves a current version with a
\* shim for every entry file it has, and those are all that were published, unless
\* its deletion was once cut short (store.rs:389-398, shims.rs:58-72).
THEOREM SuccessIsServed == Spec => []SuccessServes
<1>1. IInv => SuccessServes
  BY DEF IInv
<1> QED
  BY <1>1, Inductive, PTL

\* ExtractsVerified: nothing is extracted that the verification has not passed in
\* this install (store.rs and http.rs).
THEOREM PlacesVerified == Spec => []ExtractsVerified
<1>1. IInv => ExtractsVerified
  BY DEF IInv, FetchStage
<1> QED
  BY <1>1, Inductive, PTL
=============================================================================
