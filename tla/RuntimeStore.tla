---------------------------- MODULE RuntimeStore ----------------------------
(***************************************************************************)
(* RuntimeStore of runex-core: install, use_version and remove of one      *)
(* language over ~/.runex, with the download of ArtifactDownload inside    *)
(* install.  One process works at a time; it may be killed, or meet an I/O *)
(* error and give up, between any two operations on the file system.       *)
(*                                                                         *)
(* Versions are ordered as numbers; a version a user asks for is the set   *)
(* of those it matches (`20` matches every 20.x).                          *)
(*                                                                         *)
(* Abstracted: the language, several artifacts of a version, the staging   *)
(* directory (emptied before each use), permissions, the text of shims,    *)
(* env templates, prereleases.                                             *)
(***************************************************************************)
EXTENDS ArtifactDownload

CONSTANTS
    Wants,       \* what users ask for
    Entrypoints, \* the entries of the language
    Provides,    \* those each version really has, as published
    None,        \* no version
    MaxOps       \* bound: operations

Versions == Artifacts

ASSUME StoreAssumption ==
    /\ Versions \subseteq Nat
    /\ IsFiniteSet(Versions)
    /\ Wants \subseteq SUBSET Versions
    /\ Provides \in [Versions -> SUBSET Entrypoints]
    /\ None \notin Versions
    /\ MaxOps \in Nat

VARIABLES
    payload,    \* each version directory: none, whole, or part of its files
    bins,       \* the entry files in it
    meta,       \* it holds .runex-meta.json, which lists all entries
    file,       \* state.json
    shims,      \* the shims there are
    pc,         \* where the operation is
    op,         \* which operation
    ver,        \* the version it is about
    was,        \* remove: that version was current
    mem,        \* the state it will save
    kont,       \* where it goes on after saving
    todo,       \* shims still to write or to delete
    last,       \* the operation that ended last, and whether it succeeded
    cut,        \* versions whose deletion was cut short
    ops         \* operations so far

disk  == <<payload, bins, meta, file, shims>>
local == <<op, ver, was, mem, kont, todo>>
vars  == <<dlVars, disk, pc, local, last, cut, ops>>

States == [current : Versions \cup {None}, entries : SUBSET Entrypoints]
Blank  == [current |-> None, entries |-> {}]

\* RuntimeState::load: a missing file is an empty state.
Loaded == IF file.there THEN file.state ELSE Blank

Dirs      == {v \in Versions : payload[v] # "none"}
Installed == {v \in Versions : meta[v]}

\* pick_best: the highest version that matches.
Best(S) == CHOOSE v \in S : \A w \in S : w <= v

Pointing(v) == [current |-> v, entries |-> Entrypoints]

\* A home in which some versions were installed and one of them is current.
HomeOf(S, v) ==
    /\ payload = [w \in Versions |-> IF w \in S THEN "whole" ELSE "none"]
    /\ bins = [w \in Versions |-> IF w \in S THEN Provides[w] ELSE {}]
    /\ meta = [w \in Versions |-> w \in S]
    /\ file = [there |-> S # {}, state |-> IF S = {} THEN Blank ELSE Pointing(v)]
    /\ shims = IF S = {} THEN {} ELSE Provides[v]

Init ==
    /\ DownloadInit
    /\ \E S \in SUBSET Versions, v \in Versions :
          /\ S # {} => v \in S
          /\ HomeOf(S, v)
          /\ ver = v /\ art = v
    /\ pc = "idle" /\ op = "none" /\ was = FALSE
    /\ mem = Blank /\ kont = "shims" /\ todo = {}
    /\ last = [op |-> "none", ok |-> FALSE]
    /\ cut = {} /\ ops = 0

Begin(name, v) ==
    /\ pc = "idle" /\ ops < MaxOps /\ ops' = ops + 1
    /\ op' = name /\ ver' = v
    /\ last' = [op |-> "none", ok |-> FALSE]

\* What the process held in memory is gone with it.
Forget == mem' = Blank /\ kont' = "shims" /\ todo' = {}

End(ok) == pc' = "idle" /\ last' = [op |-> op, ok |-> ok] /\ Forget

Stay == UNCHANGED <<last, mem, kont, todo>>

\* state.save(): write_atomic, in two steps below.
Save(state, next) == pc' = "unlink" /\ mem' = state /\ kont' = next

-----------------------------------------------------------------------------
(* install *)

\* A version nobody published is an error before anything is done.
BeginInstall(want) ==
    /\ want # {}
    /\ Begin("install", Best(want))
    /\ StartFetch(Best(want))
    /\ pc' = "fetch"
    /\ UNCHANGED <<disk, was, mem, kont, todo, cut>>

FetchGoesOn ==
    /\ pc = "fetch"
    /\ Download
    /\ UNCHANGED <<disk, pc, local, last, cut, ops>>

\* Mutant of FetchEnds: the metadata before the files.
FetchEndsMetaFirst ==
    /\ pc = "fetch" /\ dl \in {"fetched", "failed"}
    /\ StopFetch
    /\ IF dl = "failed" THEN End(FALSE) /\ UNCHANGED meta
       ELSE IF ver \in Dirs THEN End(TRUE) /\ UNCHANGED meta
       ELSE pc' = "place" /\ meta' = [meta EXCEPT ![ver] = TRUE] /\ Stay
    /\ UNCHANGED <<part, cached, art, payload, bins, file, shims, op, ver, was, cut, ops>>

\* A version whose directory is there counts as installed.
FetchEnds ==
    /\ pc = "fetch" /\ dl \in {"fetched", "failed"}
    /\ StopFetch
    /\ IF dl = "failed" THEN End(FALSE)
       ELSE IF ver \in Dirs THEN End(TRUE)
       ELSE pc' = "place" /\ Stay
    /\ UNCHANGED <<part, cached, art, disk, op, ver, was, cut, ops>>

\* Extracted and arranged in the staging directory, then renamed into place.
Place ==
    /\ pc = "place"
    /\ payload' = [payload EXCEPT ![ver] = "whole"]
    /\ bins' = [bins EXCEPT ![ver] = Provides[ver]]
    /\ pc' = "meta"
    /\ UNCHANGED <<dlVars, meta, file, shims, local, last, cut, ops>>

WriteMeta ==
    /\ pc = "meta"
    /\ meta' = [meta EXCEPT ![ver] = TRUE]
    /\ pc' = "first"
    /\ UNCHANGED <<dlVars, payload, bins, file, shims, local, last, cut, ops>>

\* The first version installed becomes current.
FirstIsCurrent ==
    /\ pc = "first"
    /\ \/ /\ Loaded.current = None
          /\ Save(Pointing(ver), "shims")
          /\ todo' = Entrypoints /\ UNCHANGED last
       \/ /\ Loaded.current = ver
          /\ pc' = "shims"
          /\ todo' = Entrypoints /\ UNCHANGED <<mem, kont, last>>
       \/ /\ Loaded.current \notin {None, ver}
          /\ End(TRUE)
    /\ UNCHANGED <<dlVars, disk, op, ver, was, cut, ops>>

-----------------------------------------------------------------------------
(* write_atomic of state.json, and the shims *)

\* The temporary file is written, the old one removed.
SaveUnlinks ==
    /\ pc = "unlink"
    /\ file' = [there |-> FALSE, state |-> Blank]
    /\ pc' = "rename"
    /\ UNCHANGED <<dlVars, payload, bins, meta, shims, local, last, cut, ops>>

SaveRenames ==
    /\ pc = "rename"
    /\ file' = [there |-> TRUE, state |-> mem]
    /\ pc' = kont
    /\ UNCHANGED <<dlVars, payload, bins, meta, shims, local, last, cut, ops>>

\* An entry whose file is not there is skipped without an error.
WriteShim(e) == shims' = shims \cup ({e} \cap bins[ver])

\* sync_shims goes through the entries the metadata lists; no shim is removed.
SyncShims ==
    /\ pc = "shims"
    /\ IF todo = {} THEN End(TRUE) /\ UNCHANGED shims
       ELSE \E e \in todo : /\ WriteShim(e)
                            /\ todo' = todo \ {e}
                            /\ UNCHANGED <<pc, last, mem, kont>>
    /\ UNCHANGED <<dlVars, payload, bins, meta, file, op, ver, was, cut, ops>>

-----------------------------------------------------------------------------
(* use_version and remove *)

\* resolve_installed looks at directories, use_version at the metadata: an
\* error if the best match has none.
BeginUse(want) ==
    /\ want \cap Dirs # {}
    /\ LET v == Best(want \cap Dirs)
       IN  /\ v \in Installed
           /\ Begin("use", v)
           /\ Save(Pointing(v), "shims")
           /\ todo' = Entrypoints
    /\ UNCHANGED <<dlVars, disk, was, cut>>

\* Mutant of BeginRemove: the directory goes while the pointer still names it.
BeginRemoveUncleared(want) ==
    /\ want \cap Dirs # {}
    /\ LET v == Best(want \cap Dirs)
       IN  /\ Begin("remove", v)
           /\ was' = (Loaded.current = v)
           /\ pc' = "delete"
           /\ todo' = Loaded.entries
    /\ UNCHANGED <<dlVars, disk, mem, kont, cut>>

\* The pointer is cleared first if it names the version.
BeginRemove(want) ==
    /\ want \cap Dirs # {}
    /\ LET v == Best(want \cap Dirs)
       IN  /\ Begin("remove", v)
           /\ was' = (Loaded.current = v)
           /\ IF Loaded.current = v
              THEN Save([Loaded EXCEPT !.current = None], "delete")
              ELSE pc' = "delete" /\ UNCHANGED <<mem, kont>>
           /\ todo' = Loaded.entries
    /\ UNCHANGED <<dlVars, disk, cut>>

\* Mutant of DeleteDir: the lowest version left.
DeleteDirOldest ==
    LET left == Installed \ {ver}
        next == CHOOSE v \in left : \A w \in left : v <= w
    IN  /\ pc = "delete"
        /\ payload' = [payload EXCEPT ![ver] = "none"]
        /\ bins' = [bins EXCEPT ![ver] = {}]
        /\ meta' = [meta EXCEPT ![ver] = FALSE]
        /\ cut' = cut \ {ver}
        /\ \/ ~was /\ End(TRUE) /\ UNCHANGED ver
           \/ was /\ left = {} /\ pc' = "drop" /\ UNCHANGED ver /\ Stay
           \/ /\ was /\ left # {}
              /\ ver' = next
              /\ Save(Pointing(next), "shims")
              /\ todo' = Entrypoints /\ UNCHANGED last
        /\ UNCHANGED <<dlVars, file, shims, op, was, ops>>

\* The directory is gone; use_version of the highest version left, if the
\* current one was removed, and the end of the shims if none is left.
DeleteDir ==
    LET left == Installed \ {ver}
    IN  /\ pc = "delete"
        /\ payload' = [payload EXCEPT ![ver] = "none"]
        /\ bins' = [bins EXCEPT ![ver] = {}]
        /\ meta' = [meta EXCEPT ![ver] = FALSE]
        /\ cut' = cut \ {ver}
        /\ \/ /\ ~was
              /\ End(TRUE) /\ UNCHANGED ver
           \/ /\ was /\ left = {}
              /\ pc' = "drop" /\ UNCHANGED ver /\ Stay
           \/ /\ was /\ left # {}
              /\ ver' = Best(left)
              /\ Save(Pointing(Best(left)), "shims")
              /\ todo' = Entrypoints /\ UNCHANGED last
        /\ UNCHANGED <<dlVars, file, shims, op, was, ops>>

DropShims ==
    /\ pc = "drop"
    /\ IF todo = {} THEN End(TRUE) /\ UNCHANGED shims
       ELSE \E e \in todo : /\ shims' = shims \ {e}
                            /\ todo' = todo \ {e}
                            /\ UNCHANGED <<pc, last, mem, kont>>
    /\ UNCHANGED <<dlVars, payload, bins, meta, file, op, ver, was, cut, ops>>

Collect ==
    /\ Begin("gc", ver)
    /\ CollectCache
    /\ UNCHANGED <<disk, pc, was, mem, kont, todo, cut>>

\* Killed, or an I/O error.  remove_dir_all deletes in any order.
Interrupted ==
    /\ pc # "idle"
    /\ pc' = "idle" /\ StopFetch
    /\ \/ UNCHANGED <<payload, bins, meta, cut>>
       \/ /\ pc = "delete"
          /\ payload' = [payload EXCEPT ![ver] = "part"]
          /\ \E kept \in SUBSET bins[ver] : bins' = [bins EXCEPT ![ver] = kept]
          /\ meta' \in {meta, [meta EXCEPT ![ver] = FALSE]}
          /\ cut' = cut \cup {ver}
    /\ Forget
    /\ UNCHANGED <<part, cached, art, file, shims, op, ver, was, last, ops>>

Step ==
    \/ FetchGoesOn \/ FetchEnds \/ Place \/ WriteMeta \/ FirstIsCurrent
    \/ SaveUnlinks \/ SaveRenames \/ SyncShims \/ DeleteDir \/ DropShims

Next ==
    \/ \E want \in Wants : BeginInstall(want) \/ BeginUse(want) \/ BeginRemove(want)
    \/ Collect
    \/ Step
    \/ Interrupted

Spec == Init /\ [][Next]_vars

-----------------------------------------------------------------------------
(* Properties *)

TypeOK ==
    /\ DownloadTypeOK
    /\ payload \in [Versions -> {"none", "whole", "part"}]
    /\ bins \in [Versions -> SUBSET Entrypoints]
    /\ meta \in [Versions -> BOOLEAN]
    /\ file \in [there : BOOLEAN, state : States]
    /\ shims \subseteq Entrypoints
    /\ pc \in {"idle", "fetch", "place", "meta", "first", "unlink", "rename",
               "shims", "delete", "drop"}
    /\ op \in {"none", "install", "use", "remove", "gc"}
    /\ ver \in Versions /\ was \in BOOLEAN
    /\ mem \in States /\ kont \in {"shims", "delete"}
    /\ todo \subseteq Entrypoints
    /\ last \in [op : {"none", "install", "use", "remove", "gc"}, ok : BOOLEAN]
    /\ cut \subseteq Versions
    /\ ops \in 0..MaxOps

\* state.json never names a version without metadata, whichever operation was
\* killed where: remove clears the pointer first, install and use set it last.
PointerNamesRecord ==
    Loaded.current # None => Loaded.current \in Installed /\ Loaded.current \in Dirs

\* A version with metadata has all its files: no install that is cut short
\* leaves a record of something unusable.  Only a deletion cut short does.
MetaMeansUsable ==
    \A v \in Installed : payload[v] = "whole" \/ v \in cut

\* After a use that succeeded the version is current and every entry file it
\* has is reached through a shim, which are all that were published unless its
\* deletion was once cut short: then use succeeds with the shims of what the
\* deletion left.  After a remove of the current version that succeeded the
\* same holds of the highest one left, or nothing is left.
SuccessServes ==
    LET serves(v) == /\ Loaded.current = v
                     /\ bins[v] \subseteq shims
                     /\ bins[v] = Provides[v] \/ v \in cut
    IN  /\ last = [op |-> "use", ok |-> TRUE] => serves(ver)
        /\ last = [op |-> "remove", ok |-> TRUE] /\ was =>
              IF Installed = {} THEN Loaded.current = None /\ shims = {}
                                ELSE serves(Best(Installed))

\* What install extracts has passed the verification: no cache entry or .part
\* left by an earlier fetch is taken for granted.
ExtractsVerified ==
    pc = "place" => Verified(ver)

=============================================================================
