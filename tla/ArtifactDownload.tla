-------------------------- MODULE ArtifactDownload --------------------------
(***************************************************************************)
(* How runex-core gets an artifact into its download cache: the loop of    *)
(* RuntimeStore::install that looks into the cache, downloads and verifies *)
(* (store.rs), over HttpClient::download_with_progress (http.rs), which    *)
(* writes `<file>.part`, resumes it with a Range request, and renames it.  *)
(*                                                                         *)
(* A file is its length in chunks and whether its bytes are the published  *)
(* ones.  Abstracted: the retries of one request, URLs, progress.          *)
(***************************************************************************)
EXTENDS Naturals, FiniteSets

CONSTANTS
    Artifacts,  \* one of each version
    Checksum,   \* those with a published checksum
    Size,       \* chunks of an artifact
    Attempts    \* FETCH_ATTEMPTS

ASSUME DownloadAssumption ==
    /\ Checksum \subseteq Artifacts
    /\ Size \in Nat \ {0}
    /\ Attempts \in Nat \ {0}

VARIABLES
    part,       \* the .part file of each artifact
    cached,     \* its file in the cache
    dl,         \* where the fetch is
    art,        \* the artifact fetched
    sized,      \* the response has a Content-Length
    tries       \* attempts that failed to verify

dlVars == <<part, cached, dl, art, sized, tries>>

Files == [len : 0..Size, good : BOOLEAN]

\* A missing file and an empty one: neither is resumed, neither verifies.
Missing == [len |-> 0, good |-> TRUE]

DownloadInit ==
    /\ part = [a \in Artifacts |-> Missing]
    /\ cached = [a \in Artifacts |-> Missing]
    /\ dl = "off" /\ sized = FALSE /\ tries = 0

StartFetch(a) ==
    /\ dl = "off"
    /\ dl' = "attempt" /\ art' = a
    /\ UNCHANGED <<part, cached, sized, tries>>

StopFetch == dl' = "off" /\ sized' = FALSE /\ tries' = 0

\* Mutant of CacheHit: what is in the cache is not verified again.
CacheHitUnverified ==
    /\ dl = "attempt" /\ cached[art].len > 0
    /\ dl' = "fetched"
    /\ UNCHANGED <<part, cached, art, sized, tries>>

CacheHit ==
    /\ dl = "attempt" /\ cached[art].len > 0
    /\ dl' = "verify"
    /\ UNCHANGED <<part, cached, art, sized, tries>>

\* 206: the server continues after what .part has.  It cannot when nothing is
\* left: that is 416, a failure.
ResponsePartial ==
    /\ dl = "attempt" /\ cached[art].len = 0
    /\ part[art].len \in 1..(Size - 1)
    /\ dl' = "stream" /\ sized' \in BOOLEAN
    /\ UNCHANGED <<part, cached, art, tries>>

\* 200: nothing to resume, or a server that ignores Range: from the start.
ResponseFull ==
    /\ dl = "attempt" /\ cached[art].len = 0
    /\ part' = [part EXCEPT ![art] = Missing]
    /\ dl' = "stream" /\ sized' \in BOOLEAN
    /\ UNCHANGED <<cached, art, tries>>

\* A chunk arrives: not the published one if upstream changed or it is damaged.
StreamChunk ==
    /\ dl = "stream" /\ part[art].len < Size
    /\ \E g \in BOOLEAN :
          part' = [part EXCEPT ![art] = [len |-> @.len + 1, good |-> @.good /\ g]]
    /\ UNCHANGED <<cached, dl, art, sized, tries>>

\* The request or the stream fails, or is shorter than announced: .part stays.
DownloadFails ==
    /\ \/ dl = "attempt" /\ cached[art].len = 0
       \/ dl = "stream"
    /\ dl' = "failed"
    /\ UNCHANGED <<part, cached, art, sized, tries>>

\* The stream ends, as announced or without an announcement: into the cache.
StreamEnds ==
    /\ dl = "stream"
    /\ sized => part[art].len = Size
    /\ cached' = [cached EXCEPT ![art] = part[art]]
    /\ part' = [part EXCEPT ![art] = Missing]
    /\ dl' = "verify"
    /\ UNCHANGED <<art, sized, tries>>

\* verify_artifact: the checksum, or else that the archive is readable.
Verified(a) == cached[a].len = Size /\ (a \in Checksum => cached[a].good)

VerifyPasses ==
    /\ dl = "verify" /\ Verified(art)
    /\ dl' = "fetched"
    /\ UNCHANGED <<part, cached, art, sized, tries>>

\* Mutant of VerifyFails: one attempt too many.
VerifyFailsOnceMore ==
    /\ dl = "verify" /\ ~Verified(art)
    /\ cached' = [cached EXCEPT ![art] = Missing]
    /\ part' = [part EXCEPT ![art] = Missing]
    /\ tries' = tries + 1
    /\ dl' = IF tries = Attempts THEN "failed" ELSE "attempt"
    /\ UNCHANGED <<art, sized>>

\* The bad file is deleted and fetched anew, Attempts times at most.
VerifyFails ==
    /\ dl = "verify" /\ ~Verified(art)
    /\ cached' = [cached EXCEPT ![art] = Missing]
    /\ part' = [part EXCEPT ![art] = Missing]
    /\ tries' = tries + 1
    /\ dl' = IF tries + 1 = Attempts THEN "failed" ELSE "attempt"
    /\ UNCHANGED <<art, sized>>

Download ==
    \/ CacheHit \/ ResponsePartial \/ ResponseFull \/ StreamChunk
    \/ DownloadFails \/ StreamEnds \/ VerifyPasses \/ VerifyFails

\* gc_download_cache: any of the files, by age.
CollectCache ==
    /\ \E old, oldPart \in SUBSET Artifacts :
          /\ cached' = [a \in Artifacts |-> IF a \in old THEN Missing ELSE cached[a]]
          /\ part' = [a \in Artifacts |-> IF a \in oldPart THEN Missing ELSE part[a]]
    /\ UNCHANGED <<dl, art, sized, tries>>

DownloadTypeOK ==
    /\ part \in [Artifacts -> Files]
    /\ cached \in [Artifacts -> Files]
    /\ dl \in {"off", "attempt", "stream", "verify", "fetched", "failed"}
    /\ art \in Artifacts
    /\ sized \in BOOLEAN
    /\ tries \in 0..Attempts

=============================================================================
