----------------------------- MODULE FileReads ------------------------------
(***************************************************************************)
(* Reading the files of one commit in one pod of src/src/diff_preview.py:  *)
(* the bare mirror with its index of known commits (mirror_sync,           *)
(* _mirror_has_sha, _git_read_file), the API behind it (_bb_fetch_status), *)
(* and the cache with single flight in front of both, as the renders       *)
(* (_fetch_value_files) and the lookups (_bb_fetch_cached) use it.         *)
(*                                                                         *)
(* The commit is either a pushed one, which the mirror has after the next  *)
(* fetch, or a merge preview, which only the mirror knows.  What a file is *)
(* at a commit never changes.  The attempts of a request are in RateGate;  *)
(* here a request has its last outcome.  A git that ran and failed is      *)
(* taken for an answer, against the rule the code states for itself (a     *)
(* miss is never reported as NOT_FOUND); misread names the files this      *)
(* befell.                                                                 *)
(***************************************************************************)
EXTENDS FiniteSets

CONSTANTS
    Readers,
    Renders,      \* the readers that fetch value files for a render; the others look up
    Keys,         \* files of the commit
    KeyOf         \* the file each reader wants

VARIABLES
    preview,      \* the commit is a merge preview
    truth,        \* what each file is at the commit
    hasCommit,    \* the mirror has the commit
    index,        \* _mirror_sha_seen for the commit
    syncing,      \* mirror_sync holds _mirror_lock
    cache,        \* _vf_cache
    inflight,     \* _vf_inflight
    reader,       \* each reader's place and what it took from the shared state
    misread       \* ghost: the files git failed to read and that count as absent

fileVars == <<preview, truth, hasCommit, index, syncing, cache, inflight, reader, misread>>
world  == <<preview, truth>>
mirror == <<hasCommit, index, syncing>>
single == <<cache, inflight>>

-----------------------------------------------------------------------------

Facts == {"content", "absent"}
Statuses == Facts \cup {"error"}         \* BB_OK, BB_NOT_FOUND, BB_ERROR

Unread == [pc |-> "start", fetcher |-> FALSE, seen |-> FALSE, got |-> "error"]

FilesTypeOK ==
    /\ preview \in BOOLEAN
    /\ truth \in [Keys -> Facts]
    /\ hasCommit \in BOOLEAN
    /\ index \in {"unknown", "present", "missing"}
    /\ syncing \in BOOLEAN
    /\ cache \in [Keys -> Facts \cup {"none"}]
    /\ inflight \subseteq Keys
    /\ reader \in [Readers -> [pc : {"start", "wait", "index", "probe", "note", "blob",
                                     "api", "store", "done"},
                               fetcher : BOOLEAN, seen : BOOLEAN, got : Statuses]]
    /\ misread \subseteq Keys

FilesInit ==
    /\ preview \in BOOLEAN
    /\ truth \in [Keys -> Facts]
    /\ hasCommit \in IF preview THEN {TRUE} ELSE BOOLEAN
    /\ index = "unknown"
    /\ syncing = FALSE
    /\ cache = [k \in Keys |-> "none"]
    /\ inflight = {}
    /\ reader = [r \in Readers |-> Unread]
    /\ misread = {}

To(r, pc) == reader' = [reader EXCEPT ![r].pc = pc]
Ends(r, status) == reader' = [reader EXCEPT ![r].pc = "done", ![r].got = status]

-----------------------------------------------------------------------------
(* mirror_sync, once per iteration *)

BeginSync ==
    /\ ~syncing
    /\ syncing' = TRUE
    /\ UNCHANGED <<world, hasCommit, index, single, reader, misread>>

(* The objects arrive before the fetch is over *)
Arrive ==
    /\ syncing /\ ~hasCommit
    /\ hasCommit' = TRUE
    /\ UNCHANGED <<world, index, syncing, single, reader, misread>>

(* Mutant of AfterFetch: the index is kept *)
KeepIndex == index

(* Commits that were missing may exist now *)
AfterFetch == "unknown"

(* A fetch that fails keeps the index; one that succeeds brought the commit *)
EndSync(ok) ==
    /\ syncing
    /\ ok => hasCommit
    /\ syncing' = FALSE
    /\ index' = IF ok THEN AfterFetch ELSE index
    /\ UNCHANGED <<world, hasCommit, single, reader, misread>>

-----------------------------------------------------------------------------
(* _mirror_has_sha and _git_read_file *)

(* The index, under the lock *)
LookIndex(r) ==
    /\ reader[r].pc = "index"
    /\ ~syncing
    /\ To(r, CASE index = "present" -> "blob"
               [] index = "missing" -> "api"
               [] OTHER             -> "probe")
    /\ UNCHANGED <<world, mirror, single, misread>>

(* git cat-file -e, without the lock; it may fail to run *)
Probe(r) ==
    /\ reader[r].pc = "probe"
    /\ \E seen \in {FALSE, hasCommit} :
           reader' = [reader EXCEPT ![r].pc = "note", ![r].seen = seen]
    /\ UNCHANGED <<world, mirror, single, misread>>

NoteIndex(r) ==
    /\ reader[r].pc = "note"
    /\ ~syncing
    /\ index' = IF reader[r].seen THEN "present" ELSE "missing"
    /\ reader' = [reader EXCEPT ![r].pc = IF reader[r].seen THEN "blob" ELSE "api",
                                ![r].seen = FALSE]
    /\ UNCHANGED <<world, hasCommit, syncing, single, misread>>

(* A lookup that is not the fetcher keeps its answer to itself *)
Hand(r, status) ==
    IF reader[r].fetcher
    THEN reader' = [reader EXCEPT ![r].pc = "store", ![r].got = status]
    ELSE Ends(r, status)

(* git cat-file blob.  The commit is known, so whatever makes the command fail *)
(* is taken for a path that is not in the tree; one that did not run is a miss *)
GitFails(r) ==
    /\ Hand(r, "absent")
    /\ misread' = IF truth[KeyOf[r]] = "absent" THEN misread ELSE misread \cup {KeyOf[r]}

ReadBlob(r) ==
    /\ reader[r].pc = "blob"
    /\ \/ Hand(r, truth[KeyOf[r]]) /\ UNCHANGED misread
       \/ GitFails(r)
       \/ To(r, "api") /\ UNCHANGED misread
    /\ UNCHANGED <<world, mirror, single>>

(* Mutant of ApiStatus: any 404 is an absent file *)
ApiStatusAny404(k) == IF preview THEN "absent" ELSE truth[k]

(* The API's last answer: a 404 that says "Commit not found" is no fact      *)
ApiStatus(k) == IF preview THEN "error" ELSE truth[k]

AskApi(r) ==
    /\ reader[r].pc = "api"
    /\ \E status \in {ApiStatus(KeyOf[r]), "error"} : Hand(r, status)
    /\ UNCHANGED <<world, mirror, single, misread>>

-----------------------------------------------------------------------------
(* The cache and the flights, under _vf_cache_lock *)

(* A cached answer, a flight to join, or a flight of its own *)
Claim(r) ==
    LET k == KeyOf[r] IN
    /\ reader[r].pc = "start"
    /\ IF cache[k] # "none" THEN Ends(r, cache[k]) /\ UNCHANGED inflight
       ELSE IF k \in inflight THEN To(r, "wait") /\ UNCHANGED inflight
       ELSE /\ inflight' = inflight \cup {k}
            /\ reader' = [reader EXCEPT ![r].pc = "index", ![r].fetcher = TRUE]
    /\ UNCHANGED <<world, mirror, cache, misread>>

(* Without an answer a render's file is unreadable; a lookup asks by itself *)
Unanswered(r) == IF r \in Renders THEN Ends(r, "error") ELSE To(r, "index")

(* The flight landed, or the wait timed out: only the cache tells *)
Follow(r) ==
    LET k == KeyOf[r] IN
    /\ reader[r].pc = "wait"
    /\ IF cache[k] # "none" THEN Ends(r, cache[k]) ELSE Unanswered(r)
    /\ UNCHANGED <<world, mirror, single, misread>>

(* Mutant of Landing: an error leaves the flight up *)
LandingKept(r) == IF reader[r].got = "error" THEN inflight ELSE inflight \ {KeyOf[r]}

(* Only a definite answer is cached; the flight comes down whatever it was *)
Landing(r) == inflight \ {KeyOf[r]}

Store(r) ==
    LET k == KeyOf[r] IN
    /\ reader[r].pc = "store"
    /\ cache' = IF reader[r].got \in Facts THEN [cache EXCEPT ![k] = reader[r].got] ELSE cache
    /\ inflight' = Landing(r)
    /\ To(r, "done")
    /\ UNCHANGED <<world, mirror, misread>>

FilesNext ==
    \/ BeginSync \/ Arrive \/ \E ok \in BOOLEAN : EndSync(ok)
    \/ \E r \in Readers :
         \/ Claim(r) \/ Follow(r) \/ Store(r)
         \/ LookIndex(r) \/ Probe(r) \/ NoteIndex(r) \/ ReadBlob(r) \/ AskApi(r)

(* The loop syncs the mirror every iteration, and git and the requests end *)
Syncs == BeginSync \/ EndSync(FALSE)
Reads == \E r \in Readers :
    Claim(r) \/ Follow(r) \/ Store(r) \/ Probe(r) \/ ReadBlob(r) \/ AskApi(r)
Indexes == \E r \in Readers : LookIndex(r) \/ NoteIndex(r)

FilesFairness ==
    /\ WF_fileVars(Syncs) /\ SF_fileVars(EndSync(TRUE))
    /\ WF_fileVars(Reads) /\ SF_fileVars(Indexes)

FilesSpec == FilesInit /\ [][FilesNext]_fileVars /\ FilesFairness

-----------------------------------------------------------------------------
(* Properties *)

(* What may stand for a file: what it is, or that git failed to read it *)
Right(k, status) == status = truth[k] \/ (status = "absent" /\ k \in misread)

(* No reader takes a file for absent, or present, that is not: an answer     *)
(* that did not come is an error, in the reader that asked, in those that    *)
(* follow its flight and in those that find it cached (_bb_fetch_status,     *)
(* _fetch_value_files).  The exception is a file whose blob git failed to    *)
(* read in a commit the mirror has (_git_read_file): it counts as absent,    *)
(* and the cache keeps it so.                                                *)
NothingGuessed ==
    \A r \in Readers :
        reader[r].pc = "done" => reader[r].got = "error" \/ Right(KeyOf[r], reader[r].got)

(* Every read ends and takes its flight down, so a later read of the file    *)
(* does not wait for nobody (the finally of both fetchers); and a miss found *)
(* before the fetch and noted after it is not kept: the index comes to tell  *)
(* the truth about a commit the mirror has (mirror_sync).  What is true in   *)
(* the end.                                                                  *)
ReadsSettled ==
    /\ inflight = {}
    /\ \A r \in Readers : reader[r].pc = "done"
    /\ hasCommit => index # "missing"

(* Inductive: the cache has only facts, and so has who fetched one *)
CacheIsTrue == \A k \in Keys : cache[k] = "none" \/ Right(k, cache[k])
FetchedIsTrue ==
    \A r \in Readers :
        reader[r].pc \in {"store", "done"} =>
            reader[r].got = "error" \/ Right(KeyOf[r], reader[r].got)

FilesInv == FilesTypeOK /\ CacheIsTrue /\ FetchedIsTrue
=============================================================================
