--------------------------- MODULE ArtifactStore ---------------------------
(***************************************************************************)
(* The full-diff pages of src/src/diff_ui.py, for one pull request: one    *)
(* object in the bucket and one file in each pod, both overwritten in      *)
(* place by every render.  The worker of the leading pod saves and uploads *)
(* (process_pr, save_artifact), an upload that failed is tried again at    *)
(* the start of an iteration (retry_pending_uploads), and the build status *)
(* looks for the page before it links to it (post_build_status).  The HTTP *)
(* threads of every pod serve pages (respond, load_artifact) at the same   *)
(* time.                                                                   *)
(*                                                                         *)
(* A page is known by the commit it is about and the number of the save    *)
(* that made it; one encoding stands for both suffixes.                    *)
(***************************************************************************)
EXTENDS Integers

CONSTANTS
    Pods,
    Web,          \* HTTP threads, each serving one request at a time in a pod
    None,
    MaxCommit,    \* commits of the branch, 1 .. MaxCommit in the order pushed
    MaxSaves,     \* bound on the renders that are saved
    MaxLosses,    \* bound on the bucket requests that fail
    MaxUpsets     \* bound on restarts, pruned files and changes of leader

ASSUME ArtifactAssumption ==
    /\ {MaxCommit, MaxSaves, MaxLosses, MaxUpsets} \subseteq Nat
    /\ None \notin Pods \cup Web
    /\ Pods \cap Web = {}

VARIABLES
    bucket,       \* the object with its generation; 0: there is none
    local,        \* the file in each pod's DIFF_UI_DIR
    generation,   \* _local_generation; 0: no entry
    pending,      \* _pending_uploads has an entry
    leader,       \* the pod that leads
    work,         \* the worker or the retry of each pod's main thread
    load,         \* the load_artifact each thread is in; a pod stands for its worker
    saves,        \* ghost: the saves so far
    finished,     \* ghost: the newest save_artifact that has returned
    newest,       \* the newest commit rendered so far
    losses, upsets

copies   == <<local, generation, pending>>
ghosts   == <<saves, finished, newest>>
counters == <<losses, upsets>>
vars == <<bucket, copies, leader, work, load, ghosts, counters>>

-----------------------------------------------------------------------------

Commits == 1 .. MaxCommit
NoPage  == [sha |-> 0, n |-> 0]
Pages   == [sha : Commits, n : 1 .. MaxSaves] \cup {NoPage}
Nothing == [page |-> NoPage, gen |-> 0]
Objects == [page : Pages \ {NoPage}, gen : Nat \ {0}] \cup {Nothing}
Threads == Pods \cup Web

Unemployed == [pc |-> "idle", sha |-> 0, page |-> NoPage]
Unloaded   == [pc |-> "idle", pod |-> None, sha |-> 0, page |-> NoPage, got |-> Nothing,
               again |-> FALSE, floor |-> 0]

TypeOK ==
    /\ bucket \in Objects
    /\ local \in [Pods -> Pages]
    /\ generation \in [Pods -> Nat]
    /\ pending \in [Pods -> BOOLEAN]
    /\ leader \in Pods
    /\ work \in [Pods -> [pc : {"idle", "announce", "render", "upload", "link", "retry"},
                          sha : Commits \cup {0}, page : Pages]]
    /\ load \in [Threads ->
            [pc : {"idle", "compare", "download", "store", "note", "done"},
             pod : Pods \cup {None}, sha : Commits \cup {0}, page : Pages,
             got : Objects, again : BOOLEAN, floor : Commits \cup {0}]]
    /\ saves \in 0 .. MaxSaves
    /\ finished \in 0 .. saves
    /\ newest \in Commits \cup {0}
    /\ losses \in 0 .. MaxLosses
    /\ upsets \in 0 .. MaxUpsets

Init ==
    /\ bucket = Nothing
    /\ local = [p \in Pods |-> NoPage]
    /\ generation = [p \in Pods |-> 0]
    /\ pending = [p \in Pods |-> FALSE]
    /\ leader \in Pods
    /\ work = [p \in Pods |-> Unemployed]
    /\ load = [t \in Threads |-> Unloaded]
    /\ saves = 0 /\ finished = 0 /\ newest = 0
    /\ losses = 0 /\ upsets = 0

-----------------------------------------------------------------------------
(* load_artifact *)

Loss == losses < MaxLosses /\ losses' = losses + 1 /\ UNCHANGED upsets

Lesser(a, b) == IF a < b THEN a ELSE b

(* Mutant of Start: any local file is a hit, whatever commit it is about *)
StartAnyHit(t, p, c) ==
    load' = [load EXCEPT ![t] =
        [pc    |-> IF local[p] # NoPage THEN "compare" ELSE "download",
         pod   |-> p, sha |-> c, page |-> local[p], got |-> Nothing, again |-> FALSE,
         floor |-> Lesser(c, bucket.page.sha)]]

(* The local file: only one about the requested commit may be a hit.  The    *)
(* floor is a ghost, the oldest commit the bucket held during the load, or   *)
(* the requested one if that is older.                                       *)
Start(t, p, c) ==
    load' = [load EXCEPT ![t] =
        [pc    |-> IF local[p].sha = c THEN "compare" ELSE "download",
         pod   |-> p, sha |-> c, page |-> local[p], got |-> Nothing, again |-> FALSE,
         floor |-> Lesser(c, bucket.page.sha)]]

(* do_GET /diff/: a request for any commit rendered so far *)
Request(t, p, c) ==
    /\ load[t].pc = "idle"
    /\ c <= newest
    /\ Start(t, p, c)
    /\ UNCHANGED <<bucket, copies, leader, work, ghosts, counters>>

Finish(t, page) == load' = [load EXCEPT ![t].pc = "done", ![t].page = page]

(* What a failed request makes the caller fall back to is promised nothing *)
FallBack(t) == load' = [load EXCEPT ![t].pc = "done", ![t].floor = 0]

(* _gcs_generation: a local hit is served if the bucket has what this pod    *)
(* last put there or took from it, or nothing, or does not say               *)
Compare(t) ==
    LET p == load[t].pod
    IN  /\ load[t].pc = "compare"
        /\ \/ /\ bucket.gen \in {0, generation[p]}
              /\ Finish(t, load[t].page)
              /\ UNCHANGED counters
           \/ /\ bucket.gen \notin {0, generation[p]}
              /\ load' = [load EXCEPT ![t].pc = "download", ![t].again = TRUE]
              /\ UNCHANGED counters
           \/ FallBack(t) /\ Loss
        /\ UNCHANGED <<bucket, copies, leader, work, ghosts>>

(* _gcs_download: what the bucket has, unless it has nothing, or nothing but *)
(* the commit the local file is about                                        *)
Download(t) ==
    LET mine == load[t].page
        keep == \/ bucket = Nothing
                \/ ~load[t].again /\ bucket.page.sha = mine.sha
    IN  /\ load[t].pc = "download"
        /\ \/ /\ keep
              /\ Finish(t, mine)
              /\ UNCHANGED counters
           \/ /\ ~keep
              /\ load' = [load EXCEPT ![t].pc = "store", ![t].got = bucket]
              /\ UNCHANGED counters
           \/ FallBack(t) /\ Loss
        /\ UNCHANGED <<bucket, copies, leader, work, ghosts>>

(* os.replace, then _local_generation.update *)
StoreCopy(t) ==
    /\ load[t].pc = "store"
    /\ local' = [local EXCEPT ![load[t].pod] = load[t].got.page]
    /\ load' = [load EXCEPT ![t].pc = "note"]
    /\ UNCHANGED <<bucket, generation, pending, leader, work, ghosts, counters>>

NoteGeneration(t) ==
    /\ load[t].pc = "note"
    /\ generation' = [generation EXCEPT ![load[t].pod] = load[t].got.gen]
    /\ Finish(t, load[t].got.page)
    /\ UNCHANGED <<bucket, local, pending, leader, work, ghosts, counters>>

Respond(t) ==
    /\ t \in Web
    /\ load[t].pc = "done"
    /\ load' = [load EXCEPT ![t] = Unloaded]
    /\ UNCHANGED <<bucket, copies, leader, work, ghosts, counters>>

-----------------------------------------------------------------------------
(* The main thread of a pod: a pass over the pull request *)

(* process_pr posts INPROGRESS for the commit it is about to render: one     *)
(* that is new, or the same again on another tip of main                     *)
Begin(p) ==
    /\ leader = p
    /\ work[p].pc = "idle"
    /\ saves < MaxSaves
    /\ \E c \in Commits \cap {newest, newest + 1} :
        /\ work' = [work EXCEPT ![p] = [pc |-> "announce", sha |-> c, page |-> NoPage]]
        /\ Start(p, p, c)
    /\ UNCHANGED <<bucket, copies, leader, ghosts, counters>>

(* post_build_status has its link, or none *)
Linked(p) ==
    /\ load[p].pc = "done"
    /\ load' = [load EXCEPT ![p] = Unloaded]
    /\ work' = [work EXCEPT ![p] = IF @.pc = "announce" THEN [@ EXCEPT !.pc = "render"]
                                   ELSE Unemployed]
    /\ UNCHANGED <<bucket, copies, leader, ghosts, counters>>

(* _save_diff_ui_artifact: the lease is looked at once, before the file *)
Save(p) ==
    LET page == [sha |-> work[p].sha, n |-> saves + 1]
    IN  /\ work[p].pc = "render"
        /\ IF leader = p /\ saves < MaxSaves
           THEN /\ local' = [local EXCEPT ![p] = page]
                /\ work' = [work EXCEPT ![p].pc = "upload", ![p].page = page]
                /\ saves' = saves + 1
                /\ newest' = IF page.sha > newest THEN page.sha ELSE newest
           ELSE /\ work' = [work EXCEPT ![p] = Unemployed]
                /\ UNCHANGED <<local, saves, newest>>
        /\ UNCHANGED <<bucket, generation, pending, leader, load, finished, counters>>

(* The object is replaced; a load under way has seen an older one at worst *)
Put(page) ==
    /\ bucket' = [page |-> page, gen |-> bucket.gen + 1]
    /\ load' = [t \in Threads |->
                   [load[t] EXCEPT !.floor = Lesser(@, page.sha)]]

(* The three ways an upload ends: it is heard of, it is not, it never lands *)
Landed(p)  == Put(work[p].page) /\ UNCHANGED counters
                /\ generation' = [generation EXCEPT ![p] = bucket.gen + 1]
Unheard(p) == Put(work[p].page) /\ Loss /\ UNCHANGED generation
Lost       == Loss /\ UNCHANGED <<bucket, load, generation>>

(* Mutant of Upload: a failed upload is not remembered *)
UploadForgets(p) ==
    /\ work[p].pc = "upload"
    /\ Landed(p) \/ Unheard(p) \/ Lost
    /\ UNCHANGED pending
    /\ finished' = IF work[p].page.n > finished THEN work[p].page.n ELSE finished
    /\ work' = [work EXCEPT ![p].pc = "link", ![p].page = NoPage]
    /\ UNCHANGED <<local, leader, saves, newest, upsets>>

(* _gcs_upload of the bytes just saved, and _note_pending_upload if it fails *)
Upload(p) ==
    /\ work[p].pc = "upload"
    /\ \/ Landed(p) /\ UNCHANGED pending
       \/ (Unheard(p) \/ Lost) /\ pending' = [pending EXCEPT ![p] = TRUE]
    /\ finished' = IF work[p].page.n > finished THEN work[p].page.n ELSE finished
    /\ work' = [work EXCEPT ![p].pc = "link", ![p].page = NoPage]
    /\ UNCHANGED <<local, leader, saves, newest>>

(* The final status looks for the page of the commit, if the pod still leads *)
Link(p) ==
    /\ work[p].pc = "link"
    /\ load[p].pc = "idle"
    /\ IF leader = p THEN Start(p, p, work[p].sha) /\ UNCHANGED work
       ELSE work' = [work EXCEPT ![p] = Unemployed] /\ UNCHANGED load
    /\ UNCHANGED <<bucket, copies, leader, ghosts, counters>>

(* Mutant of BeginRetry: a file that is gone is uploaded as well *)
BeginRetryBlindly(p) ==
    /\ leader = p
    /\ work[p].pc = "idle"
    /\ pending[p]
    /\ work' = [work EXCEPT ![p].pc = "retry", ![p].page = local[p]]
    /\ UNCHANGED <<bucket, copies, leader, load, ghosts, counters>>

(* retry_pending_uploads, at the start of an iteration: the bytes are read   *)
(* from the file, and a file that is gone is no longer owed                  *)
BeginRetry(p) ==
    /\ leader = p
    /\ work[p].pc = "idle"
    /\ pending[p]
    /\ IF local[p] = NoPage
       THEN pending' = [pending EXCEPT ![p] = FALSE] /\ UNCHANGED work
       ELSE /\ work' = [work EXCEPT ![p].pc = "retry", ![p].page = local[p]]
            /\ UNCHANGED pending
    /\ UNCHANGED <<bucket, local, generation, leader, load, ghosts, counters>>

EndRetry(p) ==
    /\ work[p].pc = "retry"
    /\ \/ Landed(p) /\ pending' = [pending EXCEPT ![p] = FALSE]
       \/ (Unheard(p) \/ Lost) /\ UNCHANGED pending
    /\ work' = [work EXCEPT ![p] = Unemployed]
    /\ UNCHANGED <<local, leader, ghosts>>

-----------------------------------------------------------------------------
(* What upsets a pod *)

Upset == upsets < MaxUpsets /\ upsets' = upsets + 1 /\ UNCHANGED losses

(* The container restarts; DIFF_UI_DIR is a volume of the pod and stays *)
Restart(p) ==
    /\ Upset
    /\ generation' = [generation EXCEPT ![p] = 0]
    /\ pending' = [pending EXCEPT ![p] = FALSE]
    /\ work' = [work EXCEPT ![p] = Unemployed]
    /\ load' = [t \in Threads |-> IF t = p \/ load[t].pod = p THEN Unloaded ELSE load[t]]
    /\ UNCHANGED <<bucket, local, leader, ghosts>>

(* _prune, when another pull request's page is saved *)
Prune(p) ==
    /\ Upset
    /\ leader = p
    /\ local[p] # NoPage
    /\ local' = [local EXCEPT ![p] = NoPage]
    /\ UNCHANGED <<bucket, generation, pending, leader, work, load, ghosts>>

Handover ==
    /\ Upset
    /\ leader' \in Pods \ {leader}
    /\ UNCHANGED <<bucket, copies, work, load, ghosts>>

-----------------------------------------------------------------------------

Loading(t) == Compare(t) \/ Download(t) \/ StoreCopy(t) \/ NoteGeneration(t) \/ Respond(t)

Working(p) ==
    \/ Linked(p) \/ Save(p) \/ Upload(p) \/ Link(p) \/ BeginRetry(p) \/ EndRetry(p)

Next ==
    \/ \E t \in Threads : Loading(t)
    \/ \E t \in Web : \E p \in Pods : \E c \in Commits : Request(t, p, c)
    \/ \E p \in Pods : Working(p) \/ Begin(p) \/ Restart(p) \/ Prune(p)
    \/ Handover

(* A pass that began goes on, and an iteration always comes again *)
Fairness == \A p \in Pods : WF_vars(Working(p)) /\ WF_vars(Loading(p))

Spec == Init /\ [][Next]_vars /\ Fairness

-----------------------------------------------------------------------------
(* Properties *)

(* A page is never about an older commit than the one asked for, unless the  *)
(* bucket held an older one during the load or did not answer; and it is     *)
(* there if the bucket had any (load_artifact).                              *)
PageIsNoOlder ==
    \A t \in Threads : load[t].pc = "done" =>
        load[t].page.sha >= load[t].floor

(* What a retry uploads is the newest render: "uploading the superseded one  *)
(* would put a stale artifact in the bucket, which is the very failure this   *)
(* exists to prevent" (diff_ui.py:342-344).                                  *)
RetryUploadsTheNewest ==
    [][\A p \in Pods :
          work[p].pc = "retry" /\ work'[p] # work[p] /\ bucket' # bucket
              => bucket'.page.n >= finished]_vars

Stored == bucket # Nothing /\ bucket.page.n >= finished

(* The bucket comes to hold the newest render that save_artifact returned    *)
(* from: a failed upload is healed by a later iteration (diff_ui.py:331-340).*)
StoredInTheEnd == <>[](finished # 0 => Stored)

(* ... which holds of a pod that keeps the lease, is not restarted, loses no *)
(* file to a prune, and whose pages nobody else reads meanwhile              *)
(* (_note_pending_upload, retry_pending_uploads).                            *)
HealsUndisturbed ==
    [](upsets = 0 /\ \A t \in Web : load[t].pod # leader) => StoredInTheEnd
=============================================================================
