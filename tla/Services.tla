------------------------------ MODULE Services ------------------------------
(***************************************************************************)
(* The services around a pass, one behaviour about one of them: the        *)
(* artifact store under its own names, the others in slots that they       *)
(* share, since no behaviour is about two.  A step leaves all it is not    *)
(* about alone.                                                            *)
(***************************************************************************)
EXTENDS ArtifactStore, FiniteSets, Sequences

CONSTANTS
    Callers, Kinds, GateTries, Slices, MaxPause, Fallback, Hints, Slots,   \* RateGate
    Readers, RenderReaders, Keys, KeyOf,                                   \* FileReads
    CommentTries, MaxComments, MaxPasses, MaxLost, MaxMeddling,            \* CommentStore
    Poll, Refreshers, Fleet, MaxExpiries,                                  \* PathMap
    Budget, LoginTimes, StaleAfter, Patience,                              \* PodLife
    MaxPushes, MaxRepeats, MaxMoves, HookWorkers,                          \* JFrogHook
    DiffWorkers, MaxBuild, Values, MaxHelm, Retries, MaxStale              \* RenderCache

ASSUME GateAssumption ==
    /\ {GateTries, Slices, MaxPause, Fallback} \subseteq Nat
    /\ GateTries # 0 /\ Fallback <= MaxPause
    /\ Hints \subseteq Nat
    /\ Kinds \subseteq {"rest", "file", "argocd"}

(* Arithmetic that holds for every value and that the provers do not know *)
ASSUME PowersOfTwo == \A n \in 0 .. GateTries : 2 ^ n \in Nat

ASSUME FilesAssumption == KeyOf \in [Readers -> Keys]

ASSUME CommentsAssumption ==
    /\ {CommentTries, MaxComments, MaxPasses, MaxLost, MaxMeddling} \subseteq Nat
    /\ CommentTries # 0 /\ IsFiniteSet(Pods)

ASSUME MapsAssumption ==
    /\ Poll \notin Refreshers /\ "nobody" \notin {Poll} \cup Refreshers
    /\ Fleet \in Seq([tracked : BOOLEAN, project : STRING]) /\ Fleet # <<>>
    /\ MaxExpiries \in Nat

(* The sleeps of a login are 2, 4, 8 and 16 s and then 16 s each, so n of     *)
(* them are at least 16 n - 34 s: what a login takes with the attempts in     *)
(* between, the last one included, is less than the probe's patience          *)
ASSUME PodAssumption ==
    /\ {Budget, StaleAfter, Patience} \subseteq Nat
    /\ LoginTimes \subseteq Nat
    /\ \E longest \in LoginTimes :
          /\ \A time \in LoginTimes : time <= longest
          /\ 16 * Budget + longest * (Budget + 50) < 16 * Patience

ASSUME HookAssumption == {MaxPushes, MaxRepeats, MaxMoves, HookWorkers} \subseteq Nat

ASSUME RendersAssumption ==
    /\ {MaxBuild, MaxHelm, Retries, MaxStale} \subseteq Nat
    /\ 0 \notin {MaxBuild, MaxHelm, Retries} /\ Values # {}

VARIABLES part, s1, s2, s3, s4, s5, s6, s7, s8, s9, s10, s11

slots == <<s1, s2, s3, s4, s5, s6, s7, s8, s9, s10, s11>>
all   == <<part, vars, slots>>

(* Slots from the n-th on that a part has no use for *)
Off10 == s10 = 0 /\ s11 = 0
Off9 == s9 = 0 /\ Off10
Off7 == s7 = 0 /\ s8 = 0 /\ Off9
Off6 == s6 = 0 /\ Off7
Off4 == s4 = 0 /\ s5 = 0 /\ Off6
Off1 == s1 = 0 /\ s2 = 0 /\ s3 = 0 /\ Off4

Keep10 == UNCHANGED <<s10, s11>>
Keep9 == UNCHANGED s9 /\ Keep10
Keep7 == UNCHANGED <<s7, s8>> /\ Keep9
Keep6 == UNCHANGED s6 /\ Keep7
Keep4 == UNCHANGED <<s4, s5>> /\ Keep6

Gate == INSTANCE RateGate WITH
    Threads <- Callers, Tries <- GateTries, hold <- s1, call <- s2, window <- s3

Files == INSTANCE FileReads WITH
    Renders <- RenderReaders,
    preview <- s1, truth <- s2, hasCommit <- s3, index <- s4, syncing <- s5,
    cache <- s6, inflight <- s7, reader <- s8, misread <- s9

Comments == INSTANCE CommentStore WITH
    Tries <- CommentTries,
    list <- s1, leader <- s2, known <- s3, pass <- s4, text <- s5, lost <- s6,
    handovers <- s7, meddling <- s8

Maps == INSTANCE PathMap WITH
    fleet <- s1, maps <- s2, fresh <- s3, lock <- s4, thread <- s5, expiries <- s6

Pod == INSTANCE PodLife WITH
    phase <- s1, login <- s2, main <- s3, moved <- s4, age <- s5

Hook == INSTANCE JFrogHook WITH
    Workers <- HookWorkers,
    build <- s1, wire <- s2, recent <- s3, head <- s4, pool <- s5, known <- s6,
    sent <- s7, excuse <- s8

Renders == INSTANCE RenderCache WITH
    Workers <- DiffWorkers,
    registry <- s1, dir <- s2, usable <- s3, stales <- s4, pulling <- s5, helm <- s6,
    local <- s7, bucket <- s8, uploads <- s9, worker <- s10, torn <- s11

-----------------------------------------------------------------------------

ServicesInit ==
    /\ Init
    /\ \/ part = "pages"    /\ Off1
       \/ part = "gate"     /\ Gate!GateInit /\ Off4
       \/ part = "files"    /\ Files!FilesInit /\ Off10
       \/ part = "comments" /\ Comments!CommentsInit /\ Off9
       \/ part = "maps"     /\ Maps!MapsInit /\ Off7
       \/ part = "pod"      /\ Pod!PodInit /\ Off6
       \/ part = "hook"     /\ Hook!HookInit /\ Off9
       \/ part = "renders"  /\ Renders!CacheInit

SlotStep ==
    \/ part = "gate"     /\ Gate!GateNext /\ Keep4
    \/ part = "files"    /\ Files!FilesNext /\ Keep10
    \/ part = "comments" /\ Comments!CommentsNext /\ Keep9
    \/ part = "maps"     /\ Maps!MapsNext /\ Keep7
    \/ part = "pod"      /\ Pod!PodNext /\ Keep6
    \/ part = "hook"     /\ Hook!HookNext /\ Keep9
    \/ part = "renders"  /\ Renders!CacheNext

ServicesNext ==
    /\ UNCHANGED part
    /\ \/ part = "pages" /\ Next /\ UNCHANGED slots
       \/ SlotStep /\ UNCHANGED vars

ServicesSpec == ServicesInit /\ [][ServicesNext]_all

-----------------------------------------------------------------------------
(* Properties *)

(* Every part's type invariant *)
ServicesTypeOK ==
    CASE part = "pages"    -> TypeOK
      [] part = "gate"     -> Gate!GateTypeOK
      [] part = "files"    -> Files!FilesTypeOK
      [] part = "comments" -> Comments!CommentsTypeOK
      [] part = "maps"     -> Maps!MapsTypeOK
      [] part = "pod"      -> Pod!PodTypeOK
      [] part = "hook"     -> Hook!HookTypeOK
      [] part = "renders"  -> Renders!CacheTypeOK

(* The invariants of the parts, as their modules state them: no file's fate  *)
(* is guessed (_fetch_value_files); no needless second comment               *)
(* (upsert_comment); maps taken for fresh are from one listing               *)
(* (discover_path_app_map); a failing login ends by itself                   *)
(* (_startup_argocd_login); a push is heard by the leader and once           *)
(* (do_POST); a cached render is the one its key names (argocd_diff).        *)
NothingGuessed      == part = "files" => Files!NothingGuessed
NoNeedlessDuplicate == part = "comments" => Comments!NoNeedlessDuplicate
MapsAreWhole        == part = "maps" => Maps!MapsAreWhole
StartupEndsItself   == part = "pod" => Pod!StartupEndsItself
PushIsHeardOnce     == part = "hook" => Hook!PushIsHeardOnce
ServedIsRight       == part = "renders" => Renders!ServedIsRight

(* No call goes out in a pause that some 429 announced (_bb_ratelimit_wait) *)
BrakesTogether == [][part = "gate" => Gate!BrakesTogether]_slots
=============================================================================
