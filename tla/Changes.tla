------------------------------- MODULE Changes -------------------------------
(***************************************************************************)
(* What pull requests change and how the poll loop hears of them, one         *)
(* behaviour about one subject: the wake-ups and hints under their own names, *)
(* the others in slots that they share, since no behaviour is about two.  A   *)
(* step leaves all it is not about alone.                                     *)
(***************************************************************************)
EXTENDS Supersede

CONSTANTS
    Places, Public, CohortOf, SpokeOf, TeardownName,                       \* EnvChanges
    Names, EnvSuffixes, EnvEdits, MaxStray, EnvMains,
    Cells, MaxPRs,                                                         \* SuffixMigration
    Hold, MaxDay, DownMerges,                                              \* Teardown
    Folders, Clones, ConfigOf, Contents, Configs, FleetEdits, MaxGreen,    \* FleetGates
    Members, DiskSuffixes, Charts, Attempts, VmMerges,                     \* VmMigration
    Tiers, ChartVersions, RevisionMerges,                                  \* ChartRevision
    NewFolders, Shapes, NewVersions, NewEdits, MaxLost, MaxFlakes,         \* NewEnvs
    Mains, Heads, MaxDropped,                                              \* MergePreview
    Owners, Customers, UcSuffixes, SharedMerges, MaxUnread                 \* SharedContent

ASSUME SuffixAssumption == "none" \notin Cells /\ MaxPRs \in Nat

ASSUME DownAssumption == {Hold, MaxDay, DownMerges} \subseteq Nat

ASSUME FleetAssumption == Clones \subseteq Folders /\ MaxGreen \in Nat

ASSUME VmsAssumption == "none" \notin Members /\ VmMerges \in Nat

ASSUME RevisionsAssumption == RevisionMerges \in Nat

ASSUME NewEnvsAssumption ==
    Shapes \subseteq [cohort : {"ok", "missing", "unparsable"}, long : BOOLEAN,
                     own : NewVersions \cup {"none", "unsafe"},
                     above : NewVersions \cup {"none"},
                     helm : {"ok", "credentials", "broken"}]

ASSUME MergesAssumption ==
    /\ Mains \subseteq Nat /\ 1 \in Mains
    /\ Heads \subseteq Nat /\ 1 \in Heads
    /\ MaxDropped \in Nat

ASSUME SharedAssumption == {SharedMerges, MaxUnread} \subseteq Nat

VARIABLES part, s1, s2, s3, s4, s5, s6, s7, s8, s9

slots == <<s1, s2, s3, s4, s5, s6, s7, s8, s9>>
all   == <<part, vars, slots>>

(* Slots from the n-th on that a part has no use for *)
Off8 == s8 = 0 /\ s9 = 0
Off7 == s7 = 0 /\ Off8
Off6 == s6 = 0 /\ Off7
Off5 == s5 = 0 /\ Off6
Off1 == s1 = 0 /\ s2 = 0 /\ s3 = 0 /\ s4 = 0 /\ Off5

Keep8 == UNCHANGED <<s8, s9>>
Keep7 == UNCHANGED s7 /\ Keep8
Keep6 == UNCHANGED s6 /\ Keep7
Keep5 == UNCHANGED s5 /\ Keep6

Environments == INSTANCE EnvChanges WITH
    Suffixes <- EnvSuffixes, MaxEdits <- EnvEdits, Mains <- EnvMains,
    pr <- s1, renames <- s2, planned <- s3, report <- s4, verdict <- s5

Suffix == INSTANCE SuffixMigration WITH
    main <- s1, applied <- s2, writers <- s3, record <- s4, standing <- s5, merged <- s6,
    unread <- s7, unsynced <- s8, orphaned <- s9

Down == INSTANCE Teardown WITH
    MaxMerges <- DownMerges,
    main <- s1, history <- s2, day <- s3, finalizer <- s4, pr <- s5, ending <- s6,
    onSince <- s7

Fleet == INSTANCE FleetGates WITH
    MaxEdits <- FleetEdits,
    main <- s1, green <- s2, woken <- s3, noted <- s4

Vms == INSTANCE VmMigration WITH
    Suffixes <- DiskSuffixes, MaxMerges <- VmMerges,
    role <- s1, main <- s2, job <- s3, vm <- s4, excused <- s5, merges <- s6

Revisions == INSTANCE ChartRevision WITH
    Versions <- ChartVersions, MaxMerges <- RevisionMerges,
    main <- s1, argo <- s2, shown <- s3, merges <- s4

News == INSTANCE NewEnvs WITH
    Envs <- NewFolders, Versions <- NewVersions, MaxEdits <- NewEdits,
    head <- s1, charts <- s2, work <- s3, comment <- s4, targets <- s5, due <- s6,
    edits <- s7, lost <- s8, flakes <- s9

Merges == INSTANCE MergePreview WITH
    conflicts <- s1, main <- s2, head <- s3, mergedAt <- s4, listed <- s5, fetched <- s6,
    previews <- s7, comment <- s8, dropped <- s9

Shared == INSTANCE SharedContent WITH
    Envs <- Owners, Suffixes <- UcSuffixes, MaxMerges <- SharedMerges,
    fleet <- s1, cloud <- s2, panel <- s3, confirmed <- s4, merges <- s5,
    unproven <- s6, misfiled <- s7

-----------------------------------------------------------------------------

ChangesInit ==
    /\ Init
    /\ \/ part = "wakes"        /\ Off1
       \/ part = "environments" /\ Environments!EnvInit /\ Off6
       \/ part = "suffix"       /\ Suffix!SuffixInit
       \/ part = "teardown"     /\ Down!DownInit /\ Off8
       \/ part = "fleet"        /\ Fleet!FleetInit /\ Off5
       \/ part = "vms"          /\ Vms!VmInit /\ Off7
       \/ part = "revisions"    /\ Revisions!RevisionInit /\ Off5
       \/ part = "newenvs"      /\ News!NewEnvsInit
       \/ part = "merges"       /\ Merges!MergeInit
       \/ part = "shared"       /\ Shared!SharedInit /\ Off8

SlotStep ==
    \/ part = "environments" /\ Environments!EnvNext /\ Keep6
    \/ part = "suffix"       /\ Suffix!SuffixNext
    \/ part = "teardown"     /\ Down!DownNext /\ Keep8
    \/ part = "fleet"        /\ Fleet!FleetNext /\ Keep5
    \/ part = "vms"          /\ Vms!VmNext /\ Keep7
    \/ part = "revisions"    /\ Revisions!RevisionNext /\ Keep5
    \/ part = "newenvs"      /\ News!NewEnvsNext
    \/ part = "merges"       /\ Merges!MergeNext
    \/ part = "shared"       /\ Shared!SharedNext /\ Keep8

ChangesNext ==
    /\ UNCHANGED part
    /\ \/ part = "wakes" /\ Next /\ UNCHANGED slots
       \/ SlotStep /\ UNCHANGED vars

ChangesSpec == ChangesInit /\ [][ChangesNext]_all

-----------------------------------------------------------------------------
(* Properties *)

(* Every part's type invariant *)
ChangesTypeOK ==
    CASE part = "wakes"        -> TypeOK
      [] part = "environments" -> Environments!EnvTypeOK
      [] part = "suffix"       -> Suffix!SuffixTypeOK
      [] part = "teardown"     -> Down!DownTypeOK
      [] part = "fleet"        -> Fleet!FleetTypeOK
      [] part = "vms"          -> Vms!VmTypeOK
      [] part = "revisions"    -> Revisions!RevisionTypeOK
      [] part = "newenvs"      -> News!NewEnvsTypeOK
      [] part = "merges"       -> Merges!MergeTypeOK
      [] part = "shared"       -> Shared!SharedTypeOK

(* The invariants of the parts, as their modules state them: no environment   *)
(* vanishes from a green pull request, and a move is a move (process_pr's     *)
(* detectors); a teardown serves its hold and says what it orphans            *)
(* (_evaluate_env_decommissions); clones sleep and the ASHN map can be        *)
(* published (_detect_clone_wakes, _detect_ashn_map_gates); a VM is handed    *)
(* back only after its Job (_vm_migrations_removed); a preview has the charts *)
(* of both sides (_pr_chart_revision_checked); a green new environment will   *)
(* be created (_new_env_status); nothing shared is lost unseen                *)
(* (_shared_user_content_owners).                                             *)
NoEnvVanishes       == part = "environments" => Environments!NoEnvVanishes
MovesAreChecked     == part = "environments" => Environments!MovesAreChecked
TeardownIsServed    == part = "teardown" => Down!TeardownIsServed
FleetIsSafe         == part = "fleet" => Fleet!FleetIsSafe
MigrationsFinish    == part = "vms" => Vms!MigrationsFinish
PreviewHasTheCharts == part = "revisions" => Revisions!PreviewHasTheCharts
GreenIsCreated      == part = "newenvs" => News!GreenIsCreated
SharedIsShown       == part = "shared" => Shared!SharedIsShown

(* Two cells never write the one record of their customer, and it is never    *)
(* deleted under a cell that answers on it (vm_analysis.findings).            *)
RecordIsKept ==
    /\ [](part = "suffix" => Suffix!OneWriter)
    /\ [][part = "suffix" => Suffix!RecordSurvives]_slots

(* A comment is right about the merge it names, and the tip stands in for it  *)
(* only while nothing better can be known (_merge_preview).                   *)
MergeIsShown ==
    part = "merges" => Merges!ConflictIsTold /\ Merges!FallbackIsNotKept
=============================================================================
