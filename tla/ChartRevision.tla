--------------------------- MODULE ChartRevision ---------------------------
(***************************************************************************)
(* Which chart version each side of a preview is rendered with.  The version *)
(* of an application is set by the last of its value files that has one: the *)
(* root config.yaml, the config.yaml of the tier its folder is in, or its    *)
(* customer.yaml.  A preview looks for a bump in the files the pull request   *)
(* changes, and then resolves the whole chain at the head; ArgoCD follows    *)
(* main later.                                                               *)
(*                                                                          *)
(* One application.  A move of its folder is one the preview recognises       *)
(* (EnvChanges has the others).  A failed read of the whole chain raises and  *)
(* the pull request is retried, so it shows nothing.  Bitbucket answers the   *)
(* same for the same commit, so the caches keyed by it are left out.          *)
(***************************************************************************)
EXTENDS Naturals

CONSTANTS
    Tiers,          \* where the folder can be
    Versions,       \* versions of the chart
    MaxMerges       \* bound: merged pull requests

VARIABLES
    main,           \* the value files on main
    argo,           \* targetRevision of the application
    shown,          \* the published preview of a pull request, if any, and auxiliary:
                    \* the changed files it could not read
    merges          \* merged pull requests

revisionVars == <<main, argo, shown, merges>>

NoVersion == "none"                     \* the file sets no version
Unsafe == "unsafe"                      \* it sets one that is no OCI tag
Settings == Versions \cup {NoVersion, Unsafe}
Sources == [at : Tiers, leaf : Settings, tier : [Tiers -> Settings], root : Settings]
Files == {"root", "tier", "leaf"}
Previews == [head : Sources, old : Versions, new : Versions, unread : SUBSET Files]

-----------------------------------------------------------------------------

\* The content of a value file of the application at a commit.
Setting(commit, file, tier) ==
    CASE file = "root" -> commit.root
      [] file = "tier" -> commit.tier[tier]
      [] file = "leaf" -> commit.leaf

\* _effective_chart_version: the last file with a safe version wins.
Effective(commit) ==
    LET set == {f \in Files : Setting(commit, f, commit.at) \in Versions}
    IN CASE "leaf" \in set -> commit.leaf
         [] "leaf" \notin set /\ "tier" \in set -> commit.tier[commit.at]
         [] set = {"root"} -> commit.root
         [] OTHER -> NoVersion

\* Mutant of MainRevision: what ArgoCD has.
ArgoRevision == argo

\* _main_chart_revision
MainRevision == IF Effective(main) # NoVersion THEN Effective(main) ELSE argo

\* The changed files among the application's value files, as ArgoCD has them.
Candidates(head) ==
    {f \in Files : Setting(head, f, main.at) # Setting(main, f, main.at)}
    \cup {f \in {"leaf"} : head.at # main.at}

\* The loop over the changed files: one that cannot be read is passed over.
Seen(head, unread) ==
    {Setting(head, f, main.at) : f \in Candidates(head) \ unread}
SawVersion(head, unread) == Seen(head, unread) \cap Versions # {}
Invalid(head, unread) == Unsafe \in Seen(head, unread)

\* A customer.yaml that lost its version falls through to its parent.
LeafTouched(head) == "leaf" \in Candidates(head)

\* Mutant of Resolved: the version of the changed parent.
ResolvedFromTheParent(head) ==
    IF "tier" \in Candidates(head) /\ head.tier[main.at] \in Versions
    THEN head.tier[main.at] ELSE Effective(head)

\* _resolve_effective_pr_chart_revision
Resolved(head) == Effective(head)

\* _pr_chart_revision_checked, and pr_rev of _run_one_diff.
PrRevision(head, unread) ==
    IF (SawVersion(head, unread) \/ LeafTouched(head)) /\ Resolved(head) # NoVersion
    THEN Resolved(head) ELSE MainRevision

-----------------------------------------------------------------------------

\* A pull request changes up to two files, or moves the folder and changes one.
Edited(commit) ==
    {[commit EXCEPT !.at = t] : t \in Tiers}
    \cup {[commit EXCEPT !.leaf = v] : v \in Settings}
    \cup {[commit EXCEPT !.tier[t] = v] : t \in Tiers, v \in Settings}
    \cup {[commit EXCEPT !.root = v] : v \in Settings}
PrHeads == UNION {Edited(commit) : commit \in Edited(main)} \ {main}

\* A version that was rejected blocks.  What a preview shows depends on main and
\* ArgoCD alone, so none is shown after another before one of them moves.
Preview ==
    /\ shown = {}
    /\ \E head \in PrHeads : \E unread \in SUBSET Candidates(head) :
        /\ ~Invalid(head, unread)
        /\ shown' = {[head |-> head, old |-> MainRevision, new |-> PrRevision(head, unread),
                      unread |-> unread]}
    /\ UNCHANGED <<main, argo, merges>>

\* The pull request is merged; its base is main, or it would be previewed again.
MergePr ==
    /\ merges < MaxMerges
    /\ \E preview \in shown :
        /\ \A f \in Files, t \in Tiers : Setting(preview.head, f, t) # Unsafe
        /\ main' = preview.head
    /\ shown' = {}
    /\ merges' = merges + 1
    /\ UNCHANGED argo

\* The ApplicationSet controller follows main.
ArgoFollows ==
    /\ Effective(main) # NoVersion
    /\ argo' = Effective(main)
    /\ shown' = {}
    /\ UNCHANGED <<main, merges>>

RevisionInit ==
    /\ main \in {c \in Sources : \A f \in Files, t \in Tiers : Setting(c, f, t) # Unsafe}
    /\ argo = Effective(main)
    /\ argo \in Versions
    /\ shown = {} /\ merges = 0

RevisionNext == Preview \/ MergePr \/ ArgoFollows
RevisionSpec == RevisionInit /\ [][RevisionNext]_revisionVars

-----------------------------------------------------------------------------

RevisionTypeOK ==
    /\ main \in Sources
    /\ argo \in Versions
    /\ shown \subseteq Previews
    /\ merges \in 0..MaxMerges

\* A config.yaml above lost its version, and no changed file has one: the bump
\* is not seen (the text of _pr_chart_revision_checked covers customer.yaml).
ParentUnpinned(head) ==
    /\ "leaf" \notin Candidates(head)
    /\ \A f \in Candidates(head) : Setting(head, f, main.at) = NoVersion

\* The reads of the changed files that set something all failed, and no other one
\* showed a version.
MissedBump(preview) ==
    /\ ~SawVersion(preview.head, preview.unread)
    /\ \E f \in preview.unread : Setting(preview.head, f, main.at) # NoVersion

\* What ArgoCD runs for a commit, whoever reads it.
Deployed(commit, version) == Effective(commit) \in {NoVersion, version}

\* A published preview compares the chart that main deploys with the chart that
\* the head would deploy, whether ArgoCD has followed main yet or not, whichever
\* file pins the version, when the folder moves below another config, and whichever
\* reads fail: but for a bump whose every file was passed over
\* (_main_chart_revision, _pr_chart_revision_checked).
PreviewHasTheCharts ==
    \A preview \in shown :
        /\ Deployed(main, preview.old)
        /\ \/ ParentUnpinned(preview.head) \/ MissedBump(preview)
           \/ Deployed(preview.head, preview.new)

\* A failed read is no answer: the preview is published again, not with the old
\* chart (the callers of _pr_chart_revision_checked: "COPS-2766: retry").
NoBumpIsMissed ==
    \A preview \in shown :
        ParentUnpinned(preview.head) \/ Deployed(preview.head, preview.new)

\* What the proofs use: a preview lives no longer than the commits it is about.
RevisionInv == RevisionTypeOK /\ PreviewHasTheCharts
=============================================================================
