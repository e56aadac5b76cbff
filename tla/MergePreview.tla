---------------------------- MODULE MergePreview ----------------------------
(***************************************************************************)
(* What the pull request side of a comment is read from: the merge of main   *)
(* and the branch, which git computes in the mirror, or the tip of the branch *)
(* when git or the mirror cannot answer (_merge_preview, _mirror_is_ancestor). *)
(* A merge is only known to the mirror; its name is a function of both sides. *)
(*                                                                          *)
(* Commits are numbered, and whether two of them conflict never changes.  A   *)
(* merged pull request may stay in the list of the open ones for a while.    *)
(* How a commit becomes known to the mirror is in FileReads.                 *)
(***************************************************************************)
EXTENDS Naturals

CONSTANTS
    Mains,          \* bound: commits of main, 1..n
    Heads,          \* bound: commits of the branch, 1..n
    MaxDropped      \* bound: the caches grow past their size

VARIABLES
    conflicts,      \* the pairs <<main, head>> that do not merge
    main, head,     \* the latest commits
    mergedAt,       \* commits of main that brought in the branch: <<main, head>>
    listed,         \* the pull request is in the list of open ones
    fetched,        \* the commits the mirror has: those up to <<main, head>>
    previews,       \* _merge_preview_cache
    comment,        \* the published one, if any
    dropped

mergeVars == <<conflicts, main, head, mergedAt, listed, fetched, previews, comment, dropped>>

Pairs == Mains \X Heads

-----------------------------------------------------------------------------

Has(base, tip) == base <= fetched[1] /\ tip <= fetched[2]

\* _mirror_is_ancestor: sure only when the mirror has both and git answers.
InMain(base, tip, answers) ==
    answers /\ Has(base, tip) /\ \E p \in mergedAt : p[1] <= base /\ tip <= p[2]

\* Mutant of Key: the cache is keyed by the pull request alone.
KeyOfHead(base, tip) == <<1, tip>>

\* The key of _merge_preview_cache.
Key(base, tip) == <<base, tip>>

\* What git finds for a pair.
GitMerge(base, tip) == IF <<base, tip>> \in conflicts THEN "conflict" ELSE "merge"

\* _merge_preview: the cached answer, git's, or none.
Computed(base, tip, answers) ==
    LET hits == {p \in previews : p.key = Key(base, tip)}
    IN IF hits # {} THEN {p.kind : p \in hits}
       ELSE IF answers /\ Has(base, tip) THEN {GitMerge(base, tip)}
       ELSE {"unknown"}

\* Mutant of Kept: a merge that could not be computed is kept, too.
KeptUnknown(base, tip, kind) ==
    previews \cup {[key |-> Key(base, tip), kind |-> kind]}

\* Only a definite answer is kept.
Kept(base, tip, kind) ==
    previews \cup {[key |-> Key(base, tip), kind |-> k] : k \in {kind} \ {"unknown"}}

-----------------------------------------------------------------------------

MergeInit ==
    /\ conflicts \in SUBSET Pairs
    /\ main = 1 /\ head = 1 /\ mergedAt = {} /\ listed = TRUE
    /\ fetched \in {0, 1} \X {0, 1}
    /\ previews = {} /\ comment = {} /\ dropped = 0

\* Another pull request is merged.
MainMoves ==
    /\ main + 1 \in Mains
    /\ main' = main + 1
    /\ UNCHANGED <<conflicts, head, mergedAt, listed, fetched, previews, comment, dropped>>

PushBranch ==
    /\ head + 1 \in Heads /\ mergedAt = {}
    /\ head' = head + 1
    /\ UNCHANGED <<conflicts, main, mergedAt, listed, fetched, previews, comment, dropped>>

\* This one is merged.
MergePr ==
    /\ main + 1 \in Mains /\ mergedAt = {}
    /\ <<main, head>> \notin conflicts
    /\ main' = main + 1
    /\ mergedAt' = {<<main + 1, head>>}
    /\ UNCHANGED <<conflicts, head, listed, fetched, previews, comment, dropped>>

Delist ==
    /\ mergedAt # {} /\ listed
    /\ listed' = FALSE
    /\ UNCHANGED <<conflicts, main, head, mergedAt, fetched, previews, comment, dropped>>

\* mirror_sync
Fetch ==
    /\ fetched' = <<main, head>>
    /\ UNCHANGED <<conflicts, main, head, mergedAt, listed, previews, comment, dropped>>

\* process_pr up to the render.  A merged pull request is left alone; a merge
\* that cannot be computed falls back to the tip.
Evaluate(answers) ==
    /\ listed
    /\ ~InMain(main, head, answers)
    /\ \E kind \in Computed(main, head, answers) :
        /\ previews' = Kept(main, head, kind)
        /\ comment' = {[base |-> main, tip |-> head,
                        kind |-> IF kind = "unknown" THEN "tip" ELSE kind]}
    /\ UNCHANGED <<conflicts, main, head, mergedAt, listed, fetched, dropped>>

\* More than 512 previews: the cache is cleared whole.
DropPreviews ==
    /\ dropped < MaxDropped /\ previews # {}
    /\ previews' = {}
    /\ dropped' = dropped + 1
    /\ UNCHANGED <<conflicts, main, head, mergedAt, listed, fetched, comment>>

MergeNext ==
    \/ MainMoves \/ PushBranch \/ MergePr \/ Delist \/ Fetch \/ DropPreviews
    \/ \E answers \in BOOLEAN : Evaluate(answers)
MergeSpec == MergeInit /\ [][MergeNext]_mergeVars

-----------------------------------------------------------------------------

MergeTypeOK ==
    /\ conflicts \subseteq Pairs /\ <<main, head>> \in Pairs /\ mergedAt \subseteq Pairs
    /\ fetched \in (Mains \cup {0}) \X (Heads \cup {0})
    /\ previews \subseteq [key : Pairs, kind : {"merge", "conflict"}]
    /\ comment \subseteq [base : Mains, tip : Heads, kind : {"merge", "conflict", "tip"}]
    /\ listed \in BOOLEAN /\ dropped \in 0..MaxDropped

\* A comment that says "conflict", or shows a merge, is right about the two
\* commits it names, whatever main and the branch were when an answer was kept.
ConflictIsTold ==
    \A c \in comment : c.kind # "tip" => c.kind = GitMerge(c.base, c.tip)

\* The tip is shown only as long as nothing better can be known: once the
\* mirror has both commits and git answers, a preview of them tells the merge,
\* however often it failed before (_merge_preview: "degraded, never wrong about
\* conflicts, and it must be told apart from a conflict").
FallbackIsNotKept ==
    Has(main, head) => Computed(main, head, TRUE) = {GitMerge(main, head)}

\* What the proofs use: a kept answer is the one git gave for its two commits.
PreviewsAreRight == \A p \in previews : p.kind = GitMerge(p.key[1], p.key[2])
MergeInv == MergeTypeOK /\ PreviewsAreRight /\ ConflictIsTold
=============================================================================
