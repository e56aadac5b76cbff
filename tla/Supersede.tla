------------------------------ MODULE Supersede ------------------------------
(***************************************************************************)
(* How a pod's poll loop is woken, and how a render is given up when a     *)
(* webhook says that its snapshot is stale (src/src/diff_preview.py: main, *)
(* the Bitbucket half of do_POST, _maybe_record_supersede_hint, the        *)
(* supersede hints, and the parts of main_iteration and process_pr that    *)
(* use them).                                                              *)
(*                                                                         *)
(* The HTTP thread sets _wake first and records the hint later; webhooks   *)
(* may be late, overtake each other or be lost; several pull requests of   *)
(* one repository are processed at once and share the hint about main.     *)
(* Writes always succeed here: PrCycle has what happens when they do not.  *)
(***************************************************************************)
EXTENDS Integers, FiniteSets

CONSTANTS
    Prs,           \* the open pull requests against main
    Commits,       \* commits their branches can point at
    Tips,          \* tips of main, in the order they appear
    None,
    MaxStreak,     \* SUPERSEDE_MAX_CONSECUTIVE_ABORTS (3 in the code)
    MaxMoves       \* bound on the pushes, moves of main and changes of leader

ASSUME SupersedeAssumption ==
    /\ Tips \subseteq Nat /\ 1 \in Tips
    /\ None \notin Commits \cup Prs
    /\ {MaxStreak, MaxMoves} \subseteq Nat

VARIABLES
    heads, tip,    \* what Bitbucket holds
    hooks,         \* webhooks on their way
    handling,      \* webhooks whose handler has set _wake and not yet their hint
    wake,          \* _wake
    prHint,        \* _pr_superseded
    baseHint,      \* _base_superseded of main, the stamp kept as an order
    observed,      \* _base_observed of main
    streak,        \* _pr_supersede_aborts
    seen,          \* _seen
    leads,         \* is_leader()
    pc,            \* where the main thread is
    snapBase, snap,  \* the snapshot of the iteration
    prPc,          \* where the worker of each PR is
    published,     \* what each PR's comment and status are about
    news,          \* a webhook arrived that no iteration has looked for yet
    owed,          \* ghost: passes its webhooks may still cost each PR
    moves

bitbucket == <<heads, tip, hooks>>
hints     == <<prHint, baseHint, observed, streak>>
iteration == <<pc, snapBase, snap, prPc>>
ghosts    == <<news, owed>>
vars == <<bitbucket, handling, wake, hints, seen, leads, iteration, published,
          ghosts, moves>>

-----------------------------------------------------------------------------

(* A pullrequest:updated names the PR and its commit; a pullrequest:fulfilled *)
(* of some other PR names the new tip of main                                 *)
PushHooks  == [pr : Prs, sha : Commits]
MergeHooks == [pr : {None}, sha : Tips]

TypeOK ==
    /\ heads \in [Prs -> Commits] /\ tip \in Tips
    /\ hooks \subseteq PushHooks \cup MergeHooks
    /\ handling \subseteq PushHooks \cup MergeHooks
    /\ wake \in BOOLEAN /\ leads \in BOOLEAN /\ news \in BOOLEAN
    /\ prHint \in [Prs -> Commits \cup {None}]
    /\ baseHint \in {None} \cup [sha : Tips, later : BOOLEAN]
    /\ observed \in Tips \cup {None}
    /\ streak \in [Prs -> Nat]
    /\ seen \in [Prs -> {None} \cup (Commits \X Tips)]
    /\ published \in [Prs -> {None} \cup (Commits \X Tips)]
    /\ pc \in {"read", "observe", "list", "work", "wait", "woken"}
    /\ snapBase \in Tips \cup {None}
    /\ snap \in [Prs -> Commits \cup {None}]
    /\ prPc \in [Prs -> {"off", "queued", "base", "render", "write"}]
    /\ owed \in [Prs -> Int]
    /\ moves \in Nat

Init ==
    /\ \E c \in Commits : heads = [q \in Prs |-> c]
    /\ tip = 1
    /\ hooks = {} /\ handling = {}
    /\ wake = FALSE
    /\ prHint = [q \in Prs |-> None]
    /\ baseHint = None /\ observed = None
    /\ streak = [q \in Prs |-> 0]
    /\ seen = [q \in Prs |-> None]
    /\ leads \in BOOLEAN
    /\ pc = "read"
    /\ snapBase = None /\ snap = [q \in Prs |-> None]
    /\ prPc = [q \in Prs |-> "off"]
    /\ published = [q \in Prs |-> None]
    /\ news = FALSE
    /\ owed = [q \in Prs |-> 0]
    /\ moves = 0

-----------------------------------------------------------------------------
(* Bitbucket *)

Move == moves < MaxMoves /\ moves' = moves + 1

(* A push, and its webhook; one that is never delivered is lost *)
Push(q) ==
    /\ Move
    /\ \E c \in Commits \ {heads[q]} :
        /\ heads' = [heads EXCEPT ![q] = c]
        /\ hooks' = hooks \cup {[pr |-> q, sha |-> c]}
    /\ UNCHANGED <<tip, handling, wake, hints, seen, leads, iteration, published,
                   ghosts>>

(* main moves, by a merge, or by a direct push: then it has no webhook and is *)
(* the case of a lost one                                                     *)
Advance ==
    /\ Move
    /\ tip + 1 \in Tips
    /\ tip' = tip + 1
    /\ hooks' = hooks \cup {[pr |-> None, sha |-> tip + 1]}
    /\ UNCHANGED <<heads, handling, wake, hints, seen, leads, iteration, published,
                   ghosts>>

-----------------------------------------------------------------------------
(* The HTTP thread: do_POST /diff-preview/webhook *)

Wake(h) ==
    /\ h \in hooks
    /\ hooks' = hooks \ {h}
    /\ handling' = handling \cup {h}
    /\ wake' = TRUE
    /\ news' = TRUE
    /\ UNCHANGED <<heads, tip, hints, seen, leads, iteration, published,
                   owed, moves>>

(* Mutant of RecordHint: a push to a PR's branch is taken for a move of main *)
RecordHintOfMain(h) ==
    /\ h \in handling
    /\ handling' = handling \ {h}
    /\ baseHint' = [sha |-> h.sha, later |-> TRUE]
    /\ owed' = [q \in Prs |-> owed[q] + 1]
    /\ UNCHANGED <<bitbucket, wake, prHint, observed, streak, seen, leads, iteration,
                   published, news, moves>>

(* _maybe_record_supersede_hint: a base hint is stamped later than every     *)
(* observation so far                                                        *)
RecordHint(h) ==
    /\ h \in handling
    /\ handling' = handling \ {h}
    /\ IF h \in PushHooks
       THEN /\ prHint' = [prHint EXCEPT ![h.pr] = h.sha]
            /\ UNCHANGED baseHint
            /\ owed' = [owed EXCEPT ![h.pr] = @ + 2]
       ELSE /\ baseHint' = [sha |-> h.sha, later |-> TRUE]
            /\ UNCHANGED prHint
            /\ owed' = [q \in Prs |-> owed[q] + 1]
    /\ UNCHANGED <<bitbucket, wake, observed, streak, seen, leads, iteration,
                   published, news, moves>>

-----------------------------------------------------------------------------
(* The main thread: main and main_iteration *)

(* A leader begins an iteration by reading main *)
ReadBase ==
    /\ pc = "read"
    /\ IF leads THEN pc' = "observe" /\ snapBase' = tip
                ELSE pc' = "wait" /\ UNCHANGED snapBase
    /\ news' = FALSE
    /\ UNCHANGED <<bitbucket, handling, wake, hints, seen, leads, snap, prPc,
                   published, owed, moves>>

(* Mutant of Observe: the observation takes no stamp of its own *)
ObserveUnstamped ==
    /\ pc = "observe"
    /\ pc' = "list"
    /\ observed' = snapBase
    /\ UNCHANGED <<bitbucket, handling, wake, prHint, baseHint, streak, seen, leads,
                   snapBase, snap, prPc, published, ghosts, moves>>

(* _note_base_observed: whatever hint there is, is older now *)
Observe ==
    /\ pc = "observe"
    /\ pc' = "list"
    /\ observed' = snapBase
    /\ baseHint' = IF baseHint = None \/ baseHint.sha # snapBase THEN None
                   ELSE [sha |-> snapBase, later |-> FALSE]
    /\ UNCHANGED <<bitbucket, handling, wake, prHint, streak, seen, leads,
                   snapBase, snap, prPc, published, ghosts, moves>>

(* get_open_prs, and the PRs go to the pool *)
ListPrs ==
    /\ pc = "list"
    /\ pc' = "work"
    /\ snap' = heads
    /\ prPc' = [q \in Prs |-> "queued"]
    /\ UNCHANGED <<bitbucket, handling, wake, hints, seen, leads, snapBase,
                   published, ghosts, moves>>

(* Mutant of EndIteration: the event is cleared before the wait *)
EndIterationClears ==
    /\ pc = "work"
    /\ \A q \in Prs : prPc[q] = "off"
    /\ pc' = "wait"
    /\ wake' = FALSE
    /\ snapBase' = None /\ snap' = [q \in Prs |-> None]
    /\ UNCHANGED <<bitbucket, handling, hints, seen, leads, prPc, published,
                   ghosts, moves>>

EndIteration ==
    /\ pc = "work"
    /\ \A q \in Prs : prPc[q] = "off"
    /\ pc' = "wait"
    /\ snapBase' = None /\ snap' = [q \in Prs |-> None]
    /\ UNCHANGED <<bitbucket, handling, wake, hints, seen, leads, prPc, published,
                   ghosts, moves>>

(* _wake.wait returns, woken or after its timeout *)
WaitOver ==
    /\ pc = "wait"
    /\ pc' = "woken"
    /\ UNCHANGED <<bitbucket, handling, wake, hints, seen, leads, snapBase, snap,
                   prPc, published, ghosts, moves>>

ClearWake ==
    /\ pc = "woken"
    /\ pc' = "read"
    /\ wake' = FALSE
    /\ UNCHANGED <<bitbucket, handling, hints, seen, leads, snapBase, snap, prPc,
                   published, ghosts, moves>>

-----------------------------------------------------------------------------
(* The workers: process_pr *)

Leave(q) == prPc' = [prPc EXCEPT ![q] = "off"]

(* _note_supersede_abort, and nothing is published or remembered *)
Abort(q) ==
    /\ Leave(q)
    /\ streak' = [streak EXCEPT ![q] = @ + 1]
    /\ owed' = [owed EXCEPT ![q] = @ - 1]

(* A pod that no longer leads drops the PR; _arm_supersede consumes the hint *)
(* and does not look at the streak                                           *)
Arm(q) ==
    /\ prPc[q] = "queued"
    /\ IF ~leads
       THEN Leave(q) /\ UNCHANGED <<prHint, streak, owed>>
       ELSE /\ prHint' = [prHint EXCEPT ![q] = None]
            /\ IF prHint[q] \notin {None, snap[q]} THEN Abort(q)
               ELSE /\ prPc' = [prPc EXCEPT ![q] = "base"]
                    /\ UNCHANGED <<streak, owed>>
    /\ UNCHANGED <<bitbucket, handling, wake, baseHint, observed, seen, leads,
                   pc, snapBase, snap, published, news, moves>>

(* _base_superseded_by *)
BaseSuperseded(q) ==
    /\ streak[q] < MaxStreak
    /\ baseHint # None
    /\ baseHint.sha # snapBase
    /\ ~(observed = snapBase /\ ~baseHint.later)

(* The check of main, then the _seen dedup *)
CheckBase(q) ==
    /\ prPc[q] = "base"
    /\ IF BaseSuperseded(q) THEN Abort(q)
       ELSE /\ UNCHANGED <<streak, owed>>
            /\ IF seen[q] = <<snap[q], snapBase>> THEN Leave(q)
               ELSE prPc' = [prPc EXCEPT ![q] = "render"]
    /\ UNCHANGED <<bitbucket, handling, wake, prHint, baseHint, observed, seen, leads,
                   pc, snapBase, snap, published, news, moves>>

(* _superseded *)
Superseded(q) ==
    /\ streak[q] < MaxStreak
    /\ prHint[q] \notin {None, snap[q]}

(* Mutant of AbortRender: a render that was given up counts as seen *)
AbortRenderSeen(q) ==
    /\ prPc[q] = "render"
    /\ Superseded(q)
    /\ Abort(q)
    /\ seen' = [seen EXCEPT ![q] = <<snap[q], snapBase>>]
    /\ UNCHANGED <<bitbucket, handling, wake, prHint, baseHint, observed, leads,
                   pc, snapBase, snap, published, news, moves>>

(* process_batch looks after every diff and once more at its end *)
AbortRender(q) ==
    /\ prPc[q] = "render"
    /\ Superseded(q)
    /\ Abort(q)
    /\ UNCHANGED <<bitbucket, handling, wake, prHint, baseHint, observed, seen, leads,
                   pc, snapBase, snap, published, news, moves>>

Rendered(q) ==
    /\ prPc[q] = "render"
    /\ ~Superseded(q)
    /\ prPc' = [prPc EXCEPT ![q] = "write"]
    /\ UNCHANGED <<bitbucket, handling, wake, hints, seen, leads, pc, snapBase, snap,
                   published, ghosts, moves>>

(* Both writes land, or both are skipped by a pod that no longer leads;      *)
(* _seen_after_writes ends the streak                                        *)
Publish(q) ==
    /\ prPc[q] = "write"
    /\ Leave(q)
    /\ IF leads
       THEN /\ published' = [published EXCEPT ![q] = <<snap[q], snapBase>>]
            /\ seen' = [seen EXCEPT ![q] = <<snap[q], snapBase>>]
            /\ streak' = [streak EXCEPT ![q] = 0]
       ELSE UNCHANGED <<published, seen, streak>>
    /\ UNCHANGED <<bitbucket, handling, wake, prHint, baseHint, observed, leads,
                   pc, snapBase, snap, ghosts, moves>>

Handover ==
    /\ Move
    /\ leads' = ~leads
    /\ UNCHANGED <<bitbucket, handling, wake, hints, seen, iteration, published,
                   ghosts>>

-----------------------------------------------------------------------------

Loop == ReadBase \/ Observe \/ ListPrs \/ EndIteration \/ WaitOver \/ ClearWake

Work(q) == Arm(q) \/ CheckBase(q) \/ AbortRender(q) \/ Rendered(q) \/ Publish(q)

Next ==
    \/ Loop
    \/ \E q \in Prs : Work(q) \/ Push(q)
    \/ \E h \in hooks : Wake(h)
    \/ \E h \in handling : RecordHint(h)
    \/ Advance
    \/ Handover

(* The main thread and the workers go on, and a wait ends at the latest with *)
(* its timeout; webhooks are promised nothing                                *)
Fairness == WF_vars(Loop) /\ \A q \in Prs : WF_vars(Work(q))

Spec == Init /\ [][Next]_vars /\ Fairness

-----------------------------------------------------------------------------
(* Properties *)

(* No wake-up is lost (main, _wake): while the loop waits, a webhook that no *)
(* iteration has looked for yet ends the wait at once.                       *)
NoWakeLost == pc = "wait" /\ news => wake

(* What webhooks may cost: one about a push two passes of its PR (seen while *)
(* it renders and consumed at the next entry), one about a merge one pass of *)
(* each PR, however stale they are and in whatever order they come           *)
(* (_arm_supersede, _superseded, _base_superseded_by).                       *)
AbortsArePaidFor == \A q \in Prs : owed[q] >= 0

(* "after this many consecutive aborts on one PR, the run finishes           *)
(* regardless" (docs/reference.md:518).                                      *)
StreakIsBounded == \A q \in Prs : streak[q] <= MaxStreak

(* Every PR is published at its head and at the tip of main.  Once pushes    *)
(* and merges stop, a pod that keeps the lease gets there and stays there,   *)
(* whatever hints are left behind, lost or late (process_pr,                 *)
(* _note_base_observed).                                                     *)
UpToDate == \A q \in Prs : published[q] = <<heads[q], tip>>
=============================================================================
