------------------------------ MODULE Teardown ------------------------------
(***************************************************************************)
(* Taking a private-cloud environment down, over several pull requests: the *)
(* decommission flag is merged, ArgoCD puts its cascade finalizer on the     *)
(* applications, a hold runs, and a last pull request removes the folder.    *)
(* The gates of that last one are computed from main, from the history of    *)
(* the file and from the live applications; between the verdict and the      *)
(* merge, and between the merge and the cluster, time passes.  One pull      *)
(* request is open at a time.                                                *)
(*                                                                          *)
(* ArgoCD is external: its ApplicationSet writes the finalizer, and deleting *)
(* the application cascades when the finalizer is there.                     *)
(***************************************************************************)
EXTENDS Naturals, Sequences

CONSTANTS
    Hold,       \* DECOM_HOLD_DAYS
    MaxDay,     \* bound: days that pass
    MaxMerges   \* bound: merged pull requests

\* A folder's flags.  A misspelled decommission flag is a flag nobody reads.
Flags == {"decommission", "zeroPods", "misspelled"}
Trailers == {"teardown", "decommission"}
NoPr == [kind |-> "none"]
Removed == {"removed"}

VARIABLES
    main,       \* the flags of the folder on main, or Removed
    history,    \* the commits of the file on main, newest first
    day,
    finalizer,  \* the cascade finalizer is on the live applications
    pr,         \* the open pull request, its trailers, its verdict and what the comment
                \* was written from: did ArgoCD answer, does the removal cascade, and
                \* auxiliary: could the folder's own file not be read, and was it removed
                \* without the flag before ArgoCD dropped the finalizer
    ending,     \* what became of the environment
    onSince     \* auxiliary: the day a flag of the hold became true for good, or Never

downVars == <<main, history, day, finalizer, pr, ending, onSince>>

Never == MaxDay + 1
There == main # Removed

\* A flag that starts the hold.
Counts(flags) == {"decommission", "zeroPods"} \cap flags # {}

-----------------------------------------------------------------------------
(* The gates of a pull request.                                            *)

\* Mutant of HoldMet: some commit old enough had a flag, whatever came after.
HoldOnce == \E i \in DOMAIN history : history[i].on /\ history[i].day + Hold <= day

\* Walking back from the newest commit, a flag was true down to one old enough.
HoldMet ==
    \E i \in DOMAIN history :
        /\ history[i].day + Hold <= day
        /\ \A j \in 1..i : history[j].on

\* Mutant of NotLive: the declared flag is taken for the live finalizer.
DeclaredIsLive(argocd) == {}

\* ArgoCD answers that the finalizer is not there; no answer is no gate.
NotLive(argocd) == IF argocd = "answers" /\ ~finalizer THEN {"not_live"} ELSE {}

HoldGate(mirror) ==
    CASE mirror = "unready" -> {"hold_retry"}
      [] mirror = "unreadable" -> {"hold_unread"}
      [] OTHER -> IF HoldMet THEN {} ELSE {"hold"}

\* The folder's own file on main opts into the cascade; a file that cannot be
\* read has no flags.
Cascades(identity) == identity = "read" /\ "decommission" \in main

\* Mutant of RemovalGates: a file that cannot be read says nothing.
GatesOfRead(argocd, mirror, identity) ==
    CASE identity = "unread" -> {}
      [] Cascades("read") -> NotLive(argocd) \cup HoldGate(mirror)
      [] OTHER -> {"orphan"}

RemovalGates(argocd, mirror, identity) ==
    IF Cascades(identity)
      THEN NotLive(argocd) \cup HoldGate(mirror)
      ELSE {"orphan"} \cup (IF identity = "read" /\ "misspelled" \in main THEN {"typo"} ELSE {})

\* A pull request that sets a misspelled flag and does not arm the right one.
EditGates(flags) ==
    IF "misspelled" \in flags \ main /\ "decommission" \notin flags THEN {"typo"} ELSE {}

Transient == {"not_live", "hold_retry"}

LiftedBy(trailers) ==
    (IF "teardown" \in trailers THEN {"orphan"} ELSE {})
    \cup (IF "decommission" \in trailers THEN {"hold", "hold_unread"} ELSE {})

Verdict(open) ==
    CASE open = {} -> "green"
      [] open # {} /\ open \subseteq Transient -> "waiting"
      [] OTHER -> "blocked"

-----------------------------------------------------------------------------
(* The pull request.                                                       *)

Open ==
    /\ pr = NoPr /\ There /\ Len(history) < MaxMerges
    /\ \E trailers \in SUBSET Trailers :
         \/ \E flags \in (SUBSET Flags) \ {main} :
              pr' = [kind |-> "edit", flags |-> flags, trailers |-> trailers,
                     verdict |-> "unseen", asked |-> FALSE, cascade |-> FALSE,
                     unread |-> FALSE, lags |-> FALSE]
         \/ pr' = [kind |-> "removal", flags |-> {}, trailers |-> trailers,
                   verdict |-> "unseen", asked |-> FALSE, cascade |-> FALSE,
                   unread |-> FALSE, lags |-> FALSE]
    /\ UNCHANGED <<main, history, day, finalizer, ending, onSince>>

\* Mutant of Due: a transient verdict is remembered as seen.
DueOnce == pr.verdict = "unseen"

\* The poll loop evaluates what it has not seen, and a transient verdict again.
Due == pr.verdict \in {"unseen", "waiting"}

Evaluate(argocd, mirror, identity) ==
    /\ There /\ pr # NoPr
    /\ Due
    /\ LET gates == IF pr.kind = "removal" THEN RemovalGates(argocd, mirror, identity)
                                           ELSE EditGates(pr.flags)
       IN pr' = [pr EXCEPT !.verdict = Verdict(gates \ LiftedBy(pr.trailers)),
                           !.asked = argocd = "answers",
                           !.cascade = Cascades(identity),
                           !.unread = identity = "unread"]
    /\ UNCHANGED <<main, history, day, finalizer, ending, onSince>>

\* A new commit brings the trailer the panel asked for.
Confirm ==
    /\ There /\ pr # NoPr /\ pr.trailers # Trailers
    /\ pr' = [pr EXCEPT !.trailers = Trailers, !.verdict = "unseen"]
    /\ UNCHANGED <<main, history, day, finalizer, ending, onSince>>

Merge ==
    /\ There /\ pr # NoPr /\ pr.verdict = "green"
    /\ IF pr.kind = "edit"
         THEN /\ main' = pr.flags
              /\ history' = <<[day |-> day, on |-> Counts(pr.flags)]>> \o history
              /\ onSince' = IF ~Counts(pr.flags) THEN Never
                            ELSE IF Counts(main) THEN onSince ELSE day
              /\ pr' = NoPr
         ELSE /\ main' = Removed
              /\ pr' = [pr EXCEPT !.lags = finalizer /\ "decommission" \notin main]
              /\ UNCHANGED <<history, onSince>>
    /\ UNCHANGED <<day, finalizer, ending>>

Abandon ==
    /\ There /\ pr # NoPr
    /\ pr' = NoPr
    /\ UNCHANGED <<main, history, day, finalizer, ending, onSince>>

-----------------------------------------------------------------------------
(* ArgoCD and time.                                                        *)

\* The ApplicationSet writes the finalizer, a paused environment's too.
ApplyFinalizer ==
    /\ There
    /\ finalizer # ("decommission" \in main)
    /\ finalizer' = ("decommission" \in main)
    /\ UNCHANGED <<main, history, day, pr, ending, onSince>>

\* The applications of a removed folder go; the finalizer takes everything along.
Prune ==
    /\ ~There /\ ending = "running"
    /\ ending' = IF finalizer THEN "deleted" ELSE "orphaned"
    /\ UNCHANGED <<main, history, day, finalizer, pr, onSince>>

NextDay ==
    /\ There /\ day < MaxDay
    /\ day' = day + 1
    /\ UNCHANGED <<main, history, finalizer, pr, ending, onSince>>

DownInit ==
    /\ main \in {{}, {"zeroPods"}}
    /\ history = <<[day |-> 0, on |-> Counts(main)]>>
    /\ day = 0
    /\ finalizer = FALSE
    /\ pr = NoPr
    /\ ending = "running"
    /\ onSince = IF Counts(main) THEN 0 ELSE Never

DownNext ==
    \/ Open \/ Confirm \/ Merge \/ Abandon
    \/ \E argocd \in {"answers", "fails"}, mirror \in {"ready", "unready", "unreadable"},
         identity \in {"read", "unread"} : Evaluate(argocd, mirror, identity)
    \/ ApplyFinalizer \/ Prune \/ NextDay

\* The controller and the poll loop keep running, and lookups that fail
\* for a while succeed again.
DownFairness ==
    /\ WF_downVars(ApplyFinalizer)
    /\ SF_downVars(Evaluate("answers", "ready", "read"))

DownSpec == DownInit /\ [][DownNext]_downVars /\ DownFairness

-----------------------------------------------------------------------------
DownTypeOK ==
    /\ main = Removed \/ main \subseteq Flags
    /\ history \in Seq([day : 0..MaxDay, on : BOOLEAN])
    /\ day \in 0..MaxDay /\ onSince \in 0..Never
    /\ finalizer \in BOOLEAN
    /\ pr = NoPr \/ pr \in [kind : {"edit", "removal"}, flags : SUBSET Flags,
                            trailers : SUBSET Trailers, asked : BOOLEAN, cascade : BOOLEAN,
                            unread : BOOLEAN, lags : BOOLEAN,
                            verdict : {"unseen", "green", "waiting", "blocked"}]
    /\ ending \in {"running", "deleted", "orphaned"}

\* Workloads are left running without a word only when the comment announced a
\* cascade and ArgoCD could not be asked: every other removal that does not
\* cascade was confirmed as such.
NoSilentOrphan ==
    ending = "orphaned" => "teardown" \in pr.trailers \/ (pr.cascade /\ ~pr.asked)

\* A deleted environment had one of its two flags on main without a break for the
\* whole hold, or somebody hurried it.  Two removals are deleted with neither,
\* under a comment that said they would be left running, and that somebody
\* confirmed: the folder's file could not be read, or the flag was taken back and
\* ArgoCD had not dropped the finalizer yet.
HoldIsServed ==
    ending = "deleted" =>
        \/ "decommission" \in pr.trailers
        \/ onSince + Hold <= day
        \/ /\ ~pr.cascade /\ "teardown" \in pr.trailers
           /\ pr.unread \/ pr.lags

\* A removed environment is left running only where the comment said so or ArgoCD
\* did not answer, and deleted only after the hold, hurried, or in one of the two
\* cases the gates cannot see (_evaluate_env_decommissions).
TeardownIsServed == NoSilentOrphan /\ HoldIsServed

\* A removal that only waits for ArgoCD or for the mirror does not wait for
\* ever.  What is true again and again.
WaitingEnds == pr = NoPr \/ pr.verdict # "waiting"

\* What the proofs use: the history tells since when the flags count; main does
\* not change under an open removal, so what a green one was computed from is
\* still so, and its folder stays removed.
HistoryTells ==
    /\ 1 \in DOMAIN history
    /\ \A i \in DOMAIN history : history[i].day <= day
    /\ \A i \in DOMAIN history : (\A j \in 1..i : history[j].on) => onSince <= history[i].day
    /\ There => history[1].on = Counts(main)
GreenHolds ==
    pr.kind = "removal" /\ pr.verdict = "green" =>
        /\ There => (pr.cascade <=> ~pr.unread /\ "decommission" \in main)
        /\ ~There /\ ~pr.cascade /\ finalizer => pr.unread \/ pr.lags
        /\ pr.cascade /\ pr.asked => finalizer
        /\ ~pr.cascade => "teardown" \in pr.trailers
        /\ pr.cascade => "decommission" \in pr.trailers \/ onSince + Hold <= day
Leaves ==
    IF There THEN ending = "running" ELSE pr.kind = "removal" /\ pr.verdict = "green"
DownInv == DownTypeOK /\ HistoryTells /\ GreenHolds /\ Leaves /\ TeardownIsServed
=============================================================================
