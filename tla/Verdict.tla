------------------------------ MODULE Verdict ------------------------------
(***************************************************************************)
(* What one run of process_pr concludes, and every place that concludes    *)
(* it.  The diffs of the affected applications arrive in any order and may *)
(* be cut short by the cap, by a newer push and by SIGTERM.  Then the same *)
(* question, is this pull request fit to merge and is it worth trying      *)
(* again, is answered three times by separate code: the token in the       *)
(* comment's footer (_comment_status_token, format_new_env_comment), the   *)
(* colour of the build (process_pr), and whether the commit is marked seen *)
(* (process_pr).  A fourth reader, fix_stuck_inprogress, derives the       *)
(* colour again from the token when the pod that knew the answer is gone.  *)
(*                                                                         *)
(* PrCycle has the life of a pull request around such a run and keeps the  *)
(* verdict itself as one value; here it is taken apart.                    *)
(***************************************************************************)
EXTENDS Naturals, FiniteSets

CONSTANTS Apps,     \* the applications the pull request may touch
          Limit     \* MAX_APPS_PER_RUN

VARIABLES pr,        \* what the pull request does, found as the run goes on
          phase,     \* how far the run has come
          results,   \* app_results: application -> outcome or its reason
          skipped,   \* skipped_apps, the applications over the cap
          newer,     \* the webhook has noted a newer head for the PR
          stopping,  \* _shutdown
          comment,   \* the token of this commit's comment, or "none"
          status,    \* the build status of the commit
          retry,     \* what the run left behind: "seen", "backoff" or "none"
          writes     \* the results of the final writes, and "raised" when the
                     \* run ended in the catch-all

verdictVars == <<pr, phase, results, skipped, newer, stopping, comment, status,
                 retry, writes>>

-----------------------------------------------------------------------------
(* vocabulary: what a diff can end in.  Every indeterminate result carries *)
(* a reason; one stands for each class the code tells apart.               *)

Computed == {"diff", "no_diff"}
RetryableReasons == {"timeout"}
SelfResolvingReasons == {"oci_not_found"}
PermanentReasons == {"template_failed"} \cup SelfResolvingReasons
Indeterminate == RetryableReasons \cup PermanentReasons
Outcomes == Computed \cup Indeterminate \cup {"error"}

\* The findings that neither a retry nor a commit message removes.
Blockers == {"broken_arming", "flag_typo", "kcc_nil"}

\* before: the build status the run leaves on the commit as it starts, which is
\* that of an older render when the INPROGRESS post is lost or never made;
\* touched: matched applications; gone: those of a confirmed teardown;
\* envs: the new environments (none, fine, waiting for a chart, structurally
\* wrong); lost: a move without a cohort; gates: the tokens of the open gates.
PullRequests ==
    {p \in [before: {"none", "INPROGRESS", "FAILED", "SUCCESSFUL"},
            touched: SUBSET Apps, gone: SUBSET Apps,
            envs: {"none", "fine", "awaiting", "hard"}, lost: BOOLEAN,
            blockers: SUBSET Blockers, gates: SUBSET {"blocked", "transient"}] :
        /\ p.gone \subseteq p.touched
        /\ Cardinality(p.blockers) <= 1
        /\ p.touched = {} => p.blockers = {} /\ ~p.lost}

\* gate_token: the blocking gates speak first.
GateToken(p) == IF "blocked" \in p.gates THEN "blocked"
                ELSE IF "transient" \in p.gates THEN "transient"
                ELSE "none"

Found(S) == \E a \in DOMAIN results : results[a] \in S

-----------------------------------------------------------------------------
(* _comment_status_token: the token of a comment with diffs.  A misspelled *)
(* flag takes the early return of format_comment, with the same token.     *)

NewEnvStructural(p) == p.envs \in {"awaiting", "hard"} \/ p.lost
NewEnvAwaiting(p) == p.envs = "awaiting" /\ ~p.lost

\* Mutant of DiffToken: [clean] for a list that was cut at the cap.
DiffTokenUncapped(p) ==
    IF Found({"error"}) \/ p.envs = "hard" \/ p.lost \/ p.blockers # {} THEN "permanent"
    ELSE IF GateToken(p) = "blocked" THEN "blocked"
    ELSE IF Found(PermanentReasons \ SelfResolvingReasons) THEN "permanent"
    ELSE IF Found(Indeterminate) \/ p.envs = "awaiting" \/ GateToken(p) = "transient"
    THEN "transient"
    ELSE "clean"

DiffToken(p) ==
    IF \/ Found({"error"})
       \/ NewEnvStructural(p) /\ ~NewEnvAwaiting(p)
       \/ p.blockers # {}
    THEN "permanent"
    ELSE IF GateToken(p) = "blocked" THEN "blocked"
    ELSE IF Found(Indeterminate) \/ NewEnvAwaiting(p)
    THEN IF Found(PermanentReasons \ SelfResolvingReasons)
         THEN "permanent" ELSE "transient"
    ELSE IF GateToken(p) = "transient" THEN "transient"
    ELSE IF skipped # {} THEN "permanent"
    ELSE "clean"

\* format_new_env_comment: the pull request only adds environments.
NewEnvToken(p) ==
    IF p.envs = "hard" \/ GateToken(p) = "blocked" THEN "blocked"
    ELSE IF p.envs = "awaiting" \/ GateToken(p) = "transient" THEN "transient"
    ELSE "clean"

Token(p) == IF p.touched # {} THEN DiffToken(p)
            ELSE IF p.envs # "none" THEN NewEnvToken(p)
            ELSE "clean"

-----------------------------------------------------------------------------
(* process_pr: the colour of the build and the retry, from its own flags.  *)

DiffState(p) ==
    IF \/ Found({"error"} \cup PermanentReasons)
       \/ p.envs \in {"awaiting", "hard"}
       \/ p.lost
       \/ p.blockers # {}
       \/ GateToken(p) # "none"
    THEN "FAILED"
    ELSE IF skipped # {} THEN "FAILED"
    ELSE IF Found(Indeterminate) THEN "FAILED"
    ELSE "SUCCESSFUL"

NewEnvState(p) == IF NewEnvToken(p) = "clean" THEN "SUCCESSFUL" ELSE "FAILED"

State(p) == IF p.touched # {} THEN DiffState(p)
            ELSE IF p.envs # "none" THEN NewEnvState(p)
            ELSE "SUCCESSFUL"

\* Mutant of IsPermanentFailure: no reason ever resolves by itself.
IsPermanentFailureAny(p) ==
    \/ Found({"error"} \cup PermanentReasons)
    \/ p.envs = "hard" \/ p.lost \/ p.blockers # {} \/ GateToken(p) = "blocked"

IsPermanentFailure(p) ==
    \/ Found({"error"} \cup (PermanentReasons \ SelfResolvingReasons))
    \/ p.envs = "hard"
    \/ p.lost
    \/ p.blockers # {}
    \/ GateToken(p) = "blocked"

IsTransientFailure(p) ==
    /\ \/ Found(Indeterminate)
       \/ GateToken(p) = "transient"
       \/ p.envs \in {"awaiting", "hard"}
    /\ ~IsPermanentFailure(p)

\* The new-environment path asks the token it has just written.
WillRetry(p) == IF p.touched # {} THEN IsTransientFailure(p)
                ELSE p.envs # "none" /\ NewEnvToken(p) = "transient"

\* _seen_after_writes; what an iteration leaves when the writes were skipped
\* is up to the new leader.
AfterWrites(w) == IF "transient" \in w THEN "backoff"
                  ELSE IF w \subseteq {"ok", "permanent"} THEN "seen"
                  ELSE "none"

Left(p, w) == IF WillRetry(p) THEN "backoff" ELSE AfterWrites(w)

\* fix_stuck_inprogress: the colour a token stands for.
StateOf(token) == IF token = "clean" THEN "SUCCESSFUL" ELSE "FAILED"

-----------------------------------------------------------------------------

VerdictTypeOK ==
    /\ pr \in PullRequests
    /\ phase \in {"batch", "first", "second", "done", "discarded", "killed",
                  "recovered"}
    /\ DOMAIN results \subseteq pr.touched
    /\ \A a \in DOMAIN results : results[a] \in Outcomes \cup {"decommissioned"}
    /\ skipped \subseteq pr.touched
    /\ newer \in BOOLEAN
    /\ stopping \in BOOLEAN
    /\ comment \in {"none", "clean", "permanent", "blocked", "transient"}
    /\ status \in {"none", "INPROGRESS", "FAILED", "SUCCESSFUL"}
    /\ retry \in {"none", "seen", "backoff"}
    /\ writes \subseteq {"ok", "permanent", "transient", "skipped", "raised"}

\* The run has matched the files, skipped the torn-down applications and cut
\* the list at the cap, and has announced itself or not.
VerdictInit ==
    /\ pr \in PullRequests
    /\ phase = "batch"
    /\ results = [a \in pr.gone |-> "decommissioned"]
    /\ LET rest == pr.touched \ pr.gone
       IN /\ skipped \in SUBSET rest
          /\ IF Cardinality(rest) > Limit
             THEN Cardinality(rest \ skipped) = Limit
             ELSE skipped = {}
    /\ newer = FALSE
    /\ stopping = FALSE
    /\ comment = "none"
    /\ status = pr.before
    /\ retry = "none"
    /\ writes = {}

Pending == pr.touched \ (skipped \cup DOMAIN results)

\* run_diff and process_batch: a diff is done, or its worker raised; its
\* result counts unless the batch was broken off first.
Result(a, o) ==
    /\ phase = "batch"
    /\ ~newer
    /\ ~stopping
    /\ a \in Pending
    /\ results' = [x \in DOMAIN results \cup {a} |-> IF x = a THEN o ELSE results[x]]
    /\ UNCHANGED <<pr, phase, skipped, newer, stopping, comment, status, retry, writes>>

\* The webhook thread and the signal handler.
Supersede ==
    /\ phase = "batch"
    /\ ~newer
    /\ newer' = TRUE
    /\ UNCHANGED <<pr, phase, results, skipped, stopping, comment, status, retry, writes>>

Sigterm ==
    /\ phase = "batch"
    /\ ~stopping
    /\ stopping' = TRUE
    /\ UNCHANGED <<pr, phase, results, skipped, newer, comment, status, retry, writes>>

\* The two guards behind the batch: nothing is published for a dead commit,
\* and nothing from a part of the batch.
DiscardsTheDead == pr.touched # {} /\ newer     \* mutant of Discards

Discards == pr.touched # {} /\ (newer \/ (stopping /\ Pending # {}))

Conclude ==
    /\ phase = "batch"
    /\ Pending = {} \/ newer \/ stopping
    /\ phase' = IF Discards THEN "discarded" ELSE "first"
    /\ UNCHANGED <<pr, results, skipped, newer, stopping, comment, status, retry, writes>>

\* A pull request that touches an application gets its comment first, one that
\* only adds environments (or nothing) its status first.
Turn(write) == IF pr.touched # {} THEN phase = (IF write = "comment" THEN "first" ELSE "second")
               ELSE phase = (IF write = "status" THEN "first" ELSE "second")

\* After the second write the run decides to look at this commit again or not.
Wrote(w) ==
    /\ writes' = writes \cup {w}
    /\ phase' = IF phase = "first" THEN "second" ELSE "done"
    /\ retry' = IF phase = "first" THEN retry ELSE Left(pr, writes \cup {w})
    /\ UNCHANGED <<pr, results, skipped, newer, stopping>>

\* upsert_comment, after the page of the full diff is saved.
PublishComment(w) ==
    /\ Turn("comment")
    /\ comment' = IF w = "ok" THEN Token(pr) ELSE comment
    /\ Wrote(w)
    /\ UNCHANGED status

\* post_build_status.
PublishStatus(w) ==
    /\ Turn("status")
    /\ status' = IF w = "ok" THEN State(pr) ELSE status
    /\ Wrote(w)
    /\ UNCHANGED comment

\* The catch-all, from anywhere before the last write: status first, then the
\* comment, over what the run has published; a failed write is ignored.
Raise(token, posted, written) ==
    /\ phase \in {"batch", "first", "second"}
    /\ status' = IF posted THEN "FAILED" ELSE status
    /\ comment' = IF written THEN token ELSE comment
    /\ retry' = IF token = "transient" THEN "backoff" ELSE "none"
    /\ phase' = "killed"    \* the exception ends the run as a kill would
    /\ writes' = writes \cup {"raised"}
    /\ UNCHANGED <<pr, results, skipped, newer, stopping>>

\* SIGKILL, or an exception nobody catches.
Kill ==
    /\ phase \in {"batch", "first", "second", "done"}
    /\ phase' = "killed"
    /\ retry' = "none"
    /\ UNCHANGED <<pr, results, skipped, newer, stopping, comment, status, writes>>

\* Mutant of Mended: every final status stays.
MendedFinal(now, token) ==
    IF now \in {"INPROGRESS", "none"} THEN StateOf(token) ELSE now

\* The next run that finds this commit's comment up to date mends the status
\* from it: a final status stays, except a green one under a red comment.
Mended(now, token) ==
    IF now \in {"INPROGRESS", "none"} THEN StateOf(token)
    ELSE IF now = "SUCCESSFUL" /\ StateOf(token) = "FAILED" THEN "FAILED"
    ELSE now

Recover ==
    /\ phase = "killed"
    /\ comment \notin {"none", "transient"}
    /\ status' = Mended(status, comment)
    /\ retry' = "seen"
    /\ phase' = "recovered"
    /\ UNCHANGED <<pr, results, skipped, newer, stopping, comment, writes>>

WriteResults == {"ok", "permanent", "transient", "skipped"}

VerdictNext ==
    \/ \E a \in Apps, o \in Outcomes : Result(a, o)
    \/ Supersede
    \/ Sigterm
    \/ Conclude
    \/ \E w \in WriteResults : PublishComment(w)
    \/ \E w \in WriteResults : PublishStatus(w)
    \/ \E t \in {"transient", "permanent"}, p, c \in BOOLEAN : Raise(t, p, c)
    \/ Kill
    \/ Recover

VerdictSpec == VerdictInit /\ [][VerdictNext]_verdictVars

-----------------------------------------------------------------------------

\* Every touched application was rendered and nothing was found against it.
Fit == /\ \A a \in pr.touched : a \in DOMAIN results
                               /\ results[a] \in Computed \cup {"decommissioned"}
       /\ pr.envs \in {"none", "fine"}
       /\ ~pr.lost
       /\ pr.blockers = {}
       /\ pr.gates = {}

Involved == pr.touched # {} \/ pr.envs # "none"

(***************************************************************************)
(* The build of a pull request is green only when every application it     *)
(* touches was rendered to an answer and nothing is open: whatever cut the *)
(* batch short (the cap, a newer push, SIGTERM), whichever of the final    *)
(* writes was lost, and also when another run mended the status from the   *)
(* comment alone.  The green of an older render may stand until then: it   *)
(* is gone once both writes have landed, or the status is mended.          *)
(***************************************************************************)
GreenIsComplete ==
    status = "SUCCESSFUL" /\ Involved =>
        \/ Fit
        \/ /\ pr.before = "SUCCESSFUL"
           /\ phase # "recovered"
           /\ ~(phase = "done" /\ writes = {"ok"})

(***************************************************************************)
(* The comment's token and the memory of the pod agree: once both writes   *)
(* have landed, this pod looks at the commit again exactly when any other  *)
(* pod, which has only the comment, would.  The two answers come from two  *)
(* separate chains of conditions in _comment_status_token and process_pr.  *)
(***************************************************************************)
RetryMatchesToken ==
    phase = "done" /\ writes = {"ok"} => (retry = "backoff") = (comment = "transient")

(***************************************************************************)
(* The colour mended from the comment is the colour the run would have     *)
(* posted itself, or a red one that nobody may turn green from a comment:  *)
(* of the catch-all, or of an older render.                                *)
(***************************************************************************)
RecoveryRepeatsTheVerdict ==
    phase = "recovered" =>
        \/ status = State(pr)
        \/ status = "FAILED" /\ ("raised" \in writes \/ pr.before = "FAILED")

(***************************************************************************)
(* All of it: process_pr gives one verdict in three places.                *)
(***************************************************************************)
VerdictIsOne ==
    VerdictTypeOK /\ GreenIsComplete /\ RetryMatchesToken /\ RecoveryRepeatsTheVerdict
=============================================================================
