------------------------------ MODULE NewEnvs ------------------------------
(***************************************************************************)
(* A pull request that adds environments.  Each is checked, its chart is     *)
(* pulled and rendered, and the comment says whether the ApplicationSet will  *)
(* create it.  An environment whose chart is not pushed yet waits: a webhook  *)
(* or the backoff brings the pull request back.  Anything else that fails is  *)
(* a structural problem, seen once and left until the next push.             *)
(*                                                                          *)
(* A value file that cannot be read raises and the pull request is retried,   *)
(* except the two reads of `unread`.  The main branch does not move here.    *)
(***************************************************************************)
EXTENDS Naturals, FiniteSets

CONSTANTS
    Envs,           \* environments the pull request adds
    Shapes,         \* what can be written for one, a subset of AllShapes
    Versions,       \* versions of the chart
    MaxEdits,       \* bound: pushes of the author
    MaxLost,        \* bound: chart webhooks lost
    MaxFlakes       \* bound: failed reads and failed pulls

VARIABLES
    head,           \* Envs -> Shapes, the latest push
    charts,         \* versions in the registry
    work,           \* the evaluation that runs, if any
    comment,        \* the published one, if any
    targets,        \* _pr_chart_targets: versions whose push forces the pull request
    due,            \* the loop will take the pull request up again
    edits, lost, flakes

AllShapes ==
    [cohort : {"ok", "missing", "unparsable"}, long : BOOLEAN,
     own : Versions \cup {"none", "unsafe"}, above : Versions \cup {"none"},
     helm : {"ok", "credentials", "broken"}]

newEnvVars == <<head, charts, work, comment, targets, due, edits, lost, flakes>>

Checks == Envs \X {"cohort", "name", "pull"}

-----------------------------------------------------------------------------

\* The version of an environment; an unsafe one reads as none.
Version(env) == IF env.own \in Versions THEN env.own ELSE env.above

\* Blocked before the render: no cohort file, one that cannot be parsed, or a
\* name that is too long.  A read that failed blocks nothing.
Rejected(env, e, failed) ==
    \/ env.cohort # "ok" /\ <<e, "cohort">> \notin failed
    \/ env.long /\ <<e, "name">> \notin failed

\* _render_new_env_diff: what the render returns.
RenderError(env, e, failed) ==
    CASE Version(env) = "none"      -> "no version"
      [] Version(env) # "none" /\ <<e, "pull">> \in failed -> "chart pull failed"
      [] Version(env) \notin charts \cup {"none"} /\ <<e, "pull">> \notin failed
                                    -> "chart not found"
      [] OTHER                      -> env.helm

\* Mutant of Expected: the list of known errors it was before.
ExpectedUnlessKnown(error) ==
    error \notin {"no version", "chart not found"}

\* _new_env_status allows one error, a value the first deployment brings.
Expected(error) == error = "credentials"

Awaits(error) == error = "chart not found"

\* The result of one environment.
Result(env, e, failed) ==
    IF Rejected(env, e, failed) THEN "structural"
    ELSE LET error == RenderError(env, e, failed)
         IN CASE error = "ok" \/ Expected(error) -> "created"
              [] error # "ok" /\ ~Expected(error) /\ Awaits(error) -> "awaiting"
              [] OTHER -> "structural"

\* Mutant of Token: an awaited chart blocks, as every other failure.
TokenNeverTransient(results) ==
    IF results \subseteq {"created"} THEN "clean" ELSE "blocked"

\* format_new_env_comment
Token(results) ==
    CASE "structural" \in results -> "blocked"
      [] "structural" \notin results /\ "awaiting" \in results -> "transient"
      [] OTHER -> "clean"

-----------------------------------------------------------------------------

NewEnvsInit ==
    /\ head \in [Envs -> Shapes]
    /\ charts \in SUBSET Versions
    /\ work = {} /\ comment = {} /\ targets = {} /\ due = TRUE
    /\ edits = 0 /\ lost = 0 /\ flakes = 0

\* _evaluate_new_envs
Evaluate ==
    /\ due /\ work = {}
    /\ \E failed \in SUBSET Checks :
        /\ flakes + Cardinality(failed) <= MaxFlakes
        /\ flakes' = flakes + Cardinality(failed)
        /\ work' = {[head |-> head, failed |-> failed,
                     token |-> Token({Result(head[e], e, failed) : e \in Envs}),
                     versions |-> {Version(head[e]) :
                        e \in {f \in Envs : ~Rejected(head[f], f, failed)}} \cap Versions]}
    /\ due' = FALSE
    /\ UNCHANGED <<head, charts, comment, targets, edits, lost>>

\* The end of process_pr: a transient comment is taken up again, the others are
\* seen.
Publish ==
    \E w \in work :
        /\ targets' = w.versions
        /\ comment' = {[head |-> w.head, failed |-> w.failed, token |-> w.token]}
        /\ due' = (due \/ w.token = "transient")
        /\ work' = {}
        /\ UNCHANGED <<head, charts, edits, lost, flakes>>

\* A chart is pushed; _invalidate_for_republish if this pod hears of it.
PushChart ==
    \E v \in Versions \ charts :
        /\ charts' = charts \cup {v}
        /\ \/ due' = (due \/ v \in targets) /\ UNCHANGED lost
           \/ lost < MaxLost /\ lost' = lost + 1 /\ UNCHANGED due
        /\ UNCHANGED <<head, work, comment, targets, edits, flakes>>

\* The author pushes another commit.
Edit ==
    /\ edits < MaxEdits
    /\ \E e \in Envs, shape \in Shapes :
        /\ shape # head[e]
        /\ head' = [head EXCEPT ![e] = shape]
    /\ edits' = edits + 1
    /\ due' = TRUE
    /\ UNCHANGED <<charts, work, comment, targets, lost, flakes>>

NewEnvsNext == Evaluate \/ Publish \/ PushChart \/ Edit
NewEnvsFairness == WF_newEnvVars(Evaluate \/ Publish)
NewEnvsSpec == NewEnvsInit /\ [][NewEnvsNext]_newEnvVars /\ NewEnvsFairness

-----------------------------------------------------------------------------

NewEnvsTypeOK ==
    /\ Shapes \subseteq AllShapes
    /\ head \in [Envs -> Shapes] /\ charts \subseteq Versions
    /\ targets \subseteq Versions /\ due \in BOOLEAN
    /\ Cardinality(work) \in 0..1 /\ Cardinality(comment) \in 0..1

\* What happens after the merge.  A version that is no tag is left out: the
\* preview takes the one above for it.
IsCreated(env) ==
    /\ env.cohort = "ok" /\ ~env.long
    /\ Version(env) \in charts
    /\ env.helm \in {"ok", "credentials"}
IsUnsafe(env) == env.own = "unsafe"

\* A green comment is true: every environment of that commit will be created,
\* whichever pull failed on the way (_new_env_status).  A read that failed
\* passes its check: the first result it touches is left out.
GreenIsTrue(c) ==
    c.token = "clean" =>
        \A e \in Envs : \/ IsCreated(c.head[e]) \/ IsUnsafe(c.head[e])
                        \/ {<<e, "cohort">>, <<e, "name">>} \cap c.failed # {}
GreenIsCreated == \A c \in comment : GreenIsTrue(c)

\* A comment on the latest commit that blames what is only late.
Outdated ==
    \E c \in comment :
        /\ c.failed = {}
        /\ \/ c.head # head
           \/ c.token # "clean" /\ \A e \in Envs : IsCreated(head[e])

\* The comment follows the registry: when a chart arrives, and whether this pod
\* heard of it or not, the pull request that waited for it turns green
\* (_AWAITING_CHART_ERRORS, _invalidate_for_republish).  A pull that failed for
\* another reason is not taken up again.  What is true in the end.
ChartIsNoticed == comment # {} /\ ~Outdated

\* What the proofs use: an evaluation is as true as the comment it becomes, and
\* charts only come.
WorkIsTrue == \A w \in work : GreenIsTrue(w) /\ w.versions \subseteq Versions
NewEnvsInv == NewEnvsTypeOK /\ WorkIsTrue /\ GreenIsCreated
=============================================================================
