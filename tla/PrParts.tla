------------------------------- MODULE PrParts -------------------------------
(* Four kinds of behaviours of a pull request, told apart from the start.    *)
(* "faults": the leader alone, with pushes of new commits, merges, crashes,  *)
(* aborts and every fault but a refused call.  "handover": several pods, a   *)
(* change of leader, merges and, after the change, any fault.  "republish":  *)
(* several pods, no faults, more chart builds.  "verdict": the inside of one *)
(* run of process_pr, module Verdict, while the life of the pull request     *)
(* around it stands still.                                                   *)
EXTENDS PrCycle

CONSTANTS Apps, Limit      \* of Verdict

VARIABLES
    part,
    past,     \* the commits the branch has left behind; it does not go back
    v1, v2, v3, v4, v5, v6, v7, v8, v9, v10

slots == <<v1, v2, v3, v4, v5, v6, v7, v8, v9, v10>>
all   == <<vars, part, past, slots>>

Run == INSTANCE Verdict WITH
    pr <- v1, phase <- v2, results <- v3, skipped <- v4, newer <- v5,
    stopping <- v6, comment <- v7, status <- v8, retry <- v9, writes <- v10

PartsInit ==
    /\ Init
    /\ part \in {"faults", "handover", "republish", "verdict"}
    /\ past = {}
    /\ IF part = "verdict"
       THEN Run!VerdictInit
       ELSE /\ v1 = 0 /\ v2 = 0 /\ v3 = 0 /\ v4 = 0 /\ v5 = 0
            /\ v6 = 0 /\ v7 = 0 /\ v8 = 0 /\ v9 = 0 /\ v10 = 0

(* No call of this step was refused: its caller would think it done *)
Unrefused ==
    faults' # faults => seen' = seen /\ \A p \in Pods : run'[p].first # "permanent"

FaultsStep ==
    /\ part = "faults"
    /\ \/ Step(leader) \/ Abandon(leader) \/ Raise(leader) \/ Crash(leader)
       \/ Push \/ MergeOnMain
    /\ Unrefused

HandoverStep ==
    /\ part = "handover"
    /\ \/ \E p \in Pods : Step(p) \/ Abandon(p)
       \/ MergeOnMain \/ Handover
    /\ faults' <= handovers
    /\ aborts' = 0

RepublishStep ==
    /\ part = "republish"
    /\ \/ \E p \in Pods : Step(p) \/ ChartWebhook(p)
       \/ Push \/ MergeOnMain \/ Republish
    /\ faults' = 0

(* Every push is of a commit the branch has not pointed at yet *)
Onward == head' \notin past /\ past' = past \cup ({head} \ {head'})

PartsNext ==
    /\ UNCHANGED part
    /\ \/ /\ FaultsStep \/ HandoverStep \/ RepublishStep
          /\ Onward
          /\ UNCHANGED slots
       \/ /\ part = "verdict"
          /\ Run!VerdictNext
          /\ UNCHANGED <<vars, past>>

(* Fairness of PrCycle, where its pods go on at all *)
PartsFairness ==
    \A p \in Pods :
        /\ WF_vars(part # "verdict" /\ (Step(p) \/ Abandon(p)))
        /\ WF_vars(part # "verdict" /\ ChartWebhook(p))

PartsSpec == PartsInit /\ [][PartsNext]_all /\ PartsFairness

-----------------------------------------------------------------------------

(* While the lease stays and no call is refused, what the leader stops       *)
(* looking at has its true gate and its current comment (GateIsTrue,         *)
(* CommentIsCurrent; _seen_after_writes, fix_stuck_inprogress).  A hand-over *)
(* between the check of a write and its landing, or a refused write, breaks  *)
(* either: the code does not look again.                                     *)
SettledIsTrue == part # "handover" => GateIsTrue /\ CommentIsCurrent

(* A red commit turns green only by a render that says so: mending a status  *)
(* from the comment's text never unblocks a merge (fix_stuck_inprogress).    *)
RecoveryNeverUnblocks ==
    [][part # "handover" =>
        \A h \in Heads :
            status[h] = "FAILED" /\ status'[h] = "SUCCESSFUL" =>
                \E p \in Pods : pc[p] \in {"write1", "write2"} /\ pc'[p] # pc[p]]_vars

(* The promise of MergeGate, which a hand-over and a refused call suspend *)
Promise == INSTANCE MergeGate WITH done <- seen, kept <- part \notin {"handover", "verdict"}

(* PrCycle implements MergeGate: every step of a pass is a publication the   *)
(* readers may see, a pod that sets _seen (process_pr, _seen_after_writes,   *)
(* fix_stuck_inprogress) has published that snapshot, and in the end the     *)
(* leader is done with the head and the tip of main that are left.           *)
KeepsThePromise == Promise!Spec

(* The comment's token, the colour of the build and the retry of one run are *)
(* one verdict, and green only if every application was rendered to an       *)
(* answer, however the run was cut short (_comment_status_token, process_pr, *)
(* fix_stuck_inprogress).                                                    *)
VerdictIsOne == part = "verdict" => Run!VerdictIsOne
=============================================================================
