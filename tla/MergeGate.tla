------------------------------ MODULE MergeGate ------------------------------
(***************************************************************************)
(* What the service promises the readers of one pull request, whatever it  *)
(* does inside: a comment speaks of a snapshot that existed, a commit goes *)
(* green only if it rendered clean, and a pod that is done with a snapshot *)
(* leaves behind a comment about it and a final status no greener than the *)
(* comment.  PrCycle implements it (MCPrParts).                            *)
(***************************************************************************)
EXTENDS Integers

CONSTANTS Pods, Heads, Bases, None, Truth

VARIABLES
    head, base,       \* the PR's branch and the tip of main
    comment, status,  \* what the readers see
    leader,
    done,             \* the snapshot each pod has finished with, or None
    kept              \* the lease stays put and no write is refused for good

vars == <<head, base, comment, status, leader, done, kept>>

Final == {"SUCCESSFUL", "FAILED"}

Init ==
    /\ head \in Heads /\ base = 1 /\ leader \in Pods
    /\ comment.sha = None
    /\ status = [h \in Heads |-> "none"]
    /\ done = [p \in Pods |-> None]
    /\ kept \in BOOLEAN

(* The comment moves to a snapshot that existed, with its verdict or a failure *)
Say ==
    \/ UNCHANGED comment
    \/ /\ comment'.sha \in Heads /\ comment'.base \in 1..base
       /\ comment'.token \in {"transient", "permanent",
                              Truth[comment'.sha][comment'.base].token}

(* One commit's status moves, to green only if it was rendered clean *)
Show ==
    \/ UNCHANGED status
    \/ \E h \in Heads, state \in Final \cup {"INPROGRESS"} :
        /\ status' = [status EXCEPT ![h] = state]
        /\ state = "SUCCESSFUL" => \E b \in 1..base : Truth[h][b].token = "clean"

(* A pod that is done with a snapshot has published it *)
Concluded(snapshot) ==
    LET h == snapshot[1]
    IN  /\ comment'.sha = h /\ comment'.base = snapshot[2]
        /\ comment'.token # "transient"
        /\ status'[h] \in Final
        /\ status'[h] = "SUCCESSFUL" => comment'.token = "clean"

Remember ==
    \/ UNCHANGED done
    \/ \E p \in Pods :
        \/ done' = [done EXCEPT ![p] = None]
        \/ \E snapshot \in Heads \X Bases :
            /\ done' = [done EXCEPT ![p] = snapshot]
            /\ kept => Concluded(snapshot)

Publish ==
    /\ Say /\ Show /\ Remember
    /\ UNCHANGED <<head, base, leader, kept>>

Move ==
    /\ \/ head' \in Heads /\ UNCHANGED <<base, leader>>
       \/ base' = base + 1 /\ UNCHANGED <<head, leader>>
       \/ ~kept /\ leader' \in Pods /\ UNCHANGED <<head, base>>
    /\ UNCHANGED <<comment, status, done, kept>>

Published(snapshot) ==
    LET h == snapshot[1]
    IN  /\ comment.sha = h /\ comment.base = snapshot[2]
        /\ comment.token # "transient"
        /\ status[h] \in Final

(* Once nothing fails or moves any more, the leader is done with what there  *)
(* is for good, and it is published with a verdict that no retry is due for  *)
CatchesUp ==
    <>[](kept => done[leader] = <<head, base>> /\ Published(<<head, base>>))

(* What must hold of every step, and what must happen in the end *)
Safety == Init /\ [][Publish \/ Move]_vars

Spec == Safety /\ CatchesUp
=============================================================================
