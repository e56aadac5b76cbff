---------------------------- MODULE CommentStore ----------------------------
(***************************************************************************)
(* The comments of one pull request, request by request: how a pass of     *)
(* src/src/diff_preview.py finds the service's own comment                 *)
(* (find_existing_comment with its cache of ids) and writes it             *)
(* (upsert_comment), over an HTTP layer that repeats a request whose       *)
(* answer did not come, POSTs included (http, _pooled_urlopen).            *)
(*                                                                         *)
(* PrCycle has one cell for all of this; here a comment is an entry of the *)
(* pull request's list, people delete or edit them, and a pod that lost    *)
(* the lease may have a write under way.                                   *)
(***************************************************************************)
EXTENDS Integers, FiniteSets, FiniteSetsExt

CONSTANTS
    Pods,
    Tries,          \* attempts of http()
    MaxComments,    \* bound on the comments ever made
    MaxPasses,      \* bound on the passes that render a new text
    MaxLost,        \* bound on the answers that are lost
    MaxMeddling     \* bound on deletions, edits by people, restarts and takeovers

VARIABLES
    list,           \* the comments: what each says, and whether it bears the marker
    leader,
    known,          \* _comment_id_cache of each pod; 0: no entry
    pass,           \* the pass of each pod
    text,           \* the newest rendered text
    lost,           \* ghost: answers lost after the request was carried out
    handovers,      \* ghost: changes of leader
    meddling

commentVars == <<list, leader, known, pass, text, lost, handovers, meddling>>
people == <<leader, handovers, meddling>>

-----------------------------------------------------------------------------

Ids == 1 .. MaxComments
Resting == [pc |-> "idle", id |-> 0, text |-> 0, n |-> 0]

Entries == [state : {"none", "ours", "edited", "deleted"}, text : 0 .. MaxPasses]
Passes ==
    [pc : {"idle", "find", "scan", "render", "put", "post"},
     id : {0} \cup Ids, text : 0 .. MaxPasses, n : 0 .. Tries - 1]

CommentsTypeOK ==
    /\ list \in [Ids -> Entries]
    /\ leader \in Pods
    /\ known \in [Pods -> {0} \cup Ids]
    /\ pass \in [Pods -> Passes]
    /\ text \in 0 .. MaxPasses
    /\ lost \in 0 .. MaxLost
    /\ handovers \in 0 .. MaxMeddling
    /\ meddling \in 0 .. MaxMeddling

CommentsInit ==
    /\ list = [i \in Ids |-> [state |-> "none", text |-> 0]]
    /\ leader \in Pods
    /\ known = [p \in Pods |-> 0]
    /\ pass = [p \in Pods |-> Resting]
    /\ text = 0
    /\ lost = 0 /\ handovers = 0 /\ meddling = 0

Ours == {i \in Ids : list[i].state = "ours"}
Exists(i) == list[i].state \in {"ours", "edited"}

Leave(p) == pass' = [pass EXCEPT ![p] = Resting]

-----------------------------------------------------------------------------
(* find_existing_comment *)

BeginPass(p) ==
    /\ p = leader
    /\ pass[p].pc = "idle"
    /\ pass' = [pass EXCEPT ![p].pc = IF known[p] # 0 THEN "find" ELSE "scan"]
    /\ UNCHANGED <<list, known, text, lost, people>>

(* The id from the cache, checked with one GET *)
Find(p) ==
    LET i == known[p] IN
    /\ pass[p].pc = "find"
    /\ pass' = [pass EXCEPT ![p].pc = IF i \in Ours THEN "render" ELSE "scan",
                            ![p].id = IF i \in Ours THEN i ELSE 0]
    /\ known' = IF Exists(i) THEN known ELSE [known EXCEPT ![p] = 0]
    /\ UNCHANGED <<list, text, lost, people>>

(* The first comment with the marker, oldest first *)
Scan(p) ==
    LET i == IF Ours = {} THEN 0 ELSE Min(Ours) IN
    /\ pass[p].pc = "scan"
    /\ pass' = [pass EXCEPT ![p].pc = "render", ![p].id = i]
    /\ known' = IF i = 0 THEN known ELSE [known EXCEPT ![p] = i]
    /\ UNCHANGED <<list, text, lost, people>>

(* A failed read raises and ends the pass, so as not to post a duplicate *)
FindFails(p) ==
    /\ pass[p].pc \in {"find", "scan"}
    /\ Leave(p)
    /\ UNCHANGED <<list, known, text, lost, people>>

(* The render, then the leadership check that upsert_comment opens with *)
Render(p) ==
    /\ pass[p].pc = "render"
    /\ IF p = leader /\ text < MaxPasses
       THEN /\ text' = text + 1
            /\ pass' = [pass EXCEPT ![p].pc = IF pass[p].id = 0 THEN "post" ELSE "put",
                                    ![p].text = text', ![p].n = 0]
       ELSE UNCHANGED text /\ Leave(p)
    /\ UNCHANGED <<list, known, lost, people>>

-----------------------------------------------------------------------------
(* upsert_comment *)

Created(t) == LET i == Min({j \in Ids : list[j].state = "none"}) IN
              [list EXCEPT ![i] = [state |-> "ours", text |-> t]]
Room == \E i \in Ids : list[i].state = "none"

(* PUT: in place; a comment that was deleted is posted anew *)
Put(p) ==
    LET i == pass[p].id IN
    /\ pass[p].pc = "put"
    /\ IF Exists(i)
       THEN /\ list' = [list EXCEPT ![i] = [state |-> "ours", text |-> pass[p].text]]
            /\ Leave(p)
            /\ UNCHANGED known
       ELSE /\ pass' = [pass EXCEPT ![p].pc = "post", ![p].n = 0]
            /\ known' = [known EXCEPT ![p] = 0]
            /\ UNCHANGED list
    /\ UNCHANGED <<text, lost, people>>

(* POST: the id of the answer is remembered *)
Post(p) ==
    /\ pass[p].pc = "post"
    /\ Room
    /\ list' = Created(pass[p].text)
    /\ known' = [known EXCEPT ![p] = CHOOSE i \in Ids : list'[i] # list[i]]
    /\ Leave(p)
    /\ UNCHANGED <<text, lost, people>>

(* Mutant of GiveUp: a PUT that failed for good is followed by a POST *)
GiveUpPosting(p) ==
    IF pass[p].pc = "put" THEN pass' = [pass EXCEPT ![p].pc = "post", ![p].n = 0] ELSE Leave(p)

(* Any failure but a 404 leaves the comment as it is for a later pass *)
GiveUp(p) == Leave(p)

(* The request is carried out, and nobody hears of it *)
CarriedOut(p) ==
    /\ lost < MaxLost /\ lost' = lost + 1
    /\ \/ /\ pass[p].pc = "put" /\ Exists(pass[p].id)
          /\ list' = [list EXCEPT ![pass[p].id] = [state |-> "ours", text |-> pass[p].text]]
       \/ /\ pass[p].pc = "post" /\ Room
          /\ list' = Created(pass[p].text)

(* A reused connection breaks: _pooled_urlopen sends the request once more   *)
(* on a fresh one, and then through urllib, within the same attempt          *)
Resend(p) ==
    /\ CarriedOut(p)
    /\ UNCHANGED <<known, pass, text, people>>

(* The answer does not come: http() sends the request again, and after its   *)
(* last attempt raises                                                       *)
Lose(p) ==
    /\ pass[p].pc \in {"put", "post"}
    /\ lost < MaxLost
    /\ CarriedOut(p) \/ UNCHANGED <<list, lost>>
    /\ IF pass[p].n < Tries - 1 THEN pass' = [pass EXCEPT ![p].n = @ + 1] ELSE GiveUp(p)
    /\ UNCHANGED <<known, text, people>>

-----------------------------------------------------------------------------
(* People, restarts, the lease *)

Meddle(i) ==
    /\ meddling < MaxMeddling /\ meddling' = meddling + 1
    /\ list[i].state = "ours"
    /\ \E state \in {"deleted", "edited"} : list' = [list EXCEPT ![i].state = state]
    /\ UNCHANGED <<leader, known, pass, text, lost, handovers>>

Restart(p) ==
    /\ meddling < MaxMeddling /\ meddling' = meddling + 1
    /\ known' = [known EXCEPT ![p] = 0]
    /\ Leave(p)
    /\ UNCHANGED <<list, leader, text, lost, handovers>>

TakeOver(p) ==
    /\ meddling < MaxMeddling /\ meddling' = meddling + 1
    /\ p # leader
    /\ leader' = p
    /\ handovers' = handovers + 1
    /\ UNCHANGED <<list, known, pass, text, lost>>

CommentsNext ==
    \/ \E p \in Pods :
         \/ BeginPass(p) \/ Find(p) \/ Scan(p) \/ FindFails(p) \/ Render(p)
         \/ Put(p) \/ Post(p) \/ Lose(p) \/ Resend(p)
         \/ Restart(p) \/ TakeOver(p)
    \/ \E i \in Ids : Meddle(i)

CommentsSpec == CommentsInit /\ [][CommentsNext]_commentVars

-----------------------------------------------------------------------------
(* Properties *)

(* The service never has more comments on a pull request than the one it     *)
(* keeps and those that a POST whose answer was lost, or a pod that lost the *)
(* lease while writing, may have left (upsert_comment: "would duplicate")    *)
NoNeedlessDuplicate == Cardinality(Ours) <= 1 + lost + handovers

(* Inductive: a pod that is in a pass without leading was handed over from,  *)
(* and may add one comment yet; a leader that writes adds none but the one   *)
(* it replaces or found missing                                              *)
Handed == {p \in Pods : pass[p].pc # "idle"} \ {leader}
Writing(p) == pass[p].pc \in {"render", "put", "post"}
HandedOver == Cardinality(Handed) <= handovers /\ handovers <= meddling
AllPaidFor == Cardinality(Ours) + Cardinality(Handed) <= 1 + lost + handovers
LeaderAddsNone ==
    Writing(leader) =>
        Cardinality(Ours \ {pass[leader].id}) + Cardinality(Handed) <= lost + handovers

(* What a pass found has been a comment, and what it posts anew is gone *)
FoundWas ==
    \A p \in Pods :
        /\ Writing(p) /\ pass[p].id # 0 => list[pass[p].id].state # "none"
        /\ pass[p].pc = "put" => pass[p].id # 0
        /\ pass[p].pc = "post" /\ pass[p].id # 0 => list[pass[p].id].state = "deleted"

CommentsInv == CommentsTypeOK /\ HandedOver /\ AllPaidFor /\ LeaderAddsNone /\ FoundWas
=============================================================================
