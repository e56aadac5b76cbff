------------------------------- MODULE MCChanges -------------------------------
(* The instance of Changes for TLC.  Commits are alike, so both pull requests *)
(* start at c1; the second one is never pushed to, and is there to share the  *)
(* hints about main.                                                          *)
EXTENDS Changes, MCSupersede, TLC

(* Two folders under one cohort; one under another, in another spoke; one    *)
(* under a third, in the first spoke; and a block of a public constellation   *)
MCCohortOf     == [p \in Places |-> CASE p = "z" -> "c2" [] p = "v" -> "c3" [] OTHER -> "c1"]
MCSpokeOf      == [p \in Places |-> IF p = "z" THEN "s2" ELSE "s1"]
MCTeardownName == [p \in Places |-> p]

(* A production environment, two clones, a zone that is missing *)
MCConfigOf == [f \in Folders |-> IF f = "k2" THEN "f2" ELSE "f1"]

Customer(name, zeroPods, ashn, host) ==
    [customer |-> name, zeroPods |-> zeroPods, ashn |-> ashn, host |-> host]
MCContents ==
    {Customer("n", "true", "none", "none"), Customer("n", "unset", "x", "h"),
     Customer("n", "true", "x", "i"), Customer("m", "unset", "x", "h"),
     Customer("m", "true", "y", "h")}
MCConfigs ==
    {[zeroPods |-> "true", zone |-> "z"], [zeroPods |-> "unset", zone |-> "z"],
     [zeroPods |-> "true", zone |-> "none"]}

Shape(cohort, long, own, above, helm) ==
    [cohort |-> cohort, long |-> long, own |-> own, above |-> above, helm |-> helm]
MCShapes ==
    {Shape("ok", FALSE, "v1", "none", "ok"),
     Shape("missing", FALSE, "v1", "none", "ok"),
     Shape("unparsable", FALSE, "none", "v1", "credentials"),
     Shape("ok", TRUE, "v2", "none", "credentials"),
     Shape("ok", FALSE, "v2", "v1", "broken"),
     Shape("ok", FALSE, "unsafe", "none", "ok")}

-----------------------------------------------------------------------------

(* Names are alike, and so are the folders x and y: the first folder that main *)
(* knows by a name has "n", and ArgoCD knows x if it knows y.  Main has at     *)
(* most two of the folders x, y and z, the cohort file above z has a suffix,   *)
(* and nobody has made the one above v.                                        *)
MCFiles ==
    [name : Names, suffix : EnvSuffixes \cup {"undeclared"}]
        \cup {[name |-> "none", suffix |-> "absent"]}
MCFolders ==
    {place \in [Places -> MCFiles] :
        /\ \E f \in {"x", "y", "z"} : place[f].name = "none"
        /\ \A f \in {"v"} \cup Public : place[f].name = "none"
        /\ \A f \in Places : place[f].name = "m" =>
            \/ f = "y" /\ place["x"].name = "n"
            \/ f = "z" /\ \E g \in {"x", "y"} : place[g].name # "none"}
MCEnvMains ==
    {[place |-> place, cohort |-> ("c1" :> file @@ "c2" :> "b" @@ "c3" :> "absent")] :
        place \in MCFolders, file \in {"absent", "undeclared"} \cup EnvSuffixes}

Canonical(p) == "y" \in p.live => "x" \in p.live

(* v and w are there to be moved to: ArgoCD has no apps of theirs, a pull      *)
(* request brings one of them at most, and its file leaves the suffix open.    *)
MovesOut(p) ==
    /\ {"v", "w"} \cap p.live = {}
    /\ "none" \in {p.head.place[f].name : f \in {"v", "w"}}
    /\ \A f \in {"v", "w"} : p.head.place[f].suffix # "b"

(* Cells are alike: the first pull request brings a cell to "a".  A cell keeps *)
(* its VM as long as its folder is there.                                     *)
CellsMove ==
    part = "suffix" =>
        /\ s6' = 1 => s1'["a"].there
        /\ \A c \in Cells : s1[c].there /\ s1'[c].there => s1[c].vm = s1'[c].vm

(* Tiers are alike, and so are versions *)
FirstVersion == s1.at = "x" /\ s2 = "1"

(* Customers are alike, and so are environments and suffixes of content *)
FirstOwner == \A v \in s1["a"] : v.customer = "k" /\ v.suffix = "s"

MCInit ==
    /\ heads = [q \in Prs |-> c1]
    /\ ChangesInit
    /\ part = "environments" => Canonical(s1) /\ MovesOut(s1)
    /\ part = "revisions" => FirstVersion
    /\ part = "shared" => s1["a"] # {} /\ FirstOwner
    /\ leads \/ part = "wakes"

MCNext == ChangesNext /\ heads'[q2] = c1 /\ CellsMove

(* The fairness of the parts, the one that moves choosing what each is about *)
Loops    == part = "wakes" /\ Loop /\ UNCHANGED <<part, slots>>
Works(q) == part = "wakes" /\ Work(q)
Applies  == part = "teardown" /\ Down!ApplyFinalizer /\ Keep8 /\ UNCHANGED <<part, vars>>
Answers  == part = "teardown" /\ Down!Evaluate("answers", "ready", "read") /\ Keep8
Adds     == part = "newenvs" /\ (News!Evaluate \/ News!Publish) /\ UNCHANGED <<part, vars>>

MCFairness ==
    /\ WF_all(Loops \/ Applies \/ Adds)
    /\ \A q \in Prs : WF_vars(Works(q))
    /\ SF_slots(Answers)

MCSpec == MCInit /\ [][MCNext]_all /\ MCFairness

-----------------------------------------------------------------------------

(* Everything that is only late arrives: a pod that keeps the lease publishes *)
(* every pull request at its head and the tip of main once they stand still   *)
(* (process_pr, _note_base_observed), a teardown that only waits for ArgoCD   *)
(* or the mirror ends its wait (_evaluate_env_decommissions), and a comment   *)
(* follows the registry (_invalidate_for_republish, _AWAITING_CHART_ERRORS).  *)
ChangesSettle ==
    \/ []<>CASE part = "wakes"    -> ~leads
             [] part = "teardown" -> Down!WaitingEnds
             [] OTHER             -> part # "newenvs"
    \/ <>[]CASE part = "wakes"    -> UpToDate
             [] OTHER             -> part = "newenvs" /\ News!ChartIsNoticed
=============================================================================
