------------------------------ MODULE MCPrParts ------------------------------
(* The instance of PrParts for TLC: commits that render with the chart on    *)
(* every tip in "republish", two with verdicts that differ elsewhere.  Pods  *)
(* are alike, so the first leader is A except where a webhook may come to    *)
(* a standby.  Applications are alike, so "a" comes first; and nothing tells *)
(* a status that was never posted from INPROGRESS.                           *)
EXTENDS PrParts, MCPrCycle

CONSTANTS h3, h4

MCPartsTruth ==
    [h \in Heads |-> IF h \in DOMAIN MCTruth THEN MCTruth[h]
                     ELSE [b \in Bases |-> Is("affected", "clean")]]

HeadsOf(kind) == IF kind = "republish" THEN {h3, h4} ELSE {h1, h2}

InOrder(S) == "b" \in S => "a" \in S

MCInit ==
    /\ PartsInit
    /\ part = "verdict" =>
        InOrder(v1.touched) /\ InOrder(v1.gone) /\ v1.before # "none"
    /\ head \in IF part = "verdict" THEN {h1} ELSE HeadsOf(part)
    /\ leader = B => part = "republish"

MCNext == PartsNext /\ head' \in HeadsOf(part)

MCSpec == MCInit /\ [][MCNext]_all /\ PartsFairness
=============================================================================
