------------------------------ MODULE MCPrCycle ------------------------------
(* Instances of PrCycle for TLC: two commits and up to two tips of main,     *)
(* whose verdicts differ where the properties can tell.                      *)
EXTENDS PrCycle, TLC

CONSTANTS A, B,      \* pods
          h1, h2     \* commits

Is(path, token) == [path |-> path, token |-> token]

(* Every path, and a verdict that a merge on main turns either way *)
MCTruth ==
    h1 :> (1 :> Is("affected", "clean")     @@ 2 :> Is("blocked", "conflict")) @@
    h2 :> (1 :> Is("newenv", "permanent")   @@ 2 :> Is("none", "clean"))

(* Whatever the snapshot, the PR is rendered with the chart *)
MCRendered == [h \in Heads |-> [b \in Bases |-> Is("affected", "clean")]]
MCNewEnv   == [h \in Heads |-> [b \in Bases |-> Is("newenv", "clean")]]
=============================================================================
