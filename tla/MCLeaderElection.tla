-------------------------- MODULE MCLeaderElection --------------------------
(* Small instances of LeaderElection for TLC: two replicas, skewed clocks.   *)
EXTENDS LeaderElection

CONSTANTS A, B

(* B's clock runs one unit ahead of A's: a lease written by A looks old *)
MCOffset == [r \in Replicas |-> IF r = B THEN 1 ELSE 0]
=============================================================================
