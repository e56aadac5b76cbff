--------------------------- MODULE MCLeaderOutage ---------------------------
(* The instance of LeaderOutage for TLC: without a survivor, short behaviours *)
(* with any two faults and slow requests (shorter still with a SIGTERM); with *)
(* one, crashes and quick writes, and time enough for a leader's death to be  *)
(* made good.                                                                 *)
EXTENDS LeaderOutage, MCLeaderElection

CONSTANT ShortTime

MCNext ==
    /\ OutageNext
    /\ IF survivor = None
       THEN /\ time' <= ShortTime - 2 * releases'
            /\ crashes' + losses' + releases' <= 2
       ELSE /\ losses' = 0 /\ releases' = 0
            /\ time' # time => \A r \in alive : Prompt(r)

MCSpec == OutageInit /\ [][MCNext]_outageVars
=============================================================================
