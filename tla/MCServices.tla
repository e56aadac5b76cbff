------------------------------ MODULE MCServices ------------------------------
(* Instances of Services for TLC.  Pods are alike, so the first leader is    *)
(* always A.                                                                 *)
EXTENDS Services, MCArtifactStore

MCFleet == <<[tracked |-> FALSE, project |-> "none"], [tracked |-> TRUE, project |-> "prod"]>>

MCKeyOf == [r \in {"r1", "r2", "l1"} |-> "f"]

MCInit ==
    /\ ServicesInit
    /\ leader = A
    /\ part = "comments" => s2 = A
    /\ part = "hook" => s4 = A

(* The fairness of the parts, the one that moves choosing what each is about *)
GateGoes(t) == part = "gate" /\ Gate!Goes(t) /\ Keep4
GateSends(t) == part = "gate" /\ Gate!Send(t) /\ Keep4
TimeGoes == part = "gate" /\ Gate!Tick /\ Keep4
Reads   == part = "files" /\ Files!Reads /\ Keep10
Syncs   == part = "files" /\ Files!Syncs /\ Keep10
Synced  == part = "files" /\ Files!EndSync(TRUE) /\ Keep10
Indexes == part = "files" /\ Files!Indexes /\ Keep10
Beats   == part = "pod" /\ Pod!Beat /\ Keep6
Kills   == part = "pod" /\ Pod!LivenessKills /\ Keep6

MCFairness ==
    /\ Fairness
    /\ WF_slots(GateGoes(1) \/ Reads \/ Beats)
    /\ WF_slots(GateGoes(2) \/ Syncs \/ Kills)
    /\ WF_slots(TimeGoes)
    /\ SF_slots(GateSends(1) \/ Synced)
    /\ SF_slots(GateSends(2) \/ Indexes)

MCSpec == MCInit /\ [][ServicesNext]_all /\ MCFairness

-----------------------------------------------------------------------------

(* No wait is for ever: a call gets past the rate gate's bounded slices      *)
(* (_bb_ratelimit_wait), every read of a file ends and leaves neither a      *)
(* flight nor a stale miss behind (_fetch_value_files, mirror_sync), a stuck *)
(* main loop is killed (_liveness_should_refresh).  The threads of the gate  *)
(* are alike, and the others do not go back.                                 *)
WaitsEnd ==
    []<>CASE part = "gate"  -> Gate!CallOver(1)
          [] part = "files" -> Files!ReadsSettled
          [] part = "pod"   -> Pod!WedgeIsKilled
          [] OTHER          -> TRUE
=============================================================================
