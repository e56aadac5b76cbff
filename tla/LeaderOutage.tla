---------------------------- MODULE LeaderOutage ----------------------------
(***************************************************************************)
(* How long nobody leads.  Some behaviours of LeaderElection have a        *)
(* survivor, a replica that neither crashes nor is told to stop, and whose *)
(* requests are answered; the others crash, restart, are told to stop and  *)
(* lose requests as they please.  A history variable dates the last sign   *)
(* of life: a replica that leads, or a write of the lease.                 *)
(***************************************************************************)
EXTENDS LeaderElection

CONSTANT SlowestPut    \* the longest write of a survivor (MaxPut: any)

ASSUME OutageAssumption == SlowestPut \in Nat

VARIABLES
    survivor,   \* the replica that lives through the behaviour, or None
    lastSign    \* when somebody led or wrote the lease

outageVars == <<vars, survivor, lastSign>>

OutageInit == Init /\ survivor \in Replicas \cup {None} /\ lastSign = 0

Prompt(r) == tickPc[r] \in {"put", "won", "lost"} => time < since[r] + SlowestPut

(* A GET or PUT does not end in an exception *)
Answered(r) == tickPc[r] \in {"get", "put"} => tickPc'[r] # "sleep"

OutageNext ==
    /\ Next
    /\ UNCHANGED survivor
    /\ IF survivor = None
       THEN UNCHANGED lastSign
       ELSE /\ survivor \in alive' /\ ~stopped'[survivor] /\ Answered(survivor)
            /\ time' # time => Prompt(survivor)
            /\ lastSign' = IF lease' # lease \/ \E r \in Replicas : IsLeader(r)
                           THEN time ELSE lastSign

OutageSpec == OutageInit /\ [][OutageNext]_outageVars

(* The longest round, and the longest watch between two looks at the lease *)
Round == MaxGet + SlowestPut
Watch == MaxGet + Retry + Lag

(* A round under way, the sighting, the lease, the watch that ends it, the   *)
(* round that takes it                                                       *)
Sight == Round + Retry + Lag
Longest == Sight + Duration + Watch + Round

(* The loop is never without an owner for long: while one replica lives, the *)
(* lease of a dead leader is seen within one watch, runs out its duration,   *)
(* and is taken in the round that notices, whatever becomes of the others    *)
(* (_tick, _observed).                                                       *)
OutageIsBounded == survivor # None => time - lastSign <= Longest
=============================================================================
