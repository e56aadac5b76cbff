---------------------------- MODULE MCEnvChanges ----------------------------
(* Two blocks of one public-cloud constellation, api and app, and their pull *)
(* requests: a teardown is reported under the name of the constellation.     *)
EXTENDS EnvChanges

MCCohortOf == [p \in Places |-> "cl"]
MCSpokeOf == [p \in Places |-> "dev"]
MCMains == Commit
MCTeardownName == [p \in Places |-> "cl"]
=============================================================================
