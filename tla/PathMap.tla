------------------------------ MODULE PathMap -------------------------------
(***************************************************************************)
(* The maps of the fleet that src/src/diff_preview.py builds from one      *)
(* listing of the ArgoCD applications and keeps for PATH_MAP_TTL:          *)
(* discover_path_app_map and its rebuild, path_map_for_repo as the poll    *)
(* loop calls it, and the hard refresh that a chart webhook starts in a    *)
(* thread of its own (_jfrog_hard_refresh).                                *)
(*                                                                         *)
(* A map is known by the number of the listing it was built from: the      *)
(* fleet changes, and Fleet[g] says what the g-th fleet knows of the one   *)
(* application looked at.  Maps are rebound one by one, in the order of    *)
(* the code; maps that are bound between two of those kept here have no    *)
(* reader here.                                                            *)
(***************************************************************************)
EXTENDS Integers, Sequences

CONSTANTS
    Poll,         \* the poll loop's thread
    Refreshers,   \* threads of _jfrog_refresh_pool
    Fleet,        \* per generation: the application's chart and tag match, and its project
    MaxExpiries   \* bound on the ends of the TTL and new logins

VARIABLES
    fleet,        \* the generation ArgoCD would list now
    maps,         \* the generation behind each global
    fresh,        \* _path_map_ts is within the TTL
    lock,         \* _path_map_lock: the thread that rebuilds
    thread,
    expiries

mapVars == <<fleet, maps, fresh, lock, thread, expiries>>

-----------------------------------------------------------------------------

Threads == {Poll} \cup Refreshers
Nobody == "nobody"
Generations == 1 .. Len(Fleet)

(* The globals, in the order the rebuild binds them *)
Order == <<"path", "chart", "revision", "project", "repo", "ts">>
Globals == {"path", "chart", "revision", "project", "repo"}

Off == [pc |-> "idle", listed |-> 0, n |-> 1, chart |-> 0, revision |-> 0, project |-> 0,
        refreshed |-> FALSE]

Places ==
    [pc : {"idle", "check", "lock", "list", "bind", "use", "revision", "project"},
     listed : {0} \cup Generations, n : 1 .. Len(Order) + 1,
     chart : {0} \cup Generations, revision : {0} \cup Generations,
     project : {0} \cup Generations, refreshed : BOOLEAN]

MapsTypeOK ==
    /\ fleet \in Generations
    /\ maps \in [Globals -> Generations]
    /\ fresh \in BOOLEAN
    /\ lock \in Threads \cup {Nobody}
    /\ thread \in [Threads -> Places]
    /\ expiries \in 0 .. MaxExpiries

(* After the first discovery of the pod *)
MapsInit ==
    /\ fleet = 1
    /\ maps = [g \in Globals |-> 1]
    /\ fresh = TRUE
    /\ lock = Nobody
    /\ thread = [t \in Threads |-> Off]
    /\ expiries = 0

To(t, pc) == thread' = [thread EXCEPT ![t].pc = pc]

-----------------------------------------------------------------------------

FleetChanges ==
    /\ fleet < Len(Fleet)
    /\ fleet' = fleet + 1
    /\ UNCHANGED <<maps, fresh, lock, thread, expiries>>

(* The TTL ends, or argocd_login resets _path_map_ts *)
Expire ==
    /\ fresh /\ expiries < MaxExpiries
    /\ fresh' = FALSE
    /\ expiries' = expiries + 1
    /\ UNCHANGED <<fleet, maps, lock, thread>>

(* A webhook submits a refresh; an iteration begins *)
Call(t) ==
    /\ thread[t].pc = "idle" /\ ~thread[t].refreshed
    /\ thread' = [thread EXCEPT ![t] = [Off EXCEPT !.pc = "check"]]
    /\ UNCHANGED <<fleet, maps, fresh, lock, expiries>>

(* The check without the lock *)
Check(t) ==
    /\ thread[t].pc = "check"
    /\ To(t, IF fresh THEN "use" ELSE "lock")
    /\ UNCHANGED <<fleet, maps, fresh, lock, expiries>>

(* The second check: a caller that queued behind a rebuild uses its result *)
Rebuilt == fresh

Acquire(t) ==
    /\ thread[t].pc = "lock"
    /\ lock = Nobody
    /\ IF Rebuilt THEN To(t, "use") /\ UNCHANGED lock ELSE To(t, "list") /\ lock' = t
    /\ UNCHANGED <<fleet, maps, fresh, expiries>>

(* argocd app list; what it raises leaves the maps as they were *)
List(t) ==
    /\ thread[t].pc = "list"
    /\ \/ /\ thread' = [thread EXCEPT ![t].pc = "bind", ![t].listed = fleet, ![t].n = 1]
          /\ UNCHANGED lock
       \/ To(t, "idle") /\ lock' = Nobody
    /\ UNCHANGED <<fleet, maps, fresh, expiries>>

(* Mutant of Bound: the time stamp first *)
BoundTimeFirst(n) == IF n = 1 THEN "ts" ELSE Order[n - 1]

(* What the n-th assignment of the rebuild binds: the time stamp comes last *)
Bound(n) == Order[n]

(* One assignment; the lock goes with the last *)
Bind(t) ==
    LET g == thread[t].n
        last == g = Len(Order)
    IN
    /\ thread[t].pc = "bind"
    /\ IF Bound(g) = "ts"
       THEN fresh' = TRUE /\ UNCHANGED maps
       ELSE maps' = [maps EXCEPT ![Bound(g)] = thread[t].listed] /\ UNCHANGED fresh
    /\ thread' = [thread EXCEPT ![t].pc = IF last THEN "use" ELSE "bind", ![t].n = g + 1]
    /\ lock' = IF last THEN Nobody ELSE lock
    /\ UNCHANGED <<fleet, expiries>>

-----------------------------------------------------------------------------
(* Using the maps *)

(* path_map_for_repo: the partition, read after discover returned *)
PollReads ==
    /\ thread[Poll].pc = "use"
    /\ thread' = [thread EXCEPT ![Poll] = Off]
    /\ UNCHANGED <<fleet, maps, fresh, lock, expiries>>

(* _jfrog_hard_refresh matches chart and tag, then drops prod's, reading one *)
(* global after the other                                                    *)
Read(t) ==
    LET th == thread[t] IN
    /\ t \in Refreshers
    /\ \/ th.pc = "use" /\ thread' = [thread EXCEPT ![t].pc = "revision", ![t].chart = maps["chart"]]
       \/ /\ th.pc = "revision"
          /\ thread' = [thread EXCEPT ![t].pc = "project", ![t].revision = maps["revision"]]
    /\ UNCHANGED <<fleet, maps, fresh, lock, expiries>>

Matches(th) == Fleet[th.chart].tracked /\ Fleet[th.revision].tracked
IsProd(g) == Fleet[g].project = "prod"

(* Mutant of Spared: prod's applications are not dropped *)
SparedNone(th) == FALSE

(* COPS-2766: what the project map says is prod's is not refreshed *)
Spared(th) == IsProd(th.project)

Refresh(t) ==
    LET th == [thread[t] EXCEPT !.pc = "idle", !.project = maps["project"]] IN
    /\ t \in Refreshers
    /\ thread[t].pc = "project"
    /\ thread' = [thread EXCEPT ![t] = [th EXCEPT !.refreshed = Matches(th) /\ ~Spared(th)]]
    /\ UNCHANGED <<fleet, maps, fresh, lock, expiries>>

MapsNext ==
    \/ FleetChanges \/ Expire
    \/ \E t \in Threads : Call(t) \/ Check(t) \/ Acquire(t) \/ List(t) \/ Bind(t) \/ Read(t) \/ Refresh(t)
    \/ PollReads

MapsSpec == MapsInit /\ [][MapsNext]_mapVars

-----------------------------------------------------------------------------
(* Properties *)

(* Who finds the maps fresh finds all of them from one listing: the time     *)
(* stamp is bound after them (discover_path_app_map's check without a lock). *)
(* So an application of prod is hard-refreshed only by a thread whose reads  *)
(* fell into two listings, a rebuild having come between them ("prod is      *)
(* never hard-refreshed", _jfrog_hard_refresh).                              *)
MapsAreWhole ==
    /\ fresh => \A g, h \in Globals : maps[g] = maps[h]
    /\ \A t \in Refreshers :
        LET th == thread[t] IN
        th.refreshed /\ IsProd(th.chart) => th.project # th.chart

(* Inductive: who lists or binds has the lock, and until the time stamp is   *)
(* bound nobody finds the maps fresh; the maps bound so far are of its       *)
(* listing; without a binder they are whole                                  *)
Rebuilding(t) == thread[t].pc \in {"list", "bind"}
OneRebuilds ==
    \A t \in Threads : Rebuilding(t) <=> lock = t
StaleMeanwhile ==
    \A t \in Threads : Rebuilding(t) => ~fresh
BoundSoFar ==
    \A t \in Threads : thread[t].pc = "bind" =>
        /\ thread[t].n <= Len(Order)
        /\ thread[t].listed \in Generations
        /\ \A i \in 1 .. thread[t].n - 1 : maps[Order[i]] = thread[t].listed
WholeBetween ==
    (\A t \in Threads : thread[t].pc # "bind") => \A g, h \in Globals : maps[g] = maps[h]
SparedProd ==
    \A t \in Refreshers : thread[t].refreshed => ~IsProd(thread[t].project)

MapsInv ==
    MapsTypeOK /\ OneRebuilds /\ StaleMeanwhile /\ BoundSoFar /\ WholeBetween /\ SparedProd
=============================================================================
