------------------------------ MODULE PodLife -------------------------------
(***************************************************************************)
(* The life of one pod of src/src/diff_preview.py between its start and    *)
(* its end: the login to ArgoCD at startup with its budget                 *)
(* (_startup_argocd_login), the main loop, the heartbeat that vouches for  *)
(* it (_start_heartbeat), and the liveness probe that ends a pod nobody    *)
(* vouches for (/healthz and the Deployment's livenessProbe).              *)
(*                                                                         *)
(* The login is timed in seconds; after it, time goes by in beats of 30 s. *)
(***************************************************************************)
EXTENDS Integers

CONSTANTS
    Budget,        \* _STARTUP_LOGIN_BUDGET_S
    LoginTimes,    \* seconds one attempt may take, up to its timeout
    StaleAfter,    \* beats without a refresh that make /healthz fail
    Patience       \* seconds the liveness probe gives a pod that never answers

VARIABLES
    phase,         \* "login", "loop", or how the process ended
    login,         \* _startup_argocd_login: what it slept, its next sleep, ghost: the time since the start
    main,          \* the main thread
    moved,         \* the progress token was touched since the last beat
    age            \* beats since _last_ok was set

podVars == <<phase, login, main, moved, age>>

-----------------------------------------------------------------------------

Least(a, b) == IF a < b THEN a ELSE b

PodTypeOK ==
    /\ phase \in {"login", "loop", "raised", "killed", "done"}
    /\ login \in [waited : 0 .. Budget, delay : {2, 4, 8, 16}, elapsed : Nat]
    /\ main \in {"busy", "wedged", "idle"}
    /\ moved \in BOOLEAN
    /\ age \in 0 .. StaleAfter

PodInit ==
    /\ phase = "login"
    /\ login = [waited |-> 0, delay |-> 2, elapsed |-> 0]
    /\ main = "busy"
    /\ moved = TRUE            \* the heartbeat starts with an unknown token
    /\ age = 0

-----------------------------------------------------------------------------
(* Startup *)

LoggedIn(time) ==
    /\ phase = "login"
    /\ phase' = "loop"
    /\ login' = [waited |-> 0, delay |-> 2, elapsed |-> 0]
    /\ UNCHANGED <<main, moved, age>>

(* Mutant of OverBudget: the delay alone is held against the budget *)
OverBudgetByDelay == login.delay > Budget

OverBudget == login.waited + login.delay > Budget

(* A permanent error raises at once; a transient one waits and tries again *)
(* as long as the sleeps stay within the budget                              *)
LoginFails(time, transient) ==
    /\ phase = "login"
    /\ IF ~transient \/ OverBudget
       THEN /\ phase' = "raised"
            /\ login' = [login EXCEPT !.elapsed = @ + time]
       ELSE /\ login' = [waited  |-> Least(login.waited + login.delay, Budget),
                         delay   |-> Least(login.delay * 2, 16),
                         elapsed |-> login.elapsed + time + login.delay]
            /\ UNCHANGED phase
    /\ UNCHANGED <<main, moved, age>>

-----------------------------------------------------------------------------
(* The loop, and the heartbeat *)

Up == phase = "loop"

(* _touch_progress: an iteration begins, a repo is polled, an app is diffed *)
Progress ==
    /\ Up /\ main = "busy"
    /\ moved' = TRUE
    /\ UNCHANGED <<phase, login, main, age>>

(* The iteration is over; a clean one bumps _last_ok itself *)
GoIdle(clean) ==
    /\ Up /\ main = "busy"
    /\ main' = "idle"
    /\ age' = IF clean THEN 0 ELSE age
    /\ UNCHANGED <<phase, login, moved>>

(* _wake or its timeout: a leader's iteration touches the token, a standby   *)
(* goes back to its wait                                                     *)
WakeUp ==
    /\ Up /\ main = "idle"
    /\ main' = "busy" /\ moved' = TRUE
    /\ UNCHANGED <<phase, login, age>>

(* A call without a timeout, a deadlock *)
Wedge ==
    /\ Up /\ main = "busy"
    /\ main' = "wedged"
    /\ UNCHANGED <<phase, login, moved, age>>

(* SIGTERM: the loop ends after the iteration under way *)
Drained ==
    /\ Up /\ main = "idle"
    /\ phase' = "done"
    /\ UNCHANGED <<login, main, moved, age>>

(* Mutant of Vouched: every beat vouches *)
VouchedAlways == TRUE

(* _liveness_should_refresh *)
Vouched == main = "idle" \/ moved

Beat ==
    /\ Up
    /\ age' = IF Vouched THEN 0 ELSE Least(age + 1, StaleAfter)
    /\ moved' = FALSE
    /\ UNCHANGED <<phase, login, main>>

(* /healthz fails, and keeps failing for as many probes as it takes *)
LivenessKills ==
    /\ Up /\ age = StaleAfter
    /\ phase' = "killed"
    /\ UNCHANGED <<login, main, moved, age>>

PodNext ==
    \/ \E time \in LoginTimes :
         LoggedIn(time) \/ \E transient \in BOOLEAN : LoginFails(time, transient)
    \/ Progress \/ \E clean \in BOOLEAN : GoIdle(clean)
    \/ WakeUp \/ Wedge \/ Drained
    \/ Beat \/ LivenessKills

(* The heartbeat thread and the probe go on whatever the main thread does *)
PodSpec == PodInit /\ [][PodNext]_podVars /\ WF_podVars(Beat) /\ WF_podVars(LivenessKills)

-----------------------------------------------------------------------------
(* Properties *)

(* A main loop that is stuck does not hide behind its heartbeat: the pod is  *)
(* restarted (_liveness_should_refresh).  What is true in the end.           *)
WedgeIsKilled == main = "wedged" => phase = "killed"

(* A login that keeps failing ends the process by its own error, before the  *)
(* liveness probe would: the reason is in the log of the container that died *)
(* (_startup_argocd_login).                                                  *)
StartupEndsItself == phase \in {"login", "raised"} => login.elapsed < Patience

(* Inductive: n sleeps are at least 16 n - 34 s, Slack telling how far the   *)
(* next delay is from the last, so the attempts are bounded by the sleeps    *)
Slack == IF login.delay = 2 THEN 0
         ELSE IF login.delay = 4 THEN 14 ELSE IF login.delay = 8 THEN 26 ELSE 34
LoginIsPaced ==
    \A longest \in LoginTimes : (\A time \in LoginTimes : time <= longest) =>
        /\ phase = "login" =>
             16 * login.elapsed <= 16 * login.waited + longest * (login.waited + Slack)
        /\ phase = "raised" =>
             16 * login.elapsed <= 16 * Budget + longest * (Budget + 50)

PodInv == PodTypeOK /\ LoginIsPaced
=============================================================================
