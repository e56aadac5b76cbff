------------------------------ MODULE RateGate ------------------------------
(***************************************************************************)
(* The attempts of one HTTP call of src/src/diff_preview.py and the pause  *)
(* that all calls to Bitbucket share: http() for the REST calls of         *)
(* Bitbucket and of other hosts, _bb_fetch_status for the raw files, and   *)
(* _bb_ratelimit_hold and _bb_ratelimit_wait between them.                 *)
(*                                                                         *)
(* Time is what is left of the pause and of each sleep; one Tick takes a   *)
(* unit off all of them.                                                   *)
(***************************************************************************)
EXTENDS Integers, FiniteSets

CONSTANTS
    Threads,
    Kinds,        \* the calls made: among "rest", "file" and "argocd"
    Tries,        \* attempts of a call
    Slices,       \* BB_RATELIMIT_SLICES
    MaxPause,     \* BB_RATELIMIT_MAX_PAUSE
    Fallback,     \* BB_RATELIMIT_FALLBACK
    Hints,        \* values of Retry-After that servers send
    Slots         \* BB_API_CONCURRENCY

VARIABLES
    hold,         \* what is left of _bb_ratelimit_until
    call,         \* the call each thread is in
    window        \* ghost: what is left of the longest pause any 429 asked for

gateVars == <<hold, call, window>>

-----------------------------------------------------------------------------

NoHint == -1
Bitbucket == {"rest", "file"}
Answers == {"ok", "limited", "broken", "refused", "network"}
MaxOf(a, b) == IF a > b THEN a ELSE b
MinOf(a, b) == IF a < b THEN a ELSE b
Less(n) == IF n = 0 THEN 0 ELSE n - 1

NoCall == [pc |-> "idle", kind |-> "none", n |-> 0, slices |-> 0, left |-> 0, stale |-> FALSE]

Calls ==
    [pc : {"idle", "gate", "nap", "queue", "sent", "sleep"},
     kind : Kinds \cup {"none"}, n : 0 .. Tries - 1, slices : 0 .. Slices, left : Nat,
     stale : BOOLEAN]                   \* ghost: a pause was published since the look

GateTypeOK ==
    /\ hold \in 0 .. MaxPause
    /\ window \in 0 .. MaxPause
    /\ call \in [Threads -> Calls]

GateInit ==
    /\ hold = 0
    /\ call = [t \in Threads |-> NoCall]
    /\ window = 0

-----------------------------------------------------------------------------

(* The next attempt: a call to Bitbucket looks at the gate first *)
Attempt(c, n) ==
    [c EXCEPT !.pc = IF c.kind \in Bitbucket THEN "gate" ELSE "queue",
              !.n = n, !.slices = Slices, !.left = 0]

Begin(t, kind) ==
    /\ call[t].pc = "idle"
    /\ call' = [call EXCEPT ![t] = Attempt([NoCall EXCEPT !.kind = kind], 0)]
    /\ UNCHANGED <<hold, window>>

(* Mutant of OutOfSlices: while remaining > 0 *)
NeverOutOfSlices(c) == FALSE

OutOfSlices(c) == c.slices = 0

(* _bb_ratelimit_wait: go on when nothing is left of the pause, or after the *)
(* last slice without a look; else sleep for what is left                    *)
Look(t) ==
    LET c == call[t] IN
    /\ c.pc = "gate"
    /\ call' = [call EXCEPT ![t] =
         IF OutOfSlices(c) THEN [c EXCEPT !.pc = "queue"]
         ELSE IF hold = 0 THEN [c EXCEPT !.pc = "queue", !.stale = FALSE]
         ELSE [c EXCEPT !.pc = "nap", !.left = MinOf(hold, MaxPause),
                        !.slices = Less(@)]]
    /\ UNCHANGED <<hold, window>>

(* A sleep is over: the gate again, or the next attempt *)
WakeUp(t) ==
    LET c == call[t] IN
    /\ c.pc \in {"nap", "sleep"} /\ c.left = 0
    /\ call' = [call EXCEPT ![t] =
         IF c.pc = "nap" THEN [c EXCEPT !.pc = "gate"] ELSE Attempt(c, c.n + 1)]
    /\ UNCHANGED <<hold, window>>

(* The request goes out; a file read takes one of the slots first *)
Send(t) ==
    LET c == call[t] IN
    /\ c.pc = "queue"
    /\ c.kind = "file" =>
         Cardinality({u \in Threads : call[u].kind = "file" /\ call[u].pc = "sent"}) < Slots
    /\ call' = [call EXCEPT ![t].pc = "sent", ![t].stale = FALSE]
    /\ UNCHANGED <<hold, window>>

(* Mutant of Hold: the latest pause replaces a longer one *)
HoldReplaced(w) == hold' = w

(* _bb_ratelimit_hold *)
Hold(w) == hold' = MaxOf(hold, w)

(* Mutant of Pause: as long as the server says *)
PauseAsAsked(hint) == IF hint = NoHint THEN Fallback ELSE hint

(* The pause a 429 asks for, bounded; Bitbucket often sends no Retry-After *)
Pause(hint) == IF hint = NoHint THEN Fallback ELSE MinOf(hint, MaxPause)

(* Seconds a call sleeps on its own before attempt n + 2 *)
Backoff(kind, n, hint) ==
    IF kind = "file" THEN (n + 1) * 2
    ELSE IF hint = NoHint THEN 2 ^ n ELSE MaxOf(2 ^ n, MinOf(hint, 60))

(* A 429 is retried by all: the pause is published and the gate does the     *)
(* sleeping.  5xx and network errors are retried by the call alone.  Every   *)
(* other error, and any error of the last attempt, ends the call.            *)
Answer(t, answer, hint) ==
    LET c == call[t]
        retried == answer \in {"limited", "broken", "network"} /\ c.n < Tries - 1
    IN
    /\ c.pc = "sent"
    /\ (answer = "limited") \/ hint = NoHint
    /\ IF retried /\ answer = "limited" /\ c.kind \in Bitbucket
       THEN /\ Hold(Pause(hint))
            /\ window' = MaxOf(window, Pause(hint))
            /\ call' = [u \in Threads |->
                 IF u = t THEN Attempt(c, c.n + 1)
                 ELSE [call[u] EXCEPT !.stale = call[u].pc = "queue"]]
       ELSE /\ call' = [call EXCEPT ![t] =
                 IF retried THEN [c EXCEPT !.pc = "sleep", !.left = Backoff(c.kind, c.n, hint)]
                 ELSE NoCall]
            /\ UNCHANGED <<hold, window>>

Tick ==
    /\ hold' = Less(hold)
    /\ window' = Less(window)
    /\ call' = [t \in Threads |-> [call[t] EXCEPT !.left = Less(@)]]

GateNext ==
    \/ \E t \in Threads, kind \in Kinds : Begin(t, kind)
    \/ \E t \in Threads : Look(t) \/ WakeUp(t) \/ Send(t)
    \/ \E t \in Threads, answer \in Answers, hint \in Hints \cup {NoHint} :
           Answer(t, answer, hint)
    \/ Tick

(* Sleeps and requests end (every request has a timeout); a thread that      *)
(* waits for a slot gets one if slots keep being freed                       *)
Goes(t) == Look(t) \/ WakeUp(t) \/ \E a \in Answers : Answer(t, a, NoHint)

GateFairness ==
    /\ WF_gateVars(Tick)
    /\ \A t \in Threads : WF_gateVars(Goes(t)) /\ SF_gateVars(Send(t))

GateSpec == GateInit /\ [][GateNext]_gateVars /\ GateFairness

-----------------------------------------------------------------------------
(* Properties *)

(* No request goes out in a window that some 429 announced before the call   *)
(* looked at the gate: only a pause published after that look, or one that   *)
(* outlasted all the slices, is overrun (_bb_ratelimit_wait).  What a step   *)
(* must be.                                                                  *)
BrakesTogether ==
    \A t \in Threads :
        call[t].pc = "queue" /\ call'[t].pc = "sent" /\ call[t].kind \in Bitbucket
        => window = 0 \/ call[t].stale \/ OutOfSlices(call[t])

(* However the pause is extended by others, a call gets its answer or its    *)
(* error: waiting in the gate ends (the bounded slices).  What is true again *)
(* and again.                                                                *)
CallOver(t) == call[t].pc = "idle"

(* Inductive: the gate holds what was asked for, and who passed it had       *)
(* nothing to wait for then and since, or waited through all the slices      *)
HoldCovers == window <= hold
PassedRightly ==
    \A t \in Threads :
        call[t].pc = "queue" /\ call[t].kind \in Bitbucket
        => window = 0 \/ call[t].stale \/ OutOfSlices(call[t])
SleepsBeforeLast == \A t \in Threads : call[t].pc = "sleep" => call[t].n < Tries - 1

GateInv == GateTypeOK /\ HoldCovers /\ PassedRightly /\ SleepsBeforeLast
=============================================================================
