--------------------------- MODULE LeaderElection ---------------------------
(***************************************************************************)
(* The Lease-based leader election of src/src/leader.py.  Every replica    *)
(* runs an election thread (LeaderElector._run / tick / _tick) and a main  *)
(* thread that asks is_leader() and, on SIGTERM, calls release().  They    *)
(* share one coordination.k8s.io Lease, written by compare-and-swap on its *)
(* resourceVersion.                                                        *)
(*                                                                         *)
(* A request and its answer are separate steps: a GET may be stale when it *)
(* is used, a PUT may land long after its sender gave up on it, and a      *)
(* replica may die at any point.  Time is an integer; each replica reads   *)
(* it through a clock of its own, Clock(r), skewed by a constant offset.   *)
(***************************************************************************)
EXTENDS Integers, FiniteSets

CONSTANTS
    Replicas,      \* the pods; a restarted container keeps its pod's identity
    NoOne,         \* the blank holderIdentity
    None,          \* Python's None
    Duration,      \* lease_duration: how long a standby waits on a silent lease
    Deadline,      \* renew_deadline: how long a leader trusts its last renewal
    Retry,         \* retry_period: the pause between two election rounds
    MaxGet,        \* longest GET, from the clock reading before it to its use
    MaxPut,        \* _HTTP_TIMEOUT: longest PUT or POST a client waits for
    Lag,           \* how late a sleeping election thread may wake up
    Offset,        \* [Replicas -> Int]: what each clock adds to the real time
    MaxTime,       \* bound on the real time
    MaxCrashes,    \* bound on the processes that die or exit
    MaxLosses,     \* bound on the requests whose caller gives up
    MaxReleases    \* bound on the SIGTERMs

ASSUME ConstantsAssumption ==
    /\ NoOne \notin Replicas
    /\ None \notin Replicas
    /\ {Duration, Deadline, Retry, MaxGet, MaxPut, Lag,
        MaxTime, MaxCrashes, MaxLosses, MaxReleases} \subseteq Nat
    /\ Offset \in [Replicas -> Int]

ASSUME NoneAssumption ==
    None \notin [holder : Replicas \cup {NoOne}, renew : Int, since : Int]

VARIABLES
    time,        \* real time
    lease,       \* the Lease object at the API server; rv = 0: not created yet
    puts,        \* lease writes on their way to the API server
    alive,       \* the processes that run
    leading,     \* _leading
    lastRenew,   \* _last_renew, on the replica's clock
    observed,    \* _observed: the foreign lease last seen and since when
    stopped,     \* _stop_event
    tickPc,      \* where the election thread is
    tickNow,     \* `now` of _tick, read before the GET
    since,       \* when the thread's current request or sleep began
    reply,       \* what the thread's GET returned
    sent,        \* the write the thread waits for
    mainPc,      \* where release() is
    mainSince,   \* when the main thread's current wait began
    crashes, losses, releases

threadVars == <<tickPc, tickNow, since, reply, sent>>
memoryVars == <<leading, lastRenew, observed>>
mainVars   == <<stopped, mainPc, mainSince>>
faultVars  == <<crashes, losses, releases>>
vars == <<time, lease, puts, alive, memoryVars, threadVars, mainVars, faultVars>>

-----------------------------------------------------------------------------

Clock(r) == time + Offset[r]

Leases == [holder : Replicas \cup {NoOne}, renew : Int, rv : Nat]
Writes == [from : Replicas, holder : Replicas \cup {NoOne}, renew : Int, rv : Nat]

(* Mutant of IsLeader: no self-demotion *)
IsLeaderForGood(r) == r \in alive /\ leading[r]

(* is_leader: no network, and it decays once the last renewal is too old *)
IsLeader(r) ==
    /\ r \in alive
    /\ leading[r]
    /\ Clock(r) - lastRenew[r] < Deadline

TypeOK ==
    /\ time \in Int
    /\ lease \in Leases
    /\ puts \subseteq Writes
    /\ alive \subseteq Replicas
    /\ leading \in [Replicas -> BOOLEAN]
    /\ lastRenew \in [Replicas -> Int]
    /\ observed \in [Replicas -> {None} \cup
            [holder : Replicas \cup {NoOne}, renew : Int, since : Int]]
    /\ stopped \in [Replicas -> BOOLEAN]
    /\ tickPc \in [Replicas ->
            {"sleep", "get", "got", "put", "won", "lost", "ended"}]
    /\ tickNow \in [Replicas -> Int]
    /\ since \in [Replicas -> Int]
    /\ reply \in [Replicas -> Leases]
    /\ sent \in [Replicas -> {None} \cup Writes]
    /\ mainPc \in [Replicas -> {"serve", "join", "demote", "demoteOnly",
                                "get", "put", "released"}]
    /\ mainSince \in [Replicas -> Int]
    /\ crashes \in Nat
    /\ losses \in Nat
    /\ releases \in Nat

NoLease == [holder |-> NoOne, renew |-> 0, rv |-> 0]

Init ==
    /\ time = 0
    /\ lease = NoLease
    /\ puts = {}
    /\ alive = Replicas
    /\ leading = [r \in Replicas |-> FALSE]
    /\ lastRenew = [r \in Replicas |-> 0]
    /\ observed = [r \in Replicas |-> None]
    /\ stopped = [r \in Replicas |-> FALSE]
    /\ tickPc = [r \in Replicas |-> "sleep"]
    /\ tickNow = [r \in Replicas |-> 0]
    /\ since = [r \in Replicas |-> -Retry]
    /\ reply = [r \in Replicas |-> NoLease]
    /\ sent = [r \in Replicas |-> None]
    /\ mainPc = [r \in Replicas |-> "serve"]
    /\ mainSince = [r \in Replicas |-> 0]
    /\ crashes = 0
    /\ losses = 0
    /\ releases = 0

-----------------------------------------------------------------------------
(* The election thread *)

(* _run, tick and the first line of _tick: the clock is read before the GET *)
StartTick(r) ==
    /\ r \in alive
    /\ tickPc[r] = "sleep"
    /\ ~stopped[r]
    /\ time >= since[r] + Retry
    /\ tickPc' = [tickPc EXCEPT ![r] = "get"]
    /\ tickNow' = [tickNow EXCEPT ![r] = Clock(r)]
    /\ since' = [since EXCEPT ![r] = time]
    /\ UNCHANGED <<time, lease, puts, alive, memoryVars, reply, sent,
                   mainVars, faultVars>>

(* _run leaves its loop: the stop event also cuts the sleep short *)
EndThread(r) ==
    /\ r \in alive
    /\ tickPc[r] = "sleep"
    /\ stopped[r]
    /\ tickPc' = [tickPc EXCEPT ![r] = "ended"]
    /\ UNCHANGED <<time, lease, puts, alive, memoryVars, tickNow, since, reply,
                   sent, mainVars, faultVars>>

(* The API server answers the GET of _get_lease (a 404 is rv = 0) *)
ServeGet(r) ==
    /\ r \in alive
    /\ tickPc[r] = "get"
    /\ tickPc' = [tickPc EXCEPT ![r] = "got"]
    /\ reply' = [reply EXCEPT ![r] = lease]
    /\ UNCHANGED <<time, lease, puts, alive, memoryVars, tickNow, since, sent,
                   mainVars, faultVars>>

(* A round is over: its locals go, and the loop sleeps in _stop_event.wait *)
Sleep(r) ==
    /\ tickPc' = [tickPc EXCEPT ![r] = "sleep"]
    /\ tickNow' = [tickNow EXCEPT ![r] = 0]
    /\ since' = [since EXCEPT ![r] = time]
    /\ reply' = [reply EXCEPT ![r] = NoLease]
    /\ sent' = [sent EXCEPT ![r] = None]

Send(r) ==
    LET write == [from |-> r, holder |-> r, renew |-> tickNow[r],
                  rv |-> reply[r].rv]
    IN  /\ puts' = puts \cup {write}
        /\ sent' = [sent EXCEPT ![r] = write]
        /\ tickPc' = [tickPc EXCEPT ![r] = "put"]
        /\ since' = [since EXCEPT ![r] = time]

(* _tick, no lease yet or our own: POST it or renew it *)
CreateOrRenew(r) ==
    /\ r \in alive
    /\ tickPc[r] = "got"
    /\ reply[r].rv = 0 \/ reply[r].holder = r
    /\ Send(r)
    /\ UNCHANGED <<time, lease, alive, memoryVars, tickNow, reply,
                   mainVars, faultVars>>

(* Mutants of Observation: renewals do not restart the watch; every round does *)
ObservedHolderOnly(r) ==
    IF observed[r] # None /\ observed[r].holder = reply[r].holder
    THEN observed[r]
    ELSE [holder |-> reply[r].holder, renew |-> reply[r].renew,
          since |-> tickNow[r]]

ObservedAnew(r) ==
    [holder |-> reply[r].holder, renew |-> reply[r].renew, since |-> tickNow[r]]

(* `self._observed` after _tick saw the foreign lease it got *)
Observation(r) ==
    LET seen == reply[r]
    IN  IF /\ observed[r] # None
           /\ observed[r].holder = seen.holder
           /\ observed[r].renew = seen.renew
        THEN observed[r]
        ELSE [holder |-> seen.holder, renew |-> seen.renew,
              since |-> tickNow[r]]

Expired(r) ==
    \/ reply[r].holder = NoOne
    \/ tickNow[r] - Observation(r).since > Duration

Foreign(r) == reply[r].rv # 0 /\ reply[r].holder # r

(* _tick, somebody else's live lease: stand by *)
StandBy(r) ==
    /\ r \in alive
    /\ tickPc[r] = "got"
    /\ Foreign(r)
    /\ ~Expired(r)
    /\ observed' = [observed EXCEPT ![r] = Observation(r)]
    /\ leading' = [leading EXCEPT ![r] = FALSE]
    /\ Sleep(r)
    /\ UNCHANGED <<time, lease, puts, alive, lastRenew, mainVars, faultVars>>

(* _tick, a released lease or one silent for too long: try to take it *)
TakeOver(r) ==
    /\ r \in alive
    /\ tickPc[r] = "got"
    /\ Foreign(r)
    /\ Expired(r)
    /\ observed' = [observed EXCEPT ![r] = Observation(r)]
    /\ Send(r)
    /\ UNCHANGED <<time, lease, alive, leading, lastRenew, tickNow, reply,
                   mainVars, faultVars>>

(* Mutants of SetLeading: the renewal is dated when its answer arrives; a      *)
(* lost leadership clears the renewal time                                     *)
SetLeadingOnAnswer(r) ==
    /\ r \in alive
    /\ tickPc[r] \in {"won", "lost"}
    /\ leading' = [leading EXCEPT ![r] = tickPc[r] = "won"]
    /\ lastRenew' = [lastRenew EXCEPT ![r] = Clock(r)]
    /\ UNCHANGED observed
    /\ Sleep(r)
    /\ UNCHANGED <<time, lease, puts, alive, mainVars, faultVars>>

SetLeadingClears(r) ==
    /\ r \in alive
    /\ tickPc[r] \in {"won", "lost"}
    /\ leading' = [leading EXCEPT ![r] = tickPc[r] = "won"]
    /\ lastRenew' = [lastRenew EXCEPT ![r] = IF tickPc[r] = "won" THEN tickNow[r]
                                                                 ELSE None]
    /\ UNCHANGED observed
    /\ Sleep(r)
    /\ UNCHANGED <<time, lease, puts, alive, mainVars, faultVars>>

(* _tick ends with _set_leading on the outcome of its own write *)
SetLeading(r) ==
    /\ r \in alive
    /\ \/ /\ tickPc[r] = "won"
          /\ leading' = [leading EXCEPT ![r] = TRUE]
          /\ lastRenew' = [lastRenew EXCEPT ![r] = tickNow[r]]
          /\ observed' = [observed EXCEPT ![r] = None]
       \/ /\ tickPc[r] = "lost"
          /\ leading' = [leading EXCEPT ![r] = FALSE]
          /\ UNCHANGED <<lastRenew, observed>>
    /\ Sleep(r)
    /\ UNCHANGED <<time, lease, puts, alive, mainVars, faultVars>>

(* A GET or PUT that raises: tick() swallows it and the memory stays as it   *)
(* was.  The write itself may still be on its way.                           *)
GiveUp(r) ==
    /\ r \in alive
    /\ tickPc[r] \in {"get", "put"}
    /\ losses < MaxLosses
    /\ losses' = losses + 1
    /\ Sleep(r)
    /\ UNCHANGED <<time, lease, puts, alive, memoryVars, mainVars, crashes,
                   releases>>

-----------------------------------------------------------------------------
(* The API server *)

Wins(w) == w.rv = lease.rv

Store(w) ==
    lease' = IF Wins(w)
             THEN [holder |-> w.holder, renew |-> w.renew, rv |-> lease.rv + 1]
             ELSE lease

(* The write that an election thread still waits for is decided, and its     *)
(* outcome (200/201 or 409) reaches the thread                               *)
ServePut(r) ==
    /\ r \in alive
    /\ tickPc[r] = "put"
    /\ sent[r] \in puts
    /\ Store(sent[r])
    /\ puts' = puts \ {sent[r]}
    /\ tickPc' = [tickPc EXCEPT ![r] = IF Wins(sent[r]) THEN "won" ELSE "lost"]
    /\ UNCHANGED <<time, alive, memoryVars, tickNow, since, reply, sent,
                   mainVars, faultVars>>

(* A write is decided and nobody hears of it: its answer is lost, or its     *)
(* sender gave up or died, or it is the write of release()                   *)
ServeUnheard(w) ==
    /\ w \in puts
    /\ w = sent[w.from] => losses < MaxLosses
    /\ Store(w)
    /\ puts' = puts \ {w}
    /\ UNCHANGED <<time, alive, memoryVars, threadVars, mainVars, faultVars>>

-----------------------------------------------------------------------------
(* The main thread: release() on SIGTERM *)

(* Mutant of BeginRelease: the election thread is not told to stop *)
BeginReleaseUnstopped(r) ==
    /\ r \in alive
    /\ mainPc[r] = "serve"
    /\ releases < MaxReleases
    /\ releases' = releases + 1
    /\ mainPc' = [mainPc EXCEPT ![r] = "join"]
    /\ mainSince' = [mainSince EXCEPT ![r] = time]
    /\ UNCHANGED <<time, lease, puts, alive, memoryVars, threadVars, stopped,
                   crashes, losses>>

BeginRelease(r) ==
    /\ r \in alive
    /\ mainPc[r] = "serve"
    /\ releases < MaxReleases
    /\ releases' = releases + 1
    /\ stopped' = [stopped EXCEPT ![r] = TRUE]
    /\ mainPc' = [mainPc EXCEPT ![r] = "join"]
    /\ mainSince' = [mainSince EXCEPT ![r] = time]
    /\ UNCHANGED <<time, lease, puts, alive, memoryVars, threadVars, crashes,
                   losses>>

(* How long release() waits for the election thread: one request, although a *)
(* round is two                                                              *)
JoinTimeout == Retry + MaxPut

(* t.join(timeout=...) returns, and is_leader() is read *)
Joined(r) ==
    /\ r \in alive
    /\ mainPc[r] = "join"
    /\ tickPc[r] = "ended" \/ time >= mainSince[r] + JoinTimeout
    /\ mainPc' = [mainPc EXCEPT ![r] = IF IsLeader(r) THEN "demote"
                                                      ELSE "demoteOnly"]
    /\ UNCHANGED <<time, lease, puts, alive, memoryVars, threadVars, stopped,
                   mainSince, faultVars>>

(* `self._leading = False`, and only a former leader goes on to the lease *)
Demote(r) ==
    /\ r \in alive
    /\ mainPc[r] \in {"demote", "demoteOnly"}
    /\ leading' = [leading EXCEPT ![r] = FALSE]
    /\ mainPc' = [mainPc EXCEPT ![r] = IF mainPc[r] = "demote" THEN "get"
                                                               ELSE "released"]
    /\ mainSince' = [mainSince EXCEPT ![r] = time]
    /\ UNCHANGED <<time, lease, puts, alive, lastRenew, observed, threadVars,
                   stopped, faultVars>>

(* The GET of release(), and the write that blanks a lease still its own *)
ReleaseGet(r) ==
    /\ r \in alive
    /\ mainPc[r] = "get"
    /\ IF lease.holder = r
       THEN /\ puts' = puts \cup {[from |-> r, holder |-> NoOne,
                                   renew |-> lease.renew, rv |-> lease.rv]}
            /\ mainPc' = [mainPc EXCEPT ![r] = "put"]
       ELSE /\ mainPc' = [mainPc EXCEPT ![r] = "released"]
            /\ UNCHANGED puts
    /\ mainSince' = [mainSince EXCEPT ![r] = time]
    /\ UNCHANGED <<time, lease, alive, memoryVars, threadVars, stopped, faultVars>>

Blank(r) == {w \in puts : w.from = r /\ w.holder = NoOne}

(* release() returns once its write is decided, or raises and is swallowed *)
ReleaseDone(r) ==
    /\ r \in alive
    /\ \/ mainPc[r] = "put" /\ Blank(r) = {} /\ UNCHANGED losses
       \/ /\ mainPc[r] \in {"get", "put"}
          /\ losses < MaxLosses
          /\ losses' = losses + 1
    /\ mainPc' = [mainPc EXCEPT ![r] = "released"]
    /\ UNCHANGED <<time, lease, puts, alive, memoryVars, threadVars, stopped,
                   mainSince, crashes, releases>>

-----------------------------------------------------------------------------
(* Processes and time *)

(* The process dies, or exits once drained; what it sent stays on its way.   *)
(* A process of the same pod starts from a fresh LeaderElector.              *)
Crash(r) ==
    /\ r \in alive
    /\ crashes < MaxCrashes
    /\ crashes' = crashes + 1
    /\ alive' = alive \ {r}
    /\ leading' = [leading EXCEPT ![r] = FALSE]
    /\ lastRenew' = [lastRenew EXCEPT ![r] = 0]
    /\ observed' = [observed EXCEPT ![r] = None]
    /\ Sleep(r)
    /\ stopped' = [stopped EXCEPT ![r] = FALSE]
    /\ mainPc' = [mainPc EXCEPT ![r] = "serve"]
    /\ mainSince' = [mainSince EXCEPT ![r] = 0]
    /\ UNCHANGED <<time, lease, puts, losses, releases>>

(* start(): the first round begins at once *)
Restart(r) ==
    /\ r \in Replicas \ alive
    /\ time > since[r]
    /\ alive' = alive \cup {r}
    /\ since' = [since EXCEPT ![r] = time - Retry]
    /\ UNCHANGED <<time, lease, puts, memoryVars, tickPc, tickNow, reply, sent,
                   mainVars, faultVars>>

(* What must happen before the clock may pass: a request is answered or      *)
(* given up within its timeout, a thread that is due wakes within Lag, and   *)
(* one that was told to stop ends                                            *)
Patient(r) ==
    /\ tickPc[r] \in {"get", "got"} => time < since[r] + MaxGet
    /\ tickPc[r] \in {"put", "won", "lost"} => time < since[r] + MaxPut
    /\ tickPc[r] = "sleep" => ~stopped[r] /\ time < since[r] + Retry + Lag
    /\ mainPc[r] = "join" => time < mainSince[r] + JoinTimeout
    /\ mainPc[r] = "get" => time < mainSince[r] + MaxGet
    /\ mainPc[r] = "put" => time < mainSince[r] + MaxPut
    /\ mainPc[r] \notin {"demote", "demoteOnly"}

Tick ==
    /\ time < MaxTime
    /\ \A r \in alive : Patient(r)
    /\ time' = time + 1
    /\ UNCHANGED <<lease, puts, alive, memoryVars, threadVars, mainVars, faultVars>>

-----------------------------------------------------------------------------

Next ==
    \/ \E r \in Replicas :
        \/ StartTick(r) \/ EndThread(r)
        \/ ServeGet(r) \/ CreateOrRenew(r) \/ StandBy(r) \/ TakeOver(r)
        \/ ServePut(r) \/ SetLeading(r) \/ GiveUp(r)
        \/ BeginRelease(r) \/ Joined(r) \/ Demote(r)
        \/ ReleaseGet(r) \/ ReleaseDone(r)
        \/ Crash(r) \/ Restart(r)
    \/ \E w \in puts : ServeUnheard(w)
    \/ Tick

Spec == Init /\ [][Next]_vars

-----------------------------------------------------------------------------
(* Properties *)

(* release() has set _leading to False: what leads after that is the stray   *)
(* round that outlived the join                                              *)
Released(r) == mainPc[r] \in {"get", "put", "released"}

(* Two replicas that were not told to go never both answer is_leader() with  *)
(* True: the poll loop, and with it every comment and build status, has one  *)
(* owner at a time.  A stray of release() may lead beside it (StrayIsBrief). *)
AtMostOneLeader ==
    \A r, s \in Replicas :
        IsLeader(r) /\ IsLeader(s) => r = s \/ Released(r) \/ Released(s)

(* A replica that thinks it leads is the holder on the API server, and its   *)
(* own last renewal is not newer than the one stored there; only a stray of  *)
(* release() leads on a lease that was given away.                           *)
LeaderHoldsLease ==
    \A r \in Replicas :
        IsLeader(r) =>
            \/ lease.holder = r /\ lastRenew[r] <= lease.renew
            \/ Released(r)

(* How long a released replica may lead again: its round was begun before    *)
(* the stop event, so of the renew deadline only what the join left over     *)
(* remains, counted from the last request of release().  (With the defaults  *)
(* 10 - 7 s; no third round prolongs it.)                                    *)
StrayIsBrief ==
    \A r \in Replicas :
        Released(r) /\ IsLeader(r) => time < mainSince[r] + Deadline - JoinTimeout

(* Once release() has demoted a replica it leads no more: "a stray election  *)
(* tick must never re-acquire the released lease ... and a shutting-down     *)
(* standby must not acquire leadership either" (leader.py:123-127).          *)
StaysReleased ==
    \A r \in alive : Released(r) => ~leading[r]

(* A lease changes hands between two live identities only when its old       *)
(* holder has been silent for at least the renew deadline: _tick measures    *)
(* silence from its own first sight, whatever the clocks' skew.              *)
TakenOnlyFromTheSilent ==
    [][\A r, s \in Replicas :
            lease.holder = r /\ lease'.holder = s /\ r # s
                => Clock(r) - lease.renew >= Deadline]_vars

(* What the timing claims rest on: self-demotion plus the slowest GET fit in *)
(* the lease (10 + 5 <= 15 with the defaults, no slack).                     *)
SafeWindow == Deadline + MaxGet <= Duration
=============================================================================
