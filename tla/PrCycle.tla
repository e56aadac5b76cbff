------------------------------- MODULE PrCycle -------------------------------
(***************************************************************************)
(* The life of one pull request in src/src/diff_preview.py: the leader's   *)
(* poll loop (main_iteration) takes a snapshot of the PR's head and of the *)
(* tip of main, process_pr renders it and publishes one comment and one    *)
(* build status, and three memories decide what is done again: the _seen   *)
(* dedup of the pod, the tokens in the published comment, and the retry    *)
(* backoff.  Pushes, merges on main, chart republishes, supersede aborts,  *)
(* failing Bitbucket calls, crashes and leadership changes interleave with *)
(* every step.                                                             *)
(*                                                                         *)
(* What a snapshot renders to is given by the constant Truth: the path it  *)
(* takes through process_pr and the token of its verdict.  A render fails  *)
(* transiently or raises by choice, within the bounds.                     *)
(***************************************************************************)
EXTENDS Integers, FiniteSets

CONSTANTS
    Pods,
    Heads,         \* commits the PR's branch can point at
    Bases,         \* tips of main, in the order they appear
    Charts,        \* builds published under the chart tag, in order
    None,
    Truth,         \* what each head renders to on each tip of main
    MaxPushes,     \* bound on the pushes to the PR's branch
    Faults,        \* what may go wrong, a subset of FaultKinds
    MaxFaults,     \* how often
    MaxAborts,     \* bound on the supersede and SIGTERM aborts
    MaxCrashes,    \* bound on the pod restarts
    MaxHandovers,  \* bound on the changes of leader
    MaxDelay       \* the cap on the retry backoff (8 in the code)

(* "blocked": the early exits of process_pr (merge conflict, YAML guards);   *)
(* "none": no app and no new environment is affected                         *)
Paths  == {"blocked", "none", "newenv", "affected"}
Tokens == {"clean", "permanent", "blocked", "transient", "conflict"}
States == {"INPROGRESS", "SUCCESSFUL", "FAILED"}
FaultKinds ==
    {"unsent",     \* a write fails and did not land
     "unheard",    \* a write lands and its caller sees it fail
     "refused",    \* a read or write fails for good: classified permanent
     "unread",     \* a read of Bitbucket fails
     "unrelayed",  \* a standby does not reach the leader with a webhook
     "slow",       \* a chart pull takes so long that others act meanwhile
     "young",      \* a chart on disk is republished within DEV_CHART_TTL
     "flaky",      \* a render is indeterminate for a reason that may pass
     "raised"}     \* process_pr's try block raises

ASSUME PrCycleAssumption ==
    /\ Bases \subseteq Nat /\ 1 \in Bases
    /\ Charts \subseteq Nat /\ 1 \in Charts /\ 0 \notin Charts
    /\ Pods # {} /\ Heads # {}
    /\ None \notin Heads \cup Pods
    /\ Truth \in [Heads -> [Bases -> [path : Paths, token : Tokens]]]
    /\ Faults \subseteq FaultKinds
    /\ {MaxPushes, MaxFaults, MaxAborts, MaxCrashes, MaxHandovers} \subseteq Nat
    /\ MaxDelay \in Nat \ {0}

ASSUME NoneAssumption == None \notin Heads \X Bases

VARIABLES
    head, base, chart,   \* what Bitbucket and the registry hold now
    comment,             \* the service's comment on the PR
    status,              \* the build status of each commit
    leader,              \* the pod whose is_leader() is True
    seen,                \* _seen
    forced,              \* _force_recompute
    targets,             \* whether _pr_chart_targets names the chart
    backoff,             \* _retry_backoff
    cached,              \* the build _ensure_chart serves without a pull, 0: none
    disk,                \* the build in the pod's chart directory, 0: none
    pc, run,             \* the pod's current pass over the PR
    sending,             \* whether a write of it is past the leadership check
    events,              \* chart push webhooks on their way: to, relayed
    pushes, faults, aborts, crashes, handovers

world  == <<head, base, chart>>
posted == <<comment, status>>
memory == <<seen, forced, targets, backoff, cached, disk>>
counts == <<pushes, faults, aborts, crashes, handovers>>
pass   == <<pc, run, sending>>
vars   == <<world, posted, leader, memory, pass, events, counts>>

-----------------------------------------------------------------------------

NoComment == [sha |-> None, base |-> 0, token |-> "clean", chart |-> 0]

Comments == [sha : Heads \cup {None}, base : Bases \cup {0}, token : Tokens,
             chart : Charts \cup {0}]

Results == {"ok", "transient", "permanent", "skipped"}

WritePcs == {"mend", "announce", "write1", "write2", "error1", "error2"}

Labels == WritePcs \cup {"idle", "listing", "queued", "lookup", "decide", "recover",
                         "begin", "render", "pulling", "compose"}

(* A pass: its snapshot, whether it was forced, the comment it found, the    *)
(* verdict it is about to publish and the result of its first write          *)
Runs == [sha : Heads \cup {None}, base : Bases \cup {0}, forced : BOOLEAN,
         found : Comments, token : Tokens, chart : Charts \cup {0},
         first : Results]

Idle == [sha |-> None, base |-> 0, forced |-> FALSE, found |-> NoComment,
         token |-> "clean", chart |-> 0, first |-> "ok"]

Webhooks == [to : Pods, relayed : BOOLEAN]

TypeOK ==
    /\ head \in Heads /\ base \in Bases /\ chart \in Charts
    /\ comment \in Comments
    /\ status \in [Heads -> States \cup {"none"}]
    /\ leader \in Pods
    /\ seen \in [Pods -> {None} \cup (Heads \X Bases)]
    /\ forced \in [Pods -> BOOLEAN]
    /\ targets \in [Pods -> BOOLEAN]
    /\ backoff \in [Pods -> {None} \cup
            [skips : 0..MaxDelay, next : 1..MaxDelay, sha : Heads]]
    /\ cached \in [Pods -> Charts \cup {0}]
    /\ disk \in [Pods -> Charts \cup {0}]
    /\ pc \in [Pods -> Labels]
    /\ run \in [Pods -> Runs]
    /\ sending \in [Pods -> BOOLEAN]
    /\ events \subseteq Webhooks
    /\ {pushes, faults, aborts, crashes, handovers} \subseteq Nat

Init ==
    /\ head \in Heads /\ base = 1 /\ chart = 1
    /\ comment = NoComment
    /\ status = [h \in Heads |-> "none"]
    /\ leader \in Pods
    /\ seen = [p \in Pods |-> None]
    /\ forced = [p \in Pods |-> FALSE]
    /\ targets = [p \in Pods |-> FALSE]
    /\ backoff = [p \in Pods |-> None]
    /\ cached = [p \in Pods |-> 0]
    /\ disk = [p \in Pods |-> 0]
    /\ pc = [p \in Pods |-> "idle"]
    /\ run = [p \in Pods |-> Idle]
    /\ sending = [p \in Pods |-> FALSE]
    /\ events = {}
    /\ pushes = 0 /\ faults = 0 /\ aborts = 0 /\ crashes = 0 /\ handovers = 0

-----------------------------------------------------------------------------
(* Faults and writes *)

Fault(kind) ==
    /\ kind \in Faults
    /\ faults < MaxFaults
    /\ faults' = faults + 1

NoFault == UNCHANGED faults

(* The _still_leader() check that post_build_status and upsert_comment open  *)
(* with; the request it lets through takes its time, leader or not           *)
Gate(p) ==
    /\ pc[p] \in WritePcs
    /\ ~sending[p]
    /\ leader = p
    /\ sending' = [sending EXCEPT ![p] = TRUE]
    /\ UNCHANGED <<world, posted, leader, memory, pc, run, events, counts>>

(* bb() on behalf of pod p: whether the write landed, and what its caller got *)
Write(p, landed, res) ==
    /\ sending' = [sending EXCEPT ![p] = FALSE]
    /\ \/ ~sending[p] /\ leader # p /\ ~landed /\ res = "skipped" /\ NoFault
       \/ sending[p] /\ landed /\ res = "ok" /\ NoFault
       \/ sending[p] /\ ~landed /\ res = "transient" /\ Fault("unsent")
       \/ sending[p] /\ landed /\ res = "transient" /\ Fault("unheard")
       \/ sending[p] /\ ~landed /\ res = "permanent" /\ Fault("refused")

(* post_build_status *)
PostStatus(p, state, res) ==
    \E landed \in BOOLEAN :
        /\ Write(p, landed, res)
        /\ status' = IF landed THEN [status EXCEPT ![run[p].sha] = state] ELSE status
        /\ UNCHANGED comment

(* upsert_comment: one comment, updated in place *)
PostComment(p, token, build, res) ==
    \E landed \in BOOLEAN :
        /\ Write(p, landed, res)
        /\ comment' = IF landed THEN [sha |-> run[p].sha, base |-> run[p].base,
                                      token |-> token, chart |-> build]
                                ELSE comment
        /\ UNCHANGED status

(* What pod p's snapshot renders to *)
Verdict(p) == Truth[run[p].sha][run[p].base]

Goto(p, label) == pc' = [pc EXCEPT ![p] = label]
End(p) == Goto(p, "idle") /\ run' = [run EXCEPT ![p] = Idle]

-----------------------------------------------------------------------------
(* Retry memory *)

(* Mutant of RegisterTransient: the delay grows past its cap *)
RegisterUncapped(p) ==
    LET bo    == backoff[p]
        delay == IF bo # None /\ bo.sha = run[p].sha THEN bo.next ELSE 1
    IN  backoff' = [backoff EXCEPT ![p] =
            [skips |-> delay, next |-> 2 * delay, sha |-> run[p].sha]]

(* _backoff_register_transient *)
RegisterTransient(p) ==
    LET bo    == backoff[p]
        delay == IF bo # None /\ bo.sha = run[p].sha THEN bo.next ELSE 1
        twice == IF 2 * delay < MaxDelay THEN 2 * delay ELSE MaxDelay
    IN  backoff' = [backoff EXCEPT ![p] =
            [skips |-> delay, next |-> twice, sha |-> run[p].sha]]

(* Mutant of SeenAfterWrites: a failed write is as good as a written one *)
SeenWhateverWritten(p, results) ==
    IF "skipped" \in results
    THEN UNCHANGED <<seen, backoff>>
    ELSE /\ seen' = [seen EXCEPT ![p] = <<run[p].sha, run[p].base>>]
         /\ backoff' = [backoff EXCEPT ![p] = None]

(* _seen_after_writes, on the results of the writes of this pass *)
SeenAfterWrites(p, results) ==
    IF "transient" \in results
    THEN RegisterTransient(p) /\ UNCHANGED seen
    ELSE IF "skipped" \in results
    THEN UNCHANGED <<seen, backoff>>
    ELSE /\ seen' = [seen EXCEPT ![p] = <<run[p].sha, run[p].base>>]
         /\ backoff' = [backoff EXCEPT ![p] = None]

-----------------------------------------------------------------------------
(* main_iteration: only the leader polls; main is read before the PR list *)

(* _prune_helm_cache, for a chart of a dev registry: a build past its time   *)
(* goes, and the mtime of a directory stands in for a time that is missing   *)
Prune(p) ==
    \/ /\ cached' = [cached EXCEPT ![p] = 0]
       /\ disk' = [disk EXCEPT ![p] = 0]
       /\ NoFault
    \/ cached[p] = disk[p] /\ UNCHANGED <<cached, disk>> /\ NoFault
    \/ /\ cached[p] # disk[p]
       /\ cached' = [cached EXCEPT ![p] = disk[p]]
       /\ UNCHANGED disk
       /\ Fault("young")

ReadBase(p) ==
    /\ pc[p] = "idle"
    /\ leader = p
    /\ Goto(p, "listing")
    /\ Prune(p)
    /\ run' = [run EXCEPT ![p].base = base]
    /\ UNCHANGED <<world, posted, leader, seen, forced, targets, backoff, sending,
                   events, pushes, aborts, crashes, handovers>>

ListPrs(p) ==
    /\ pc[p] = "listing"
    /\ \/ Goto(p, "queued") /\ run' = [run EXCEPT ![p].sha = head] /\ NoFault
       \/ End(p) /\ Fault("unread")
    /\ UNCHANGED <<world, posted, leader, memory, sending, events,
                   pushes, aborts, crashes, handovers>>

(* process_pr, its entry and the end of its batch of diffs: not the leader   *)
(* any more, or superseded by a webhook's hint, which may be as late as its  *)
(* delivery: nothing is written and nothing is remembered                    *)
Abandon(p) ==
    /\ \/ pc[p] = "queued" /\ leader # p /\ UNCHANGED aborts
       \/ /\ \/ pc[p] = "queued"
             \/ pc[p] = "compose" /\ Verdict(p).path = "affected"
          /\ aborts < MaxAborts
          /\ aborts' = aborts + 1
    /\ End(p)
    /\ UNCHANGED <<world, posted, leader, memory, sending, events,
                   pushes, faults, crashes, handovers>>

(* The forced flag is consumed; the _seen dedup and the backoff may end the  *)
(* pass, and the backoff counts it                                           *)
Enter(p) ==
    LET r    == run[p]
        bo   == backoff[p]
        skip == ~forced[p] /\ seen[p] = <<r.sha, r.base>>
        hold == ~forced[p] /\ ~skip /\ bo # None /\ bo.sha = r.sha /\ bo.skips > 0
    IN  /\ pc[p] = "queued"
        /\ leader = p
        /\ forced' = [forced EXCEPT ![p] = FALSE]
        /\ backoff' = [backoff EXCEPT ![p] =
                IF hold THEN [bo EXCEPT !.skips = @ - 1]
                ELSE IF ~forced[p] /\ ~skip /\ bo # None /\ bo.sha # r.sha
                THEN None ELSE bo]
        /\ IF skip \/ hold
           THEN End(p)
           ELSE Goto(p, "lookup") /\ run' = [run EXCEPT ![p].forced = forced[p]]
        /\ UNCHANGED <<world, posted, leader, seen, targets, cached, disk,
                       sending, events, counts>>

(* find_existing_comment; what it raises leaves process_pr *)
Lookup(p) ==
    /\ pc[p] = "lookup"
    /\ \/ Goto(p, "decide") /\ run' = [run EXCEPT ![p].found = comment] /\ NoFault
       \/ End(p) /\ Fault("unread")
    /\ UNCHANGED <<world, posted, leader, memory, sending, events,
                   pushes, aborts, crashes, handovers>>

(* Mutants of UpToDate: the tip of main, or a republish, does not count *)
UpToDateOnAnyBase(r) ==
    ~r.forced /\ r.found.sha = r.sha /\ r.found.token # "transient"

UpToDateThoughForced(r) ==
    r.found.sha = r.sha /\ r.found.token # "transient" /\ r.found.base = r.base

(* The cross-pod dedup: the found comment is up to date for this snapshot *)
UpToDate(r) ==
    /\ ~r.forced
    /\ r.found.sha = r.sha
    /\ r.found.token # "transient"
    /\ r.found.base = r.base

Decide(p) ==
    /\ pc[p] = "decide"
    /\ Goto(p, IF UpToDate(run[p]) THEN "recover" ELSE "begin")
    /\ UNCHANGED <<world, posted, leader, memory, run, sending, events, counts>>

-----------------------------------------------------------------------------
(* fix_stuck_inprogress *)

(* Mutant of ColorOf: an indeterminate render does not block *)
ColorOfTransient(token) ==
    IF token \in {"clean", "transient"} THEN "SUCCESSFUL" ELSE "FAILED"

(* [conflict] is no token _extract_status_token reads; the stop sign of its  *)
(* text makes it red                                                         *)
ColorOf(token) == IF token = "clean" THEN "SUCCESSFUL" ELSE "FAILED"

(* Mutant of Recover: the comment always wins over the status *)
RecoverAnyStatus(p) ==
    /\ pc[p] = "recover"
    /\ Goto(p, "mend")
    /\ UNCHANGED <<world, posted, leader, memory, run, sending, events, counts>>

(* A final status stays, except a green one under a red comment *)
Recover(p) ==
    LET cur   == status[run[p].sha]
        state == ColorOf(run[p].found.token)
    IN  /\ pc[p] = "recover"
        /\ \/ /\ cur \in {"SUCCESSFUL", "FAILED"}
              /\ ~(cur = "SUCCESSFUL" /\ state = "FAILED")
              /\ SeenAfterWrites(p, {"ok"}) /\ End(p) /\ NoFault
           \/ /\ \/ cur \in {"none", "INPROGRESS"}
                 \/ cur = "SUCCESSFUL" /\ state = "FAILED"
              /\ Goto(p, "mend") /\ NoFault /\ UNCHANGED <<run, seen, backoff>>
           \/ SeenAfterWrites(p, {"transient"}) /\ End(p) /\ Fault("unread")
           \/ SeenAfterWrites(p, {"permanent"}) /\ End(p) /\ Fault("refused")
        /\ UNCHANGED <<world, posted, leader, forced, targets, cached, disk,
                       sending, events, pushes, aborts, crashes, handovers>>

Mend(p) ==
    /\ pc[p] = "mend"
    /\ \E res \in Results :
        /\ PostStatus(p, ColorOf(run[p].found.token), res)
        /\ SeenAfterWrites(p, {res})
    /\ End(p)
    /\ UNCHANGED <<world, leader, forced, targets, cached, disk, events,
                   pushes, aborts, crashes, handovers>>

-----------------------------------------------------------------------------
(* process_pr, its try block *)

StatusFirst(p) == Verdict(p).path # "affected"

(* The early exits go straight to their writes, the others announce          *)
(* INPROGRESS                                                                *)
Begin(p) ==
    /\ pc[p] = "begin"
    /\ IF Verdict(p).path \in {"blocked", "none"}
       THEN Goto(p, "write1") /\ run' = [run EXCEPT ![p].token = Verdict(p).token]
       ELSE Goto(p, "announce") /\ UNCHANGED run
    /\ UNCHANGED <<world, posted, leader, memory, sending, events, counts>>

(* Nobody looks at the result; an affected PR notes the chart builds it is   *)
(* about to render with                                                      *)
Announce(p) ==
    /\ pc[p] = "announce"
    /\ \E res \in Results : PostStatus(p, "INPROGRESS", res)
    /\ targets' = [targets EXCEPT ![p] = @ \/ Verdict(p).path = "affected"]
    /\ Goto(p, "render")
    /\ UNCHANGED <<world, leader, seen, forced, backoff, cached, disk, run, events,
                   pushes, aborts, crashes, handovers>>

(* _ensure_chart, then the diffs: the chart comes from the pod's cache, or a *)
(* pull that is stored when it ends                                          *)
Render(p) ==
    LET build == IF cached[p] = 0 THEN chart ELSE cached[p]
    IN  /\ pc[p] = "render"
        /\ run' = [run EXCEPT ![p].chart = build]
        /\ \/ /\ cached' = [cached EXCEPT ![p] = build]
              /\ disk' = [disk EXCEPT ![p] = build]
              /\ Goto(p, "compose") /\ NoFault
           \/ /\ cached[p] = 0 /\ UNCHANGED <<cached, disk>>
              /\ Goto(p, "pulling") /\ Fault("slow")
        /\ UNCHANGED <<world, posted, leader, seen, forced, targets, backoff,
                       sending, events, pushes, aborts, crashes, handovers>>

Pulled(p) ==
    /\ pc[p] = "pulling"
    /\ cached' = [cached EXCEPT ![p] = run[p].chart]
    /\ disk' = [disk EXCEPT ![p] = run[p].chart]
    /\ Goto(p, "compose")
    /\ UNCHANGED <<world, posted, leader, seen, forced, targets, backoff,
                   run, sending, events, counts>>

(* The verdict; a new-environment PR only now notes its chart builds *)
Compose(p) ==
    /\ pc[p] = "compose"
    /\ Goto(p, "write1")
    /\ \/ run' = [run EXCEPT ![p].token = Verdict(p).token] /\ NoFault
       \/ run' = [run EXCEPT ![p].token = "transient"] /\ Fault("flaky")
    /\ targets' = [targets EXCEPT ![p] = TRUE]
    /\ UNCHANGED <<world, posted, leader, seen, forced, backoff, cached, disk,
                   sending, events, pushes, aborts, crashes, handovers>>

(* The two writes, the status first on every path but the affected one *)
Write1(p) ==
    LET r == run[p]
    IN  /\ pc[p] = "write1"
        /\ \E res \in Results :
            /\ IF StatusFirst(p) THEN PostStatus(p, ColorOf(r.token), res)
                                 ELSE PostComment(p, r.token, r.chart, res)
            /\ run' = [run EXCEPT ![p].first = res]
        /\ Goto(p, "write2")
        /\ UNCHANGED <<world, leader, memory, events,
                       pushes, aborts, crashes, handovers>>

Write2(p) ==
    LET r == run[p]
    IN  /\ pc[p] = "write2"
        /\ \E res \in Results :
            /\ IF StatusFirst(p) THEN PostComment(p, r.token, r.chart, res)
                                 ELSE PostStatus(p, ColorOf(r.token), res)
            /\ IF r.token = "transient"
               THEN RegisterTransient(p) /\ UNCHANGED seen
               ELSE SeenAfterWrites(p, {r.first, res})
        /\ End(p)
        /\ UNCHANGED <<world, leader, forced, targets, cached, disk, events,
                       pushes, aborts, crashes, handovers>>

(* The catch-all, from before the render, after it or between the two writes: *)
(* whatever raised is classified, and the backoff is fed before anything is   *)
(* written                                                                    *)
Raise(p) ==
    /\ pc[p] \in {"begin", "compose", "write2"}
    /\ ~sending[p]
    /\ Fault("raised")
    /\ Goto(p, "error1")
    /\ \E token \in {"transient", "permanent"} :
        /\ run' = [run EXCEPT ![p].token = token]
        /\ IF token = "transient" THEN RegisterTransient(p) ELSE UNCHANGED backoff
    /\ UNCHANGED <<world, posted, leader, seen, forced, targets, cached, disk,
                   sending, events, pushes, aborts, crashes, handovers>>

ErrorStatus(p) ==
    /\ pc[p] = "error1"
    /\ \E res \in Results : PostStatus(p, "FAILED", res)
    /\ Goto(p, "error2")
    /\ UNCHANGED <<world, leader, memory, run, events,
                   pushes, aborts, crashes, handovers>>

ErrorComment(p) ==
    /\ pc[p] = "error2"
    /\ \E res \in Results : PostComment(p, run[p].token, 0, res)
    /\ End(p)
    /\ UNCHANGED <<world, leader, memory, events,
                   pushes, aborts, crashes, handovers>>

-----------------------------------------------------------------------------
(* Everybody else *)

Push ==
    /\ pushes < MaxPushes
    /\ pushes' = pushes + 1
    /\ head' \in Heads \ {head}
    /\ UNCHANGED <<base, chart, posted, leader, memory, pass, events,
                   faults, aborts, crashes, handovers>>

MergeOnMain ==
    /\ base + 1 \in Bases
    /\ base' = base + 1
    /\ UNCHANGED <<head, chart, posted, leader, memory, pass, events, counts>>

(* A build is pushed under the same tag and its webhook sent to some pod *)
Republish ==
    /\ chart + 1 \in Charts
    /\ chart' = chart + 1
    /\ \E p \in Pods : events' = events \cup {[to |-> p, relayed |-> FALSE]}
    /\ UNCHANGED <<head, base, posted, leader, memory, pass, counts>>

(* do_POST /jfrog-webhook: _invalidate_for_republish, which leaves the chart *)
(* directory alone, and a standby relays the push, once, to the leader       *)
ChartWebhook(p) ==
    \E e \in events :
        LET here   == events \ {e}
            onward == here \cup {[to |-> leader, relayed |-> TRUE]}
        IN  /\ e.to = p
            /\ cached' = [cached EXCEPT ![p] = 0]
            /\ IF targets[p]
               THEN /\ forced' = [forced EXCEPT ![p] = TRUE]
                    /\ seen' = [seen EXCEPT ![p] = None]
               ELSE UNCHANGED <<forced, seen>>
            /\ \/ (e.relayed \/ leader = p) /\ events' = here /\ NoFault
               \/ ~e.relayed /\ leader # p /\ events' = onward /\ NoFault
               \/ ~e.relayed /\ leader # p /\ events' = here /\ Fault("unrelayed")
            /\ UNCHANGED <<world, posted, leader, targets, backoff, disk, pass,
                           pushes, aborts, crashes, handovers>>

(* /tmp, with the chart directory, outlives the container *)
Crash(p) ==
    /\ crashes < MaxCrashes
    /\ crashes' = crashes + 1
    /\ seen' = [seen EXCEPT ![p] = None]
    /\ forced' = [forced EXCEPT ![p] = FALSE]
    /\ targets' = [targets EXCEPT ![p] = FALSE]
    /\ backoff' = [backoff EXCEPT ![p] = None]
    /\ cached' = [cached EXCEPT ![p] = 0]
    /\ End(p)
    /\ sending' = [sending EXCEPT ![p] = FALSE]
    /\ UNCHANGED <<world, posted, leader, disk, events,
                   pushes, faults, aborts, handovers>>

Handover ==
    /\ handovers < MaxHandovers
    /\ handovers' = handovers + 1
    /\ leader' \in Pods \ {leader}
    /\ UNCHANGED <<world, posted, memory, pass, events,
                   pushes, faults, aborts, crashes>>

-----------------------------------------------------------------------------

Step(p) ==
    \/ ReadBase(p) \/ ListPrs(p) \/ Enter(p) \/ Lookup(p) \/ Decide(p)
    \/ Recover(p) \/ Mend(p) \/ Gate(p)
    \/ Begin(p) \/ Announce(p) \/ Render(p) \/ Pulled(p) \/ Compose(p)
    \/ Write1(p) \/ Write2(p) \/ ErrorStatus(p) \/ ErrorComment(p)

Next ==
    \/ \E p \in Pods :
        \/ Step(p) \/ Abandon(p) \/ Raise(p) \/ ChartWebhook(p) \/ Crash(p)
    \/ Push \/ MergeOnMain \/ Republish \/ Handover

(* A pod's pass goes on, and a webhook that was sent arrives *)
Fairness ==
    \A p \in Pods : WF_vars(Step(p) \/ Abandon(p)) /\ WF_vars(ChartWebhook(p))

Spec == Init /\ [][Next]_vars /\ Fairness
-----------------------------------------------------------------------------
(* Safety *)

Final == {"SUCCESSFUL", "FAILED"}

(* The leader has marked the snapshot that is still current as seen: until   *)
(* something happens it will not look at the PR again                        *)
Settled(p) ==
    /\ leader = p
    /\ pc[p] = "idle"
    /\ seen[p] = <<head, base>>

(* A commit shows green only if it renders clean against some tip main has   *)
(* had: no failed write, crash, recovery or late write of a demoted leader   *)
(* makes up a green (post_build_status, fix_stuck_inprogress).               *)
GreenWasRendered ==
    \A h \in Heads : status[h] = "SUCCESSFUL" =>
        \E b \in 1..base : Truth[h][b].token = "clean"

(* What a leader stops looking at has its merge gate: a final status, green  *)
(* only if the PR renders clean against today's main, whichever write was    *)
(* lost or retried on the way (_seen_after_writes, fix_stuck_inprogress).    *)
GateIsTrue ==
    \A p \in Pods : Settled(p) =>
        /\ status[head] \in Final
        /\ status[head] = "SUCCESSFUL" => Truth[head][base].token = "clean"

(* ... and its comment is about this head and this tip of main: no comment   *)
(* of an older snapshot is left standing behind _seen (process_pr).          *)
CommentIsCurrent ==
    \A p \in Pods : Settled(p) =>
        comment.sha = head /\ comment.base = base

(* Liveness *)

(* A republished chart reaches the comment of the PR it is rendered in       *)
(* (_invalidate_for_republish): the comment comes to show the build that is  *)
(* published then, however often it moves on.                                *)
RepublishIsRendered == []<>(comment.chart \in {0, chart})

(* A comment that promises an automatic retry is rewritten (process_pr's     *)
(* catch-all).                                                               *)
TransientIsRetried ==
    \A b \in Bases : \A h \in Heads :
        (comment.sha = h /\ comment.base = b /\ comment.token = "transient"
            /\ head = h /\ base = b)
        ~> ~(comment.sha = h /\ comment.base = b /\ comment.token = "transient"
                /\ head = h /\ base = b)
=============================================================================
