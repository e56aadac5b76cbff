--------------------------- MODULE PrCycle_proofs ---------------------------
(***************************************************************************)
(* Proofs about PrCycle, for any pods, commits, tips of main, chart builds *)
(* and verdicts, and any number of faults of every kind.                   *)
(*                                                                         *)
(* A green status has two sources: a verdict a pass has just rendered, and *)
(* the token of a comment that a pass found.  So the argument follows each *)
(* pass: it only ever holds a snapshot of tips main has had (Snapshots), a *)
(* clean verdict about to be written was rendered for that snapshot, and a *)
(* comment that says clean was true when it was written, also where it was *)
(* read and not yet used (Verdicts).                                       *)
(***************************************************************************)
EXTENDS PrCycle, TLAPS

(* A pass works on a commit and on a tip of main that main has had *)
Snapshots ==
    /\ 1 <= base
    /\ \A p \in Pods :
        /\ pc[p] # "idle" =>
            run[p].base \in Bases /\ 1 <= run[p].base /\ run[p].base <= base
        /\ pc[p] \notin {"idle", "listing"} => run[p].sha \in Heads

(* What this commit renders to on that tip, which main has reached, is clean *)
Clean(h, b) == b \in 1..base /\ Truth[h][b].token = "clean"

(* A comment that says clean is about a snapshot that is *)
TrueComment(c) == c.token = "clean" /\ c.sha # None => Clean(c.sha, c.base)

(* What a pass read, and what it is about to write, is true *)
PassTrue(p) ==
    /\ TrueComment(run[p].found)
    /\ pc[p] \in {"recover", "mend"} => run[p].found.sha = run[p].sha
    /\ pc[p] \in {"write1", "write2"} /\ run[p].token = "clean" =>
        Clean(run[p].sha, run[p].base)
    /\ pc[p] \in {"error1", "error2"} => run[p].token # "clean"

(* So is what is published *)
Verdicts == TrueComment(comment) /\ \A p \in Pods : PassTrue(p)

-----------------------------------------------------------------------------
(* The fields of a pass *)

LEMMA IdleIsRun == Idle \in Runs /\ NoComment \in Comments
BY PrCycleAssumption, SMT
DEF PrCycleAssumption, Idle, NoComment, Runs, Comments, Tokens, Results

LEMMA RunFields ==
    ASSUME NEW r \in Runs
    PROVE  /\ r.sha \in Heads \cup {None} /\ r.base \in Bases \cup {0}
           /\ r.forced \in BOOLEAN /\ r.found \in Comments
           /\ r.token \in Tokens /\ r.chart \in Charts \cup {0}
           /\ r.first \in Results
BY DEF Runs

LEMMA SetBase ==
    ASSUME run \in [Pods -> Runs], NEW p \in Pods, NEW v \in Bases,
           run' = [run EXCEPT ![p].base = v]
    PROVE  /\ run' \in [Pods -> Runs]
           /\ run'[p].base = v /\ run'[p].found = run[p].found
           /\ \A q \in Pods \ {p} : run'[q] = run[q]
BY SMT DEF Runs

LEMMA SetSha ==
    ASSUME run \in [Pods -> Runs], NEW p \in Pods, NEW v \in Heads,
           run' = [run EXCEPT ![p].sha = v]
    PROVE  /\ run' \in [Pods -> Runs]
           /\ run'[p].sha = v /\ run'[p].base = run[p].base
           /\ run'[p].found = run[p].found
           /\ \A q \in Pods \ {p} : run'[q] = run[q]
BY SMT DEF Runs

LEMMA SetForced ==
    ASSUME run \in [Pods -> Runs], NEW p \in Pods, NEW v \in BOOLEAN,
           run' = [run EXCEPT ![p].forced = v]
    PROVE  /\ run' \in [Pods -> Runs]
           /\ run'[p].sha = run[p].sha /\ run'[p].base = run[p].base
           /\ run'[p].found = run[p].found
           /\ \A q \in Pods \ {p} : run'[q] = run[q]
BY SMT DEF Runs

LEMMA SetFound ==
    ASSUME run \in [Pods -> Runs], NEW p \in Pods, NEW v \in Comments,
           run' = [run EXCEPT ![p].found = v]
    PROVE  /\ run' \in [Pods -> Runs]
           /\ run'[p].sha = run[p].sha /\ run'[p].base = run[p].base
           /\ run'[p].found = v
           /\ \A q \in Pods \ {p} : run'[q] = run[q]
BY SMT DEF Runs

LEMMA SetChart ==
    ASSUME run \in [Pods -> Runs], NEW p \in Pods, NEW v \in Charts \cup {0},
           run' = [run EXCEPT ![p].chart = v]
    PROVE  /\ run' \in [Pods -> Runs]
           /\ run'[p].sha = run[p].sha /\ run'[p].base = run[p].base
           /\ run'[p].found = run[p].found
           /\ \A q \in Pods \ {p} : run'[q] = run[q]
BY SMT DEF Runs

LEMMA SetToken ==
    ASSUME run \in [Pods -> Runs], NEW p \in Pods, NEW v \in Tokens,
           run' = [run EXCEPT ![p].token = v]
    PROVE  /\ run' \in [Pods -> Runs]
           /\ run'[p].sha = run[p].sha /\ run'[p].base = run[p].base
           /\ run'[p].found = run[p].found /\ run'[p].token = v
           /\ \A q \in Pods \ {p} : run'[q] = run[q]
BY SMT DEF Runs

LEMMA SetFirst ==
    ASSUME run \in [Pods -> Runs], NEW p \in Pods, NEW v \in Results,
           run' = [run EXCEPT ![p].first = v]
    PROVE  /\ run' \in [Pods -> Runs]
           /\ run'[p].sha = run[p].sha /\ run'[p].base = run[p].base
           /\ run'[p].found = run[p].found /\ run'[p].token = run[p].token
           /\ \A q \in Pods \ {p} : run'[q] = run[q]
BY SMT DEF Runs

LEMMA EndRun ==
    ASSUME run \in [Pods -> Runs], NEW p \in Pods,
           run' = [run EXCEPT ![p] = Idle]
    PROVE  /\ run' \in [Pods -> Runs]
           /\ run'[p].found = NoComment
           /\ \A q \in Pods \ {p} : run'[q] = run[q]
BY IdleIsRun, SMT DEF Idle

-----------------------------------------------------------------------------
(* Type correctness, with the snapshots it depends on *)

Typed == TypeOK /\ Snapshots

LEMMA TypedInit == Init => Typed
BY PrCycleAssumption, IdleIsRun, SMT
DEF PrCycleAssumption, Init, Typed, TypeOK, Snapshots, Labels, WritePcs

(* The helpers of the actions keep the types of what they change *)
LEMMA WriteTyped ==
    ASSUME TypeOK, NEW p \in Pods, NEW landed, NEW res, Write(p, landed, res)
    PROVE  sending' \in [Pods -> BOOLEAN] /\ faults' \in Nat
BY SMT DEF TypeOK, Write, Fault, NoFault

LEMMA StatusTyped ==
    ASSUME TypeOK, NEW p \in Pods, NEW state \in States, NEW res,
           run[p].sha \in Heads, PostStatus(p, state, res)
    PROVE  /\ sending' \in [Pods -> BOOLEAN] /\ faults' \in Nat
           /\ status' \in [Heads -> States \cup {"none"}]
           /\ comment' = comment
<1>1. PICK landed \in BOOLEAN :
        /\ Write(p, landed, res)
        /\ status' = IF landed THEN [status EXCEPT ![run[p].sha] = state] ELSE status
        /\ comment' = comment
  BY Zenon DEF PostStatus
<1>2. status' \in [Heads -> States \cup {"none"}]
  <2>1. CASE landed
    BY <1>1, <2>1, SMT DEF TypeOK
  <2>2. CASE ~landed
    BY <1>1, <2>2, SMT DEF TypeOK
  <2> QED
    BY <2>1, <2>2
<1> QED
  BY <1>1, <1>2, WriteTyped, Zenon

LEMMA CommentTyped ==
    ASSUME TypeOK, NEW p \in Pods, NEW token \in Tokens,
           NEW build \in Charts \cup {0}, NEW res,
           run[p].sha \in Heads, run[p].base \in Bases,
           PostComment(p, token, build, res)
    PROVE  /\ sending' \in [Pods -> BOOLEAN] /\ faults' \in Nat
           /\ comment' \in Comments
           /\ status' = status
BY WriteTyped, SMT DEF TypeOK, PostComment, Comments

LEMMA BackoffTyped ==
    ASSUME TypeOK, NEW p \in Pods, run[p].sha \in Heads, RegisterTransient(p)
    PROVE  backoff' \in [Pods -> {None} \cup
                [skips : 0..MaxDelay, next : 1..MaxDelay, sha : Heads]]
BY PrCycleAssumption, SMT DEF PrCycleAssumption, TypeOK, RegisterTransient

LEMMA SeenTyped ==
    ASSUME TypeOK, NEW p \in Pods, NEW results,
           run[p].sha \in Heads, run[p].base \in Bases,
           SeenAfterWrites(p, results)
    PROVE  /\ seen' \in [Pods -> {None} \cup (Heads \X Bases)]
           /\ backoff' \in [Pods -> {None} \cup
                [skips : 0..MaxDelay, next : 1..MaxDelay, sha : Heads]]
BY BackoffTyped, SMT DEF TypeOK, SeenAfterWrites

LEMMA ColorIsState == \A token : ColorOf(token) \in States
BY DEF ColorOf, States

LEMMA FlagTyped ==
    ASSUME NEW flags \in [Pods -> BOOLEAN], NEW p \in Pods, NEW b \in BOOLEAN
    PROVE  [flags EXCEPT ![p] = b] \in [Pods -> BOOLEAN]
BY SMT

LEMMA WebhookTyped ==
    \A p \in Pods : \A b \in BOOLEAN : [to |-> p, relayed |-> b] \in Webhooks
BY DEF Webhooks

LEMMA VerdictTyped ==
    ASSUME NEW p \in Pods, run[p].sha \in Heads, run[p].base \in Bases
    PROVE  Verdict(p).token \in Tokens
BY PrCycleAssumption DEF PrCycleAssumption, Verdict

(* A pass that ends, and one that goes on with its snapshot *)
LEMMA PassEnds ==
    ASSUME Typed, NEW p \in Pods, End(p), base' = base
    PROVE  pc' \in [Pods -> Labels] /\ run' \in [Pods -> Runs] /\ Snapshots'
<1>1. /\ run' \in [Pods -> Runs]
      /\ \A q \in Pods \ {p} : run'[q] = run[q]
  BY EndRun, Zenon DEF End, Typed, TypeOK
<1> QED
  BY <1>1, SMT DEF End, Goto, Typed, TypeOK, Labels, WritePcs, Snapshots

LEMMA PassGoesOn ==
    ASSUME Typed, NEW p \in Pods, NEW label \in Labels, Goto(p, label),
           base' = base, pc[p] \notin {"idle", "listing"},
           run' \in [Pods -> Runs],
           run'[p].sha = run[p].sha, run'[p].base = run[p].base,
           \A q \in Pods \ {p} : run'[q] = run[q]
    PROVE  pc' \in [Pods -> Labels] /\ Snapshots'
BY SMT DEF Goto, Typed, TypeOK, Snapshots

LEMMA TypedStep == Typed /\ [Next]_vars => Typed'
<1> SUFFICES ASSUME Typed, [Next]_vars PROVE Typed'
  OBVIOUS
<1> DEFINE BackoffOK == [skips : 0..MaxDelay, next : 1..MaxDelay, sha : Heads]
<1> USE PrCycleAssumption
    DEF PrCycleAssumption, world, posted, memory, counts, pass
<1>0. TypeOK /\ run \in [Pods -> Runs] /\ Snapshots
  BY DEF Typed, TypeOK
<1>1. ASSUME NEW p \in Pods, ReadBase(p) PROVE Typed'
  <2>1. /\ run' \in [Pods -> Runs] /\ run'[p].base = base
        /\ \A q \in Pods \ {p} : run'[q] = run[q]
    BY <1>0, <1>1, SetBase, Zenon DEF ReadBase, TypeOK
  <2>2. /\ pc' = [pc EXCEPT ![p] = "listing"]
        /\ UNCHANGED <<world, posted, leader, seen, forced, targets, backoff,
                       sending, events, pushes, aborts, crashes, handovers>>
    BY <1>1, Zenon DEF ReadBase, Goto
  <2>3. /\ cached' \in [Pods -> Charts \cup {0}]
        /\ disk' \in [Pods -> Charts \cup {0}]
        /\ faults' \in Nat
    <3>1. Prune(p)
      BY <1>1, Zenon DEF ReadBase
    <3>2. CASE /\ cached' = [cached EXCEPT ![p] = 0]
               /\ disk' = [disk EXCEPT ![p] = 0]
               /\ NoFault
      BY <1>0, <3>2, SMT DEF TypeOK, NoFault
    <3>3. CASE UNCHANGED <<cached, disk>> /\ NoFault
      BY <1>0, <3>3, SMT DEF TypeOK, NoFault
    <3>4. CASE /\ cached' = [cached EXCEPT ![p] = disk[p]]
               /\ UNCHANGED disk
               /\ Fault("young")
      BY <1>0, <3>4, SMT DEF TypeOK, Fault
    <3> QED
      BY <3>1, <3>2, <3>3, <3>4, Zenon DEF Prune
  <2>4. pc' \in [Pods -> Labels]
    BY <1>0, <2>2, SMT DEF TypeOK, Labels
  <2>5. TypeOK'
    BY <1>0, <2>1, <2>2, <2>3, <2>4, SMT DEF TypeOK
  <2> QED
    BY <1>0, <2>1, <2>2, <2>5, SMT DEF Typed, TypeOK, Snapshots
<1>2. ASSUME NEW p \in Pods, ListPrs(p) PROVE Typed'
  <2>1. pc' \in [Pods -> Labels] /\ run' \in [Pods -> Runs] /\ Snapshots'
    <3>1. CASE End(p)
      BY <1>2, <3>1, PassEnds, Zenon DEF ListPrs
    <3>2. CASE Goto(p, "queued") /\ run' = [run EXCEPT ![p].sha = head]
      <4>1. /\ run' \in [Pods -> Runs]
            /\ run'[p].sha = head /\ run'[p].base = run[p].base
            /\ \A q \in Pods \ {p} : run'[q] = run[q]
        BY <1>0, <3>2, SetSha, Zenon DEF TypeOK
      <4> QED
        BY <1>0, <1>2, <3>2, <4>1, SMT
        DEF ListPrs, Goto, TypeOK, Labels, Snapshots
    <3> QED
      BY <1>2, <3>1, <3>2, Zenon DEF ListPrs
  <2>2. /\ faults' \in Nat
        /\ UNCHANGED <<world, posted, leader, memory, sending, events,
                       pushes, aborts, crashes, handovers>>
    BY <1>0, <1>2, SMT DEF ListPrs, TypeOK, Fault, NoFault
  <2> QED
    BY <1>0, <2>1, <2>2, SMT DEF Typed, TypeOK
<1>3. ASSUME NEW p \in Pods, Abandon(p) PROVE Typed'
  <2>1. pc' \in [Pods -> Labels] /\ run' \in [Pods -> Runs] /\ Snapshots'
    BY <1>3, PassEnds, Zenon DEF Abandon
  <2>2. /\ aborts' \in Nat
        /\ UNCHANGED <<world, posted, leader, memory, sending, events,
                       pushes, faults, crashes, handovers>>
    BY <1>0, <1>3, SMT DEF Abandon, TypeOK
  <2> QED
    BY <1>0, <2>1, <2>2, SMT DEF Typed, TypeOK
<1>4. ASSUME NEW p \in Pods, Enter(p) PROVE Typed'
  <2>1. pc[p] = "queued" /\ base' = base
    BY <1>4, Zenon DEF Enter
  <2>2. pc' \in [Pods -> Labels] /\ run' \in [Pods -> Runs] /\ Snapshots'
    <3>1. CASE End(p)
      BY <2>1, <3>1, PassEnds, Zenon
    <3>2. CASE Goto(p, "lookup") /\ run' = [run EXCEPT ![p].forced = forced[p]]
      <4>1. /\ run' \in [Pods -> Runs]
            /\ run'[p].sha = run[p].sha /\ run'[p].base = run[p].base
            /\ \A q \in Pods \ {p} : run'[q] = run[q]
        BY <1>0, <3>2, SetForced, Zenon DEF TypeOK
      <4>2. "lookup" \in Labels /\ pc[p] \notin {"idle", "listing"}
        BY <2>1, SMT DEF Labels
      <4> QED
        BY <2>1, <3>2, <4>1, <4>2, PassGoesOn, Zenon
    <3> QED
      BY <1>4, <3>1, <3>2, Zenon DEF Enter
  <2>3. backoff' \in [Pods -> {None} \cup BackoffOK]
    <3>1. ASSUME NEW bo \in BackoffOK, bo.skips > 0
          PROVE  [bo EXCEPT !.skips = @ - 1] \in BackoffOK
      BY <3>1, SMT
    <3>2. \/ backoff' = [backoff EXCEPT ![p] = None]
          \/ backoff' = [backoff EXCEPT ![p] = backoff[p]]
          \/ /\ backoff[p] # None /\ backoff[p].skips > 0
             /\ backoff' = [backoff EXCEPT ![p] =
                                [backoff[p] EXCEPT !.skips = @ - 1]]
      BY <1>4, Zenon DEF Enter
    <3>3. backoff \in [Pods -> {None} \cup BackoffOK]
      BY <1>0 DEF TypeOK
    <3> HIDE DEF BackoffOK
    <3> QED
      BY <3>1, <3>2, <3>3, SMT
  <2>4. forced' \in [Pods -> BOOLEAN]
    BY <1>0, <1>4, FlagTyped, Zenon DEF Enter, TypeOK
  <2>5. UNCHANGED <<world, posted, leader, seen, targets, cached, disk,
                    sending, events, counts>>
    BY <1>4, Zenon DEF Enter
  <2> QED
    BY <1>0, <2>2, <2>3, <2>4, <2>5, SMT DEF Typed, TypeOK
<1>5. ASSUME NEW p \in Pods, Lookup(p) PROVE Typed'
  <2>1. pc[p] = "lookup" /\ base' = base
    BY <1>5, Zenon DEF Lookup
  <2>2. pc' \in [Pods -> Labels] /\ run' \in [Pods -> Runs] /\ Snapshots'
    <3>1. CASE End(p)
      BY <2>1, <3>1, PassEnds, Zenon
    <3>2. CASE Goto(p, "decide") /\ run' = [run EXCEPT ![p].found = comment]
      <4>1. /\ run' \in [Pods -> Runs]
            /\ run'[p].sha = run[p].sha /\ run'[p].base = run[p].base
            /\ \A q \in Pods \ {p} : run'[q] = run[q]
        BY <1>0, <3>2, SetFound, Zenon DEF TypeOK
      <4>2. "decide" \in Labels /\ pc[p] \notin {"idle", "listing"}
        BY <2>1, SMT DEF Labels
      <4> QED
        BY <2>1, <3>2, <4>1, <4>2, PassGoesOn, Zenon
    <3> QED
      BY <1>5, <3>1, <3>2, Zenon DEF Lookup
  <2>3. /\ faults' \in Nat
        /\ UNCHANGED <<world, posted, leader, memory, sending, events,
                       pushes, aborts, crashes, handovers>>
    BY <1>0, <1>5, SMT DEF Lookup, TypeOK, Fault, NoFault
  <2> QED
    BY <1>0, <2>2, <2>3, SMT DEF Typed, TypeOK
<1>6. ASSUME NEW p \in Pods, Decide(p) PROVE Typed'
  <2>1. /\ UNCHANGED <<world, posted, leader, memory, run, sending, events, counts>>
        /\ pc[p] = "decide"
        /\ Goto(p, "recover") \/ Goto(p, "begin")
    BY <1>6, Zenon DEF Decide
  <2>2. pc' \in [Pods -> Labels] /\ Snapshots'
    BY <1>0, <2>1, PassGoesOn, SMT DEF Labels
  <2> QED
    BY <1>0, <2>1, <2>2, SMT DEF Typed, TypeOK
<1>7. ASSUME NEW p \in Pods, Recover(p) PROVE Typed'
  <2>1. /\ run[p].sha \in Heads /\ run[p].base \in Bases
        /\ pc[p] = "recover" /\ base' = base
    BY <1>0, <1>7, SMT DEF Recover, Snapshots
  <2>2. /\ seen' \in [Pods -> {None} \cup (Heads \X Bases)]
        /\ backoff' \in [Pods -> {None} \cup BackoffOK]
    <3>1. CASE UNCHANGED <<seen, backoff>>
      BY <1>0, <3>1 DEF TypeOK
    <3>2. CASE \E results : SeenAfterWrites(p, results)
      BY <1>0, <2>1, <3>2, SeenTyped, Zenon
    <3> QED
      BY <1>7, <3>1, <3>2, Zenon DEF Recover
  <2>3. pc' \in [Pods -> Labels] /\ run' \in [Pods -> Runs] /\ Snapshots'
    <3>1. CASE End(p)
      BY <2>1, <3>1, PassEnds, Zenon
    <3>2. CASE Goto(p, "mend") /\ UNCHANGED run
      BY <1>0, <2>1, <3>2, PassGoesOn, SMT DEF Labels, WritePcs
    <3> QED
      BY <1>7, <3>1, <3>2, Zenon DEF Recover
  <2>4. /\ faults' \in Nat
        /\ UNCHANGED <<world, posted, leader, forced, targets, cached, disk,
                       sending, events, pushes, aborts, crashes, handovers>>
    BY <1>0, <1>7, SMT DEF Recover, Fault, NoFault, TypeOK
  <2> QED
    BY <1>0, <2>2, <2>3, <2>4, SMT DEF Typed, TypeOK
<1>8. ASSUME NEW p \in Pods, Mend(p) PROVE Typed'
  <2>1. run[p].sha \in Heads /\ run[p].base \in Bases
    BY <1>0, <1>8, SMT DEF Mend, Snapshots
  <2>2. PICK res \in Results :
            /\ PostStatus(p, ColorOf(run[p].found.token), res)
            /\ SeenAfterWrites(p, {res})
    BY <1>8, Zenon DEF Mend
  <2>3. /\ sending' \in [Pods -> BOOLEAN] /\ faults' \in Nat
        /\ status' \in [Heads -> States \cup {"none"}] /\ comment' = comment
    BY <1>0, <2>1, <2>2, StatusTyped, ColorIsState, Zenon
  <2>4. /\ seen' \in [Pods -> {None} \cup (Heads \X Bases)]
        /\ backoff' \in [Pods -> {None} \cup BackoffOK]
    BY <1>0, <2>1, <2>2, SeenTyped, Zenon
  <2>5. pc' \in [Pods -> Labels] /\ run' \in [Pods -> Runs] /\ Snapshots'
    BY <1>8, PassEnds, Zenon DEF Mend
  <2>6. UNCHANGED <<world, leader, forced, targets, cached, disk, events,
                   pushes, aborts, crashes, handovers>>
    BY <1>8, Zenon DEF Mend
  <2> QED
    BY <1>0, <2>3, <2>4, <2>5, <2>6, SMT DEF Typed, TypeOK
<1>9. ASSUME NEW p \in Pods, Gate(p) PROVE Typed'
  <2>1. sending' \in [Pods -> BOOLEAN]
    BY <1>0, <1>9, FlagTyped, Zenon DEF Gate, TypeOK
  <2>2. UNCHANGED <<world, posted, leader, memory, pc, run, events, counts>>
    BY <1>9, Zenon DEF Gate
  <2> QED
    BY <1>0, <2>1, <2>2, SMT DEF Typed, TypeOK, Snapshots
<1>10. ASSUME NEW p \in Pods, Begin(p) PROVE Typed'
  <2>1. /\ run[p].sha \in Heads /\ run[p].base \in Bases
        /\ pc[p] \notin {"idle", "listing"}
    BY <1>0, <1>10, SMT DEF Begin, Snapshots
  <2>2. /\ run' \in [Pods -> Runs]
        /\ run'[p].sha = run[p].sha /\ run'[p].base = run[p].base
        /\ \A q \in Pods \ {p} : run'[q] = run[q]
    <3>1. CASE run' = [run EXCEPT ![p].token = Verdict(p).token]
      BY <1>0, <2>1, <3>1, VerdictTyped, SetToken, Zenon
    <3>2. CASE UNCHANGED run
      BY <1>0, <3>2, Zenon
    <3> QED
      BY <1>10, <3>1, <3>2, Zenon DEF Begin
  <2>3. pc' \in [Pods -> Labels] /\ Snapshots'
    <3>1. base' = base /\ (Goto(p, "write1") \/ Goto(p, "announce"))
      BY <1>10, Zenon DEF Begin
    <3>2. {"write1", "announce"} \subseteq Labels
      BY SMT DEF Labels, WritePcs
    <3> QED
      BY <2>1, <2>2, <3>1, <3>2, PassGoesOn, Zenon
  <2>4. UNCHANGED <<world, posted, leader, memory, sending, events, counts>>
    BY <1>10, Zenon DEF Begin
  <2> QED
    BY <1>0, <2>2, <2>3, <2>4, SMT DEF Typed, TypeOK
<1>11. ASSUME NEW p \in Pods, Announce(p) PROVE Typed'
  <2>1. /\ run[p].sha \in Heads /\ run[p].base \in Bases
        /\ pc[p] \notin {"idle", "listing"}
    BY <1>0, <1>11, SMT DEF Announce, Snapshots
  <2>2. /\ run' \in [Pods -> Runs]
        /\ run'[p].sha = run[p].sha /\ run'[p].base = run[p].base
        /\ \A q \in Pods \ {p} : run'[q] = run[q]
    BY <1>0, <1>11, Zenon DEF Announce
  <2>3. pc' \in [Pods -> Labels] /\ Snapshots'
    <3>1. base' = base /\ (Goto(p, "render"))
      BY <1>11, Zenon DEF Announce
    <3>2. {"render"} \subseteq Labels
      BY SMT DEF Labels, WritePcs
    <3> QED
      BY <2>1, <2>2, <3>1, <3>2, PassGoesOn, Zenon
  <2>4. /\ sending' \in [Pods -> BOOLEAN] /\ faults' \in Nat
        /\ status' \in [Heads -> States \cup {"none"}] /\ comment' = comment
    BY <1>0, <1>11, <2>1, StatusTyped, Zenon DEF Announce, States
  <2>5. targets' \in [Pods -> BOOLEAN]
    <3>1. (targets[p] \/ Verdict(p).path = "affected") \in BOOLEAN
      OBVIOUS
    <3> QED
      BY <1>0, <1>11, <3>1, FlagTyped, Zenon DEF Announce, TypeOK
  <2>6. UNCHANGED <<world, leader, seen, forced, backoff, cached, disk, run, events,
                   pushes, aborts, crashes, handovers>>
    BY <1>11, Zenon DEF Announce
  <2> QED
    BY <1>0, <2>3, <2>4, <2>5, <2>6, SMT DEF Typed, TypeOK
<1>12. ASSUME NEW p \in Pods, Render(p) PROVE Typed'
  <2>1. /\ run[p].sha \in Heads /\ run[p].base \in Bases
        /\ pc[p] \notin {"idle", "listing"}
    BY <1>0, <1>12, SMT DEF Render, Snapshots
  <2>2. PICK build \in Charts \cup {0} :
            /\ run' = [run EXCEPT ![p].chart = build]
            /\ \/ /\ cached' = [cached EXCEPT ![p] = build]
                  /\ disk' = [disk EXCEPT ![p] = build]
                  /\ NoFault
               \/ UNCHANGED <<cached, disk>> /\ Fault("slow")
    <3> DEFINE build == IF cached[p] = 0 THEN chart ELSE cached[p]
    <3>1. build \in Charts \cup {0}
      BY <1>0 DEF TypeOK
    <3> QED
      BY <1>12, <3>1, Zenon DEF Render
  <2>3. /\ run' \in [Pods -> Runs]
        /\ run'[p].sha = run[p].sha /\ run'[p].base = run[p].base
        /\ \A q \in Pods \ {p} : run'[q] = run[q]
    BY <1>0, <2>2, SetChart, Zenon
  <2>4. pc' \in [Pods -> Labels] /\ Snapshots'
    <3>1. base' = base /\ (Goto(p, "compose") \/ Goto(p, "pulling"))
      BY <1>12, Zenon DEF Render
    <3>2. {"compose", "pulling"} \subseteq Labels
      BY SMT DEF Labels, WritePcs
    <3> QED
      BY <2>1, <2>3, <3>1, <3>2, PassGoesOn, Zenon
  <2>5. /\ cached' \in [Pods -> Charts \cup {0}]
        /\ disk' \in [Pods -> Charts \cup {0}]
        /\ faults' \in Nat
    <3>1. CASE /\ cached' = [cached EXCEPT ![p] = build]
               /\ disk' = [disk EXCEPT ![p] = build]
               /\ NoFault
      BY <1>0, <3>1, SMT DEF TypeOK, NoFault
    <3>2. CASE UNCHANGED <<cached, disk>> /\ Fault("slow")
      BY <1>0, <3>2, SMT DEF TypeOK, Fault
    <3> QED
      BY <2>2, <3>1, <3>2, Zenon
  <2>6. UNCHANGED <<world, posted, leader, seen, forced, targets, backoff,
                   sending, events, pushes, aborts, crashes, handovers>>
    BY <1>12, Zenon DEF Render
  <2> QED
    BY <1>0, <2>3, <2>4, <2>5, <2>6, SMT DEF Typed, TypeOK
<1>13. ASSUME NEW p \in Pods, Pulled(p) PROVE Typed'
  <2>1. /\ run[p].sha \in Heads /\ run[p].base \in Bases
        /\ pc[p] \notin {"idle", "listing"}
    BY <1>0, <1>13, SMT DEF Pulled, Snapshots
  <2>2. /\ run' \in [Pods -> Runs]
        /\ run'[p].sha = run[p].sha /\ run'[p].base = run[p].base
        /\ \A q \in Pods \ {p} : run'[q] = run[q]
    BY <1>0, <1>13, Zenon DEF Pulled
  <2>3. pc' \in [Pods -> Labels] /\ Snapshots'
    <3>1. base' = base /\ (Goto(p, "compose"))
      BY <1>13, Zenon DEF Pulled
    <3>2. {"compose"} \subseteq Labels
      BY SMT DEF Labels, WritePcs
    <3> QED
      BY <2>1, <2>2, <3>1, <3>2, PassGoesOn, Zenon
  <2>4. run[p].chart \in Charts \cup {0}
    BY <1>0, RunFields
  <2>5. /\ cached' \in [Pods -> Charts \cup {0}]
        /\ disk' \in [Pods -> Charts \cup {0}]
    BY <1>0, <1>13, <2>4, SMT DEF Pulled, TypeOK
  <2>6. UNCHANGED <<world, posted, leader, seen, forced, targets, backoff,
                   run, sending, events, counts>>
    BY <1>13, Zenon DEF Pulled
  <2> QED
    BY <1>0, <2>3, <2>5, <2>6, SMT DEF Typed, TypeOK
<1>14. ASSUME NEW p \in Pods, Compose(p) PROVE Typed'
  <2>1. /\ run[p].sha \in Heads /\ run[p].base \in Bases
        /\ pc[p] \notin {"idle", "listing"}
    BY <1>0, <1>14, SMT DEF Compose, Snapshots
  <2>2. /\ run' \in [Pods -> Runs]
        /\ run'[p].sha = run[p].sha /\ run'[p].base = run[p].base
        /\ \A q \in Pods \ {p} : run'[q] = run[q]
    <3>1. Verdict(p).token \in Tokens /\ "transient" \in Tokens
      BY <2>1, VerdictTyped DEF Tokens
    <3> QED
      BY <1>0, <1>14, <3>1, SetToken, Zenon DEF Compose
  <2>3. pc' \in [Pods -> Labels] /\ Snapshots'
    <3>1. base' = base /\ (Goto(p, "write1"))
      BY <1>14, Zenon DEF Compose
    <3>2. {"write1"} \subseteq Labels
      BY SMT DEF Labels, WritePcs
    <3> QED
      BY <2>1, <2>2, <3>1, <3>2, PassGoesOn, Zenon
  <2>4. targets' \in [Pods -> BOOLEAN]
    BY <1>0, <1>14, FlagTyped, Zenon DEF Compose, TypeOK
  <2>5. /\ faults' \in Nat
        /\ UNCHANGED <<world, posted, leader, seen, forced, backoff, cached, disk,
                       sending, events, pushes, aborts, crashes, handovers>>
    BY <1>0, <1>14, SMT DEF Compose, TypeOK, Fault, NoFault
  <2> QED
    BY <1>0, <2>2, <2>3, <2>4, <2>5, SMT DEF Typed, TypeOK
<1>15. ASSUME NEW p \in Pods, Write1(p) PROVE Typed'
  <2>1. /\ run[p].sha \in Heads /\ run[p].base \in Bases
        /\ pc[p] \notin {"idle", "listing"}
    BY <1>0, <1>15, SMT DEF Write1, Snapshots
  <2>2. PICK res \in Results :
            /\ \/ PostStatus(p, ColorOf(run[p].token), res)
               \/ PostComment(p, run[p].token, run[p].chart, res)
            /\ run' = [run EXCEPT ![p].first = res]
    BY <1>15, Zenon DEF Write1
  <2>3. /\ run' \in [Pods -> Runs]
        /\ run'[p].sha = run[p].sha /\ run'[p].base = run[p].base
        /\ \A q \in Pods \ {p} : run'[q] = run[q]
    BY <1>0, <2>2, SetFirst, Zenon
  <2>4. pc' \in [Pods -> Labels] /\ Snapshots'
    <3>1. base' = base /\ (Goto(p, "write2"))
      BY <1>15, Zenon DEF Write1
    <3>2. {"write2"} \subseteq Labels
      BY SMT DEF Labels, WritePcs
    <3> QED
      BY <2>1, <2>3, <3>1, <3>2, PassGoesOn, Zenon
  <2>5. /\ sending' \in [Pods -> BOOLEAN] /\ faults' \in Nat
        /\ comment' \in Comments
        /\ status' \in [Heads -> States \cup {"none"}]
    <3>1. run[p].token \in Tokens /\ run[p].chart \in Charts \cup {0}
      BY <1>0, RunFields
    <3>2. comment \in Comments /\ status \in [Heads -> States \cup {"none"}]
      BY <1>0 DEF TypeOK
    <3> QED
      BY <1>0, <2>1, <2>2, <3>1, <3>2, StatusTyped, CommentTyped, ColorIsState, Zenon
  <2>6. UNCHANGED <<world, leader, memory, events,
                   pushes, aborts, crashes, handovers>>
    BY <1>15, Zenon DEF Write1
  <2> QED
    BY <1>0, <2>3, <2>4, <2>5, <2>6, SMT DEF Typed, TypeOK
<1>16. ASSUME NEW p \in Pods, Write2(p) PROVE Typed'
  <2>1. /\ run[p].sha \in Heads /\ run[p].base \in Bases
        /\ pc[p] \notin {"idle", "listing"}
    BY <1>0, <1>16, SMT DEF Write2, Snapshots
  <2>2. PICK res \in Results :
            /\ \/ PostStatus(p, ColorOf(run[p].token), res)
               \/ PostComment(p, run[p].token, run[p].chart, res)
            /\ \/ RegisterTransient(p) /\ UNCHANGED seen
               \/ SeenAfterWrites(p, {run[p].first, res})
    BY <1>16, Zenon DEF Write2
  <2>3. pc' \in [Pods -> Labels] /\ run' \in [Pods -> Runs] /\ Snapshots'
    BY <1>16, PassEnds, Zenon DEF Write2
  <2>4. /\ seen' \in [Pods -> {None} \cup (Heads \X Bases)]
        /\ backoff' \in [Pods -> {None} \cup BackoffOK]
    <3>1. seen \in [Pods -> {None} \cup (Heads \X Bases)]
      BY <1>0 DEF TypeOK
    <3> QED
      BY <1>0, <2>1, <2>2, <3>1, SeenTyped, BackoffTyped, Zenon
  <2>5. /\ sending' \in [Pods -> BOOLEAN] /\ faults' \in Nat
        /\ comment' \in Comments
        /\ status' \in [Heads -> States \cup {"none"}]
    <3>1. run[p].token \in Tokens /\ run[p].chart \in Charts \cup {0}
      BY <1>0, RunFields
    <3>2. comment \in Comments /\ status \in [Heads -> States \cup {"none"}]
      BY <1>0 DEF TypeOK
    <3> QED
      BY <1>0, <2>1, <2>2, <3>1, <3>2, StatusTyped, CommentTyped, ColorIsState, Zenon
  <2>6. UNCHANGED <<world, leader, forced, targets, cached, disk, events,
                   pushes, aborts, crashes, handovers>>
    BY <1>16, Zenon DEF Write2
  <2> QED
    BY <1>0, <2>3, <2>4, <2>5, <2>6, SMT DEF Typed, TypeOK
<1>17. ASSUME NEW p \in Pods, Raise(p) PROVE Typed'
  <2>1. /\ run[p].sha \in Heads /\ run[p].base \in Bases
        /\ pc[p] \notin {"idle", "listing"}
    BY <1>0, <1>17, SMT DEF Raise, Snapshots
  <2>2. PICK token \in {"transient", "permanent"} :
            /\ run' = [run EXCEPT ![p].token = token]
            /\ RegisterTransient(p) \/ UNCHANGED backoff
    BY <1>17, Zenon DEF Raise
  <2>3. /\ run' \in [Pods -> Runs]
        /\ run'[p].sha = run[p].sha /\ run'[p].base = run[p].base
        /\ \A q \in Pods \ {p} : run'[q] = run[q]
    <3>1. token \in Tokens
      BY DEF Tokens
    <3> QED
      BY <1>0, <2>2, <3>1, SetToken, Zenon
  <2>4. pc' \in [Pods -> Labels] /\ Snapshots'
    <3>1. base' = base /\ (Goto(p, "error1"))
      BY <1>17, Zenon DEF Raise
    <3>2. {"error1"} \subseteq Labels
      BY SMT DEF Labels, WritePcs
    <3> QED
      BY <2>1, <2>3, <3>1, <3>2, PassGoesOn, Zenon
  <2>5. backoff' \in [Pods -> {None} \cup BackoffOK]
    <3>1. CASE RegisterTransient(p)
      BY <1>0, <2>1, <3>1, BackoffTyped, Zenon
    <3>2. CASE UNCHANGED backoff
      BY <1>0, <3>2 DEF TypeOK
    <3> QED
      BY <2>2, <3>1, <3>2
  <2>6. /\ faults' \in Nat
        /\ UNCHANGED <<world, posted, leader, seen, forced, targets, cached, disk,
                       sending, events, pushes, aborts, crashes, handovers>>
    BY <1>0, <1>17, SMT DEF Raise, TypeOK, Fault
  <2> QED
    BY <1>0, <2>3, <2>4, <2>5, <2>6, SMT DEF Typed, TypeOK
<1>18. ASSUME NEW p \in Pods, ErrorStatus(p) PROVE Typed'
  <2>1. /\ run[p].sha \in Heads /\ run[p].base \in Bases
        /\ pc[p] \notin {"idle", "listing"}
    BY <1>0, <1>18, SMT DEF ErrorStatus, Snapshots
  <2>2. /\ run' \in [Pods -> Runs]
        /\ run'[p].sha = run[p].sha /\ run'[p].base = run[p].base
        /\ \A q \in Pods \ {p} : run'[q] = run[q]
    BY <1>0, <1>18, Zenon DEF ErrorStatus
  <2>3. pc' \in [Pods -> Labels] /\ Snapshots'
    <3>1. base' = base /\ (Goto(p, "error2"))
      BY <1>18, Zenon DEF ErrorStatus
    <3>2. {"error2"} \subseteq Labels
      BY SMT DEF Labels, WritePcs
    <3> QED
      BY <2>1, <2>2, <3>1, <3>2, PassGoesOn, Zenon
  <2>4. /\ sending' \in [Pods -> BOOLEAN] /\ faults' \in Nat
        /\ status' \in [Heads -> States \cup {"none"}] /\ comment' = comment
    BY <1>0, <1>18, <2>1, StatusTyped, Zenon DEF ErrorStatus, States
  <2>5. UNCHANGED <<world, leader, memory, run, events,
                   pushes, aborts, crashes, handovers>>
    BY <1>18, Zenon DEF ErrorStatus
  <2> QED
    BY <1>0, <2>3, <2>4, <2>5, SMT DEF Typed, TypeOK
<1>19. ASSUME NEW p \in Pods, ErrorComment(p) PROVE Typed'
  <2>1. /\ run[p].sha \in Heads /\ run[p].base \in Bases
        /\ pc[p] \notin {"idle", "listing"}
    BY <1>0, <1>19, SMT DEF ErrorComment, Snapshots
  <2>2. pc' \in [Pods -> Labels] /\ run' \in [Pods -> Runs] /\ Snapshots'
    BY <1>19, PassEnds, Zenon DEF ErrorComment
  <2>3. run[p].token \in Tokens /\ 0 \in Charts \cup {0}
    BY <1>0, RunFields
  <2>4. /\ sending' \in [Pods -> BOOLEAN] /\ faults' \in Nat
        /\ comment' \in Comments /\ status' = status
    BY <1>0, <1>19, <2>1, <2>3, CommentTyped, Zenon DEF ErrorComment
  <2>5. UNCHANGED <<world, leader, memory, events,
                   pushes, aborts, crashes, handovers>>
    BY <1>19, Zenon DEF ErrorComment
  <2> QED
    BY <1>0, <2>2, <2>4, <2>5, SMT DEF Typed, TypeOK
<1>20. CASE Push
  <2>1. head' \in Heads /\ pushes' = pushes + 1
    BY <1>20 DEF Push
  <2>2. UNCHANGED <<base, chart, posted, leader, memory, pass, events,
                   faults, aborts, crashes, handovers>>
    BY <1>20 DEF Push
  <2>3. TypeOK'
    BY <1>0, <2>1, <2>2, SMT DEF TypeOK
  <2> QED
    BY <1>0, <2>2, <2>3 DEF Typed, Snapshots
<1>21. CASE MergeOnMain
  <2>1. base' = base + 1 /\ base' \in Bases /\ base \in Nat
    BY <1>0, <1>21 DEF MergeOnMain, TypeOK
  <2>2. UNCHANGED <<head, chart, posted, leader, memory, pass, events, counts>>
    BY <1>21 DEF MergeOnMain
  <2>3. TypeOK'
    BY <1>0, <2>1, <2>2, SMT DEF TypeOK
  <2>4. ASSUME NEW p \in Pods, pc[p] # "idle"
        PROVE  run[p].base \in Nat
    BY <1>0, <2>4 DEF Snapshots
  <2> QED
    BY <1>0, <2>1, <2>2, <2>3, <2>4, SMT DEF Typed, Snapshots
<1>22. CASE Republish
  <2>1. chart' \in Charts
    BY <1>0, <1>22 DEF Republish, TypeOK
  <2>2. PICK p \in Pods : events' = events \cup {[to |-> p, relayed |-> FALSE]}
    BY <1>22 DEF Republish
  <2>3. events' \subseteq Webhooks
    <3>1. [to |-> p, relayed |-> FALSE] \in Webhooks
      BY WebhookTyped, Zenon
    <3> QED
      BY <1>0, <2>2, <3>1 DEF TypeOK
  <2>4. UNCHANGED <<head, base, posted, leader, memory, pass, counts>>
    BY <1>22 DEF Republish
  <2> QED
    BY <1>0, <2>1, <2>3, <2>4, SMT DEF Typed, TypeOK, Snapshots
<1>23. ASSUME NEW p \in Pods, ChartWebhook(p) PROVE Typed'
  <2>1. PICK e \in events :
            /\ cached' = [cached EXCEPT ![p] = 0]
            /\ \/ /\ forced' = [forced EXCEPT ![p] = TRUE]
                  /\ seen' = [seen EXCEPT ![p] = None]
               \/ UNCHANGED <<forced, seen>>
            /\ \/ events' = events \ {e}
               \/ events' = (events \ {e}) \cup {[to |-> leader, relayed |-> TRUE]}
            /\ NoFault \/ Fault("unrelayed")
            /\ UNCHANGED <<world, posted, leader, targets, backoff, disk, pass,
                           pushes, aborts, crashes, handovers>>
    BY <1>23, Zenon DEF ChartWebhook
  <2>2. events' \subseteq Webhooks /\ faults' \in Nat
    <3>1. [to |-> leader, relayed |-> TRUE] \in Webhooks
      BY <1>0, WebhookTyped, Zenon DEF TypeOK
    <3>2. faults' \in Nat
      BY <1>0, <2>1, SMT DEF TypeOK, Fault, NoFault
    <3>3. events \subseteq Webhooks
      BY <1>0 DEF TypeOK
    <3>4. events' \subseteq events \cup {[to |-> leader, relayed |-> TRUE]}
      BY <2>1, Zenon
    <3> QED
      BY <3>1, <3>2, <3>3, <3>4, Zenon
  <2>3. forced' \in [Pods -> BOOLEAN]
    BY <1>0, <2>1, FlagTyped, Zenon DEF TypeOK
  <2>4. /\ seen' \in [Pods -> {None} \cup (Heads \X Bases)]
        /\ cached' \in [Pods -> Charts \cup {0}]
    BY <1>0, <2>1, SMT DEF TypeOK
  <2>5. UNCHANGED <<world, posted, leader, targets, backoff, disk, pass,
                   pushes, aborts, crashes, handovers>>
    BY <2>1, Zenon
  <2> QED
    BY <1>0, <2>2, <2>3, <2>4, <2>5, SMT DEF Typed, TypeOK, Snapshots
<1>24. ASSUME NEW p \in Pods, Crash(p) PROVE Typed'
  <2>1. pc' \in [Pods -> Labels] /\ run' \in [Pods -> Runs] /\ Snapshots'
    BY <1>24, PassEnds, Zenon DEF Crash
  <2>2. /\ forced' \in [Pods -> BOOLEAN]
        /\ targets' \in [Pods -> BOOLEAN]
        /\ sending' \in [Pods -> BOOLEAN]
    BY <1>0, <1>24, FlagTyped, Zenon DEF Crash, TypeOK
  <2>3. /\ seen' \in [Pods -> {None} \cup (Heads \X Bases)]
        /\ backoff' \in [Pods -> {None} \cup BackoffOK]
        /\ cached' \in [Pods -> Charts \cup {0}]
        /\ crashes' \in Nat
        /\ UNCHANGED <<world, posted, leader, disk, events,
                       pushes, faults, aborts, handovers>>
    BY <1>0, <1>24, SMT DEF Crash, TypeOK
  <2> QED
    BY <1>0, <2>1, <2>2, <2>3, SMT DEF Typed, TypeOK
<1>25. CASE Handover
  BY <1>0, <1>25, SMT DEF Handover, Typed, TypeOK, Snapshots
<1>26. CASE UNCHANGED vars
  BY <1>0, <1>26, SMT DEF vars, Typed, TypeOK, Snapshots
<1> QED
  BY <1>1, <1>2, <1>3, <1>4, <1>5, <1>6, <1>7, <1>8, <1>9, <1>10, <1>11, <1>12,
     <1>13, <1>14, <1>15, <1>16, <1>17, <1>18, <1>19, <1>20, <1>21, <1>22,
     <1>23, <1>24, <1>25, <1>26 DEF Next, Step

(* Whatever fails, the memories of a pod and what is on Bitbucket stay of    *)
(* their kinds: above all, the retry delay stays within its cap              *)
(* (_backoff_register_transient) and _seen holds real snapshots.             *)
THEOREM TypeCorrect == Spec => []TypeOK
<1>1. Typed => TypeOK
  BY DEF Typed
<1> QED
  BY TypedInit, TypedStep, <1>1, PTL DEF Spec

-----------------------------------------------------------------------------
(* Verdicts that are published, and green statuses *)

(* A tip that main has had stays one *)
LEMMA CleanStays ==
    ASSUME base \in Nat, base' \in Nat, base <= base',
           NEW h, NEW b, Clean(h, b)
    PROVE  Clean(h, b)'
BY SMT DEF Clean

LEMMA VerdictsOfOne ==
    ASSUME NEW p \in Pods, base' = base, Verdicts,
           TrueComment(comment)', PassTrue(p)',
           \A q \in Pods \ {p} : run'[q] = run[q] /\ pc'[q] = pc[q]
    PROVE  Verdicts'
<1>1. ASSUME NEW q \in Pods, q # p PROVE PassTrue(q)'
  BY <1>1, SMT DEF Verdicts, PassTrue, TrueComment, Clean
<1> QED
  BY <1>1, Zenon DEF Verdicts

(* A write of a status: green only for a clean verdict of its own snapshot *)
LEMMA StatusGreen ==
    ASSUME Typed, GreenWasRendered, NEW p \in Pods, NEW state, NEW res,
           run[p].sha \in Heads, PostStatus(p, state, res), base' = base,
           state = "SUCCESSFUL" => \E b : Clean(run[p].sha, b)
    PROVE  GreenWasRendered' /\ comment' = comment
<1>1. status' = status \/ status' = [status EXCEPT ![run[p].sha] = state]
  BY Zenon DEF PostStatus
<1>2. status \in [Heads -> States \cup {"none"}]
  BY DEF Typed, TypeOK
<1>3. ASSUME NEW h \in Heads, status'[h] = "SUCCESSFUL"
      PROVE  \E b \in 1..base : Truth[h][b].token = "clean"
  <2>1. CASE status[h] = "SUCCESSFUL"
    BY <2>1 DEF GreenWasRendered
  <2>2. CASE status[h] # "SUCCESSFUL"
    <3>1. h = run[p].sha /\ state = "SUCCESSFUL"
      BY <1>1, <1>2, <1>3, <2>2, SMT
    <3> QED
      BY <3>1 DEF Clean
  <2> QED
    BY <2>1, <2>2
<1> QED
  BY <1>3 DEF GreenWasRendered, PostStatus

(* A write of the comment: true if its token is clean only for its snapshot *)
LEMMA CommentTrue ==
    ASSUME NEW p \in Pods, NEW token, NEW build, NEW res,
           TrueComment(comment), PostComment(p, token, build, res), base' = base,
           token = "clean" => Clean(run[p].sha, run[p].base)
    PROVE  TrueComment(comment)' /\ status' = status
<1>1. \/ comment' = comment
      \/ comment' = [sha |-> run[p].sha, base |-> run[p].base,
                     token |-> token, chart |-> build]
  BY Zenon DEF PostComment
<1>2. TrueComment(comment)'
  <2>1. CASE comment' = comment
    BY <2>1 DEF TrueComment, Clean
  <2>2. CASE comment' = [sha |-> run[p].sha, base |-> run[p].base,
                         token |-> token, chart |-> build]
    BY <2>2, SMT DEF TrueComment, Clean
  <2> QED
    BY <1>1, <2>1, <2>2
<1> QED
  BY <1>2, Zenon DEF PostComment

LEMMA ColorIsTrue == \A token : ColorOf(token) = "SUCCESSFUL" => token = "clean"
BY DEF ColorOf

LEMMA EndTrue ==
    ASSUME Typed, Verdicts, NEW p \in Pods, End(p), base' = base,
           TrueComment(comment)'
    PROVE  Verdicts'
<1>1. /\ run' \in [Pods -> Runs] /\ run'[p].found = NoComment
      /\ \A q \in Pods \ {p} : run'[q] = run[q]
  BY EndRun, Zenon DEF End, Typed, TypeOK
<1>2. pc' = [pc EXCEPT ![p] = "idle"] /\ pc \in [Pods -> Labels]
  BY Zenon DEF End, Goto, Typed, TypeOK
<1>3. PassTrue(p)'
  BY <1>1, <1>2, SMT DEF PassTrue, TrueComment, NoComment
<1>4. \A q \in Pods \ {p} : pc'[q] = pc[q]
  BY <1>2, SMT
<1> QED
  BY <1>1, <1>3, <1>4, VerdictsOfOne, Zenon

(* A pass that goes on, at a label where it is about to write no verdict *)
LEMMA GoOnTrue ==
    ASSUME Typed, Verdicts, NEW p \in Pods, NEW label, Goto(p, label),
           base' = base, comment' = comment,
           TrueComment(run'[p].found),
           \A q \in Pods \ {p} : run'[q] = run[q],
           label \in {"recover", "mend"} => run'[p].found.sha = run'[p].sha,
           label \in {"write1", "write2"} /\ run'[p].token = "clean" =>
               Clean(run'[p].sha, run'[p].base),
           label \in {"error1", "error2"} => run'[p].token # "clean"
    PROVE  Verdicts'
<1>1. pc'[p] = label /\ \A q \in Pods \ {p} : pc'[q] = pc[q]
  BY SMT DEF Goto, Typed, TypeOK
<1>2. PassTrue(p)' /\ TrueComment(comment)'
  BY <1>1, SMT DEF PassTrue, TrueComment, Clean, Verdicts
<1> QED
  BY <1>1, <1>2, VerdictsOfOne, Zenon

LEMMA VerdictsStep ==
    Typed /\ Verdicts /\ GreenWasRendered /\ [Next]_vars
        => Verdicts' /\ GreenWasRendered'
<1> SUFFICES ASSUME Typed, Verdicts, GreenWasRendered, [Next]_vars
             PROVE  Verdicts' /\ GreenWasRendered'
  OBVIOUS
<1> USE DEF world, posted, memory, counts, pass
<1>0. /\ TypeOK /\ Snapshots /\ run \in [Pods -> Runs] /\ comment \in Comments
      /\ \A p \in Pods : TrueComment(run[p].found)
      /\ TrueComment(comment)
  BY DEF Typed, TypeOK, Verdicts, PassTrue
<1>kept. ASSUME UNCHANGED <<status, base>> PROVE GreenWasRendered'
  BY <1>kept DEF GreenWasRendered
<1>1. ASSUME NEW p \in Pods, ReadBase(p) PROVE Verdicts' /\ GreenWasRendered'
  <2>1. /\ run'[p].found = run[p].found
        /\ \A q \in Pods \ {p} : run'[q] = run[q]
    BY <1>0, <1>1, SetBase, Zenon DEF ReadBase, TypeOK
  <2>2. Goto(p, "listing") /\ UNCHANGED <<world, posted>>
    BY <1>1, Zenon DEF ReadBase
  <2> QED
    BY <1>0, <1>kept, <2>1, <2>2, GoOnTrue, SMT
<1>2. ASSUME NEW p \in Pods, ListPrs(p) PROVE Verdicts' /\ GreenWasRendered'
  <2>1. UNCHANGED <<world, posted>>
    BY <1>2, Zenon DEF ListPrs
  <2>2. CASE End(p)
    BY <1>0, <1>kept, <2>1, <2>2, EndTrue, Zenon DEF TrueComment, Clean
  <2>3. CASE Goto(p, "queued") /\ run' = [run EXCEPT ![p].sha = head]
    <3>1. /\ run'[p].found = run[p].found
          /\ \A q \in Pods \ {p} : run'[q] = run[q]
      BY <1>0, <2>3, SetSha, Zenon DEF TypeOK
    <3> QED
      BY <1>0, <1>kept, <2>1, <2>3, <3>1, GoOnTrue, SMT
  <2> QED
    BY <1>2, <2>2, <2>3, Zenon DEF ListPrs
<1>3. ASSUME NEW p \in Pods, Abandon(p) PROVE Verdicts' /\ GreenWasRendered'
  BY <1>0, <1>3, <1>kept, EndTrue, Zenon DEF Abandon, TrueComment, Clean
<1>4. ASSUME NEW p \in Pods, Enter(p) PROVE Verdicts' /\ GreenWasRendered'
  <2>1. UNCHANGED <<world, posted>>
    BY <1>4, Zenon DEF Enter
  <2>2. CASE End(p)
    BY <1>0, <1>kept, <2>1, <2>2, EndTrue, Zenon DEF TrueComment, Clean
  <2>3. CASE Goto(p, "lookup") /\ run' = [run EXCEPT ![p].forced = forced[p]]
    <3>1. /\ run'[p].found = run[p].found
          /\ \A q \in Pods \ {p} : run'[q] = run[q]
      BY <1>0, <2>3, SetForced, Zenon DEF TypeOK
    <3> QED
      BY <1>0, <1>kept, <2>1, <2>3, <3>1, GoOnTrue, SMT
  <2> QED
    BY <1>4, <2>2, <2>3, Zenon DEF Enter
<1>5. ASSUME NEW p \in Pods, Lookup(p) PROVE Verdicts' /\ GreenWasRendered'
  <2>1. UNCHANGED <<world, posted>>
    BY <1>5, Zenon DEF Lookup
  <2>2. CASE End(p)
    BY <1>0, <1>kept, <2>1, <2>2, EndTrue, Zenon DEF TrueComment, Clean
  <2>3. CASE Goto(p, "decide") /\ run' = [run EXCEPT ![p].found = comment]
    <3>1. /\ run'[p].found = comment
          /\ \A q \in Pods \ {p} : run'[q] = run[q]
      BY <1>0, <2>3, SetFound, Zenon
    <3> QED
      BY <1>0, <1>kept, <2>1, <2>3, <3>1, GoOnTrue, SMT
  <2> QED
    BY <1>5, <2>2, <2>3, Zenon DEF Lookup
<1>6. ASSUME NEW p \in Pods, Decide(p) PROVE Verdicts' /\ GreenWasRendered'
  <2>1. UNCHANGED <<world, posted, run>>
    BY <1>6, Zenon DEF Decide
  <2>2. \/ Goto(p, "begin")
        \/ Goto(p, "recover") /\ run[p].found.sha = run[p].sha
    BY <1>6, Zenon DEF Decide, UpToDate
  <2> QED
    BY <1>0, <1>kept, <2>1, <2>2, GoOnTrue, SMT
<1>7. ASSUME NEW p \in Pods, Recover(p) PROVE Verdicts' /\ GreenWasRendered'
  <2>1. UNCHANGED <<world, posted>> /\ pc[p] = "recover"
    BY <1>7, Zenon DEF Recover
  <2>2. CASE End(p)
    BY <1>0, <1>kept, <2>1, <2>2, EndTrue, Zenon DEF TrueComment, Clean
  <2>3. CASE Goto(p, "mend") /\ UNCHANGED run
    <3>1. run[p].found.sha = run[p].sha
      BY <2>1 DEF Verdicts, PassTrue
    <3> QED
      BY <1>0, <1>kept, <2>1, <2>3, <3>1, GoOnTrue, SMT
  <2> QED
    BY <1>7, <2>2, <2>3, Zenon DEF Recover
<1>8. ASSUME NEW p \in Pods, Mend(p) PROVE Verdicts' /\ GreenWasRendered'
  <2>1. PICK res \in Results : PostStatus(p, ColorOf(run[p].found.token), res)
    BY <1>8, Zenon DEF Mend
  <2>2. pc[p] = "mend" /\ End(p) /\ UNCHANGED world
    BY <1>8, Zenon DEF Mend
  <2>3. run[p].sha \in Heads /\ run[p].found.sha = run[p].sha
    BY <1>0, <2>2, SMT DEF Snapshots, Verdicts, PassTrue
  <2>4. TrueComment(run[p].found) /\ run[p].found.sha # None
    BY <1>0, <2>3, PrCycleAssumption DEF PrCycleAssumption
  <2>5. ColorOf(run[p].found.token) = "SUCCESSFUL" => \E b : Clean(run[p].sha, b)
    BY <2>3, <2>4, ColorIsTrue, Zenon DEF TrueComment
  <2>6. GreenWasRendered' /\ comment' = comment
    BY <2>1, <2>2, <2>3, <2>5, StatusGreen, Zenon
  <2> QED
    BY <1>0, <2>2, <2>6, EndTrue, Zenon DEF TrueComment, Clean
<1>9. ASSUME NEW p \in Pods, Gate(p) PROVE Verdicts' /\ GreenWasRendered'
  BY <1>0, <1>9, <1>kept, Zenon DEF Gate, Verdicts, PassTrue, TrueComment, Clean
<1>10. ASSUME NEW p \in Pods, Begin(p) PROVE Verdicts' /\ GreenWasRendered'
  <2>1. /\ UNCHANGED <<world, posted>> /\ pc[p] = "begin"
    BY <1>10, Zenon DEF Begin
  <2>2. run[p].sha \in Heads /\ run[p].base \in Bases
    BY <1>0, <2>1, SMT DEF Snapshots
  <2>3. CASE Goto(p, "write1") /\ run' = [run EXCEPT ![p].token = Verdict(p).token]
    <3>1. /\ run'[p].sha = run[p].sha /\ run'[p].base = run[p].base
          /\ run'[p].found = run[p].found
          /\ run'[p].token = Verdict(p).token
          /\ \A q \in Pods \ {p} : run'[q] = run[q]
      BY <1>0, <2>2, <2>3, VerdictTyped, SetToken, Zenon
    <3>2. run[p].base \in 1..base
      <4>1. 1 <= run[p].base /\ run[p].base <= base
        BY <1>0, <2>1 DEF Snapshots
      <4>2. run[p].base \in Nat /\ base \in Nat
        BY <1>0, <2>2, PrCycleAssumption DEF PrCycleAssumption, TypeOK
      <4> QED
        BY <4>1, <4>2
    <3>3. Verdict(p).token = "clean" => Clean(run[p].sha, run[p].base)
      BY <3>2 DEF Verdict, Clean
    <3> QED
      BY <1>0, <1>kept, <2>1, <2>3, <3>1, <3>3, GoOnTrue, SMT
  <2>4. CASE Goto(p, "announce") /\ UNCHANGED run
    BY <1>0, <1>kept, <2>1, <2>4, GoOnTrue, SMT
  <2> QED
    BY <1>10, <2>3, <2>4, Zenon DEF Begin
<1>11. ASSUME NEW p \in Pods, Announce(p) PROVE Verdicts' /\ GreenWasRendered'
  <2>1. PICK res \in Results : PostStatus(p, "INPROGRESS", res)
    BY <1>11, Zenon DEF Announce
  <2>2. pc[p] = "announce" /\ Goto(p, "render") /\ UNCHANGED <<world, run>>
    BY <1>11, Zenon DEF Announce
  <2>3. run[p].sha \in Heads
    BY <1>0, <2>2, SMT DEF Snapshots
  <2>4. GreenWasRendered' /\ comment' = comment
    BY <2>1, <2>2, <2>3, StatusGreen, SMT
  <2> QED
    BY <1>0, <2>2, <2>4, GoOnTrue, SMT
<1>12. ASSUME NEW p \in Pods, Render(p) PROVE Verdicts' /\ GreenWasRendered'
  <2>1. UNCHANGED <<world, posted>> /\ (Goto(p, "compose") \/ Goto(p, "pulling"))
    BY <1>12, Zenon DEF Render
  <2>2. PICK build \in Charts \cup {0} : run' = [run EXCEPT ![p].chart = build]
    <3>1. (IF cached[p] = 0 THEN chart ELSE cached[p]) \in Charts \cup {0}
      BY <1>0 DEF TypeOK
    <3> QED
      BY <1>12, <3>1, Zenon DEF Render
  <2>3. /\ run'[p].found = run[p].found
        /\ \A q \in Pods \ {p} : run'[q] = run[q]
    BY <1>0, <2>2, SetChart, Zenon
  <2> QED
    BY <1>0, <1>kept, <2>1, <2>3, GoOnTrue, SMT
<1>13. ASSUME NEW p \in Pods, Pulled(p) PROVE Verdicts' /\ GreenWasRendered'
  <2>1. UNCHANGED <<world, posted, run>> /\ Goto(p, "compose")
    BY <1>13, Zenon DEF Pulled
  <2> QED
    BY <1>0, <1>kept, <2>1, GoOnTrue, SMT
<1>14. ASSUME NEW p \in Pods, Compose(p) PROVE Verdicts' /\ GreenWasRendered'
  <2>1. UNCHANGED <<world, posted>> /\ Goto(p, "write1") /\ pc[p] = "compose"
    BY <1>14, Zenon DEF Compose
  <2>2. run[p].sha \in Heads /\ run[p].base \in Bases
    BY <1>0, <2>1, SMT DEF Snapshots
  <2>3. PICK token \in Tokens :
            /\ run' = [run EXCEPT ![p].token = token]
            /\ token \in {Verdict(p).token, "transient"}
    <3>1. Verdict(p).token \in Tokens /\ "transient" \in Tokens
      BY <2>2, VerdictTyped DEF Tokens
    <3> QED
      BY <1>14, <3>1, Zenon DEF Compose
  <2>4. /\ run'[p].sha = run[p].sha /\ run'[p].base = run[p].base
        /\ run'[p].found = run[p].found
        /\ run'[p].token = token
        /\ \A q \in Pods \ {p} : run'[q] = run[q]
    BY <1>0, <2>3, SetToken, Zenon
  <2>5. token = "clean" => Clean(run[p].sha, run[p].base)
    BY <1>0, <2>1, <2>2, <2>3, PrCycleAssumption, SMT
    DEF PrCycleAssumption, Verdict, Clean, Snapshots, TypeOK
  <2> QED
    BY <1>0, <1>kept, <2>1, <2>4, <2>5, GoOnTrue, SMT
<1>15. ASSUME NEW p \in Pods, Write1(p) PROVE Verdicts' /\ GreenWasRendered'
  <2>1. UNCHANGED world /\ pc[p] = "write1" /\ Goto(p, "write2")
    BY <1>15, Zenon DEF Write1
  <2>2. PICK res \in Results :
            \/ PostStatus(p, ColorOf(run[p].token), res)
            \/ PostComment(p, run[p].token, run[p].chart, res)
    BY <1>15, Zenon DEF Write1
  <2>3. run[p].sha \in Heads
        /\ (run[p].token = "clean" => Clean(run[p].sha, run[p].base))
    BY <1>0, <2>1, SMT DEF Snapshots, Verdicts, PassTrue
  <2>4. GreenWasRendered' /\ TrueComment(comment)'
    <3>1. CASE PostStatus(p, ColorOf(run[p].token), res)
      <4>1. GreenWasRendered' /\ comment' = comment
        BY <2>1, <2>3, <3>1, StatusGreen, ColorIsTrue, Zenon
      <4> QED
        BY <1>0, <2>1, <4>1 DEF TrueComment, Clean
    <3>2. CASE PostComment(p, run[p].token, run[p].chart, res)
      <4>1. TrueComment(comment)' /\ status' = status
        BY <1>0, <2>1, <2>3, <3>2, CommentTrue, Zenon
      <4> QED
        BY <1>kept, <2>1, <4>1, Zenon
    <3> QED
      BY <2>2, <3>1, <3>2
  <2>5. /\ run'[p].sha = run[p].sha /\ run'[p].base = run[p].base
        /\ run'[p].found = run[p].found
        /\ run'[p].token = run[p].token
        /\ \A q \in Pods \ {p} : run'[q] = run[q]
    BY <1>0, <1>15, SetFirst, Zenon DEF Write1
  <2>6. PassTrue(p)' /\ \A q \in Pods \ {p} : pc'[q] = pc[q]
    <3>1. pc'[p] = "write2" /\ \A q \in Pods \ {p} : pc'[q] = pc[q]
      BY <1>0, <2>1, SMT DEF Goto, TypeOK
    <3> QED
      BY <1>0, <2>1, <2>3, <2>5, <3>1, SMT DEF PassTrue, TrueComment, Clean
  <2> QED
    BY <2>1, <2>4, <2>5, <2>6, VerdictsOfOne, Zenon
<1>16. ASSUME NEW p \in Pods, Write2(p) PROVE Verdicts' /\ GreenWasRendered'
  <2>1. UNCHANGED world /\ pc[p] = "write2" /\ End(p)
    BY <1>16, Zenon DEF Write2
  <2>2. PICK res \in Results :
            \/ PostStatus(p, ColorOf(run[p].token), res)
            \/ PostComment(p, run[p].token, run[p].chart, res)
    BY <1>16, Zenon DEF Write2
  <2>3. run[p].sha \in Heads
        /\ (run[p].token = "clean" => Clean(run[p].sha, run[p].base))
    BY <1>0, <2>1, SMT DEF Snapshots, Verdicts, PassTrue
  <2>4. GreenWasRendered' /\ TrueComment(comment)'
    <3>1. CASE PostStatus(p, ColorOf(run[p].token), res)
      <4>1. GreenWasRendered' /\ comment' = comment
        BY <2>1, <2>3, <3>1, StatusGreen, ColorIsTrue, Zenon
      <4> QED
        BY <1>0, <2>1, <4>1 DEF TrueComment, Clean
    <3>2. CASE PostComment(p, run[p].token, run[p].chart, res)
      <4>1. TrueComment(comment)' /\ status' = status
        BY <1>0, <2>1, <2>3, <3>2, CommentTrue, Zenon
      <4> QED
        BY <1>kept, <2>1, <4>1, Zenon
    <3> QED
      BY <2>2, <3>1, <3>2
  <2> QED
    BY <2>1, <2>4, EndTrue, Zenon
<1>17. ASSUME NEW p \in Pods, Raise(p) PROVE Verdicts' /\ GreenWasRendered'
  <2>1. UNCHANGED <<world, posted>> /\ Goto(p, "error1")
    BY <1>17, Zenon DEF Raise
  <2>2. PICK token \in {"transient", "permanent"} :
            run' = [run EXCEPT ![p].token = token]
    BY <1>17, Zenon DEF Raise
  <2>3. token \in Tokens /\ token # "clean"
    BY <2>2 DEF Tokens
  <2>4. /\ run'[p].found = run[p].found /\ run'[p].token = token
        /\ \A q \in Pods \ {p} : run'[q] = run[q]
    BY <1>0, <2>2, <2>3, SetToken, Zenon
  <2> QED
    BY <1>0, <1>kept, <2>1, <2>3, <2>4, GoOnTrue, SMT
<1>18. ASSUME NEW p \in Pods, ErrorStatus(p) PROVE Verdicts' /\ GreenWasRendered'
  <2>1. PICK res \in Results : PostStatus(p, "FAILED", res)
    BY <1>18, Zenon DEF ErrorStatus
  <2>2. pc[p] = "error1" /\ Goto(p, "error2") /\ UNCHANGED <<world, run>>
    BY <1>18, Zenon DEF ErrorStatus
  <2>3. run[p].sha \in Heads /\ run[p].token # "clean"
    BY <1>0, <2>2, SMT DEF Snapshots, Verdicts, PassTrue
  <2>4. GreenWasRendered' /\ comment' = comment
    BY <2>1, <2>2, <2>3, StatusGreen, SMT
  <2> QED
    BY <1>0, <2>2, <2>3, <2>4, GoOnTrue, SMT
<1>19. ASSUME NEW p \in Pods, ErrorComment(p) PROVE Verdicts' /\ GreenWasRendered'
  <2>1. PICK res \in Results : PostComment(p, run[p].token, 0, res)
    BY <1>19, Zenon DEF ErrorComment
  <2>2. pc[p] = "error2" /\ End(p) /\ UNCHANGED world
    BY <1>19, Zenon DEF ErrorComment
  <2>3. run[p].token # "clean"
    BY <2>2 DEF Verdicts, PassTrue
  <2>4. TrueComment(comment)' /\ status' = status
    BY <1>0, <2>1, <2>2, <2>3, CommentTrue, Zenon
  <2> QED
    BY <1>kept, <2>2, <2>4, EndTrue, Zenon
<1>20. CASE MergeOnMain
  <2>1. /\ base \in Nat /\ base' \in Nat /\ base <= base'
        /\ UNCHANGED <<posted, pass>>
    BY <1>0, <1>20, PrCycleAssumption, SMT DEF PrCycleAssumption, MergeOnMain, TypeOK
  <2>2. \A h, b : Clean(h, b) => Clean(h, b)'
    BY <2>1, CleanStays
  <2>3. Verdicts'
    BY <2>1, <2>2, Zenon DEF Verdicts, PassTrue, TrueComment
  <2>4. GreenWasRendered'
    BY <2>1, SMT DEF GreenWasRendered
  <2> QED
    BY <2>3, <2>4
<1>21. ASSUME UNCHANGED <<base, posted, pc, run>> PROVE Verdicts' /\ GreenWasRendered'
  BY <1>kept, <1>21 DEF Verdicts, PassTrue, TrueComment, Clean
<1>22. CASE Push \/ Republish \/ Handover \/ UNCHANGED vars
  BY <1>21, <1>22, Zenon DEF Push, Republish, Handover, vars
<1>23. ASSUME NEW p \in Pods, ChartWebhook(p) PROVE Verdicts' /\ GreenWasRendered'
  BY <1>21, <1>23, Zenon DEF ChartWebhook
<1>24. ASSUME NEW p \in Pods, Crash(p) PROVE Verdicts' /\ GreenWasRendered'
  BY <1>0, <1>kept, <1>24, EndTrue, Zenon DEF Crash, TrueComment, Clean
<1> QED
  BY <1>1, <1>2, <1>3, <1>4, <1>5, <1>6, <1>7, <1>8, <1>9, <1>10, <1>11, <1>12,
     <1>13, <1>14, <1>15, <1>16, <1>17, <1>18, <1>19, <1>20, <1>22, <1>23,
     <1>24 DEF Next, Step

(* A commit shows green only if it renders clean against some tip main has   *)
(* had, for any number of pods, failed or late writes, crashes, raised       *)
(* exceptions and changes of leader (post_build_status, upsert_comment,      *)
(* fix_stuck_inprogress).                                                    *)
THEOREM GreenIsRendered == Spec => []GreenWasRendered
<1>1. Init => Verdicts /\ GreenWasRendered
  BY SMT DEF Init, Verdicts, PassTrue, TrueComment, Idle, NoComment, GreenWasRendered
<1> QED
  BY TypedInit, TypedStep, VerdictsStep, <1>1, PTL DEF Spec
=============================================================================
