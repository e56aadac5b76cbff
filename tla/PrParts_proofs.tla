--------------------------- MODULE PrParts_proofs ---------------------------
(***************************************************************************)
(* Proofs about PrParts, for any pods, commits, tips of main, chart builds *)
(* and verdicts, any number of pushes, merges, crashes, aborts and faults  *)
(* (of every kind but a refused call), and any set of applications.        *)
(*                                                                         *)
(* SettledIsTrue: with one leader, nobody disturbs what a pass has found   *)
(* and written (PassStands), and what is marked as seen is either still    *)
(* shown or out of date for good (SeenStands): a pass over another         *)
(* snapshot may overwrite it and then fail, but main and the branch do not *)
(* go back.  The steps of MergeGate follow from the same invariant.        *)
(*                                                                         *)
(* VerdictIsOne: the chains of conditions that end in a token, a colour    *)
(* and a retry agree (TokenIsState, TokenIsRetry), and VerdictInv ties     *)
(* what is published to them through every way a run can be cut short.     *)
(***************************************************************************)
EXTENDS PrParts, PrCycle_proofs

(* The snapshot of a pass, and the labels at which it is past the dedup *)
Snapshot(p) == <<run[p].sha, run[p].base>>
Working == Labels \ {"idle", "listing", "queued"}

(* This snapshot is not the current one and never will be again *)
Gone(s) == s[1] \in past \/ s[2] < base

(* What stands on Bitbucket is about this snapshot, and true *)
Shown(s) ==
    /\ comment.sha = s[1] /\ comment.base = s[2]
    /\ status[s[1]] \in Final
    /\ status[s[1]] = "SUCCESSFUL" => Truth[s[1]][s[2]].token = "clean"

(* Only the leader is in a pass.  Without chart webhooks nothing is forced;  *)
(* without faults no write fails and nothing raises.                         *)
OnePass ==
    /\ \A p \in Pods : p # leader => pc[p] = "idle"
    /\ part # "republish" =>
        events = {} /\ \A p \in Pods : ~forced[p] /\ ~run[p].forced
    /\ part = "republish" => faults = 0 /\ pc[leader] \notin {"error1", "error2"}

(* The branch only goes on, and a pass is about one of its commits *)
Branch ==
    /\ head \notin past
    /\ pc[leader] \notin {"idle", "listing"} => run[leader].sha \in past \cup {head}

(* What the pass of the leader has found and written still stands: there is  *)
(* nobody else to change it.                                                 *)
PassStands ==
    LET r == run[leader]
    IN  /\ pc[leader] \in {"decide", "recover", "mend"} => comment = r.found
        /\ pc[leader] \in {"recover", "mend"} =>
            r.found.sha = r.sha /\ r.found.base = r.base /\ ~r.forced
        /\ pc[leader] = "mend" /\ ColorOf(r.found.token) = "SUCCESSFUL" =>
            status[r.sha] # "FAILED"
        /\ pc[leader] = "write2" => r.first \in {"ok", "transient"}
        /\ pc[leader] = "write2" /\ r.first = "ok" =>
            IF StatusFirst(leader)
            THEN status[r.sha] = ColorOf(r.token)
            ELSE /\ comment.sha = r.sha /\ comment.base = r.base
                 /\ comment.token = r.token
        /\ pc[leader] = "write2" /\ part = "republish" => r.first = "ok"

(* What the leader has marked as seen is shown, or is out of date for good,  *)
(* or is what a forced pass, which nothing can stop, is about to show again. *)
SeenStands ==
    LET s == seen[leader]
        r == run[leader]
    IN  s # None =>
        /\ s[1] \in past \cup {head} /\ s[2] <= base
        /\ pc[leader] # "idle" => s[2] <= r.base
        /\ pc[leader] \notin {"idle", "listing"} => s[1] = r.sha \/ s[1] \in past
        /\ pc[leader] \in Working /\ ~r.forced => s # Snapshot(leader)
        /\ \/ Gone(s) \/ Shown(s)
           \/ /\ pc[leader] \in Working /\ r.forced /\ s = Snapshot(leader)
              /\ part = "republish"

Stands == part # "handover" => OnePass /\ Branch /\ PassStands /\ SeenStands

Standing == OnePass /\ Branch /\ PassStands /\ SeenStands

(* What the parts with a fixed leader have in common *)
Quiet ==
    /\ part \in {"faults", "republish"} /\ part' = part
    /\ leader' = leader
    /\ part = "faults" => Unrefused
    /\ part = "republish" => faults' = 0
    /\ Onward

-----------------------------------------------------------------------------
(* Passes *)

LEMMA OnlyTheLeaderSteps ==
    ASSUME OnePass, NEW p \in Pods, Step(p)
    PROVE  p = leader
BY DEF OnePass, Step, ReadBase, ListPrs, Enter, Lookup, Decide, Recover, Mend, Gate,
       Begin, Announce, Render, Pulled, Compose, Write1, Write2, ErrorStatus,
       ErrorComment, WritePcs

LEMMA SeenIsSnapshot ==
    ASSUME Typed, NEW p \in Pods, seen[p] # None
    PROVE  /\ seen[p] \in Heads \X Bases
           /\ seen[p] = <<seen[p][1], seen[p][2]>>
           /\ seen[p][1] \in Heads /\ seen[p][2] \in Bases
BY SMT DEF Typed, TypeOK

(* A pass over something else than what was seen shows that this is gone *)
LEMMA PassGone ==
    ASSUME Typed, Standing, pc[leader] \in Working, seen[leader] # None,
           seen[leader] # Snapshot(leader)
    PROVE  Gone(seen[leader])
<1>1. leader \in Pods /\ base \in Nat
  BY PrCycleAssumption DEF PrCycleAssumption, Typed, TypeOK
<1>2. pc[leader] \notin {"idle", "listing"}
  BY DEF Working
<1>3. run[leader].base \in Nat /\ run[leader].base <= base
  BY <1>1, <1>2, PrCycleAssumption DEF PrCycleAssumption, Typed, Snapshots
<1>4. seen[leader] = <<seen[leader][1], seen[leader][2]>> /\ seen[leader][2] \in Nat
  BY <1>1, SeenIsSnapshot, PrCycleAssumption DEF PrCycleAssumption
<1>5. /\ seen[leader][2] <= run[leader].base
      /\ seen[leader][1] = run[leader].sha \/ seen[leader][1] \in past
  BY <1>2 DEF Standing, SeenStands
<1> QED
  BY <1>1, <1>3, <1>4, <1>5, SMT DEF Gone, Snapshot

LEMMA StaysGone ==
    ASSUME Typed, Typed', Quiet, base <= base', NEW s \in Heads \X Bases, Gone(s)
    PROVE  Gone(s)'
<1>1. base \in Nat /\ base' \in Nat /\ s[2] \in Nat
  BY PrCycleAssumption DEF PrCycleAssumption, Typed, TypeOK
<1> QED
  BY <1>1, SMT DEF Gone, Quiet, Onward

(* A pass goes on with its snapshot, whatever it writes *)
LEMMA GoesOn ==
    ASSUME Typed, Typed', Standing, Quiet, NEW label \in Working, Goto(leader, label),
           pc[leader] \in Working,
           run'[leader].sha = run[leader].sha, run'[leader].base = run[leader].base,
           run'[leader].forced = run[leader].forced,
           \A q \in Pods \ {leader} : run'[q] = run[q],
           UNCHANGED <<world, seen, forced, events>>,
           part = "republish" => label \notin {"error1", "error2"}
    PROVE  OnePass' /\ Branch' /\ SeenStands'
<1>1. leader \in Pods /\ leader' = leader /\ past' = past /\ part' = part
  BY DEF Quiet, Onward, Branch, Standing, Typed, TypeOK, world
<1>2. pc'[leader] = label /\ \A q \in Pods \ {leader} : pc'[q] = pc[q]
  BY <1>1, SMT DEF Goto, Typed, TypeOK
<1>3. pc[leader] \notin {"idle", "listing"} /\ label \notin {"idle", "listing"}
  BY DEF Working
<1>4. OnePass'
  BY <1>1, <1>2, SMT DEF OnePass, Standing, Quiet
<1>5. Branch'
  BY <1>1, <1>2, <1>3 DEF Branch, Standing, world
<1>6. SeenStands'
  <2> SUFFICES ASSUME seen[leader] # None PROVE SeenStands'
    BY <1>1 DEF SeenStands
  <2>1. UNCHANGED <<head, base, seen>> /\ Snapshot(leader)' = Snapshot(leader)
    BY <1>1 DEF world, Snapshot
  <2>2. CASE seen[leader] = Snapshot(leader)
    <3>1. run[leader].forced /\ part = "republish"
      BY <1>1, <2>2 DEF Standing, SeenStands, OnePass, Quiet
    <3> QED
      BY <1>1, <1>2, <1>3, <2>1, <2>2, <3>1, Zenon DEF Standing, SeenStands
  <2>3. CASE seen[leader] # Snapshot(leader)
    <3>1. Gone(seen[leader])
      BY <2>3, PassGone
    <3>2. Gone(seen[leader])'
      BY <1>1, <2>1, <3>1 DEF Gone
    <3> QED
      BY <1>1, <1>2, <1>3, <2>1, <2>3, <3>2, Zenon DEF Standing, SeenStands
  <2> QED
    BY <2>2, <2>3
<1> QED
  BY <1>4, <1>5, <1>6

(* The end of a pass leaves nothing to say about it *)
LEMMA AtRest ==
    ASSUME Typed, Standing, Quiet, End(leader), UNCHANGED <<world, events>>,
           forced' = forced \/ forced' = [forced EXCEPT ![leader] = FALSE],
           SeenStands'
    PROVE  Standing'
<1>1. leader \in Pods /\ leader' = leader /\ past' = past /\ part' = part
  BY DEF Quiet, Onward, Branch, Standing, Typed, TypeOK, world
<1>2. /\ pc'[leader] = "idle" /\ run'[leader] = Idle
      /\ \A q \in Pods \ {leader} : pc'[q] = pc[q] /\ run'[q] = run[q]
  BY <1>1, SMT DEF End, Goto, Typed, TypeOK
<1>3. OnePass'
  <2>1. \A q \in Pods : forced'[q] => forced[q]
    BY SMT DEF Typed, TypeOK
  <2> QED
    BY <1>1, <1>2, <2>1, SMT DEF OnePass, Standing, Quiet, Idle
<1>4. Branch' /\ PassStands'
  BY <1>1, <1>2 DEF Branch, PassStands, Standing, world
<1> QED
  BY <1>3, <1>4 DEF Standing

(* A pass that was not forced gives up, whatever it has written *)
LEMMA GivesUp ==
    ASSUME Typed, Typed', Standing, Quiet, End(leader), pc[leader] \in Working,
           ~run[leader].forced, UNCHANGED <<world, seen, forced, events>>
    PROVE  Standing'
<1>1. leader \in Pods /\ leader' = leader /\ past' = past /\ part' = part
  BY DEF Quiet, Onward, Branch, Standing, Typed, TypeOK, world
<1>2. pc'[leader] = "idle"
  BY <1>1, SMT DEF End, Goto, Typed, TypeOK
<1>3. SeenStands'
  <2> SUFFICES ASSUME seen[leader] # None PROVE SeenStands'
    BY <1>1 DEF SeenStands
  <2>1. Gone(seen[leader])
    BY PassGone DEF Standing, SeenStands
  <2>2. UNCHANGED <<head, base, seen>> /\ Gone(seen[leader])'
    BY <1>1, <2>1 DEF world, Gone
  <2> QED
    BY <1>1, <1>2, <2>2, Zenon DEF Standing, SeenStands, Working
<1> QED
  BY <1>3, AtRest

(* Nothing is published: what was shown still is *)
LEMMA LooksAway ==
    ASSUME Typed, Typed', Standing, Quiet, End(leader), pc[leader] \notin Working,
           UNCHANGED <<world, posted, seen, events>>,
           forced' = forced \/ forced' = [forced EXCEPT ![leader] = FALSE]
    PROVE  Standing'
<1>1. leader \in Pods /\ leader' = leader /\ past' = past /\ part' = part
  BY DEF Quiet, Onward, Branch, Standing, Typed, TypeOK, world
<1>2. pc'[leader] = "idle"
  BY <1>1, SMT DEF End, Goto, Typed, TypeOK
<1>3. SeenStands'
  BY <1>1, <1>2, SMT DEF Standing, SeenStands, Gone, Shown, world, posted, Working
<1> QED
  BY <1>3, AtRest

(* A pass concludes with what it has published *)
LEMMA Concludes ==
    ASSUME Typed, Typed', Standing, Quiet, End(leader), pc[leader] \in Working,
           UNCHANGED <<world, forced, events>>,
           NEW s, s = Snapshot(leader), Shown(s)',
           seen' = seen \/ seen' = [seen EXCEPT ![leader] = s]
    PROVE  Standing'
<1>1. leader \in Pods /\ leader' = leader /\ past' = past /\ part' = part
  BY DEF Quiet, Onward, Branch, Standing, Typed, TypeOK, world
<1>2. pc'[leader] = "idle" /\ UNCHANGED <<head, base>>
  BY <1>1, SMT DEF End, Goto, Typed, TypeOK, world
<1>3. pc[leader] \notin {"idle", "listing"}
  BY DEF Working
<1>4. CASE seen'[leader] = s
  <2>1. s[1] = run[leader].sha /\ s[2] = run[leader].base
    BY DEF Snapshot
  <2>2. s[1] \in past \cup {head} /\ s[2] <= base
    BY <1>1, <1>3, <2>1 DEF Standing, Branch, Typed, Snapshots
  <2>3. SeenStands'
    BY <1>1, <1>2, <1>4, <2>2, Zenon DEF SeenStands, Working
  <2> QED
    BY <2>3, AtRest
<1>5. CASE seen' = seen /\ seen[leader] # s
  <2> SUFFICES ASSUME seen[leader] # None PROVE SeenStands'
    BY <1>1, <1>5, AtRest DEF SeenStands
  <2>1. Gone(seen[leader])
    BY <1>5, PassGone
  <2>2. Gone(seen[leader])'
    BY <1>1, <1>2, <1>5, <2>1 DEF Gone
  <2> QED
    BY <1>1, <1>2, <1>5, <2>2, Zenon DEF Standing, SeenStands, Working
<1>6. seen'[leader] = s \/ (seen' = seen /\ seen[leader] # s)
  BY <1>1, SMT DEF Typed, TypeOK
<1> QED
  BY <1>4, <1>5, <1>6

-----------------------------------------------------------------------------
(* Writes of the only leader *)

LEMMA LeaderWrites ==
    ASSUME Typed, NEW landed, NEW res, Write(leader, landed, res)
    PROVE  /\ res \in {"ok", "transient", "permanent"}
           /\ res = "ok" => landed
           /\ res = "permanent" => faults' # faults
           /\ faults = 0 /\ faults' = 0 => res = "ok"
<1>1. faults \in Nat
  BY DEF Typed, TypeOK
<1> QED
  BY <1>1, SMT DEF Write, Fault, NoFault

LEMMA StatusWritten ==
    ASSUME Typed, NEW state, NEW res, PostStatus(leader, state, res),
           leader \in Pods, run[leader].sha \in Heads
    PROVE  /\ res \in {"ok", "transient", "permanent"}
           /\ comment' = comment
           /\ res = "ok" => status'[run[leader].sha] = state
           /\ res = "permanent" => faults' # faults
           /\ faults = 0 /\ faults' = 0 => res = "ok"
           /\ \A h \in Heads : \/ status'[h] = status[h]
                               \/ h = run[leader].sha /\ status'[h] = state
<1>1. PICK landed \in BOOLEAN :
        /\ Write(leader, landed, res)
        /\ status' = IF landed THEN [status EXCEPT ![run[leader].sha] = state] ELSE status
        /\ comment' = comment
  BY Zenon DEF PostStatus
<1>2. /\ res \in {"ok", "transient", "permanent"}
      /\ res = "ok" => landed
      /\ res = "permanent" => faults' # faults
      /\ faults = 0 /\ faults' = 0 => res = "ok"
  BY <1>1, LeaderWrites
<1>3. status \in [Heads -> States \cup {"none"}]
  BY DEF Typed, TypeOK
<1> QED
  BY <1>1, <1>2, <1>3, SMT

LEMMA CommentWritten ==
    ASSUME Typed, NEW token, NEW build, NEW res, PostComment(leader, token, build, res)
    PROVE  /\ res \in {"ok", "transient", "permanent"}
           /\ status' = status
           /\ res = "ok" => /\ comment'.sha = run[leader].sha
                            /\ comment'.base = run[leader].base
                            /\ comment'.token = token
           /\ res = "permanent" => faults' # faults
           /\ faults = 0 /\ faults' = 0 => res = "ok"
<1>1. PICK landed \in BOOLEAN :
        /\ Write(leader, landed, res)
        /\ comment' = IF landed THEN [sha |-> run[leader].sha, base |-> run[leader].base,
                                      token |-> token, chart |-> build]
                                ELSE comment
        /\ status' = status
  BY Zenon DEF PostComment
<1>2. /\ res \in {"ok", "transient", "permanent"}
      /\ res = "ok" => landed
      /\ res = "permanent" => faults' # faults
      /\ faults = 0 /\ faults' = 0 => res = "ok"
  BY <1>1, LeaderWrites
<1> QED
  BY <1>1, <1>2, SMT

-----------------------------------------------------------------------------
(* The steps of a pass *)

LEMMA KeptByReadBase ==
    ASSUME Typed, Typed', Standing, Quiet, ReadBase(leader)
    PROVE  Standing'
<1>1. leader \in Pods /\ leader' = leader /\ part' = part
  BY DEF Quiet, Typed, TypeOK
<1>2. /\ pc' = [pc EXCEPT ![leader] = "listing"] /\ pc[leader] = "idle"
      /\ run' = [run EXCEPT ![leader].base = base]
      /\ UNCHANGED <<world, posted, leader, seen, forced, events>>
  BY Zenon DEF ReadBase, Goto
<1>3. /\ pc'[leader] = "listing" /\ run'[leader].base = base
      /\ run'[leader].forced = run[leader].forced
      /\ \A q \in Pods \ {leader} : pc'[q] = pc[q] /\ run'[q] = run[q]
  BY <1>1, <1>2, SMT DEF Typed, TypeOK, Runs
<1>4. past' = past /\ UNCHANGED <<head, base, comment, status>>
  BY <1>2 DEF Quiet, Onward, Branch, Standing, world, posted
<1>5. OnePass' /\ Branch'
  BY <1>1, <1>2, <1>3, <1>4, SMT DEF Standing, OnePass, Branch, Quiet
<1>6. PassStands'
  BY <1>1, <1>3 DEF PassStands
<1>7. SeenStands'
  <2> SUFFICES ASSUME seen[leader] # None PROVE SeenStands'
    BY <1>1, <1>2 DEF SeenStands
  <2>1. /\ seen[leader][1] \in past \cup {head} /\ seen[leader][2] <= base
        /\ Gone(seen[leader]) \/ Shown(seen[leader])
    BY <1>2 DEF Standing, SeenStands, Working
  <2>2. (Gone(seen[leader]) \/ Shown(seen[leader]))'
    BY <1>1, <1>2, <1>4, <2>1 DEF Gone, Shown
  <2> QED
    BY <1>1, <1>2, <1>3, <1>4, <2>1, <2>2, Zenon DEF SeenStands, Working
<1> QED
  BY <1>5, <1>6, <1>7 DEF Standing

LEMMA KeptByListPrs ==
    ASSUME Typed, Typed', Standing, Quiet, ListPrs(leader)
    PROVE  Standing'
<1>1. leader \in Pods /\ leader' = leader /\ part' = part
  BY DEF Quiet, Typed, TypeOK
<1>2. /\ pc[leader] = "listing"
      /\ UNCHANGED <<world, posted, leader, seen, forced, events>>
  BY Zenon DEF ListPrs, memory
<1>3. CASE End(leader)
  BY <1>2, <1>3, LooksAway, Zenon DEF Working
<1>4. CASE Goto(leader, "queued") /\ run' = [run EXCEPT ![leader].sha = head]
  <2>1. /\ pc'[leader] = "queued" /\ run'[leader].sha = head
        /\ run'[leader].base = run[leader].base
        /\ run'[leader].forced = run[leader].forced
        /\ \A q \in Pods \ {leader} : pc'[q] = pc[q] /\ run'[q] = run[q]
    BY <1>1, <1>4, SMT DEF Goto, Typed, TypeOK, Runs
  <2>2. past' = past /\ UNCHANGED <<head, base, comment, status>>
    BY <1>2 DEF Quiet, Onward, Branch, Standing, world, posted
  <2>3. OnePass' /\ Branch'
    BY <1>1, <1>2, <2>1, <2>2, SMT DEF Standing, OnePass, Branch, Quiet
  <2>4. PassStands'
    BY <1>1, <2>1 DEF PassStands
  <2>5. SeenStands'
    <3> SUFFICES ASSUME seen[leader] # None PROVE SeenStands'
      BY <1>1, <1>2 DEF SeenStands
    <3>1. /\ seen[leader][1] \in past \cup {head} /\ seen[leader][2] <= base
          /\ seen[leader][2] <= run[leader].base
          /\ Gone(seen[leader]) \/ Shown(seen[leader])
      BY <1>2 DEF Standing, SeenStands, Working
    <3>2. (Gone(seen[leader]) \/ Shown(seen[leader]))'
      BY <1>1, <1>2, <2>2, <3>1 DEF Gone, Shown
    <3>3. seen[leader][1] = head \/ seen[leader][1] \in past
      BY <3>1
    <3> QED
      BY <1>1, <1>2, <2>1, <2>2, <3>1, <3>2, <3>3, Zenon DEF SeenStands, Working
  <2> QED
    BY <2>3, <2>4, <2>5 DEF Standing
<1> QED
  BY <1>3, <1>4, Zenon DEF ListPrs

LEMMA KeptByAbandon ==
    ASSUME Typed, Typed', Standing, Quiet, part = "faults", Abandon(leader)
    PROVE  Standing'
<1>1. /\ End(leader) /\ pc[leader] \in {"queued", "compose"}
      /\ UNCHANGED <<world, posted, seen, forced, events>>
  BY Zenon DEF Abandon, memory
<1>2. leader \in Pods /\ ~run[leader].forced
  BY DEF Typed, TypeOK, Standing, OnePass
<1>3. CASE pc[leader] = "queued"
  BY <1>1, <1>3, LooksAway DEF Working
<1>4. CASE pc[leader] = "compose"
  <2>1. pc[leader] \in Working
    BY <1>4 DEF Working, Labels
  <2> QED
    BY <1>1, <1>2, <2>1, GivesUp
<1> QED
  BY <1>1, <1>3, <1>4

LEMMA KeptByEnter ==
    ASSUME Typed, Typed', Standing, Quiet, Enter(leader)
    PROVE  Standing'
<1>1. leader \in Pods /\ leader' = leader /\ part' = part
  BY DEF Quiet, Typed, TypeOK
<1>2. /\ pc[leader] = "queued" /\ forced' = [forced EXCEPT ![leader] = FALSE]
      /\ UNCHANGED <<world, posted, leader, seen, events>>
  BY Zenon DEF Enter
<1>3. CASE End(leader)
  BY <1>2, <1>3, LooksAway, Zenon DEF Working
<1>4. CASE /\ ~(~forced[leader] /\ seen[leader] = Snapshot(leader))
           /\ Goto(leader, "lookup")
           /\ run' = [run EXCEPT ![leader].forced = forced[leader]]
  <2>1. /\ pc'[leader] = "lookup" /\ run'[leader].sha = run[leader].sha
        /\ run'[leader].base = run[leader].base
        /\ run'[leader].forced = forced[leader]
        /\ \A q \in Pods \ {leader} : pc'[q] = pc[q] /\ run'[q] = run[q]
    BY <1>1, <1>4, SMT DEF Goto, Typed, TypeOK, Runs
  <2>2. past' = past /\ UNCHANGED <<head, base, comment, status>>
    BY <1>2 DEF Quiet, Onward, Branch, Standing, world, posted
  <2>3. \A q \in Pods : forced'[q] => forced[q]
    BY <1>2, SMT DEF Typed, TypeOK
  <2>4. OnePass'
    BY <1>1, <1>2, <2>1, <2>2, <2>3, SMT DEF Standing, OnePass, Quiet
  <2>5. Branch' /\ PassStands'
    BY <1>1, <1>2, <2>1, <2>2 DEF Standing, Branch, PassStands
  <2>6. SeenStands'
    <3> SUFFICES ASSUME seen[leader] # None PROVE SeenStands'
      BY <1>1, <1>2 DEF SeenStands
    <3>1. /\ seen[leader][1] \in past \cup {head} /\ seen[leader][2] <= base
          /\ seen[leader][2] <= run[leader].base
          /\ seen[leader][1] = run[leader].sha \/ seen[leader][1] \in past
          /\ Gone(seen[leader]) \/ Shown(seen[leader])
      BY <1>2 DEF Standing, SeenStands, Working
    <3>2. (Gone(seen[leader]) \/ Shown(seen[leader]))'
      BY <1>1, <1>2, <2>2, <3>1 DEF Gone, Shown
    <3>3. ~run'[leader].forced => seen[leader] # Snapshot(leader)'
      BY <1>1, <1>4, <2>1 DEF Snapshot
    <3> QED
      BY <1>1, <1>2, <2>1, <2>2, <3>1, <3>2, <3>3, Zenon DEF SeenStands
  <2> QED
    BY <2>4, <2>5, <2>6 DEF Standing
<1> QED
  BY <1>3, <1>4, Zenon DEF Enter, Snapshot

(* Steps that read, and those whose writes nobody counts on *)

LEMMA KeptByLookup ==
    ASSUME Typed, Typed', Standing, Quiet, Lookup(leader)
    PROVE  Standing'
<1>1. leader \in Pods /\ leader' = leader /\ part' = part /\ faults \in Nat
  BY DEF Quiet, Typed, TypeOK
<1>2. /\ pc[leader] = "lookup" /\ pc[leader] \in Working
      /\ UNCHANGED <<world, posted, leader, seen, forced, events>>
  BY Zenon DEF Lookup, memory, Working, Labels
<1>3. CASE Goto(leader, "decide") /\ run' = [run EXCEPT ![leader].found = comment]
  <2>1. /\ pc'[leader] = "decide" /\ run'[leader].sha = run[leader].sha
        /\ run'[leader].base = run[leader].base /\ run'[leader].found = comment
        /\ run'[leader].forced = run[leader].forced
        /\ \A q \in Pods \ {leader} : run'[q] = run[q]
    BY <1>1, <1>3, SMT DEF Goto, Typed, TypeOK, Runs
  <2>2. OnePass' /\ Branch' /\ SeenStands'
    <3>1. "decide" \in Working
      BY DEF Working, Labels
    <3> QED
      BY <1>2, <1>3, <2>1, <3>1, GoesOn
  <2>3. PassStands'
    BY <1>1, <1>2, <2>1 DEF PassStands, posted
  <2> QED
    BY <2>2, <2>3 DEF Standing
<1>4. CASE End(leader) /\ Fault("unread")
  <2>1. part = "faults"
    BY <1>1, <1>4, SMT DEF Quiet, Standing, OnePass, Fault
  <2>2. ~run[leader].forced
    BY <1>1, <2>1 DEF Standing, OnePass
  <2> QED
    BY <1>2, <1>4, <2>2, GivesUp
<1> QED
  BY <1>3, <1>4, Zenon DEF Lookup

LEMMA KeptByDecide ==
    ASSUME Typed, Typed', Standing, Quiet, Decide(leader)
    PROVE  Standing'
<1>1. leader \in Pods /\ leader' = leader /\ part' = part
  BY DEF Quiet, Typed, TypeOK
<1>2. /\ pc[leader] = "decide" /\ pc[leader] \in Working
      /\ UNCHANGED <<world, posted, leader, seen, forced, events, run>>
  BY Zenon DEF Decide, memory, Working, Labels
<1>3. comment = run[leader].found
  BY <1>2 DEF Standing, PassStands
<1>4. CASE UpToDate(run[leader]) /\ Goto(leader, "recover")
  <2>1. pc'[leader] = "recover"
    BY <1>1, <1>4, SMT DEF Goto, Typed, TypeOK
  <2>2. OnePass' /\ Branch' /\ SeenStands'
    <3>1. "recover" \in Working
      BY DEF Working, Labels
    <3> QED
      BY <1>2, <1>4, <3>1, GoesOn
  <2>3. PassStands'
    BY <1>1, <1>2, <1>3, <1>4, <2>1 DEF PassStands, posted, UpToDate
  <2> QED
    BY <2>2, <2>3 DEF Standing
<1>5. CASE Goto(leader, "begin")
  <2>1. pc'[leader] = "begin"
    BY <1>1, <1>5, SMT DEF Goto, Typed, TypeOK
  <2>2. OnePass' /\ Branch' /\ SeenStands'
    <3>1. "begin" \in Working
      BY DEF Working, Labels
    <3> QED
      BY <1>2, <1>5, <3>1, GoesOn
  <2>3. PassStands'
    BY <1>1, <2>1 DEF PassStands
  <2> QED
    BY <2>2, <2>3 DEF Standing
<1> QED
  BY <1>4, <1>5, Zenon DEF Decide

LEMMA KeptByGate ==
    ASSUME Typed, Typed', Standing, Quiet, Gate(leader)
    PROVE  Standing'
<1>1. leader \in Pods /\ leader' = leader /\ part' = part
  BY DEF Quiet, Typed, TypeOK
<1>2. UNCHANGED <<world, posted, leader, seen, forced, events, pc, run, faults>>
  BY Zenon DEF Gate, memory, counts
<1>3. past' = past /\ UNCHANGED <<head, base, comment, status>>
  BY <1>2 DEF Quiet, Onward, Branch, Standing, world, posted
<1> QED
  BY <1>1, <1>2, <1>3, Zenon
  DEF Standing, OnePass, Branch, PassStands, SeenStands, Snapshot, Gone, Shown,
      StatusFirst, Verdict

(* The labels at which a pass has neither found nor written anything yet *)
LEMMA GoesOnBefore ==
    ASSUME Typed, Typed', Standing, Quiet, pc[leader] \in Working,
           NEW label \in Working \ {"decide", "recover", "mend", "write2"},
           Goto(leader, label),
           run'[leader].sha = run[leader].sha, run'[leader].base = run[leader].base,
           run'[leader].forced = run[leader].forced,
           \A q \in Pods \ {leader} : run'[q] = run[q],
           UNCHANGED <<world, seen, forced, events>>,
           part = "republish" => label \notin {"error1", "error2"}
    PROVE  Standing'
<1>1. leader \in Pods /\ leader' = leader
  BY DEF Quiet, Typed, TypeOK
<1>2. pc'[leader] = label
  BY <1>1, SMT DEF Goto, Typed, TypeOK
<1>3. PassStands'
  BY <1>1, <1>2, Zenon DEF PassStands
<1> QED
  BY <1>3, GoesOn DEF Standing

LEMMA KeptByBegin ==
    ASSUME Typed, Typed', Standing, Quiet, Begin(leader)
    PROVE  Standing'
<1>1. leader \in Pods
  BY DEF Typed, TypeOK
<1>2. /\ pc[leader] = "begin" /\ pc[leader] \in Working
      /\ UNCHANGED <<world, seen, forced, events>>
      /\ \/ Goto(leader, "write1") /\ run' = [run EXCEPT ![leader].token = Verdict(leader).token]
         \/ Goto(leader, "announce") /\ UNCHANGED run
  BY Zenon DEF Begin, memory, Working, Labels
<1>3. /\ run'[leader].sha = run[leader].sha /\ run'[leader].base = run[leader].base
      /\ run'[leader].forced = run[leader].forced
      /\ \A q \in Pods \ {leader} : run'[q] = run[q]
  BY <1>1, <1>2, SMT DEF Typed, TypeOK, Runs
<1>4. {"write1", "announce"} \subseteq Working \ {"decide", "recover", "mend", "write2"}
  BY DEF Working, Labels, WritePcs
<1> QED
  BY <1>2, <1>3, <1>4, GoesOnBefore

LEMMA KeptByAnnounce ==
    ASSUME Typed, Typed', Standing, Quiet, Announce(leader)
    PROVE  Standing'
<1>1. /\ pc[leader] = "announce" /\ pc[leader] \in Working
      /\ UNCHANGED <<world, seen, forced, events, run>>
      /\ Goto(leader, "render")
  BY Zenon DEF Announce, Working, Labels, WritePcs
<1>2. "render" \in Working \ {"decide", "recover", "mend", "write2"}
  BY DEF Working, Labels
<1> QED
  BY <1>1, <1>2, GoesOnBefore

LEMMA KeptByRender ==
    ASSUME Typed, Typed', Standing, Quiet, Render(leader)
    PROVE  Standing'
<1>1. leader \in Pods
  BY DEF Typed, TypeOK
<1>2. /\ pc[leader] = "render" /\ pc[leader] \in Working
      /\ UNCHANGED <<world, seen, forced, events>>
      /\ Goto(leader, "compose") \/ Goto(leader, "pulling")
  BY Zenon DEF Render, Working, Labels
<1>3. /\ run'[leader].sha = run[leader].sha /\ run'[leader].base = run[leader].base
      /\ run'[leader].forced = run[leader].forced
      /\ \A q \in Pods \ {leader} : run'[q] = run[q]
  <2>1. PICK build : run' = [run EXCEPT ![leader].chart = build]
    BY Zenon DEF Render
  <2> QED
    BY <1>1, <2>1, SMT DEF Typed, TypeOK, Runs
<1>4. {"compose", "pulling"} \subseteq Working \ {"decide", "recover", "mend", "write2"}
  BY DEF Working, Labels
<1> QED
  BY <1>2, <1>3, <1>4, GoesOnBefore

LEMMA KeptByPulled ==
    ASSUME Typed, Typed', Standing, Quiet, Pulled(leader)
    PROVE  Standing'
<1>1. /\ pc[leader] = "pulling" /\ pc[leader] \in Working
      /\ UNCHANGED <<world, seen, forced, events, run>>
      /\ Goto(leader, "compose")
  BY Zenon DEF Pulled, Working, Labels
<1>2. "compose" \in Working \ {"decide", "recover", "mend", "write2"}
  BY DEF Working, Labels
<1> QED
  BY <1>1, <1>2, GoesOnBefore

LEMMA KeptByCompose ==
    ASSUME Typed, Typed', Standing, Quiet, Compose(leader)
    PROVE  Standing'
<1>1. leader \in Pods
  BY DEF Typed, TypeOK
<1>2. /\ pc[leader] = "compose" /\ pc[leader] \in Working
      /\ UNCHANGED <<world, seen, forced, events>>
      /\ Goto(leader, "write1")
  BY Zenon DEF Compose, Working, Labels
<1>3. /\ run'[leader].sha = run[leader].sha /\ run'[leader].base = run[leader].base
      /\ run'[leader].forced = run[leader].forced
      /\ \A q \in Pods \ {leader} : run'[q] = run[q]
  <2>1. PICK token : run' = [run EXCEPT ![leader].token = token]
    BY Zenon DEF Compose
  <2> QED
    BY <1>1, <2>1, SMT DEF Typed, TypeOK, Runs
<1>4. "write1" \in Working \ {"decide", "recover", "mend", "write2"}
  BY DEF Working, Labels, WritePcs
<1> QED
  BY <1>2, <1>3, <1>4, GoesOnBefore

LEMMA KeptByRaise ==
    ASSUME Typed, Typed', Standing, Quiet, part = "faults", Raise(leader)
    PROVE  Standing'
<1>1. leader \in Pods
  BY DEF Typed, TypeOK
<1>2. /\ pc[leader] \in {"begin", "compose", "write2"} /\ Goto(leader, "error1")
      /\ UNCHANGED <<world, seen, forced, events>>
  BY Zenon DEF Raise
<1>3. /\ run'[leader].sha = run[leader].sha /\ run'[leader].base = run[leader].base
      /\ run'[leader].forced = run[leader].forced
      /\ \A q \in Pods \ {leader} : run'[q] = run[q]
  <2>1. PICK token : run' = [run EXCEPT ![leader].token = token]
    BY Zenon DEF Raise
  <2> QED
    BY <1>1, <2>1, SMT DEF Typed, TypeOK, Runs
<1>4. /\ "error1" \in Working \ {"decide", "recover", "mend", "write2"}
      /\ {"begin", "compose", "write2"} \subseteq Working
  BY DEF Working, Labels, WritePcs
<1> QED
  BY <1>2, <1>3, <1>4, GoesOnBefore

LEMMA KeptByErrorStatus ==
    ASSUME Typed, Typed', Standing, Quiet, ErrorStatus(leader)
    PROVE  Standing'
<1>1. /\ pc[leader] = "error1" /\ pc[leader] \in Working
      /\ UNCHANGED <<world, seen, forced, events, run>>
      /\ Goto(leader, "error2")
  BY Zenon DEF ErrorStatus, memory, Working, Labels, WritePcs
<1>2. "error2" \in Working \ {"decide", "recover", "mend", "write2"}
  BY DEF Working, Labels, WritePcs
<1>3. part # "republish"
  BY <1>1 DEF Standing, OnePass
<1> QED
  BY <1>1, <1>2, <1>3, GoesOnBefore

LEMMA KeptByErrorComment ==
    ASSUME Typed, Typed', Standing, Quiet, ErrorComment(leader)
    PROVE  Standing'
<1>1. leader \in Pods
  BY DEF Typed, TypeOK
<1>2. /\ pc[leader] = "error2" /\ pc[leader] \in Working
      /\ UNCHANGED <<world, seen, forced, events>>
      /\ End(leader)
  BY Zenon DEF ErrorComment, memory, Working, Labels, WritePcs
<1>3. ~run[leader].forced
  BY <1>1, <1>2 DEF Standing, OnePass
<1> QED
  BY <1>2, <1>3, GivesUp

-----------------------------------------------------------------------------
(* The steps that settle *)

LEMMA ColorIsFinal == \A token : ColorOf(token) \in Final
BY DEF ColorOf, Final

LEMMA KeptByRecover ==
    ASSUME Typed, Typed', Verdicts, Standing, Quiet, Recover(leader)
    PROVE  Standing'
<1>1. leader \in Pods /\ leader' = leader /\ part' = part /\ faults \in Nat
  BY DEF Quiet, Typed, TypeOK
<1>2. /\ pc[leader] = "recover" /\ pc[leader] \in Working
      /\ UNCHANGED <<world, posted, forced, events>>
  BY Zenon DEF Recover, Working, Labels
<1>3. /\ comment = run[leader].found /\ ~run[leader].forced
      /\ comment.sha = run[leader].sha /\ comment.base = run[leader].base
  BY <1>2 DEF Standing, PassStands
<1>4. CASE /\ status[run[leader].sha] \in {"SUCCESSFUL", "FAILED"}
           /\ ~(/\ status[run[leader].sha] = "SUCCESSFUL"
                /\ ColorOf(run[leader].found.token) = "FAILED")
           /\ SeenAfterWrites(leader, {"ok"}) /\ End(leader)
  <2>1. seen' = [seen EXCEPT ![leader] = Snapshot(leader)]
    BY <1>4, Zenon DEF SeenAfterWrites, Snapshot
  <2>2. status[run[leader].sha] = "SUCCESSFUL" => comment.token = "clean"
    BY <1>3, <1>4 DEF ColorOf
  <2>3. run[leader].sha # None
    BY <1>1, <1>2, PrCycleAssumption DEF PrCycleAssumption, Typed, Snapshots
  <2>4. /\ comment' = comment /\ status' = status
        /\ status[run[leader].sha] = "SUCCESSFUL" =>
            Truth[run[leader].sha][run[leader].base].token = "clean"
    BY <1>2, <1>3, <2>2, <2>3 DEF posted, Verdicts, TrueComment, Clean
  <2>5. /\ Snapshot(leader)[1] = run[leader].sha
        /\ Snapshot(leader)[2] = run[leader].base
    BY DEF Snapshot
  <2>6. \A t : t = Snapshot(leader) => Shown(t)'
    BY <1>3, <1>4, <2>4, <2>5 DEF Shown, Final
  <2> QED
    BY <1>2, <1>4, <2>1, <2>6, Concludes
<1>5. CASE /\ \/ status[run[leader].sha] \in {"none", "INPROGRESS"}
              \/ /\ status[run[leader].sha] = "SUCCESSFUL"
                 /\ ColorOf(run[leader].found.token) = "FAILED"
           /\ Goto(leader, "mend") /\ UNCHANGED <<run, seen>>
  <2>1. pc'[leader] = "mend"
    BY <1>1, <1>5, SMT DEF Goto, Typed, TypeOK
  <2>2. OnePass' /\ Branch' /\ SeenStands'
    <3>1. "mend" \in Working
      BY DEF Working, Labels, WritePcs
    <3> QED
      BY <1>2, <1>5, <3>1, GoesOn
  <2>3. PassStands'
    BY <1>1, <1>2, <1>3, <1>5, <2>1 DEF PassStands, posted
  <2> QED
    BY <2>2, <2>3 DEF Standing
<1>6. CASE SeenAfterWrites(leader, {"transient"}) /\ End(leader)
  <2>1. UNCHANGED seen
    BY <1>6, Zenon DEF SeenAfterWrites
  <2> QED
    BY <1>2, <1>3, <1>6, <2>1, GivesUp
<1>7. CASE End(leader) /\ Fault("refused")
  <2>1. faults' # faults
    BY <1>1, <1>7, SMT DEF Fault
  <2>2. part = "faults"
    BY <1>1, <2>1 DEF Quiet, Standing, OnePass
  <2>3. UNCHANGED seen
    BY <2>1, <2>2 DEF Quiet, Unrefused
  <2> QED
    BY <1>2, <1>3, <1>7, <2>3, GivesUp
<1> QED
  BY <1>4, <1>5, <1>6, <1>7, Zenon DEF Recover

LEMMA KeptByMend ==
    ASSUME Typed, Typed', Verdicts, Standing, Quiet, Mend(leader)
    PROVE  Standing'
<1>1. leader \in Pods /\ leader' = leader /\ part' = part /\ faults \in Nat
  BY DEF Quiet, Typed, TypeOK
<1>2. /\ pc[leader] = "mend" /\ pc[leader] \in Working /\ End(leader)
      /\ UNCHANGED <<world, forced, events>>
  BY Zenon DEF Mend, Working, Labels, WritePcs
<1>3. /\ comment = run[leader].found /\ ~run[leader].forced
      /\ comment.sha = run[leader].sha /\ comment.base = run[leader].base
  BY <1>2 DEF Standing, PassStands
<1>4. run[leader].sha \in Heads /\ run[leader].sha # None
  BY <1>1, <1>2, PrCycleAssumption DEF PrCycleAssumption, Typed, Snapshots
<1>5. PICK res \in Results :
        /\ PostStatus(leader, ColorOf(run[leader].found.token), res)
        /\ SeenAfterWrites(leader, {res})
  BY Zenon DEF Mend
<1>6. /\ res \in {"ok", "transient", "permanent"} /\ comment' = comment
      /\ res = "ok" => status'[run[leader].sha] = ColorOf(run[leader].found.token)
      /\ res = "permanent" => faults' # faults
      /\ faults = 0 /\ faults' = 0 => res = "ok"
  BY <1>1, <1>4, <1>5, StatusWritten
<1>7. CASE res = "ok"
  <2>1. seen' = [seen EXCEPT ![leader] = Snapshot(leader)]
    BY <1>5, <1>7, Zenon DEF SeenAfterWrites, Snapshot
  <2>2. status'[run[leader].sha] = "SUCCESSFUL" => comment.token = "clean"
    BY <1>3, <1>6, <1>7 DEF ColorOf
  <2>3. status'[run[leader].sha] = "SUCCESSFUL" =>
            Truth[run[leader].sha][run[leader].base].token = "clean"
    BY <1>3, <1>4, <2>2 DEF Verdicts, TrueComment, Clean
  <2>4. status'[run[leader].sha] \in Final
    BY <1>6, <1>7, ColorIsFinal
  <2>5. /\ Snapshot(leader)[1] = run[leader].sha
        /\ Snapshot(leader)[2] = run[leader].base
    BY DEF Snapshot
  <2>6. \A t : t = Snapshot(leader) => Shown(t)'
    BY <1>3, <1>6, <2>3, <2>4, <2>5 DEF Shown
  <2> QED
    BY <1>2, <2>1, <2>6, Concludes
<1>8. CASE res = "transient"
  <2>1. UNCHANGED seen
    BY <1>5, <1>8, Zenon DEF SeenAfterWrites
  <2> QED
    BY <1>2, <1>3, <2>1, GivesUp
<1>9. CASE res = "permanent"
  <2>1. part = "faults"
    BY <1>6, <1>9 DEF Quiet, Standing, OnePass
  <2>2. UNCHANGED seen
    BY <1>6, <1>9, <2>1 DEF Quiet, Unrefused
  <2> QED
    BY <1>2, <1>3, <2>2, GivesUp
<1> QED
  BY <1>6, <1>7, <1>8, <1>9

LEMMA KeptByWrite1 ==
    ASSUME Typed, Typed', Standing, Quiet, Write1(leader)
    PROVE  Standing'
<1>1. leader \in Pods /\ leader' = leader /\ part' = part /\ faults \in Nat
  BY DEF Quiet, Typed, TypeOK
<1>2. /\ pc[leader] = "write1" /\ pc[leader] \in Working /\ Goto(leader, "write2")
      /\ UNCHANGED <<world, seen, forced, events>>
  BY Zenon DEF Write1, memory, Working, Labels, WritePcs
<1>3. run[leader].sha \in Heads
  BY <1>1, <1>2 DEF Typed, Snapshots
<1>4. PICK res \in Results :
        /\ IF StatusFirst(leader)
           THEN PostStatus(leader, ColorOf(run[leader].token), res)
           ELSE PostComment(leader, run[leader].token, run[leader].chart, res)
        /\ run' = [run EXCEPT ![leader].first = res]
  BY Zenon DEF Write1
<1>5. /\ run'[leader].sha = run[leader].sha /\ run'[leader].base = run[leader].base
      /\ run'[leader].forced = run[leader].forced
      /\ run'[leader].token = run[leader].token /\ run'[leader].first = res
      /\ \A q \in Pods \ {leader} : run'[q] = run[q]
  BY <1>1, <1>4, SMT DEF Typed, TypeOK, Runs
<1>6. /\ res \in {"ok", "transient", "permanent"}
      /\ res = "permanent" => faults' # faults
      /\ faults = 0 /\ faults' = 0 => res = "ok"
      /\ res = "ok" => IF StatusFirst(leader)
                       THEN status'[run[leader].sha] = ColorOf(run[leader].token)
                       ELSE /\ comment'.sha = run[leader].sha
                            /\ comment'.base = run[leader].base
                            /\ comment'.token = run[leader].token
  BY <1>1, <1>3, <1>4, StatusWritten, CommentWritten
<1>7. res # "permanent"
  BY <1>1, <1>5, <1>6 DEF Quiet, Unrefused, Standing, OnePass
<1>8. pc'[leader] = "write2" /\ StatusFirst(leader)' = StatusFirst(leader)
  BY <1>1, <1>2, <1>5, SMT DEF Goto, Typed, TypeOK, StatusFirst, Verdict
<1>9. PassStands'
  BY <1>1, <1>5, <1>6, <1>7, <1>8 DEF PassStands, Quiet, Standing, OnePass
<1>10. "write2" \in Working
  BY DEF Working, Labels, WritePcs
<1> QED
  BY <1>2, <1>5, <1>9, <1>10, GoesOn DEF Standing

LEMMA KeptByWrite2 ==
    ASSUME Typed, Typed', Verdicts, Standing, Quiet, Write2(leader)
    PROVE  Standing'
<1>1. leader \in Pods /\ leader' = leader /\ part' = part /\ faults \in Nat
  BY DEF Quiet, Typed, TypeOK
<1>2. /\ pc[leader] = "write2" /\ pc[leader] \in Working /\ End(leader)
      /\ UNCHANGED <<world, forced, events>>
  BY Zenon DEF Write2, Working, Labels, WritePcs
<1>3. /\ run[leader].sha \in Heads
      /\ run[leader].token = "clean" =>
            Truth[run[leader].sha][run[leader].base].token = "clean"
  BY <1>1, <1>2 DEF Typed, Snapshots, Verdicts, PassTrue, Clean
<1>4. PICK res \in Results :
        /\ IF StatusFirst(leader)
           THEN PostComment(leader, run[leader].token, run[leader].chart, res)
           ELSE PostStatus(leader, ColorOf(run[leader].token), res)
        /\ IF run[leader].token = "transient"
           THEN RegisterTransient(leader) /\ UNCHANGED seen
           ELSE SeenAfterWrites(leader, {run[leader].first, res})
  BY Zenon DEF Write2
<1>5. /\ res \in {"ok", "transient", "permanent"}
      /\ res = "permanent" => faults' # faults
      /\ faults = 0 /\ faults' = 0 => res = "ok"
      /\ StatusFirst(leader) => status' = status
      /\ ~StatusFirst(leader) => comment' = comment
      /\ res = "ok" => IF StatusFirst(leader)
                       THEN /\ comment'.sha = run[leader].sha
                            /\ comment'.base = run[leader].base
                       ELSE status'[run[leader].sha] = ColorOf(run[leader].token)
  BY <1>1, <1>3, <1>4, StatusWritten, CommentWritten
<1>6. \/ seen' = seen
      \/ /\ seen' = [seen EXCEPT ![leader] = Snapshot(leader)]
         /\ "transient" \notin {run[leader].first, res}
  BY <1>4, Zenon DEF SeenAfterWrites, Snapshot
<1>7. CASE run[leader].first = "ok" /\ res = "ok"
  <2>1. /\ comment'.sha = run[leader].sha /\ comment'.base = run[leader].base
        /\ status'[run[leader].sha] = ColorOf(run[leader].token)
    BY <1>2, <1>5, <1>7 DEF Standing, PassStands
  <2>2. /\ Snapshot(leader)[1] = run[leader].sha
        /\ Snapshot(leader)[2] = run[leader].base
    BY DEF Snapshot
  <2>3. \A t : t = Snapshot(leader) => Shown(t)'
    BY <1>3, <2>1, <2>2, ColorIsFinal, ColorIsTrue DEF Shown
  <2> QED
    BY <1>2, <1>6, <2>3, Concludes
<1>8. CASE ~(run[leader].first = "ok" /\ res = "ok")
  <2>1. run[leader].first \in {"ok", "transient"}
    BY <1>2 DEF Standing, PassStands
  <2>2. part = "faults"
    BY <1>2, <1>5, <1>8 DEF Quiet, Standing, PassStands, OnePass
  <2>3. seen' = seen
    BY <1>5, <1>6, <1>8, <2>1, <2>2 DEF Quiet, Unrefused
  <2>4. ~run[leader].forced
    BY <1>1, <2>2 DEF Standing, OnePass
  <2> QED
    BY <1>2, <2>3, <2>4, GivesUp
<1> QED
  BY <1>7, <1>8

-----------------------------------------------------------------------------
(* Everybody else *)

LEMMA KeptOutside ==
    ASSUME Typed, Typed', Standing, Quiet,
           Push \/ MergeOnMain \/ (part = "republish" /\ Republish)
    PROVE  Standing'
<1>1. leader \in Pods /\ leader' = leader /\ part' = part /\ base \in Nat
  BY PrCycleAssumption DEF PrCycleAssumption, Quiet, Typed, TypeOK
<1>2. /\ UNCHANGED <<posted, leader, memory, pass, faults>>
      /\ base <= base'
      /\ part = "republish" \/ UNCHANGED events
  BY <1>1 DEF Push, MergeOnMain, Republish, counts
<1>3. /\ past' = past \cup ({head} \ {head'}) /\ head' \notin past /\ head \notin past
  BY DEF Quiet, Onward, Standing, Branch
<1>4. past \cup {head} \subseteq past' \cup {head'} /\ head' \notin past'
  BY <1>3
<1>5. UNCHANGED <<comment, status, seen, forced, pc, run>>
  BY <1>2 DEF posted, memory, pass
<1>6. OnePass' /\ Branch' /\ PassStands'
  BY <1>1, <1>2, <1>4, <1>5
  DEF Standing, OnePass, Branch, PassStands, StatusFirst, Verdict
<1>7. SeenStands'
  <2> SUFFICES ASSUME seen[leader] # None PROVE SeenStands'
    BY <1>1, <1>5 DEF SeenStands
  <2>1. seen[leader] \in Heads \X Bases /\ seen[leader][2] \in Nat /\ base' \in Nat
    BY <1>1, SeenIsSnapshot, PrCycleAssumption DEF PrCycleAssumption, Typed, TypeOK
  <2>2. /\ seen[leader][1] \in past' \cup {head'}
        /\ seen[leader][2] <= base'
    BY <1>1, <1>2, <1>4, <2>1, SMT DEF Standing, SeenStands
  <2>3. /\ Gone(seen[leader]) => Gone(seen[leader])'
        /\ Shown(seen[leader]) => Shown(seen[leader])'
    BY <1>1, <1>2, <1>5, <2>1, StaysGone DEF Shown
  <2>4. Snapshot(leader)' = Snapshot(leader) /\ past \subseteq past'
    BY <1>1, <1>3, <1>5 DEF Snapshot
  <2> QED
    BY <1>1, <1>5, <2>2, <2>3, <2>4 DEF Standing, SeenStands
<1> QED
  BY <1>6, <1>7 DEF Standing

LEMMA KeptByChartWebhook ==
    ASSUME Typed, Typed', Standing, Quiet, part = "republish",
           NEW p \in Pods, ChartWebhook(p)
    PROVE  Standing'
<1>1. leader \in Pods /\ leader' = leader /\ part' = part
  BY DEF Quiet, Typed, TypeOK
<1>2. /\ UNCHANGED <<world, posted, leader, pass>>
      /\ seen' = seen \/ seen' = [seen EXCEPT ![p] = None]
  BY Zenon DEF ChartWebhook
<1>3. past' = past /\ UNCHANGED <<head, base, comment, status, pc, run>>
  BY <1>2 DEF Quiet, Onward, Branch, Standing, world, posted, pass
<1>4. OnePass' /\ Branch' /\ PassStands'
  BY <1>1, <1>3 DEF Standing, Quiet, OnePass, Branch, PassStands, StatusFirst, Verdict
<1>5. seen'[leader] = seen[leader] \/ seen'[leader] = None
  BY <1>1, <1>2, SMT DEF Typed, TypeOK
<1>6. SeenStands'
  <2>1. CASE seen'[leader] = None
    BY <1>1, <2>1 DEF SeenStands
  <2>2. CASE seen'[leader] = seen[leader]
    BY <1>1, <1>3, <2>2, Zenon DEF Standing, SeenStands, Gone, Shown, Snapshot
  <2> QED
    BY <1>5, <2>1, <2>2
<1> QED
  BY <1>4, <1>6 DEF Standing

LEMMA KeptByCrash ==
    ASSUME Typed, Typed', Standing, Quiet, Crash(leader)
    PROVE  Standing'
<1>1. leader \in Pods /\ leader' = leader
  BY DEF Quiet, Typed, TypeOK
<1>2. /\ End(leader) /\ UNCHANGED <<world, events>>
      /\ forced' = [forced EXCEPT ![leader] = FALSE]
      /\ seen' = [seen EXCEPT ![leader] = None]
  BY Zenon DEF Crash
<1>3. seen'[leader] = None
  BY <1>1, <1>2, SMT DEF Typed, TypeOK
<1>4. SeenStands'
  BY <1>1, <1>3 DEF SeenStands
<1> QED
  BY <1>2, <1>4, AtRest

LEMMA StandingKept ==
    ASSUME Typed, Typed', Verdicts, Standing, FaultsStep \/ RepublishStep, Onward,
           part' = part
    PROVE  Standing'
<1>1. part \in {"faults", "republish"} /\ leader \in Pods
  BY DEF FaultsStep, RepublishStep, Typed, TypeOK
<1>2. leader' = leader
  BY Zenon DEF FaultsStep, RepublishStep, Step, ReadBase, ListPrs, Enter, Lookup, Decide,
     Recover, Mend, Gate, Begin, Announce, Render, Pulled, Compose, Write1, Write2,
     ErrorStatus, ErrorComment, Abandon, Raise, Crash, Push, MergeOnMain, Republish,
     ChartWebhook
<1>3. Quiet
  BY <1>1, <1>2 DEF Quiet, FaultsStep, RepublishStep
<1>4. CASE Step(leader)
  BY <1>3, <1>4, KeptByReadBase, KeptByListPrs, KeptByEnter, KeptByLookup, KeptByDecide,
     KeptByRecover, KeptByMend, KeptByGate, KeptByBegin, KeptByAnnounce, KeptByRender,
     KeptByPulled, KeptByCompose, KeptByWrite1, KeptByWrite2, KeptByErrorStatus,
     KeptByErrorComment, Zenon DEF Step
<1>5. CASE FaultsStep
  <2>1. part = "faults"
    BY <1>5 DEF FaultsStep
  <2> QED
    BY <1>3, <1>4, <1>5, <2>1, KeptByAbandon, KeptByRaise, KeptByCrash, KeptOutside, Zenon
    DEF FaultsStep
<1>6. CASE RepublishStep
  <2>1. part = "republish"
    BY <1>6 DEF RepublishStep
  <2>2. ASSUME NEW p \in Pods, Step(p) PROVE Standing'
    BY <1>4, <2>2, OnlyTheLeaderSteps, Zenon DEF Standing
  <2> QED
    BY <1>3, <1>6, <2>1, <2>2, KeptByChartWebhook, KeptOutside, Zenon DEF RepublishStep
<1> QED
  BY <1>5, <1>6

-----------------------------------------------------------------------------
(* The whole of it *)

(* A part's step is one of PrCycle, or leaves it alone *)
LEMMA PartsStepIsNext ==
    ASSUME Typed, [PartsNext]_all PROVE [Next]_vars /\ part' = part
<1>1. leader \in Pods
  BY DEF Typed, TypeOK
<1>2. part' = part
  BY Zenon DEF PartsNext, all
<1>3. FaultsStep => Next
  BY <1>1, Zenon DEF FaultsStep, Next
<1>4. HandoverStep => Next
  BY Zenon DEF HandoverStep, Next
<1>5. RepublishStep => Next
  BY Zenon DEF RepublishStep, Next
<1>6. FaultsStep \/ HandoverStep \/ RepublishStep \/ UNCHANGED vars
  BY Zenon DEF PartsNext, all
<1> QED
  BY <1>2, <1>3, <1>4, <1>5, <1>6, Zenon

LEMMA StandsInit == PartsInit => Stands
<1> SUFFICES ASSUME PartsInit PROVE Standing
  BY DEF Stands, Standing
<1>1. /\ leader \in Pods /\ past = {} /\ faults = 0 /\ events = {}
      /\ \A p \in Pods : /\ pc[p] = "idle" /\ ~forced[p] /\ run[p] = Idle
                         /\ seen[p] = None
  BY DEF PartsInit, Init
<1> QED
  BY <1>1, SMT DEF Standing, OnePass, Branch, PassStands, SeenStands, Idle

LEMMA StandsKept ==
    ASSUME Typed, Typed', Verdicts, Stands, [PartsNext]_all
    PROVE  Stands'
<1>1. part' = part
  BY PartsStepIsNext
<1> SUFFICES ASSUME part # "handover", Standing PROVE Standing'
  BY <1>1 DEF Stands, Standing
<1>2. CASE (FaultsStep \/ RepublishStep) /\ Onward
  BY <1>1, <1>2, StandingKept
<1>3. CASE UNCHANGED <<vars, past>>
  <2>1. UNCHANGED <<head, base, comment, status, leader, seen, forced, pc, run, events,
                    faults, past>>
    BY <1>3 DEF vars, world, posted, memory, pass, counts
  <2>2. OnePass' /\ Branch'
    BY <1>1, <2>1, Zenon DEF Standing, OnePass, Branch
  <2>3. PassStands'
    BY <1>1, <2>1, Zenon DEF Standing, PassStands, StatusFirst, Verdict
  <2>4. SeenStands'
    BY <1>1, <2>1, Zenon DEF Standing, SeenStands, Snapshot, Gone, Shown
  <2> QED
    BY <2>2, <2>3, <2>4 DEF Standing
<1> QED
  BY <1>2, <1>3, Zenon DEF PartsNext, HandoverStep, all

(* The inductive invariant *)
PartsInv == Typed /\ Verdicts /\ GreenWasRendered /\ Stands

LEMMA PartsInvInit == PartsInit => PartsInv
<1>1. Init => Verdicts /\ GreenWasRendered
  BY SMT DEF Init, Verdicts, PassTrue, TrueComment, Idle, NoComment, GreenWasRendered
<1> QED
  BY <1>1, TypedInit, StandsInit DEF PartsInv, PartsInit

LEMMA PartsInvKept == PartsInv /\ [PartsNext]_all => PartsInv'
<1> SUFFICES ASSUME PartsInv, [PartsNext]_all PROVE PartsInv'
  OBVIOUS
<1>1. [Next]_vars
  BY PartsStepIsNext DEF PartsInv
<1>2. Typed' /\ Verdicts' /\ GreenWasRendered'
  BY <1>1, TypedStep, VerdictsStep DEF PartsInv
<1> QED
  BY <1>2, StandsKept DEF PartsInv

LEMMA PartsInvAlways == PartsSpec => []PartsInv
  BY PartsInvInit, PartsInvKept, PTL DEF PartsSpec

(* What the leader stops looking at has a final status that is green only if *)
(* the PR renders clean against today's main, and a comment about that       *)
(* snapshot: for any number of pushes of new commits, merges, crashes,       *)
(* aborts, failed and unheard writes of one leader, and any number of builds *)
(* and their webhooks (_seen_after_writes, fix_stuck_inprogress).            *)
THEOREM WhatIsSettledIsTrue == PartsSpec => []SettledIsTrue
<1>1. PartsInv => SettledIsTrue
  <2> SUFFICES ASSUME PartsInv, part # "handover", NEW p \in Pods, Settled(p)
               PROVE  Shown(<<head, base>>)
    BY DEF SettledIsTrue, GateIsTrue, CommentIsCurrent, Shown
  <2>1. p = leader /\ pc[leader] = "idle" /\ seen[leader] = <<head, base>>
    BY DEF Settled
  <2>2. seen[leader] # None /\ base \in Nat
    BY <2>1, PrCycleAssumption, NoneAssumption DEF PrCycleAssumption, PartsInv, Typed, TypeOK
  <2>3. ~Gone(<<head, base>>)
    BY <2>2, SMT DEF Gone, PartsInv, Stands, Branch
  <2> QED
    BY <2>1, <2>2, <2>3 DEF PartsInv, Stands, SeenStands, Working
<1> QED
  BY <1>1, PartsInvAlways, PTL

-----------------------------------------------------------------------------
(* Steps that turn a red status green *)

LEMMA StatusStays ==
    ASSUME Typed, Standing, NEW p \in Pods,
           \/ ReadBase(p) \/ ListPrs(p) \/ Enter(p) \/ Lookup(p) \/ Decide(p)
           \/ Recover(p) \/ Gate(p) \/ Begin(p) \/ Render(p) \/ Pulled(p)
           \/ Compose(p) \/ ErrorComment(p) \/ Abandon(p) \/ Raise(p) \/ Crash(p)
           \/ ChartWebhook(p)
    PROVE  status' = status
BY Zenon DEF ReadBase, ListPrs, Enter, Lookup, Decide, Recover, Gate, Begin, Render,
   Pulled, Compose, ErrorComment, PostComment, Abandon, Raise, Crash, ChartWebhook, posted

LEMMA GreenAgain ==
    ASSUME Typed, Standing, Step(leader), NEW h \in Heads,
           status[h] = "FAILED", status'[h] = "SUCCESSFUL"
    PROVE  pc[leader] \in {"write1", "write2"} /\ pc'[leader] # pc[leader]
<1>1. leader \in Pods
  BY DEF Typed, TypeOK
<1>2. ~Mend(leader)
  <2> SUFFICES ASSUME Mend(leader) PROVE FALSE
    OBVIOUS
  <2>1. pc[leader] = "mend"
    BY Zenon DEF Mend
  <2>2. run[leader].sha \in Heads
    BY <1>1, <2>1 DEF Typed, Snapshots
  <2>3. PICK res : PostStatus(leader, ColorOf(run[leader].found.token), res)
    BY Zenon DEF Mend
  <2>4. \/ status'[h] = status[h]
        \/ h = run[leader].sha /\ status'[h] = ColorOf(run[leader].found.token)
    BY <1>1, <2>2, <2>3, StatusWritten, Zenon
  <2> QED
    BY <2>1, <2>4 DEF Standing, PassStands
<1>3. ~Announce(leader) /\ ~ErrorStatus(leader)
  <2> SUFFICES ASSUME Announce(leader) \/ ErrorStatus(leader) PROVE FALSE
    OBVIOUS
  <2>1. pc[leader] \in {"announce", "error1"}
    BY Zenon DEF Announce, ErrorStatus
  <2>2. run[leader].sha \in Heads
    BY <1>1, <2>1 DEF Typed, Snapshots
  <2>3. PICK state \in {"INPROGRESS", "FAILED"}, res \in Results :
            PostStatus(leader, state, res)
    BY Zenon DEF Announce, ErrorStatus
  <2> QED
    BY <1>1, <2>2, <2>3, StatusWritten
<1>4. Write1(leader) \/ Write2(leader)
  BY <1>1, <1>2, <1>3, StatusStays, Zenon DEF Step
<1>5. \/ pc[leader] = "write1" /\ Goto(leader, "write2")
      \/ pc[leader] = "write2" /\ Goto(leader, "idle")
  BY <1>4, Zenon DEF Write1, Write2, End
<1> QED
  BY <1>1, <1>5, SMT DEF Goto, Typed, TypeOK

(* A status that is red turns green only by the write of a pass that has     *)
(* just rendered: mending it from the comment does not, whatever the leader  *)
(* was interrupted by (fix_stuck_inprogress, process_pr).                    *)
THEOREM MendingNeverUnblocks == PartsSpec => RecoveryNeverUnblocks
<1> DEFINE A == part # "handover" =>
                  \A h \in Heads :
                    status[h] = "FAILED" /\ status'[h] = "SUCCESSFUL" =>
                      \E p \in Pods : pc[p] \in {"write1", "write2"} /\ pc'[p] # pc[p]
<1>1. PartsInv /\ [PartsNext]_all => [A]_vars
  <2> SUFFICES ASSUME PartsInv, [PartsNext]_all, part # "handover", NEW h \in Heads,
                      status[h] = "FAILED", status'[h] = "SUCCESSFUL"
               PROVE  \E p \in Pods : pc[p] \in {"write1", "write2"} /\ pc'[p] # pc[p]
    OBVIOUS
  <2>1. Typed /\ Standing /\ leader \in Pods
    BY DEF PartsInv, Stands, Standing, Typed, TypeOK
  <2>2. CASE Step(leader)
    BY <2>1, <2>2, GreenAgain
  <2>3. status' # status
    OBVIOUS
  <2>4. FaultsStep \/ RepublishStep
    BY <2>3, Zenon DEF PartsNext, HandoverStep, all, vars, posted
  <2>5. Step(leader)
    <3>1. ~(Push \/ MergeOnMain \/ Republish)
      BY <2>3, Zenon DEF Push, MergeOnMain, Republish, posted
    <3>2. \A p \in Pods : Step(p) => p = leader
      BY <2>1, OnlyTheLeaderSteps, Zenon DEF Standing
    <3> QED
      BY <2>1, <2>3, <2>4, <3>1, <3>2, StatusStays, Zenon DEF FaultsStep, RepublishStep
  <2> QED
    BY <2>2, <2>5
<1> QED
  BY <1>1, PartsInvAlways, PTL DEF PartsSpec, RecoveryNeverUnblocks

-----------------------------------------------------------------------------
(* What a pass may say *)

(* The token a pass is about to publish is the verdict of its snapshot or a  *)
(* failure, and only a comment that is no retry promise is mended from       *)
SayAt(label, r) ==
    /\ label \in {"write1", "write2"} =>
        r.token \in {"transient", Truth[r.sha][r.base].token}
    /\ label \in {"error1", "error2"} => r.token \in {"transient", "permanent"}
    /\ label \in {"recover", "mend"} => r.found.token # "transient"

Said == \A p \in Pods : SayAt(pc[p], run[p])

Silent == Labels \ {"write1", "write2", "error1", "error2", "recover", "mend"}

LEMMA SaidAtSilent == \A label \in Silent : \A r : SayAt(label, r)
BY DEF Silent, SayAt

LEMMA SaidGoesOn ==
    ASSUME Typed, Said, NEW p \in Pods, NEW label, Goto(p, label),
           SayAt(label, run'[p]),
           \A q \in Pods \ {p} : run'[q] = run[q]
    PROVE  Said'
<1>1. pc'[p] = label /\ \A q \in Pods \ {p} : pc'[q] = pc[q]
  BY SMT DEF Goto, Typed, TypeOK
<1>2. ASSUME NEW q \in Pods PROVE SayAt(pc'[q], run'[q])
  BY <1>1, Zenon DEF Said
<1> QED
  BY <1>2 DEF Said, SayAt

LEMMA SaidEnds ==
    ASSUME Typed, Said, NEW p \in Pods, End(p) PROVE Said'
<1>1. \A q \in Pods \ {p} : run'[q] = run[q]
  BY EndRun, Zenon DEF End, Typed, TypeOK
<1>2. Goto(p, "idle") /\ "idle" \in Silent
  BY Zenon DEF End, Silent, Labels
<1> QED
  BY <1>1, <1>2, SaidAtSilent, SaidGoesOn

LEMMA SaidStays == ASSUME Said, pc' = pc, run' = run PROVE Said'
BY Zenon DEF Said, SayAt

LEMMA SilentSteps ==
    ASSUME Typed, Said, NEW p \in Pods,
           \/ ReadBase(p) \/ ListPrs(p) \/ Enter(p) \/ Lookup(p) \/ Abandon(p)
           \/ Announce(p) \/ Render(p) \/ Pulled(p)
    PROVE  Said'
<1>0. /\ run \in [Pods -> Runs] /\ comment \in Comments /\ head \in Heads
      /\ base \in Bases /\ cached \in [Pods -> Charts \cup {0}] /\ chart \in Charts
      /\ forced \in [Pods -> BOOLEAN]
  BY DEF Typed, TypeOK
<1>1. CASE End(p)
  BY <1>1, SaidEnds
<1>2. {"listing", "queued", "lookup", "decide", "render", "compose", "pulling"} \subseteq Silent
  BY DEF Silent, Labels, WritePcs
<1>3. CASE ReadBase(p)
  BY <1>0, <1>2, <1>3, SetBase, SaidAtSilent, SaidGoesOn, Zenon DEF ReadBase
<1>4. CASE Goto(p, "queued") /\ run' = [run EXCEPT ![p].sha = head]
  BY <1>0, <1>2, <1>4, SetSha, SaidAtSilent, SaidGoesOn, Zenon
<1>5. CASE Goto(p, "lookup") /\ run' = [run EXCEPT ![p].forced = forced[p]]
  <2>1. forced[p] \in BOOLEAN
    BY <1>0
  <2> QED
    BY <1>0, <1>2, <1>5, <2>1, SetForced, SaidAtSilent, SaidGoesOn, Zenon
<1>6. CASE Goto(p, "decide") /\ run' = [run EXCEPT ![p].found = comment]
  BY <1>0, <1>2, <1>6, SetFound, SaidAtSilent, SaidGoesOn, Zenon
<1>7. CASE Announce(p)
  <2>1. Goto(p, "render") /\ run' = run
    BY <1>7, Zenon DEF Announce
  <2> QED
    BY <1>2, <2>1, SaidAtSilent, SaidGoesOn, Zenon
<1>8. CASE Render(p)
  <2>1. PICK build \in Charts \cup {0} : run' = [run EXCEPT ![p].chart = build]
    <3>1. cached[p] \in Charts \cup {0}
      BY <1>0
    <3>2. (IF cached[p] = 0 THEN chart ELSE cached[p]) \in Charts \cup {0}
      BY <1>0, <3>1
    <3>3. run' = [run EXCEPT ![p].chart = IF cached[p] = 0 THEN chart ELSE cached[p]]
      BY <1>8, Zenon DEF Render
    <3> QED
      BY <3>2, <3>3
  <2>2. Goto(p, "compose") \/ Goto(p, "pulling")
    BY <1>8, Zenon DEF Render
  <2> QED
    BY <1>0, <1>2, <2>1, <2>2, SetChart, SaidAtSilent, SaidGoesOn, Zenon
<1>9. CASE Pulled(p)
  <2>1. Goto(p, "compose") /\ run' = run
    BY <1>9, Zenon DEF Pulled
  <2> QED
    BY <1>2, <2>1, SaidAtSilent, SaidGoesOn, Zenon
<1> QED
  BY <1>1, <1>3, <1>4, <1>5, <1>6, <1>7, <1>8, <1>9, Zenon
  DEF ListPrs, Enter, Lookup, Abandon

LEMMA SpeakingSteps ==
    ASSUME Typed, Said, NEW p \in Pods,
           \/ Decide(p) \/ Recover(p) \/ Begin(p) \/ Compose(p)
           \/ Write1(p) \/ Raise(p) \/ ErrorStatus(p)
    PROVE  Said'
<1>0. run \in [Pods -> Runs] /\ SayAt(pc[p], run[p])
  BY DEF Typed, TypeOK, Said
<1>1. {"begin", "announce"} \subseteq Silent
  BY DEF Silent, Labels, WritePcs
<1>2. CASE Decide(p)
  <2>1. run' = run
    BY <1>2, Zenon DEF Decide
  <2>2. \/ Goto(p, "begin")
        \/ Goto(p, "recover") /\ run[p].found.token # "transient"
    BY <1>2, Zenon DEF Decide, UpToDate
  <2>3. CASE Goto(p, "begin")
    BY <1>1, <2>1, <2>3, SaidAtSilent, SaidGoesOn, Zenon
  <2>4. CASE Goto(p, "recover") /\ run[p].found.token # "transient"
    <3>1. SayAt("recover", run'[p])
      BY <2>1, <2>4 DEF SayAt
    <3> QED
      BY <2>1, <2>4, <3>1, SaidGoesOn, Zenon
  <2> QED
    BY <2>2, <2>3, <2>4
<1>3. CASE Recover(p)
  <2>1. CASE End(p)
    BY <2>1, SaidEnds
  <2>2. CASE Goto(p, "mend") /\ run' = run /\ pc[p] = "recover"
    <3>1. SayAt("mend", run'[p])
      BY <1>0, <2>2 DEF SayAt
    <3> QED
      BY <2>2, <3>1, SaidGoesOn, Zenon
  <2> QED
    BY <1>3, <2>1, <2>2, Zenon DEF Recover
<1>4. Verdict(p) = Truth[run[p].sha][run[p].base]
  BY DEF Verdict
<1>5. CASE Goto(p, "announce") /\ run' = run
  BY <1>1, <1>5, SaidAtSilent, SaidGoesOn, Zenon
<1>6. ASSUME NEW token \in Tokens, token \in {"transient", Verdict(p).token},
             Goto(p, "write1"), run' = [run EXCEPT ![p].token = token]
      PROVE  Said'
  <2>1. /\ run'[p].sha = run[p].sha /\ run'[p].base = run[p].base
        /\ run'[p].token = token /\ \A q \in Pods \ {p} : run'[q] = run[q]
    BY <1>0, <1>6, SetToken, Zenon
  <2>2. SayAt("write1", run'[p])
    BY <1>4, <1>6, <2>1 DEF SayAt
  <2> QED
    BY <1>6, <2>1, <2>2, SaidGoesOn, Zenon
<1>7. CASE Begin(p) \/ Compose(p)
  <2>1. pc[p] \in {"begin", "compose"}
    BY <1>7, Zenon DEF Begin, Compose
  <2>2. Verdict(p).token \in Tokens /\ "transient" \in Tokens
    BY <2>1, VerdictTyped DEF Typed, Snapshots, Tokens
  <2>3. \/ Goto(p, "announce") /\ run' = run
        \/ /\ Goto(p, "write1")
           /\ \/ run' = [run EXCEPT ![p].token = Verdict(p).token]
              \/ run' = [run EXCEPT ![p].token = "transient"]
    BY <1>7, Zenon DEF Begin, Compose
  <2> QED
    BY <1>5, <1>6, <2>2, <2>3, Zenon
<1>8. CASE Write1(p)
  <2>1. PICK res \in Results : run' = [run EXCEPT ![p].first = res]
    BY <1>8, Zenon DEF Write1
  <2>2. pc[p] = "write1" /\ Goto(p, "write2")
    BY <1>8, Zenon DEF Write1
  <2>3. /\ run'[p].sha = run[p].sha /\ run'[p].base = run[p].base
        /\ run'[p].token = run[p].token /\ \A q \in Pods \ {p} : run'[q] = run[q]
    BY <1>0, <2>1, SetFirst, Zenon
  <2>4. SayAt("write2", run'[p])
    BY <1>0, <2>2, <2>3 DEF SayAt
  <2> QED
    BY <2>2, <2>3, <2>4, SaidGoesOn, Zenon
<1>9. CASE Raise(p)
  <2>1. PICK token \in {"transient", "permanent"} : run' = [run EXCEPT ![p].token = token]
    BY <1>9, Zenon DEF Raise
  <2>2. token \in Tokens /\ Goto(p, "error1")
    BY <1>9, Zenon DEF Raise, Tokens
  <2>3. run'[p].token = token /\ \A q \in Pods \ {p} : run'[q] = run[q]
    BY <1>0, <2>1, <2>2, SetToken, Zenon
  <2>4. SayAt("error1", run'[p])
    BY <2>3 DEF SayAt
  <2> QED
    BY <2>2, <2>3, <2>4, SaidGoesOn, Zenon
<1>10. CASE ErrorStatus(p)
  <2>1. pc[p] = "error1" /\ Goto(p, "error2") /\ run' = run
    BY <1>10, Zenon DEF ErrorStatus
  <2>2. SayAt("error2", run'[p])
    BY <1>0, <2>1 DEF SayAt
  <2> QED
    BY <2>1, <2>2, SaidGoesOn, Zenon
<1> QED
  BY <1>2, <1>3, <1>7, <1>8, <1>9, <1>10

LEMMA SaidKept == ASSUME Typed, Said, [Next]_vars PROVE Said'
<1>1. ASSUME NEW p \in Pods, Mend(p) \/ Write2(p) \/ ErrorComment(p) \/ Crash(p)
      PROVE  Said'
  <2>1. End(p)
    BY <1>1, Zenon DEF Mend, Write2, ErrorComment, Crash
  <2> QED
    BY <2>1, SaidEnds
<1>2. ASSUME NEW p \in Pods, Gate(p) \/ ChartWebhook(p) PROVE Said'
  BY <1>2, SaidStays, Zenon DEF Gate, ChartWebhook, pass
<1>3. CASE Push \/ MergeOnMain \/ Republish \/ Handover \/ UNCHANGED vars
  BY <1>3, SaidStays, Zenon DEF Push, MergeOnMain, Republish, Handover, vars, pass
<1>4. ASSUME NEW p \in Pods, Step(p) \/ Abandon(p) \/ Raise(p) PROVE Said'
  BY <1>1, <1>2, <1>4, SilentSteps, SpeakingSteps, Zenon DEF Step
<1> QED
  BY <1>1, <1>2, <1>3, <1>4, Zenon DEF Next

-----------------------------------------------------------------------------
(* The steps of MergeGate *)

Kept == part \notin {"handover", "verdict"}

(* What everybody but the readers sees of a step *)
Around == UNCHANGED <<head, base, leader, part>>

LEMMA Says ==
    ASSUME Typed, NEW p \in Pods, pc[p] \notin {"idle", "listing"}, NEW token,
           token \in {"transient", "permanent", Verdict(p).token},
           NEW build, NEW res, PostComment(p, token, build, res)
    PROVE  Promise!Say /\ status' = status
<1>1. run[p].sha \in Heads /\ run[p].base \in 1..base
  <2>1. /\ run[p].sha \in Heads /\ run[p].base \in Bases /\ base \in Bases
        /\ 1 <= run[p].base /\ run[p].base <= base
    BY DEF Typed, TypeOK, Snapshots
  <2>2. run[p].base \in Nat /\ base \in Nat
    BY <2>1, PrCycleAssumption DEF PrCycleAssumption
  <2> QED
    BY <2>1, <2>2
<1>2. \/ comment' = comment
      \/ comment' = [sha |-> run[p].sha, base |-> run[p].base,
                     token |-> token, chart |-> build]
  BY Zenon DEF PostComment
<1>3. CASE comment' = [sha |-> run[p].sha, base |-> run[p].base,
                       token |-> token, chart |-> build]
  <2>1. comment'.sha = run[p].sha /\ comment'.base = run[p].base /\ comment'.token = token
    BY <1>3
  <2> QED
    BY <1>1, <2>1, Zenon DEF Promise!Say, Verdict, PostComment
<1> QED
  BY <1>2, <1>3, Zenon DEF Promise!Say, PostComment

LEMMA Shows ==
    ASSUME Typed, NEW p \in Pods, pc[p] \notin {"idle", "listing"},
           NEW state \in Final \cup {"INPROGRESS"},
           state = "SUCCESSFUL" => \E b : Clean(run[p].sha, b),
           NEW res, PostStatus(p, state, res)
    PROVE  Promise!Show /\ comment' = comment
<1>1. run[p].sha \in Heads
  BY DEF Typed, Snapshots
<1>2. status' = status \/ status' = [status EXCEPT ![run[p].sha] = state]
  BY Zenon DEF PostStatus
<1>3. state = "SUCCESSFUL" => \E b \in 1..base : Truth[run[p].sha][b].token = "clean"
  BY DEF Clean
<1>4. state \in Promise!Final \cup {"INPROGRESS"}
  BY DEF Final, Promise!Final
<1> QED
  BY <1>1, <1>2, <1>3, <1>4, Zenon DEF Promise!Show, PostStatus

(* A pass either leaves _seen alone or marks its snapshot *)
LEMMA Marks ==
    ASSUME NEW p, NEW results, SeenAfterWrites(p, results)
    PROVE  \/ seen' = seen
           \/ /\ seen' = [seen EXCEPT ![p] = Snapshot(p)]
              /\ "transient" \notin results /\ "skipped" \notin results
BY Zenon DEF SeenAfterWrites, Snapshot

LEMMA Remembers ==
    ASSUME Typed, NEW p \in Pods, pc[p] \notin {"idle", "listing"},
           seen' = [seen EXCEPT ![p] = Snapshot(p)],
           Kept => /\ comment'.sha = run[p].sha /\ comment'.base = run[p].base
                   /\ comment'.token # "transient" /\ status'[run[p].sha] \in Final
                   /\ status'[run[p].sha] = "SUCCESSFUL" => comment'.token = "clean"
    PROVE  Promise!Remember
<1>1. /\ Snapshot(p) \in Heads \X Bases
      /\ Snapshot(p)[1] = run[p].sha /\ Snapshot(p)[2] = run[p].base
  BY DEF Typed, Snapshots, Snapshot
<1>2. Kept => Promise!Concluded(Snapshot(p))
  BY <1>1, SMT DEF Promise!Concluded, Promise!Final, Final
<1> QED
  BY <1>1, <1>2, Zenon DEF Promise!Remember, Kept

LEMMA Publishes ==
    ASSUME Around, Promise!Say, Promise!Show, Promise!Remember
    PROVE  Promise!Publish
<1>1. UNCHANGED <<head, base, leader, Kept>>
  BY DEF Around, Kept
<1> QED
  BY <1>1, Zenon DEF Promise!Publish, Kept

(* Nothing that the readers or the promise could tell *)
LEMMA Unnoticed ==
    ASSUME Around, comment' = comment, status' = status, seen' = seen
    PROVE  UNCHANGED Promise!vars
BY Zenon DEF Around, Promise!vars

-----------------------------------------------------------------------------

(* A pass that is over its snapshot, alone where the promise is kept *)
Due(p) ==
    /\ Typed /\ Verdicts /\ Said
    /\ Kept => p = leader /\ Standing /\ Quiet

LEMMA DueUnrefused ==
    ASSUME NEW p \in Pods, Due(p), Kept, seen' # seen
    PROVE  faults' = faults \/ (part = "republish" /\ faults' = 0)
BY DEF Due, Kept, Quiet, Unrefused

(* A write the leader counts on has landed *)
LEMMA DueWrite ==
    ASSUME NEW p \in Pods, Due(p), Kept, seen' # seen, NEW landed, NEW res,
           Write(p, landed, res), res # "transient"
    PROVE  res = "ok" /\ landed
<1>1. p = leader /\ Typed /\ (part = "republish" => faults = 0)
  BY DEF Due, Standing, OnePass
<1>2. /\ res \in {"ok", "transient", "permanent"}
      /\ res = "ok" => landed
      /\ res = "permanent" => faults' # faults
      /\ faults = 0 /\ faults' = 0 => res = "ok"
  BY <1>1, LeaderWrites
<1> QED
  BY <1>1, <1>2, DueUnrefused

LEMMA RecoverPublishes ==
    ASSUME NEW p \in Pods, Due(p), Around, Recover(p)
    PROVE  Promise!Publish
<1>1. /\ pc[p] = "recover" /\ comment' = comment /\ status' = status
      /\ Typed /\ Verdicts /\ Said
  BY Zenon DEF Recover, posted, Due
<1>2. Promise!Say /\ Promise!Show
  BY <1>1, Zenon DEF Promise!Say, Promise!Show
<1>3. \/ seen' = seen
      \/ /\ seen' = [seen EXCEPT ![p] = Snapshot(p)]
         /\ \/ /\ status[run[p].sha] \in {"SUCCESSFUL", "FAILED"}
               /\ ~(status[run[p].sha] = "SUCCESSFUL"
                        /\ ColorOf(run[p].found.token) = "FAILED")
            \/ Fault("refused")
  BY Marks, Zenon DEF Recover
<1>4. CASE seen' = seen
  BY <1>2, <1>4, Publishes, Zenon DEF Promise!Remember
<1>5. CASE seen' # seen
  <2>1. Kept => /\ comment'.sha = run[p].sha /\ comment'.base = run[p].base
                /\ comment'.token # "transient" /\ status'[run[p].sha] \in Final
                /\ status'[run[p].sha] = "SUCCESSFUL" => comment'.token = "clean"
    <3> SUFFICES ASSUME Kept
                 PROVE  /\ comment.sha = run[p].sha /\ comment.base = run[p].base
                        /\ comment.token # "transient" /\ status[run[p].sha] \in Final
                        /\ status[run[p].sha] = "SUCCESSFUL" => comment.token = "clean"
      BY <1>1
    <3>1. /\ p = leader /\ comment = run[p].found
          /\ comment.sha = run[p].sha /\ comment.base = run[p].base
      BY <1>1 DEF Due, Standing, PassStands
    <3>2. comment.token # "transient"
      BY <1>1, <3>1 DEF Said, SayAt
    <3>3. faults \in Nat /\ (part = "republish" => faults = 0)
      BY <1>1 DEF Typed, TypeOK, Due, Standing, OnePass
    <3>4. ~Fault("refused")
      BY <1>5, <3>3, DueUnrefused, SMT DEF Fault
    <3>5. /\ status[run[p].sha] \in Final
          /\ status[run[p].sha] = "SUCCESSFUL" => comment.token = "clean"
      <4>1. /\ status[run[p].sha] \in {"SUCCESSFUL", "FAILED"}
            /\ ~(status[run[p].sha] = "SUCCESSFUL" /\ ColorOf(comment.token) = "FAILED")
        BY <1>3, <1>5, <3>1, <3>4
      <4> QED
        BY <4>1 DEF ColorOf, Final
    <3> QED
      BY <3>1, <3>2, <3>5
  <2> QED
    BY <1>1, <1>2, <1>3, <1>5, <2>1, Remembers, Publishes
<1> QED
  BY <1>4, <1>5

LEMMA MendPublishes ==
    ASSUME NEW p \in Pods, Due(p), Around, Mend(p)
    PROVE  Promise!Publish
<1>1. pc[p] = "mend" /\ Typed /\ Verdicts /\ Said
  BY Zenon DEF Mend, Due
<1>2. PICK res \in Results :
        /\ PostStatus(p, ColorOf(run[p].found.token), res)
        /\ SeenAfterWrites(p, {res})
  BY Zenon DEF Mend
<1>3. run[p].sha \in Heads /\ run[p].found.sha = run[p].sha /\ run[p].sha # None
  BY <1>1, PrCycleAssumption
  DEF PrCycleAssumption, Typed, Snapshots, Verdicts, PassTrue
<1>4. ColorOf(run[p].found.token) = "SUCCESSFUL" => \E b : Clean(run[p].sha, b)
  BY <1>1, <1>3, ColorIsTrue, Zenon DEF Verdicts, PassTrue, TrueComment
<1>5. ColorOf(run[p].found.token) \in Final
  BY ColorIsFinal
<1>6. Promise!Show /\ comment' = comment
  BY <1>1, <1>2, <1>4, <1>5, Shows
<1>7. Promise!Say
  BY <1>6, Zenon DEF Promise!Say
<1>8. CASE seen' = seen
  BY <1>6, <1>7, <1>8, Publishes, Zenon DEF Promise!Remember
<1>9. CASE seen' # seen
  <2>1. seen' = [seen EXCEPT ![p] = Snapshot(p)] /\ res # "transient"
    BY <1>2, <1>9, Marks
  <2>2. Kept => /\ comment'.sha = run[p].sha /\ comment'.base = run[p].base
                /\ comment'.token # "transient" /\ status'[run[p].sha] \in Final
                /\ status'[run[p].sha] = "SUCCESSFUL" => comment'.token = "clean"
    <3> SUFFICES ASSUME Kept
                 PROVE  /\ comment.sha = run[p].sha /\ comment.base = run[p].base
                        /\ comment.token # "transient" /\ status'[run[p].sha] \in Final
                        /\ status'[run[p].sha] = "SUCCESSFUL" => comment.token = "clean"
      BY <1>6
    <3>1. /\ p = leader /\ comment = run[p].found
          /\ comment.sha = run[p].sha /\ comment.base = run[p].base
      BY <1>1 DEF Due, Standing, PassStands
    <3>2. comment.token # "transient"
      BY <1>1, <3>1 DEF Said, SayAt
    <3>3. PICK landed \in BOOLEAN : Write(p, landed, res)
      BY <1>2, Zenon DEF PostStatus
    <3>4. res = "ok"
      BY <1>9, <2>1, <3>3, DueWrite
    <3>5. status'[run[p].sha] = ColorOf(comment.token)
      BY <1>1, <1>2, <1>3, <3>1, <3>4, StatusWritten
    <3> QED
      BY <1>5, <3>1, <3>2, <3>5, ColorIsTrue
  <2> QED
    BY <1>1, <1>6, <1>7, <2>1, <2>2, Remembers, Publishes
<1> QED
  BY <1>8, <1>9

(* The writes of a verdict *)
LEMMA VerdictWritten ==
    ASSUME NEW p \in Pods, Typed, Verdicts, Said, pc[p] \in {"write1", "write2"}
    PROVE  /\ run[p].token \in {"transient", "permanent", Verdict(p).token}
           /\ ColorOf(run[p].token) \in Final
           /\ ColorOf(run[p].token) = "SUCCESSFUL" => \E b : Clean(run[p].sha, b)
           /\ pc[p] \notin {"idle", "listing"}
<1>1. run[p].token \in {"transient", "permanent", Verdict(p).token}
  BY DEF Said, SayAt, Verdict
<1>2. run[p].token = "clean" => Clean(run[p].sha, run[p].base)
  BY DEF Verdicts, PassTrue
<1>3. pc[p] \notin {"idle", "listing"}
  OBVIOUS
<1> QED
  BY <1>1, <1>2, <1>3, ColorIsFinal, ColorIsTrue, Zenon

LEMMA Write1Publishes ==
    ASSUME NEW p \in Pods, Due(p), Around, Write1(p)
    PROVE  Promise!Publish
<1>1. pc[p] = "write1" /\ Typed /\ Verdicts /\ Said /\ seen' = seen
  BY Zenon DEF Write1, memory, Due
<1>2. PICK res \in Results :
        IF StatusFirst(p) THEN PostStatus(p, ColorOf(run[p].token), res)
        ELSE PostComment(p, run[p].token, run[p].chart, res)
  BY Zenon DEF Write1
<1>3. Promise!Show /\ Promise!Say
  BY <1>1, <1>2, VerdictWritten, Shows, Says DEF Promise!Show, Promise!Say
<1> QED
  BY <1>1, <1>3, Publishes, Zenon DEF Promise!Remember

LEMMA Write2Publishes ==
    ASSUME NEW p \in Pods, Due(p), Around, Write2(p)
    PROVE  Promise!Publish
<1>1. pc[p] = "write2" /\ Typed /\ Verdicts /\ Said
  BY Zenon DEF Write2, Due
<1>2. PICK res \in Results :
        /\ IF StatusFirst(p) THEN PostComment(p, run[p].token, run[p].chart, res)
           ELSE PostStatus(p, ColorOf(run[p].token), res)
        /\ IF run[p].token = "transient"
           THEN RegisterTransient(p) /\ UNCHANGED seen
           ELSE SeenAfterWrites(p, {run[p].first, res})
  BY Zenon DEF Write2
<1>3. Promise!Show /\ Promise!Say
  BY <1>1, <1>2, VerdictWritten, Shows, Says DEF Promise!Show, Promise!Say
<1>4. CASE seen' = seen
  BY <1>3, <1>4, Publishes, Zenon DEF Promise!Remember
<1>5. CASE seen' # seen
  <2>1. /\ seen' = [seen EXCEPT ![p] = Snapshot(p)] /\ res # "transient"
        /\ run[p].first # "transient" /\ run[p].token # "transient"
    BY <1>2, <1>5, Marks
  <2>2. Kept => /\ comment'.sha = run[p].sha /\ comment'.base = run[p].base
                /\ comment'.token # "transient" /\ status'[run[p].sha] \in Final
                /\ status'[run[p].sha] = "SUCCESSFUL" => comment'.token = "clean"
    <3> SUFFICES ASSUME Kept
                 PROVE  /\ comment'.sha = run[p].sha /\ comment'.base = run[p].base
                        /\ comment'.token = run[p].token
                        /\ status'[run[p].sha] = ColorOf(run[p].token)
      BY <2>1, ColorIsFinal, ColorIsTrue
    <3>1. p = leader /\ run[p].sha \in Heads
      BY <1>1 DEF Due, Typed, Snapshots
    <3>2. run[p].first = "ok"
      BY <1>1, <2>1, <3>1 DEF Due, Standing, PassStands
    <3>3. PICK landed \in BOOLEAN : Write(p, landed, res)
      BY <1>2, Zenon DEF PostStatus, PostComment
    <3>4. res = "ok"
      BY <1>5, <2>1, <3>3, DueWrite
    <3>5. CASE StatusFirst(p)
      <4>1. status[run[p].sha] = ColorOf(run[p].token)
        BY <1>1, <3>1, <3>2, <3>5 DEF Due, Standing, PassStands
      <4> QED
        BY <1>1, <1>2, <3>1, <3>4, <3>5, <4>1, CommentWritten
    <3>6. CASE ~StatusFirst(p)
      <4>1. /\ comment.sha = run[p].sha /\ comment.base = run[p].base
            /\ comment.token = run[p].token
        BY <1>1, <3>1, <3>2, <3>6 DEF Due, Standing, PassStands
      <4> QED
        BY <1>1, <1>2, <3>1, <3>4, <3>6, <4>1, StatusWritten
    <3> QED
      BY <3>5, <3>6
  <2> QED
    BY <1>1, <1>3, <2>1, <2>2, Remembers, Publishes
<1> QED
  BY <1>4, <1>5

(* The announcement and the catch-all *)
LEMMA OthersPublish ==
    ASSUME NEW p \in Pods, Due(p), Around,
           Announce(p) \/ ErrorStatus(p) \/ ErrorComment(p)
    PROVE  Promise!Publish
<1>1. /\ pc[p] \notin {"idle", "listing"} /\ seen' = seen
      /\ Typed /\ Said
  BY Zenon DEF Announce, ErrorStatus, ErrorComment, memory, Due
<1>2. CASE ErrorComment(p)
  <2>1. PICK res : PostComment(p, run[p].token, 0, res)
    BY <1>2, Zenon DEF ErrorComment
  <2>2. run[p].token \in {"transient", "permanent", Verdict(p).token}
    BY <1>1, <1>2, Zenon DEF ErrorComment, Said, SayAt
  <2>3. Promise!Say /\ status' = status
    BY <1>1, <2>1, <2>2, Says
  <2> QED
    BY <1>1, <2>3, Publishes, Zenon DEF Promise!Show, Promise!Remember
<1>3. CASE Announce(p) \/ ErrorStatus(p)
  <2>1. PICK state \in {"INPROGRESS", "FAILED"}, res \in Results :
            PostStatus(p, state, res)
    BY <1>3, Zenon DEF Announce, ErrorStatus
  <2>2. state \in Final \cup {"INPROGRESS"} /\ state # "SUCCESSFUL"
    BY DEF Final
  <2> QED
    BY <1>1, <2>1, <2>2, Shows, Publishes, Zenon DEF Promise!Say, Promise!Remember
<1> QED
  BY <1>1, <1>2, <1>3

-----------------------------------------------------------------------------

QuietPass(p) ==
    \/ ReadBase(p) \/ ListPrs(p) \/ Enter(p) \/ Lookup(p) \/ Decide(p) \/ Gate(p)
    \/ Begin(p) \/ Render(p) \/ Pulled(p) \/ Compose(p) \/ Abandon(p) \/ Raise(p)

(* A webhook needs no standing pass *)
LEMMA HookPublishes ==
    ASSUME NEW p \in Pods, part' = part, ChartWebhook(p)
    PROVE  Promise!Publish
<1>1. /\ Around /\ comment' = comment /\ status' = status
      /\ seen' = seen \/ seen' = [seen EXCEPT ![p] = None]
  BY Zenon DEF ChartWebhook, posted, world, Around
<1> QED
  BY <1>1, Publishes, Zenon DEF Promise!Say, Promise!Show, Promise!Remember

(* A pod forgets what it has seen, or does what nobody sees *)
LEMMA PodPublishes ==
    ASSUME NEW p \in Pods, Due(p), part' = part,
           Step(p) \/ Abandon(p) \/ Raise(p) \/ ChartWebhook(p) \/ Crash(p)
    PROVE  Promise!Publish \/ UNCHANGED Promise!vars
<1>1. Around
  BY Zenon DEF Step, ReadBase, ListPrs, Enter, Lookup, Decide, Recover, Mend, Gate, Begin,
     Announce, Render, Pulled, Compose, Write1, Write2, ErrorStatus, ErrorComment, Abandon,
     Raise, ChartWebhook, Crash, Around, world
<1>2. CASE QuietPass(p)
  <2>1. comment' = comment /\ status' = status /\ seen' = seen
    BY <1>2, Zenon DEF QuietPass, ReadBase, ListPrs, Enter, Lookup, Decide, Gate, Begin,
       Render, Pulled, Compose, Abandon, Raise, posted, memory
  <2> QED
    BY <1>1, <2>1, Unnoticed
<1>3. CASE ChartWebhook(p)
  BY <1>3, HookPublishes
<1>6. CASE Crash(p)
  <2>1. comment' = comment /\ status' = status /\ seen' = [seen EXCEPT ![p] = None]
    BY <1>6, Zenon DEF Crash, posted
  <2> QED
    BY <1>1, <2>1, Publishes, Zenon DEF Promise!Say, Promise!Show, Promise!Remember
<1>4. CASE Recover(p) \/ Mend(p) \/ Write1(p) \/ Write2(p)
  BY <1>1, <1>4, RecoverPublishes, MendPublishes, Write1Publishes, Write2Publishes
<1>5. CASE Announce(p) \/ ErrorStatus(p) \/ ErrorComment(p)
  BY <1>1, <1>5, OthersPublish
<1> QED
  BY <1>2, <1>3, <1>4, <1>5, <1>6, Zenon DEF Step, QuietPass

(* A push, a merge on main, a change of leader *)
LEMMA WorldMoves ==
    ASSUME Typed, part' = part,
           \/ Push \/ MergeOnMain \/ Republish
           \/ part = "handover" /\ Handover
    PROVE  Promise!Move \/ UNCHANGED Promise!vars
<1>1. comment' = comment /\ status' = status /\ seen' = seen
  BY Zenon DEF Push, MergeOnMain, Republish, Handover, posted, memory
<1>2. \/ head' \in Heads /\ base' = base /\ leader' = leader
      \/ base' = base + 1 /\ head' = head /\ leader' = leader
      \/ part = "handover" /\ leader' \in Pods /\ head' = head /\ base' = base
      \/ head' = head /\ base' = base /\ leader' = leader
  BY Zenon DEF Push, MergeOnMain, Republish, Handover, world
<1>3. part = "handover" => ~(part \notin {"handover", "verdict"})
  OBVIOUS
<1> QED
  BY <1>1, <1>2, <1>3, Zenon DEF Promise!Move, Promise!vars

LEMMA PromiseStep ==
    ASSUME PartsInv, Said, [PartsNext]_all
    PROVE  [Promise!Publish \/ Promise!Move]_(Promise!vars)
<1>1. /\ Typed /\ Verdicts /\ (part # "handover" => Standing) /\ leader \in Pods
      /\ part' = part
  BY PartsStepIsNext DEF PartsInv, Stands, Standing, Typed, TypeOK
<1>2. CASE UNCHANGED vars
  BY <1>1, <1>2, Unnoticed, Zenon DEF vars, world, posted, memory, Around
<1>3. CASE HandoverStep
  <2>1. part = "handover" /\ ~Kept
    BY <1>3 DEF HandoverStep, Kept
  <2>2. \A p \in Pods : Due(p)
    BY <1>1, <2>1 DEF Due
  <2> QED
    BY <1>1, <1>3, <2>1, <2>2, PodPublishes, WorldMoves, Zenon DEF HandoverStep
<1>4. CASE (FaultsStep \/ RepublishStep) /\ Onward
  <2>1. part # "handover" /\ Standing
    BY <1>1, <1>4 DEF FaultsStep, RepublishStep
  <2>2. CASE Push \/ MergeOnMain \/ Republish
    BY <1>1, <2>2, WorldMoves
  <2>3. ASSUME NEW p \in Pods, leader' = leader,
               p = leader \/ ChartWebhook(p),
               Step(p) \/ Abandon(p) \/ Raise(p) \/ ChartWebhook(p) \/ Crash(p)
        PROVE  Promise!Publish \/ UNCHANGED Promise!vars
    <3>1. Quiet
      BY <1>1, <1>4, <2>3 DEF Quiet, FaultsStep, RepublishStep
    <3>2. CASE p = leader
      BY <1>1, <2>1, <2>3, <3>1, <3>2, PodPublishes DEF Due
    <3>3. CASE ChartWebhook(p)
      BY <1>1, <2>3, <3>3, HookPublishes
    <3> QED
      BY <2>3, <3>2, <3>3
  <2>4. ASSUME NEW p \in Pods,
               Step(p) \/ Abandon(p) \/ Raise(p) \/ ChartWebhook(p) \/ Crash(p)
        PROVE  leader' = leader
    BY <2>4, Zenon DEF Step, ReadBase, ListPrs, Enter, Lookup, Decide, Recover, Mend, Gate,
       Begin, Announce, Render, Pulled, Compose, Write1, Write2, ErrorStatus, ErrorComment,
       Abandon, Raise, ChartWebhook, Crash
  <2>5. \A p \in Pods : Step(p) => p = leader
    BY <1>1, <2>1, OnlyTheLeaderSteps DEF Standing
  <2> QED
    BY <1>1, <1>4, <2>2, <2>3, <2>4, <2>5, Zenon DEF FaultsStep, RepublishStep
<1> QED
  BY <1>2, <1>3, <1>4, Zenon DEF PartsNext, all

(* The whole invariant of the promise *)
PromiseInv == PartsInv /\ Said

LEMMA PromiseInvAlways == PartsSpec => []PromiseInv
<1>1. PartsInit => PromiseInv
  <2>1. PartsInit => Said
    BY DEF PartsInit, Init, Said, SayAt
  <2> QED
    BY <2>1, PartsInvInit DEF PromiseInv
<1>2. PromiseInv /\ [PartsNext]_all => PromiseInv'
  BY PartsInvKept, PartsStepIsNext, SaidKept DEF PromiseInv, PartsInv
<1> QED
  BY <1>1, <1>2, PTL DEF PartsSpec

(* PrCycle implements what MergeGate says of every step, whoever leads and   *)
(* whatever goes wrong: a comment is about a snapshot that existed, a green  *)
(* status about a clean render, and, while the lease stays and no call is    *)
(* refused, a pod that sets _seen has published that snapshot.               *)
THEOREM EveryStepKeepsThePromise == PartsSpec => Promise!Safety
<1>1. PartsInit => Promise!Init
  <2>1. PartsInit => /\ head \in Heads /\ base = 1 /\ comment.sha = None /\ leader \in Pods
                     /\ status = [h \in Heads |-> "none"]
                     /\ seen = [p \in Pods |-> None]
    BY DEF PartsInit, Init, NoComment
  <2> QED
    BY <2>1 DEF Promise!Init
<1>2. PromiseInv /\ [PartsNext]_all => [Promise!Publish \/ Promise!Move]_(Promise!vars)
  BY PromiseStep DEF PromiseInv
<1> QED
  BY <1>1, <1>2, PromiseInvAlways, PTL DEF PartsSpec, Promise!Safety

-----------------------------------------------------------------------------
(* One run of process_pr from inside *)

(* The pull request has something to render *)
Involved == v1.touched # {} \/ v1.envs # "none"

(* Nothing is written before the run concludes, only whole batches conclude, *)
(* and a green status of this run or a clean comment speaks of a batch       *)
(* without a finding                                                         *)
Conclusions ==
    /\ v2 \in {"batch", "first", "discarded"} =>
        v7 = "none" /\ v10 = {} /\ v8 = v1.before
    /\ v2 \in {"first", "second", "done"} /\ v1.touched # {} => Run!Pending = {}
    /\ v7 = "clean" /\ Involved => Run!Fit
    /\ v8 = "SUCCESSFUL" /\ Involved => Run!Fit \/ v1.before = "SUCCESSFUL"

(* What the writes of the run left behind is its token and its colour, or    *)
(* what the catch-all has put over them                                      *)
Publications ==
    /\ v10 = {} => v7 = "none"
    /\ \/ v7 \in {"none", Run!Token(v1)}
       \/ "raised" \in v10 /\ v7 \in {"transient", "permanent"}
    /\ \/ v8 \in {v1.before, Run!State(v1)}
       \/ v2 = "recovered"
       \/ "raised" \in v10 /\ v8 = "FAILED"
    /\ v2 = "second" =>
        /\ v10 # {} /\ "raised" \notin v10
        /\ v10 = {"ok"} /\ v1.touched # {} => v7 = Run!Token(v1)
        /\ v10 = {"ok"} /\ v1.touched = {} => v8 = Run!State(v1)
    /\ v2 = "done" => "raised" \notin v10
    /\ v2 = "done" /\ v10 = {"ok"} =>
        /\ v7 = Run!Token(v1)
        /\ v8 = Run!State(v1)
        /\ v9 = Run!Left(v1, {"ok"})
    /\ v2 = "recovered" =>
        /\ v8 = "SUCCESSFUL" => v7 = "clean"
        /\ \/ v8 = Run!State(v1)
           \/ v8 = "FAILED" /\ ("raised" \in v10 \/ v1.before = "FAILED")

VerdictInv == Run!VerdictTypeOK /\ Conclusions /\ Publications

(* Chains of conditions that agree *)

LEMMA GateTokens ==
    \A p : Run!GateToken(p) \in {"blocked", "transient", "none"}
BY DEF Run!GateToken

LEMMA FoundSplits ==
    /\ Run!Found({"error"} \cup Run!PermanentReasons) <=>
        \/ Run!Found({"error"}) \/ Run!Found({"template_failed"})
        \/ Run!Found({"oci_not_found"})
    /\ Run!Found({"error"} \cup (Run!PermanentReasons \ Run!SelfResolvingReasons)) <=>
        Run!Found({"error"}) \/ Run!Found({"template_failed"})
    /\ Run!Found(Run!PermanentReasons \ Run!SelfResolvingReasons) <=>
        Run!Found({"template_failed"})
    /\ Run!Found(Run!Indeterminate) <=>
        \/ Run!Found({"timeout"}) \/ Run!Found({"template_failed"})
        \/ Run!Found({"oci_not_found"})
BY Zenon DEF Run!Found, Run!PermanentReasons, Run!SelfResolvingReasons, Run!Indeterminate,
   Run!RetryableReasons

(* The comment says clean exactly if the build is green *)
LEMMA TokenIsState ==
    ASSUME v1 \in Run!PullRequests
    PROVE  Run!Token(v1) = "clean" <=> Run!State(v1) = "SUCCESSFUL"
<1>1. v1.envs \in {"none", "fine", "awaiting", "hard"} /\ v1.lost \in BOOLEAN
  BY DEF Run!PullRequests
<1>2. CASE v1.touched # {}
  BY <1>1, <1>2, FoundSplits, GateTokens, SMT
  DEF Run!Token, Run!State, Run!DiffToken, Run!DiffState, Run!NewEnvStructural,
      Run!NewEnvAwaiting
<1>3. CASE v1.touched = {}
  BY <1>3 DEF Run!Token, Run!State, Run!NewEnvState
<1> QED
  BY <1>2, <1>3

(* The comment says transient exactly if the pod tries again by itself *)
LEMMA TokenIsRetry ==
    ASSUME v1 \in Run!PullRequests
    PROVE  Run!Token(v1) = "transient" <=> Run!WillRetry(v1)
<1>1. v1.envs \in {"none", "fine", "awaiting", "hard"} /\ v1.lost \in BOOLEAN
  BY DEF Run!PullRequests
<1>2. CASE v1.touched # {}
  BY <1>1, <1>2, FoundSplits, GateTokens, SMT
  DEF Run!Token, Run!WillRetry, Run!DiffToken, Run!IsTransientFailure,
      Run!IsPermanentFailure, Run!NewEnvStructural, Run!NewEnvAwaiting
<1>3. CASE v1.touched = {}
  BY <1>1, <1>3, SMT DEF Run!Token, Run!WillRetry, Run!NewEnvToken
<1> QED
  BY <1>2, <1>3

LEMMA TokensAre ==
    /\ Run!Token(v1) \in {"clean", "permanent", "blocked", "transient"}
    /\ Run!State(v1) \in {"FAILED", "SUCCESSFUL"}
<1>1. Run!DiffToken(v1) \in {"clean", "permanent", "blocked", "transient"}
  BY SMT DEF Run!DiffToken
<1>2. Run!NewEnvToken(v1) \in {"clean", "permanent", "blocked", "transient"}
  BY SMT DEF Run!NewEnvToken
<1> QED
  BY <1>1, <1>2, SMT DEF Run!Token, Run!State, Run!DiffState, Run!NewEnvState

(* A clean token is never given for a part of a batch, or over a finding *)
LEMMA CleanIsFit ==
    ASSUME Run!VerdictTypeOK, Involved, v1.touched # {} => Run!Pending = {},
           Run!Token(v1) = "clean"
    PROVE  Run!Fit
<1>1. /\ v1.envs \in {"none", "fine", "awaiting", "hard"} /\ v1.lost \in BOOLEAN
      /\ v1.gates \subseteq {"blocked", "transient"}
      /\ v1.touched = {} => v1.blockers = {} /\ ~v1.lost
  BY DEF Run!VerdictTypeOK, Run!PullRequests
<1>2. Run!GateToken(v1) = "none" => v1.gates = {}
  BY <1>1, SMT DEF Run!GateToken
<1>3. CASE v1.touched # {}
  <2>1. /\ ~Run!Found({"error"}) /\ ~Run!Found({"timeout"})
        /\ ~Run!Found({"template_failed"}) /\ ~Run!Found({"oci_not_found"})
        /\ v1.blockers = {} /\ ~v1.lost /\ v1.envs \in {"none", "fine"}
        /\ Run!GateToken(v1) = "none" /\ v4 = {}
    BY <1>1, <1>3, FoundSplits, GateTokens, SMT
    DEF Run!Token, Run!DiffToken, Run!NewEnvStructural, Run!NewEnvAwaiting
  <2>2. \A a \in v1.touched : a \in DOMAIN v3
    BY <1>3, <2>1 DEF Run!Pending
  <2>3. ASSUME NEW a \in v1.touched PROVE v3[a] \in Run!Computed \cup {"decommissioned"}
    <3>1. v3[a] \in Run!Outcomes \cup {"decommissioned"}
      BY <2>2 DEF Run!VerdictTypeOK
    <3>2. v3[a] \notin {"error", "timeout", "template_failed", "oci_not_found"}
      BY <2>1, <2>2 DEF Run!Found
    <3> QED
      BY <3>1, <3>2 DEF Run!Outcomes, Run!Indeterminate, Run!RetryableReasons,
         Run!PermanentReasons, Run!SelfResolvingReasons
  <2> QED
    BY <1>2, <2>1, <2>2, <2>3, Zenon DEF Run!Fit
<1>4. CASE v1.touched = {}
  <2>1. v1.envs \in {"none", "fine"} /\ Run!GateToken(v1) = "none"
    BY <1>1, <1>4, GateTokens, SMT DEF Involved, Run!Token, Run!NewEnvToken
  <2> QED
    BY <1>1, <1>2, <1>4, <2>1, Zenon DEF Run!Fit
<1> QED
  BY <1>3, <1>4

-----------------------------------------------------------------------------

LEMMA VerdictStarts == Run!VerdictInit => VerdictInv
<1> SUFFICES ASSUME Run!VerdictInit PROVE VerdictInv
  OBVIOUS
<1>1. /\ v1 \in Run!PullRequests /\ v2 = "batch" /\ v5 = FALSE /\ v6 = FALSE
      /\ v7 = "none" /\ v9 = "none" /\ v10 = {}
      /\ v3 = [a \in v1.gone |-> "decommissioned"]
      /\ v8 = v1.before
  BY Zenon DEF Run!VerdictInit
<1>2. v4 \subseteq v1.touched \ v1.gone
  BY SMT DEF Run!VerdictInit
<1>3. v1.gone \subseteq v1.touched
  BY <1>1 DEF Run!PullRequests
<1>4. Run!VerdictTypeOK
  <2>1. v1.before \in {"none", "INPROGRESS", "FAILED", "SUCCESSFUL"}
    BY <1>1 DEF Run!PullRequests
  <2> QED
    BY <1>1, <1>2, <1>3, <2>1 DEF Run!VerdictTypeOK
<1>5. Conclusions /\ Publications
  BY <1>1, SMT DEF Conclusions, Publications
<1> QED
  BY <1>4, <1>5 DEF VerdictInv

(* What the conclusions are drawn from does not move after the batch *)
LEMMA SameConclusions ==
    ASSUME v1' = v1, v3' = v3, v4' = v4
    PROVE  /\ Run!Token(v1)' = Run!Token(v1) /\ Run!State(v1)' = Run!State(v1)
           /\ Run!Fit' = Run!Fit /\ Run!Pending' = Run!Pending
           /\ Involved' = Involved
           /\ \A w : Run!Left(v1, w)' = Run!Left(v1, w)
BY Zenon DEF Run!Token, Run!State, Run!Fit, Run!Pending, Involved, Run!Left, Run!DiffToken,
   Run!DiffState, Run!NewEnvToken, Run!NewEnvState, Run!Found, Run!NewEnvStructural,
   Run!NewEnvAwaiting, Run!GateToken, Run!WillRetry, Run!IsTransientFailure,
   Run!IsPermanentFailure

LEMMA SameFit ==
    ASSUME v1' = v1, v3' = v3, v4' = v4
    PROVE  /\ Run!Fit' <=> Run!Fit
           /\ Involved' <=> Involved
           /\ Run!Pending' = Run!Pending
<1>1. Run!Fit' <=> Run!Fit
  BY Zenon DEF Run!Fit
<1>2. Involved' <=> Involved
  BY Zenon DEF Involved
<1> QED
  BY <1>1, <1>2, SameConclusions

(* While the run goes on in its batch *)

LEMMA ResultKeepsVerdict ==
    ASSUME VerdictInv, NEW a \in Apps, NEW o \in Run!Outcomes, Run!Result(a, o)
    PROVE  VerdictInv'
<1>1. /\ v2 = "batch" /\ a \in v1.touched
      /\ v3' = [x \in DOMAIN v3 \cup {a} |-> IF x = a THEN o ELSE v3[x]]
      /\ v1' = v1 /\ v2' = v2 /\ v4' = v4 /\ v5' = v5 /\ v6' = v6 /\ v7' = v7
      /\ v8' = v8 /\ v9' = v9 /\ v10' = v10
  BY DEF Run!Result, Run!Pending
<1>2. Run!VerdictTypeOK'
  BY <1>1, SMT DEF VerdictInv, Run!VerdictTypeOK
<1>3. v7 = "none" /\ v10 = {} /\ v8 = v1.before
  BY <1>1, SMT DEF VerdictInv, Conclusions
<1>4. Conclusions'
  BY <1>1, <1>3, SMT DEF VerdictInv, Conclusions, Involved
<1>5. Publications'
  BY <1>1, <1>3, SMT DEF Publications
<1> QED
  BY <1>2, <1>4, <1>5 DEF VerdictInv

(* Only these slots matter to what the writes may say *)
LEMMA SameVerdict ==
    ASSUME v1' = v1, v2' = v2, v3' = v3, v4' = v4, v7' = v7, v8' = v8, v9' = v9,
           v10' = v10, Conclusions, Publications
    PROVE  Conclusions' /\ Publications'
<1>1. /\ Run!Token(v1)' = Run!Token(v1) /\ Run!State(v1)' = Run!State(v1)
      /\ Run!Fit' = Run!Fit /\ Run!Pending' = Run!Pending
      /\ Involved' = Involved
      /\ Run!Left(v1, {"ok"})' = Run!Left(v1, {"ok"})
  BY SameConclusions, Zenon
<1>2. Conclusions'
  BY <1>1, SMT DEF Conclusions
<1>3. Publications'
  BY <1>1, SMT DEF Publications
<1> QED
  BY <1>2, <1>3

LEMMA SignalsKeepVerdict ==
    ASSUME VerdictInv, Run!Supersede \/ Run!Sigterm PROVE VerdictInv'
<1>1. /\ v1' = v1 /\ v2' = v2 /\ v3' = v3 /\ v4' = v4 /\ v7' = v7
      /\ v8' = v8 /\ v9' = v9 /\ v10' = v10
      /\ v5' \in {v5, TRUE} /\ v6' \in {v6, TRUE}
  BY DEF Run!Supersede, Run!Sigterm
<1>2. Run!VerdictTypeOK'
  <2>1. Run!VerdictTypeOK /\ v5' \in BOOLEAN /\ v6' \in BOOLEAN
    BY <1>1 DEF VerdictInv, Run!VerdictTypeOK
  <2> QED
    BY <1>1, <2>1, Zenon DEF Run!VerdictTypeOK
<1>3. Conclusions' /\ Publications'
  BY <1>1, SameVerdict DEF VerdictInv
<1> QED
  BY <1>2, <1>3 DEF VerdictInv

LEMMA ConcludeKeepsVerdict ==
    ASSUME VerdictInv, Run!Conclude PROVE VerdictInv'
<1>1. /\ v1' = v1 /\ v3' = v3 /\ v4' = v4 /\ v5' = v5 /\ v6' = v6 /\ v7' = v7
      /\ v8' = v8 /\ v9' = v9 /\ v10' = v10
      /\ v2 = "batch"
      /\ Run!Pending = {} \/ v5 \/ v6
      /\ v2' = IF Run!Discards THEN "discarded" ELSE "first"
  BY DEF Run!Conclude
<1>2. Run!VerdictTypeOK'
  BY <1>1, SMT DEF VerdictInv, Run!VerdictTypeOK
<1>3. v7 = "none" /\ v10 = {} /\ v8 = v1.before
  BY <1>1 DEF VerdictInv, Conclusions
<1>4. v2' = "first" /\ v1.touched # {} => Run!Pending = {}
  BY <1>1 DEF Run!Discards
<1>5. v2' \in {"first", "discarded"}
  BY <1>1
<1>6. Conclusions'
  <2>1. v7' = "none" /\ v10' = {} /\ v8' = v1'.before
    BY <1>1, <1>3
  <2>2. v2' = "first" /\ v1'.touched # {} => Run!Pending' = {}
    BY <1>1, <1>4, SameConclusions
  <2> QED
    BY <1>5, <2>1, <2>2, SMT DEF Conclusions
<1>7. Publications'
  BY <1>1, <1>3, <1>5, SMT DEF Publications
<1> QED
  BY <1>2, <1>6, <1>7 DEF VerdictInv

-----------------------------------------------------------------------------
(* The two writes *)

(* What a write that lands may say *)
LEMMA WritesAreFit ==
    ASSUME VerdictInv, v2 \in {"first", "second"}
    PROVE  /\ Run!Token(v1) = "clean" /\ Involved => Run!Fit
           /\ Run!State(v1) = "SUCCESSFUL" /\ Involved => Run!Fit
<1>1. Run!VerdictTypeOK /\ (v1.touched # {} => Run!Pending = {})
  BY DEF VerdictInv, Conclusions
<1>2. v1 \in Run!PullRequests
  BY <1>1 DEF Run!VerdictTypeOK
<1>3. Run!Token(v1) = "clean" /\ Involved => Run!Fit
  BY <1>1, CleanIsFit
<1>4. Run!State(v1) = "SUCCESSFUL" => Run!Token(v1) = "clean"
  BY <1>2, TokenIsState
<1> QED
  BY <1>3, <1>4

(* Before the first write there is what the run has found *)
LEMMA NothingYet ==
    ASSUME VerdictInv, v2 = "first"
    PROVE  v7 = "none" /\ v10 = {} /\ v8 = v1.before
BY DEF VerdictInv, Conclusions

LEMMA CommentKeepsVerdict ==
    ASSUME VerdictInv, NEW w \in Run!WriteResults, Run!PublishComment(w)
    PROVE  VerdictInv'
<1>1. /\ v1' = v1 /\ v3' = v3 /\ v4' = v4 /\ v5' = v5 /\ v6' = v6 /\ v8' = v8
      /\ v7' = (IF w = "ok" THEN Run!Token(v1) ELSE v7)
      /\ v10' = v10 \cup {w}
      /\ v2' = (IF v2 = "first" THEN "second" ELSE "done")
      /\ v9' = (IF v2 = "first" THEN v9 ELSE Run!Left(v1, v10 \cup {w}))
  BY DEF Run!PublishComment, Run!Wrote
<1>2. IF v1.touched # {} THEN v2 = "first" ELSE v2 = "second"
  BY DEF Run!PublishComment, Run!Turn
<1>3. v2 \in {"first", "second"}
  BY <1>2
<1>4. Run!Left(v1, v10 \cup {w}) \in {"none", "seen", "backoff"}
  BY DEF Run!Left, Run!AfterWrites
<1>5. Run!VerdictTypeOK'
  BY <1>1, <1>4, TokensAre, SMT DEF VerdictInv, Run!VerdictTypeOK, Run!WriteResults
<1>6. Run!VerdictTypeOK /\ Conclusions /\ Publications
  BY DEF VerdictInv
<1>7. /\ v7 \in {"none", Run!Token(v1)} /\ v8 \in {v1.before, Run!State(v1)}
      /\ "raised" \notin v10
      /\ v2 = "second" => v10 # {} /\ (v10 = {"ok"} => v8 = Run!State(v1))
  BY <1>2, <1>3, <1>6, NothingYet, SMT DEF Publications
<1>8. Conclusions'
  <2>1. v2' \in {"second", "done"} /\ (v1.touched # {} => Run!Pending = {})
    BY <1>1, <1>3, <1>6 DEF Conclusions
  <2>2. /\ v7' = "clean" /\ Involved => Run!Fit
        /\ v8' = "SUCCESSFUL" /\ Involved => Run!Fit \/ v1.before = "SUCCESSFUL"
    BY <1>1, <1>3, <1>6, WritesAreFit, SMT DEF Conclusions
  <2>3. /\ v1'.touched # {} => Run!Pending' = {}
        /\ v7' = "clean" /\ Involved' => Run!Fit'
        /\ v8' = "SUCCESSFUL" /\ Involved' => Run!Fit' \/ v1'.before = "SUCCESSFUL"
    BY <1>1, <2>1, <2>2, SameFit
  <2> QED
    BY <2>1, <2>3, SMT DEF Conclusions
<1>9. Publications'
  <2>1. /\ v7' \in {"none", Run!Token(v1)}
        /\ v8' \in {v1.before, Run!State(v1)}
        /\ v10' # {} /\ "raised" \notin v10'
    BY <1>1, <1>7 DEF Run!WriteResults
  <2>2. v10' = {"ok"} => v7' = Run!Token(v1)
    BY <1>1
  <2>3. v2' = "done" /\ v10' = {"ok"} => v8' = Run!State(v1) /\ v9' = Run!Left(v1, {"ok"})
    <3>1. v2' = "done" => v2 = "second"
      BY <1>1, <1>3
    <3>2. v10' = {"ok"} /\ v10 # {} => v10 = {"ok"}
      BY <1>1
    <3> QED
      BY <1>1, <1>7, <3>1, <3>2
  <2>4. v2' \in {"second", "done"} /\ (v2' = "second" => v1'.touched # {})
    BY <1>1, <1>2
  <2>5. /\ Run!Token(v1)' = Run!Token(v1) /\ Run!State(v1)' = Run!State(v1)
        /\ Run!Left(v1, {"ok"})' = Run!Left(v1, {"ok"})
    BY <1>1, SameConclusions, Zenon
  <2>6. v1' = v1
    BY <1>1
  <2> QED
    BY <2>1, <2>2, <2>3, <2>4, <2>5, <2>6, SMT DEF Publications
<1> QED
  BY <1>5, <1>8, <1>9 DEF VerdictInv

LEMMA StatusKeepsVerdict ==
    ASSUME VerdictInv, NEW w \in Run!WriteResults, Run!PublishStatus(w)
    PROVE  VerdictInv'
<1>1. /\ v1' = v1 /\ v3' = v3 /\ v4' = v4 /\ v5' = v5 /\ v6' = v6 /\ v7' = v7
      /\ v8' = (IF w = "ok" THEN Run!State(v1) ELSE v8)
      /\ v10' = v10 \cup {w}
      /\ v2' = (IF v2 = "first" THEN "second" ELSE "done")
      /\ v9' = (IF v2 = "first" THEN v9 ELSE Run!Left(v1, v10 \cup {w}))
  BY DEF Run!PublishStatus, Run!Wrote
<1>2. IF v1.touched # {} THEN v2 = "second" ELSE v2 = "first"
  BY DEF Run!PublishStatus, Run!Turn
<1>3. v2 \in {"first", "second"}
  BY <1>2
<1>4. Run!Left(v1, v10 \cup {w}) \in {"none", "seen", "backoff"}
  BY DEF Run!Left, Run!AfterWrites
<1>5. Run!VerdictTypeOK'
  BY <1>1, <1>4, TokensAre, SMT DEF VerdictInv, Run!VerdictTypeOK, Run!WriteResults
<1>6. Run!VerdictTypeOK /\ Conclusions /\ Publications
  BY DEF VerdictInv
<1>7. /\ v7 \in {"none", Run!Token(v1)} /\ v8 \in {v1.before, Run!State(v1)}
      /\ "raised" \notin v10
      /\ v2 = "second" => v10 # {} /\ (v10 = {"ok"} => v7 = Run!Token(v1))
  BY <1>2, <1>3, <1>6, NothingYet, SMT DEF Publications
<1>8. Conclusions'
  <2>1. v2' \in {"second", "done"} /\ (v1.touched # {} => Run!Pending = {})
    BY <1>1, <1>3, <1>6 DEF Conclusions
  <2>2. /\ v7' = "clean" /\ Involved => Run!Fit
        /\ v8' = "SUCCESSFUL" /\ Involved => Run!Fit \/ v1.before = "SUCCESSFUL"
    BY <1>1, <1>3, <1>6, WritesAreFit, SMT DEF Conclusions
  <2>3. /\ v1'.touched # {} => Run!Pending' = {}
        /\ v7' = "clean" /\ Involved' => Run!Fit'
        /\ v8' = "SUCCESSFUL" /\ Involved' => Run!Fit' \/ v1'.before = "SUCCESSFUL"
    BY <1>1, <2>1, <2>2, SameFit
  <2> QED
    BY <2>1, <2>3, SMT DEF Conclusions
<1>9. Publications'
  <2>1. /\ v7' \in {"none", Run!Token(v1)}
        /\ v8' \in {v1.before, Run!State(v1)}
        /\ v10' # {} /\ "raised" \notin v10'
    BY <1>1, <1>7 DEF Run!WriteResults
  <2>2. /\ v10' = {"ok"} => v8' = Run!State(v1)
        /\ v2' = "done" /\ v10' = {"ok"} => v7' = Run!Token(v1) /\ v9' = Run!Left(v1, {"ok"})
    <3>1. v2' = "done" => v2 = "second"
      BY <1>1, <1>3
    <3>2. v10' = {"ok"} /\ v10 # {} => v10 = {"ok"}
      BY <1>1
    <3> QED
      BY <1>1, <1>7, <3>1, <3>2
  <2>3. v2' = "second" => v1'.touched = {}
    BY <1>1, <1>2
  <2>4. v2' \in {"second", "done"}
    BY <1>1
  <2>5. /\ Run!Token(v1)' = Run!Token(v1) /\ Run!State(v1)' = Run!State(v1)
        /\ Run!Left(v1, {"ok"})' = Run!Left(v1, {"ok"})
    BY <1>1, SameConclusions, Zenon
  <2>6. v1' = v1
    BY <1>1
  <2> QED
    BY <2>1, <2>2, <2>3, <2>4, <2>5, <2>6, SMT DEF Publications
<1> QED
  BY <1>5, <1>8, <1>9 DEF VerdictInv

-----------------------------------------------------------------------------
(* The run is cut short, and another one mends the status *)

LEMMA EndKeepsVerdict ==
    ASSUME VerdictInv,
           \/ Run!Kill
           \/ \E t \in {"transient", "permanent"}, p, c \in BOOLEAN : Run!Raise(t, p, c)
    PROVE  VerdictInv'
<1>1. /\ v1' = v1 /\ v3' = v3 /\ v4' = v4 /\ v5' = v5 /\ v6' = v6
      /\ v2' = "killed" /\ v9' \in {"none", "backoff"}
      /\ v2 # "recovered"
  BY SMT DEF Run!Kill, Run!Raise
<1>2. \/ v7' = v7 /\ v8' = v8 /\ v10' = v10
      \/ /\ v7' \in {v7, "transient", "permanent"} /\ v8' \in {v8, "FAILED"}
         /\ v10' = v10 \cup {"raised"}
  BY SMT DEF Run!Kill, Run!Raise
<1>3. Run!VerdictTypeOK /\ Conclusions /\ Publications
  BY DEF VerdictInv
<1>4. Run!VerdictTypeOK'
  <2>1. v7' \in {v7, "transient", "permanent"} /\ v8' \in {v8, "FAILED"}
        /\ v10' \in {v10, v10 \cup {"raised"}}
    BY <1>2
  <2>2. /\ v7' \in {"none", "clean", "permanent", "blocked", "transient"}
        /\ v8' \in {"none", "INPROGRESS", "FAILED", "SUCCESSFUL"}
        /\ v10' \subseteq {"ok", "permanent", "transient", "skipped", "raised"}
    BY <1>3, <2>1 DEF Run!VerdictTypeOK
  <2> QED
    BY <1>1, <1>3, <2>2, SMT DEF Run!VerdictTypeOK
<1>5. /\ v7' = "clean" => v7 = "clean"
      /\ v8' = "SUCCESSFUL" => v8 = "SUCCESSFUL"
  BY <1>2
<1>6. Conclusions'
  <2>1. /\ v7' = "clean" /\ Involved' => Run!Fit'
        /\ v8' = "SUCCESSFUL" /\ Involved' => Run!Fit' \/ v1'.before = "SUCCESSFUL"
    BY <1>1, <1>3, <1>5, SameFit DEF Conclusions
  <2> QED
    BY <1>1, <2>1, SMT DEF Conclusions
<1>7. Publications'
  <2>1. /\ v10' = {} => v7' = "none"
        /\ \/ v7' \in {"none", Run!Token(v1)}
           \/ "raised" \in v10' /\ v7' \in {"transient", "permanent"}
        /\ \/ v8' \in {v1'.before, Run!State(v1)}
           \/ "raised" \in v10' /\ v8' = "FAILED"
    BY <1>1, <1>2, <1>3 DEF Publications
  <2>2. Run!Token(v1)' = Run!Token(v1) /\ Run!State(v1)' = Run!State(v1)
    BY <1>1, SameConclusions, Zenon
  <2> QED
    BY <1>1, <2>1, <2>2, SMT DEF Publications
<1> QED
  BY <1>4, <1>6, <1>7 DEF VerdictInv

LEMMA RecoverKeepsVerdict ==
    ASSUME VerdictInv, Run!Recover PROVE VerdictInv'
<1>1. /\ v1' = v1 /\ v3' = v3 /\ v4' = v4 /\ v5' = v5 /\ v6' = v6 /\ v7' = v7
      /\ v10' = v10 /\ v2' = "recovered" /\ v9' = "seen"
      /\ v7 \notin {"none", "transient"}
      /\ v8' = Run!Mended(v8, v7)
  BY DEF Run!Recover
<1>2. Run!VerdictTypeOK /\ Conclusions /\ Publications
  BY DEF VerdictInv
<1>3. v8' \in {v8, "FAILED", "SUCCESSFUL"}
  BY <1>1 DEF Run!Mended, Run!StateOf
<1>4. Run!VerdictTypeOK'
  BY <1>1, <1>2, <1>3, SMT DEF Run!VerdictTypeOK
<1>5. v8' = "SUCCESSFUL" => v8 = "SUCCESSFUL" \/ v7 = "clean"
  BY <1>1 DEF Run!Mended, Run!StateOf
<1>6. \/ v8' = Run!State(v1)
      \/ v8' = "FAILED" /\ ("raised" \in v10 \/ v1.before = "FAILED")
  <2>1. /\ \/ v7 = Run!Token(v1)
           \/ "raised" \in v10 /\ v7 = "permanent"
        /\ \/ v8 \in {v1.before, Run!State(v1)}
           \/ "raised" \in v10 /\ v8 = "FAILED"
        /\ v1.before \in {"none", "INPROGRESS", "FAILED", "SUCCESSFUL"}
    BY <1>1, <1>2 DEF Publications, Run!Recover, Run!VerdictTypeOK, Run!PullRequests
  <2>2. Run!Token(v1) = "clean" <=> Run!State(v1) = "SUCCESSFUL"
    BY <1>2, TokenIsState DEF Run!VerdictTypeOK
  <2>3. Run!State(v1) \in {"FAILED", "SUCCESSFUL"}
    BY TokensAre
  <2> QED
    BY <1>1, <2>1, <2>2, <2>3, SMT DEF Run!Mended, Run!StateOf
<1>9. v8' = "SUCCESSFUL" => v7 = "clean"
  BY <1>1 DEF Run!Mended, Run!StateOf
<1>10. /\ v10 # {}
       /\ \/ v7 \in {"none", Run!Token(v1)}
          \/ "raised" \in v10 /\ v7 \in {"transient", "permanent"}
  BY <1>1, <1>2 DEF Publications
<1>7. Conclusions'
  <2>1. /\ v7' = "clean" /\ Involved' => Run!Fit'
        /\ v8' = "SUCCESSFUL" /\ Involved' => Run!Fit' \/ v1'.before = "SUCCESSFUL"
    BY <1>1, <1>2, <1>5, <1>9, SameFit DEF Conclusions
  <2> QED
    BY <1>1, <2>1, SMT DEF Conclusions
<1>8. Publications'
  <2>1. Run!Token(v1)' = Run!Token(v1) /\ Run!State(v1)' = Run!State(v1)
    BY <1>1, SameConclusions, Zenon
  <2> QED
    BY <1>1, <1>6, <1>9, <1>10, <2>1, SMT DEF Publications
<1> QED
  BY <1>4, <1>7, <1>8 DEF VerdictInv

-----------------------------------------------------------------------------
(* The run as a part of the whole *)

InVerdict == part = "verdict" => VerdictInv

LEMMA VerdictKept ==
    ASSUME VerdictInv, Run!VerdictNext PROVE VerdictInv'
<1>1. CASE \E a \in Apps, o \in Run!Outcomes : Run!Result(a, o)
  BY <1>1, ResultKeepsVerdict
<1>2. CASE Run!Supersede \/ Run!Sigterm
  BY <1>2, SignalsKeepVerdict
<1>3. CASE Run!Conclude
  BY <1>3, ConcludeKeepsVerdict
<1>4. CASE \E w \in Run!WriteResults : Run!PublishComment(w)
  BY <1>4, CommentKeepsVerdict
<1>5. CASE \E w \in Run!WriteResults : Run!PublishStatus(w)
  BY <1>5, StatusKeepsVerdict
<1>6. CASE \/ Run!Kill
           \/ \E t \in {"transient", "permanent"}, p, c \in BOOLEAN : Run!Raise(t, p, c)
  BY <1>6, EndKeepsVerdict
<1>7. CASE Run!Recover
  BY <1>7, RecoverKeepsVerdict
<1> QED
  BY <1>1, <1>2, <1>3, <1>4, <1>5, <1>6, <1>7, Zenon DEF Run!VerdictNext

LEMMA VerdictStands ==
    ASSUME VerdictInv, v1' = v1, v2' = v2, v3' = v3, v4' = v4, v5' = v5, v6' = v6,
           v7' = v7, v8' = v8, v9' = v9, v10' = v10
    PROVE  VerdictInv'
<1>1. Run!VerdictTypeOK'
  BY Zenon DEF VerdictInv, Run!VerdictTypeOK
<1>2. Conclusions' /\ Publications'
  BY SameVerdict DEF VerdictInv
<1> QED
  BY <1>1, <1>2 DEF VerdictInv

LEMMA InVerdictAlways == PartsSpec => []InVerdict
<1>1. PartsInit => InVerdict
  BY VerdictStarts DEF PartsInit, InVerdict
<1>2. InVerdict /\ [PartsNext]_all => InVerdict'
  <2> SUFFICES ASSUME InVerdict, [PartsNext]_all, part' = "verdict" PROVE VerdictInv'
    BY DEF InVerdict
  <2>1. part' = part
    BY DEF PartsNext, all
  <2>2. VerdictInv
    BY <2>1 DEF InVerdict
  <2>3. CASE PartsNext
    <3>1. Run!VerdictNext
      BY <2>1, <2>3 DEF PartsNext, FaultsStep, HandoverStep, RepublishStep
    <3> QED
      BY <2>2, <3>1, VerdictKept
  <2>4. CASE UNCHANGED all
    BY <2>2, <2>4, VerdictStands DEF all, slots
  <2> QED
    BY <2>3, <2>4
<1> QED
  BY <1>1, <1>2, PTL DEF PartsSpec

(* One run of process_pr gives one verdict: a green build is either that of  *)
(* an older render or means that every application was rendered and nothing  *)
(* is open, and only the latter once the run has published or another pod    *)
(* has mended the status; the pod tries again exactly when the comment says  *)
(* so; and a mended status is the one the run would have posted, or a red    *)
(* one that stays.  For any applications, any cap, whatever the commit       *)
(* showed before, and however the run was cut short, between its two writes  *)
(* too.                                                                      *)
THEOREM VerdictsAgree == PartsSpec => []VerdictIsOne
<1>1. InVerdict => VerdictIsOne
  <2> SUFFICES ASSUME VerdictInv PROVE Run!VerdictIsOne
    BY DEF InVerdict, VerdictIsOne
  <2>1. Run!VerdictTypeOK /\ Conclusions /\ Publications
    BY DEF VerdictInv
  <2>2. Run!GreenIsComplete
    <3> SUFFICES ASSUME v8 = "SUCCESSFUL", Involved, ~Run!Fit
                 PROVE  /\ v1.before = "SUCCESSFUL" /\ v2 # "recovered"
                        /\ ~(v2 = "done" /\ v10 = {"ok"})
      BY DEF Run!GreenIsComplete, Run!Involved, Involved
    <3>1. v1.before = "SUCCESSFUL" /\ v7 # "clean"
      BY <2>1 DEF Conclusions
    <3>2. v2 # "recovered"
      BY <2>1, <3>1 DEF Publications
    <3>3. ASSUME v2 = "done", v10 = {"ok"} PROVE FALSE
      <4>1. v7 = Run!Token(v1) /\ v8 = Run!State(v1)
        BY <2>1, <3>3 DEF Publications
      <4>2. Run!Token(v1) = "clean"
        BY <2>1, <4>1, TokenIsState DEF Run!VerdictTypeOK
      <4> QED
        BY <3>1, <4>1, <4>2
    <3> QED
      BY <3>1, <3>2, <3>3
  <2>3. Run!RetryMatchesToken
    <3> SUFFICES ASSUME v2 = "done", v10 = {"ok"}
                 PROVE  (v9 = "backoff") = (v7 = "transient")
      BY DEF Run!RetryMatchesToken
    <3>1. v7 = Run!Token(v1) /\ v9 = Run!Left(v1, {"ok"})
      BY <2>1 DEF Publications
    <3>2. Run!Token(v1) = "transient" <=> Run!WillRetry(v1)
      BY <2>1, TokenIsRetry DEF Run!VerdictTypeOK
    <3>3. Run!AfterWrites({"ok"}) = "seen"
      BY DEF Run!AfterWrites
    <3> QED
      BY <3>1, <3>2, <3>3 DEF Run!Left
  <2>4. Run!RecoveryRepeatsTheVerdict
    BY <2>1 DEF Publications, Run!RecoveryRepeatsTheVerdict
  <2> QED
    BY <2>1, <2>2, <2>3, <2>4 DEF Run!VerdictIsOne
<1> QED
  BY <1>1, InVerdictAlways, PTL
====
