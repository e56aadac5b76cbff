-------------------------- MODULE Supersede_proofs --------------------------
(***************************************************************************)
(* Proofs about Supersede, for any pull requests, commits and tips of      *)
(* main, any abort limit and any number of moves.                          *)
(*                                                                         *)
(* The argument for AbortsArePaidFor is a potential: a hint about a PR can *)
(* still cost it two passes while the PR renders, or is about to, and one  *)
(* otherwise (PushDebt); a hint about main can still cost a pass to a PR   *)
(* that this iteration has not checked yet (BaseDebt).                     *)
(***************************************************************************)
EXTENDS Supersede, TLAPS

(* A worker runs on a snapshot that was read and observed *)
Snapshots ==
    /\ pc \in {"observe", "list", "work"} => snapBase \in Tips
    /\ pc \in {"list", "work"} => observed = snapBase
    /\ \A q \in Prs : prPc[q] # "off" => pc = "work" /\ snap[q] \in Commits

(* A webhook that came while the loop was not about to look left its mark *)
Wakes == pc # "read" /\ news => wake

(* The passes the hint about a PR can still cost it *)
PushDebt(q) ==
    IF prHint[q] = None THEN 0
    ELSE IF prPc[q] \in {"base", "render"} THEN 2 ELSE 1

(* The pass the hint about main can still cost it in this iteration *)
BaseDebt(q) ==
    IF /\ baseHint # None
       /\ baseHint.later
       /\ prPc[q] \in {"queued", "base"} \/ pc = "list"
    THEN 1 ELSE 0

(* The webhooks recorded so far cover both *)
Debts == \A q \in Prs : owed[q] >= PushDebt(q) + BaseDebt(q)

-----------------------------------------------------------------------------
(* Type correctness, with the snapshots it depends on *)

Typed == TypeOK /\ Snapshots

LEMMA TypedInit == Init => Typed
<1> SUFFICES ASSUME Init PROVE Typed
  OBVIOUS
<1>1. wake \in BOOLEAN /\ leads \in BOOLEAN /\ news \in BOOLEAN
  BY Zenon DEF Init
<1> QED
  BY SupersedeAssumption, <1>1, SMT
  DEF SupersedeAssumption, Init, Typed, TypeOK, Snapshots

LEMMA TypedStep == Typed /\ [Next]_vars => Typed'
<1> SUFFICES ASSUME Typed, [Next]_vars PROVE Typed'
  OBVIOUS
<1> USE SupersedeAssumption DEF SupersedeAssumption, Typed, TypeOK, Snapshots,
        PushHooks, MergeHooks, bitbucket, hints, iteration, ghosts
<1>1. CASE ReadBase
  <2>1. news' \in BOOLEAN
    BY <1>1, Zenon DEF ReadBase
  <2> QED
    BY <1>1, <2>1, SMT DEF ReadBase
<1>2. CASE Observe
  BY <1>2, SMT DEF Observe
<1>3. CASE ListPrs
  BY <1>3, SMT DEF ListPrs
<1>4. CASE EndIteration
  BY <1>4, SMT DEF EndIteration
<1>5. CASE WaitOver
  BY <1>5, SMT DEF WaitOver
<1>6. CASE ClearWake
  <2>1. wake' \in BOOLEAN
    BY <1>6, Zenon DEF ClearWake
  <2> QED
    BY <1>6, <2>1, SMT DEF ClearWake
<1>7. ASSUME NEW q \in Prs, Arm(q) PROVE Typed'
  BY <1>7, SMT DEF Arm, Leave, Abort
<1>8. ASSUME NEW q \in Prs, CheckBase(q) PROVE Typed'
  BY <1>8, SMT DEF CheckBase, Leave, Abort
<1>9. ASSUME NEW q \in Prs, AbortRender(q) PROVE Typed'
  BY <1>9, SMT DEF AbortRender, Leave, Abort
<1>10. ASSUME NEW q \in Prs, Rendered(q) PROVE Typed'
  BY <1>10, SMT DEF Rendered
<1>11. ASSUME NEW q \in Prs, Publish(q) PROVE Typed'
  BY <1>11, SMT DEF Publish, Leave
<1>12. ASSUME NEW q \in Prs, Push(q) PROVE Typed'
  BY <1>12, SMT DEF Push, Move
<1>13. ASSUME NEW h \in hooks, Wake(h) PROVE Typed'
  BY <1>13, SMT DEF Wake
<1>14. ASSUME NEW h \in handling, RecordHint(h) PROVE Typed'
  <2>1. CASE h \in PushHooks
    BY <1>14, <2>1, SMT DEF RecordHint
  <2>2. CASE h \notin PushHooks
    <3>1. h.sha \in Tips
      BY <2>2
    <3>2. baseHint' = [sha |-> h.sha, later |-> TRUE]
      BY <1>14, <2>2, Zenon DEF RecordHint
    <3>3. baseHint' \in [sha : Tips, later : BOOLEAN]
      BY <3>1, <3>2
    <3> QED
      BY <1>14, <2>2, <3>3, SMT DEF RecordHint
  <2> QED
    BY <2>1, <2>2
<1>15. CASE Advance
  BY <1>15, SMT DEF Advance, Move
<1>16. CASE Handover
  BY <1>16, SMT DEF Handover, Move
<1>17. CASE UNCHANGED vars
  BY <1>17, SMT DEF vars
<1> QED
  BY <1>1, <1>2, <1>3, <1>4, <1>5, <1>6, <1>7, <1>8, <1>9, <1>10, <1>11, <1>12,
     <1>13, <1>14, <1>15, <1>16, <1>17 DEF Next, Loop, Work

(* The commits, hints and stamps a pod keeps are those Bitbucket had: a      *)
(* webhook about a branch is never taken for one about main                  *)
(* (_maybe_record_supersede_hint, _note_base_observed).                      *)
THEOREM TypeCorrect == Spec => []TypeOK
<1>1. Typed => TypeOK
  BY DEF Typed
<1> QED
  BY TypedInit, TypedStep, <1>1, PTL DEF Spec

-----------------------------------------------------------------------------
(* The wake-up *)

LEMMA WakesStep == Wakes /\ [Next]_vars => Wakes'
<1> SUFFICES ASSUME Wakes, [Next]_vars PROVE Wakes'
  OBVIOUS
<1> USE DEF Wakes, bitbucket, hints, iteration, ghosts
<1>1. CASE ReadBase
  BY <1>1, Zenon DEF ReadBase
<1>2. CASE Observe \/ ListPrs \/ EndIteration \/ WaitOver
  <2>1. pc # "read"
    BY <1>2, SMT DEF Observe, ListPrs, EndIteration, WaitOver
  <2>2. UNCHANGED <<wake, news>>
    BY <1>2, Zenon DEF Observe, ListPrs, EndIteration, WaitOver
  <2> QED
    BY <2>1, <2>2, Zenon
<1>3. CASE ClearWake
  BY <1>3, Zenon DEF ClearWake
<1>4. ASSUME NEW q \in Prs, Work(q) \/ Push(q) PROVE Wakes'
  BY <1>4, Zenon DEF Work, Arm, CheckBase, AbortRender, Rendered, Publish, Push
<1>5. ASSUME NEW h, Wake(h) \/ RecordHint(h) PROVE Wakes'
  BY <1>5, Zenon DEF Wake, RecordHint
<1>6. CASE Advance \/ Handover \/ UNCHANGED vars
  BY <1>6, Zenon DEF Advance, Handover, vars
<1> QED
  BY <1>1, <1>2, <1>3, <1>4, <1>5, <1>6, Zenon DEF Next, Loop

(* A webhook that no iteration has looked for yet ends the wait of the loop  *)
(* at once (main: the event is cleared after the wait, never before it).     *)
THEOREM WakesAreKept == Spec => []NoWakeLost
<1>1. Init => Wakes
  BY Zenon DEF Init, Wakes
<1>2. Wakes => NoWakeLost
  BY SMT DEF Wakes, NoWakeLost
<1> QED
  BY WakesStep, <1>1, <1>2, PTL DEF Spec

-----------------------------------------------------------------------------
(* The price of a webhook *)

LEMMA DebtsStep == Typed /\ Debts /\ [Next]_vars => Debts'
<1> SUFFICES ASSUME Typed, Debts, [Next]_vars PROVE Debts'
  OBVIOUS
<1> USE SupersedeAssumption DEF SupersedeAssumption, Typed, TypeOK, Snapshots,
        Debts, PushDebt, BaseDebt, PushHooks, MergeHooks,
        bitbucket, hints, iteration, ghosts
<1>1. CASE ReadBase
  BY <1>1, SMT DEF ReadBase
<1>2. CASE Observe
  BY <1>2, SMT DEF Observe
<1>3. CASE ListPrs
  BY <1>3, SMT DEF ListPrs
<1>4. CASE EndIteration
  BY <1>4, SMT DEF EndIteration
<1>5. CASE WaitOver
  BY <1>5, SMT DEF WaitOver
<1>6. CASE ClearWake
  BY <1>6, SMT DEF ClearWake
<1>7. ASSUME NEW q \in Prs, Arm(q) PROVE Debts'
  BY <1>7, SMT DEF Arm, Leave, Abort
<1>8. ASSUME NEW q \in Prs, CheckBase(q) PROVE Debts'
  BY <1>8, SMT DEF CheckBase, Leave, Abort, BaseSuperseded
<1>9. ASSUME NEW q \in Prs, AbortRender(q) PROVE Debts'
  BY <1>9, SMT DEF AbortRender, Leave, Abort, Superseded
<1>10. ASSUME NEW q \in Prs, Rendered(q) PROVE Debts'
  BY <1>10, SMT DEF Rendered
<1>11. ASSUME NEW q \in Prs, Publish(q) PROVE Debts'
  BY <1>11, SMT DEF Publish, Leave
<1>12. ASSUME NEW q \in Prs, Push(q) PROVE Debts'
  BY <1>12, SMT DEF Push
<1>13. ASSUME NEW h \in hooks, Wake(h) PROVE Debts'
  BY <1>13, SMT DEF Wake
<1>14. ASSUME NEW h \in handling, RecordHint(h) PROVE Debts'
  BY <1>14, SMT DEF RecordHint
<1>15. CASE Advance
  BY <1>15, SMT DEF Advance
<1>16. CASE Handover
  BY <1>16, SMT DEF Handover
<1>17. CASE UNCHANGED vars
  BY <1>17, SMT DEF vars
<1> QED
  BY <1>1, <1>2, <1>3, <1>4, <1>5, <1>6, <1>7, <1>8, <1>9, <1>10, <1>11, <1>12,
     <1>13, <1>14, <1>15, <1>16, <1>17 DEF Next, Loop, Work

(* However late, stale or reordered they are, a webhook about a push costs   *)
(* its PR at most two passes and one about a merge costs each PR at most one *)
(* (_arm_supersede, _superseded, _base_superseded_by).                       *)
THEOREM WebhooksPayForAborts == Spec => []AbortsArePaidFor
<1>1. Init => Typed /\ Debts
  BY TypedInit, SMT DEF Init, Debts, PushDebt, BaseDebt
<1>2. Typed /\ Debts => AbortsArePaidFor
  BY SMT DEF Typed, TypeOK, Debts, PushDebt, BaseDebt, AbortsArePaidFor
<1> QED
  BY TypedStep, DebtsStep, <1>1, <1>2, PTL DEF Spec
=============================================================================
