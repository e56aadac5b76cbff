-------------------------- MODULE Services_proofs ---------------------------
(***************************************************************************)
(* Proofs about Services, for every value of the constants.                *)
(*                                                                         *)
(* The parts share no state, so each has an inductive invariant of its     *)
(* own, stated in its module (GateInv, FilesInv, CommentsInv, MapsInv,     *)
(* PodInv, HookInv, CacheInv) or, for the pages, in ArtifactStore_proofs   *)
(* (IInv).  For each part: that a step of the services in this part is a   *)
(* step of it (...Go), that it starts in its invariant (...Start), that    *)
(* its steps keep it (...Kept), and what follows of the part's properties. *)
(***************************************************************************)
EXTENDS Services, ArtifactStore_proofs, FiniteSetTheorems, SequenceTheorems,
        WellFoundedInduction, TLAPS

-----------------------------------------------------------------------------
(* The rate gate: RateGate *)

LEMMA GateGo ==
    ASSUME part = "gate", [ServicesNext]_all
    PROVE  [Gate!GateNext]_(Gate!gateVars)
  BY DEF ServicesNext, SlotStep, all, slots, Gate!gateVars

(* The attempts of the calls that are made *)
LEMMA AttemptTyped ==
    ASSUME NEW c \in Gate!Calls, NEW n \in 0 .. GateTries - 1
    PROVE  /\ Gate!Attempt(c, n) \in Gate!Calls
           /\ Gate!Attempt(c, n).pc \in {"gate", "queue"}
           /\ Gate!Attempt(c, n).pc = "queue" => Gate!Attempt(c, n).kind \notin Gate!Bitbucket
<1> DEFINE pc == IF c.kind \in Gate!Bitbucket THEN "gate" ELSE "queue"
<1>1. pc \in {"gate", "queue"} /\ (pc = "queue" => c.kind \notin Gate!Bitbucket)
  OBVIOUS
<1>2. Gate!Attempt(c, n) = [c EXCEPT !.pc = pc, !.n = n, !.slices = Slices, !.left = 0]
  BY Zenon DEF Gate!Attempt
<1>3. Slices \in 0 .. Slices /\ 0 \in Nat
  BY GateAssumption
<1>4. pc \in {"idle", "gate", "nap", "queue", "sent", "sleep"}
  BY <1>1
<1> DEFINE new == [c EXCEPT !.pc = pc, !.n = n, !.slices = Slices, !.left = 0]
<1> HIDE DEF pc
<1>5. new \in Gate!Calls /\ new.pc = pc /\ new.kind = c.kind
  BY <1>3, <1>4 DEF Gate!Calls
<1> HIDE DEF new
<1>6. Gate!Attempt(c, n) = new
  BY <1>2 DEF new
<1> QED
  BY <1>1, <1>5, <1>6

LEMMA NoCallTyped == Gate!NoCall \in Gate!Calls /\ Gate!NoCall.pc = "idle"
<1>1. GateTries \in Nat /\ Slices \in Nat
  BY GateAssumption
<1>2. GateTries # 0
  BY GateAssumption
<1>3. 0 \in 0 .. GateTries - 1 /\ 0 \in 0 .. Slices /\ 0 \in Nat
  BY <1>1, <1>2
<1>4. "none" \in Kinds \cup {"none"} /\ FALSE \in BOOLEAN
  OBVIOUS
<1> QED
  BY <1>3, <1>4 DEF Gate!NoCall, Gate!Calls

LEMMA PauseTyped ==
    ASSUME NEW hint \in Hints \cup {-1} PROVE Gate!Pause(hint) \in 0 .. MaxPause
  BY GateAssumption DEF Gate!Pause, Gate!NoHint, Gate!MinOf

LEMMA BackoffTyped ==
    ASSUME NEW kind, NEW n \in 0 .. GateTries - 1, NEW hint \in Hints \cup {-1}
    PROVE  Gate!Backoff(kind, n, hint) \in Nat
<1>1. 2 ^ n \in Nat
  BY PowersOfTwo, GateAssumption
<1> DEFINE p == 2 ^ n
<1>2. p \in Nat
  BY <1>1
<1> HIDE DEF p
<1>3. Gate!Backoff(kind, n, hint) = IF kind = "file" THEN (n + 1) * 2
        ELSE IF hint = -1 THEN p ELSE Gate!MaxOf(p, Gate!MinOf(hint, 60))
  BY DEF Gate!Backoff, Gate!NoHint, p
<1> QED
  BY <1>2, <1>3, GateAssumption DEF Gate!MaxOf, Gate!MinOf

(* A step of one call that publishes no pause *)
LEMMA CallKept ==
    ASSUME Gate!GateInv, NEW t \in Callers, NEW c \in Gate!Calls,
           s2' = [s2 EXCEPT ![t] = c], UNCHANGED <<s1, s3>>,
           c.pc = "sleep" => c.n < GateTries - 1,
           c.pc = "queue" /\ c.kind \in Gate!Bitbucket =>
               s3 = 0 \/ c.stale \/ Gate!OutOfSlices(c)
    PROVE  Gate!GateInv'
<1> USE DEF Gate!GateInv, Gate!GateTypeOK
<1>1. Gate!GateTypeOK' /\ Gate!HoldCovers' /\ Gate!SleepsBeforeLast'
  BY DEF Gate!HoldCovers, Gate!SleepsBeforeLast
<1>2. Gate!PassedRightly'
  BY Zenon DEF Gate!PassedRightly, Gate!OutOfSlices
<1> QED
  BY <1>1, <1>2

LEMMA GateKept == Gate!GateInv /\ [Gate!GateNext]_(Gate!gateVars) => Gate!GateInv'
<1> SUFFICES ASSUME Gate!GateInv, [Gate!GateNext]_(Gate!gateVars) PROVE Gate!GateInv'
  OBVIOUS
<1>0. /\ s1 \in 0 .. MaxPause /\ s3 \in 0 .. MaxPause /\ s2 \in [Callers -> Gate!Calls]
      /\ s3 <= s1
  BY DEF Gate!GateInv, Gate!GateTypeOK, Gate!HoldCovers
<1>1. ASSUME NEW t \in Callers, NEW kind \in Kinds, Gate!Begin(t, kind) PROVE Gate!GateInv'
  <2> DEFINE c == [Gate!NoCall EXCEPT !.kind = kind]
  <2>1. c \in Gate!Calls /\ 0 \in 0 .. GateTries - 1
    BY GateAssumption, NoCallTyped DEF Gate!Calls
  <2> HIDE DEF c
  <2>2. s2' = [s2 EXCEPT ![t] = Gate!Attempt(c, 0)] /\ UNCHANGED <<s1, s3>>
    BY <1>1 DEF Gate!Begin, c
  <2> QED
    BY <2>1, <2>2, AttemptTyped, CallKept
<1>2. ASSUME NEW t \in Callers, Gate!Look(t) PROVE Gate!GateInv'
  <2> DEFINE c == s2[t]
  <2>1. c \in Gate!Calls /\ c.pc = "gate" /\ UNCHANGED <<s1, s3>>
    BY <1>0, <1>2 DEF Gate!Look
  <2>2. CASE Gate!OutOfSlices(c)
    <3> DEFINE d == [c EXCEPT !.pc = "queue"]
    <3>1. d \in Gate!Calls /\ d.pc = "queue" /\ Gate!OutOfSlices(d)
      BY <2>1, <2>2 DEF Gate!Calls, Gate!OutOfSlices
    <3>2. s2' = [s2 EXCEPT ![t] = d]
      BY <1>2, <2>2, Zenon DEF Gate!Look
    <3> HIDE DEF d
    <3> QED
      BY <2>1, <3>1, <3>2, CallKept
  <2>3. CASE ~Gate!OutOfSlices(c) /\ s1 = 0
    <3> DEFINE d == [c EXCEPT !.pc = "queue", !.stale = FALSE]
    <3>0. s3 = 0
      BY <1>0, <2>3
    <3>1. d \in Gate!Calls /\ d.pc = "queue"
      BY <2>1 DEF Gate!Calls
    <3>2. s2' = [s2 EXCEPT ![t] = d]
      BY <1>2, <2>3, Zenon DEF Gate!Look
    <3> HIDE DEF d
    <3> QED
      BY <2>1, <3>0, <3>1, <3>2, CallKept
  <2>4. CASE ~Gate!OutOfSlices(c) /\ s1 # 0
    <3> DEFINE d == [c EXCEPT !.pc = "nap", !.left = Gate!MinOf(s1, MaxPause),
                              !.slices = Gate!Less(c.slices)]
    <3>0. /\ Gate!MinOf(s1, MaxPause) \in Nat /\ c.slices \in 0 .. Slices
          /\ Gate!Less(c.slices) \in 0 .. Slices
      BY <1>0, <2>1, GateAssumption DEF Gate!Calls, Gate!MinOf, Gate!Less
    <3>1. d \in Gate!Calls /\ d.pc = "nap"
      BY <2>1, <3>0 DEF Gate!Calls
    <3>2. s2' = [s2 EXCEPT ![t] = d]
      BY <1>2, <2>4, Zenon DEF Gate!Look
    <3> HIDE DEF d
    <3> QED
      BY <2>1, <3>1, <3>2, CallKept
  <2> QED
    BY <2>2, <2>3, <2>4, Zenon
<1>3. ASSUME NEW t \in Callers, Gate!WakeUp(t) PROVE Gate!GateInv'
  <2> DEFINE c == s2[t]
  <2>1. c \in Gate!Calls /\ UNCHANGED <<s1, s3>>
    BY <1>0, <1>3 DEF Gate!WakeUp
  <2>2. CASE c.pc = "nap"
    <3> DEFINE d == [c EXCEPT !.pc = "gate"]
    <3>1. d \in Gate!Calls /\ d.pc = "gate"
      BY <2>1 DEF Gate!Calls
    <3>2. s2' = [s2 EXCEPT ![t] = d]
      BY <1>3, <2>2, Zenon DEF Gate!WakeUp
    <3> HIDE DEF d
    <3> QED
      BY <2>1, <3>1, <3>2, CallKept
  <2>3. CASE c.pc = "sleep"
    <3>1. c.n + 1 \in 0 .. GateTries - 1
      BY <2>1, <2>3, GateAssumption DEF Gate!GateInv, Gate!SleepsBeforeLast, Gate!Calls
    <3> DEFINE d == Gate!Attempt(c, c.n + 1)
    <3>2. s2' = [s2 EXCEPT ![t] = d]
      BY <1>3, <2>3 DEF Gate!WakeUp
    <3>3. d \in Gate!Calls /\ d.pc # "sleep" /\ (d.pc = "queue" => d.kind \notin Gate!Bitbucket)
      BY <2>1, <3>1, AttemptTyped
    <3> HIDE DEF d
    <3> QED
      BY <2>1, <3>2, <3>3, CallKept
  <2> QED
    BY <1>3, <2>2, <2>3 DEF Gate!WakeUp
<1>4. ASSUME NEW t \in Callers, Gate!Send(t) PROVE Gate!GateInv'
  <2> DEFINE d == [s2[t] EXCEPT !.pc = "sent", !.stale = FALSE]
  <2>1. d \in Gate!Calls /\ d.pc = "sent"
    BY <1>0 DEF Gate!Calls
  <2>2. s2' = [s2 EXCEPT ![t] = d] /\ UNCHANGED <<s1, s3>>
    BY <1>4, Zenon DEF Gate!Send
  <2> HIDE DEF d
  <2> QED
    BY <2>1, <2>2, CallKept
<1>5. ASSUME NEW t \in Callers, NEW answer \in Gate!Answers, NEW hint \in Hints \cup {-1},
             Gate!Answer(t, answer, hint)
      PROVE  Gate!GateInv'
  <2> DEFINE c == s2[t]
             retried == answer \in {"limited", "broken", "network"} /\ c.n < GateTries - 1
             published == retried /\ answer = "limited" /\ c.kind \in Gate!Bitbucket
  <2>1. c \in Gate!Calls /\ c.n \in 0 .. GateTries - 1
    BY <1>0 DEF Gate!Calls
  <2>2. CASE ~published
    <3>1. UNCHANGED <<s1, s3>>
      BY <1>5, <2>2, Zenon DEF Gate!Answer
    <3>2. CASE retried
      <4> DEFINE d == [c EXCEPT !.pc = "sleep", !.left = Gate!Backoff(c.kind, c.n, hint)]
      <4>1. Gate!Backoff(c.kind, c.n, hint) \in Nat
        BY <2>1, BackoffTyped
      <4>2. d \in Gate!Calls /\ d.pc = "sleep" /\ d.n < GateTries - 1
        BY <2>1, <3>2, <4>1 DEF Gate!Calls
      <4>3. s2' = [s2 EXCEPT ![t] = d]
        BY <1>5, <2>2, <3>2, Zenon DEF Gate!Answer
      <4> HIDE DEF d
      <4> QED
        BY <3>1, <4>2, <4>3, CallKept
    <3>3. CASE ~retried
      <4>1. s2' = [s2 EXCEPT ![t] = Gate!NoCall]
        BY <1>5, <2>2, <3>3, Zenon DEF Gate!Answer
      <4> QED
        BY <3>1, <4>1, NoCallTyped, CallKept
    <3> QED
      BY <3>2, <3>3, Zenon
  <2>3. CASE published
    <3> DEFINE p == Gate!Pause(hint)
               d == Gate!Attempt(c, c.n + 1)
    <3>1. /\ s1' = Gate!MaxOf(s1, p) /\ s3' = Gate!MaxOf(s3, p)
          /\ s2' = [u \in Callers |-> IF u = t THEN d
                                      ELSE [s2[u] EXCEPT !.stale = s2[u].pc = "queue"]]
      BY <1>5, <2>3, Zenon DEF Gate!Answer, Gate!Hold
    <3>2. p \in 0 .. MaxPause
      BY PauseTyped
    <3>3. d \in Gate!Calls /\ d.pc \in {"gate", "queue"}
          /\ (d.pc = "queue" => d.kind \notin Gate!Bitbucket)
      <4>1. c.n + 1 \in 0 .. GateTries - 1
        BY <2>1, <2>3, GateAssumption
      <4> HIDE DEF c
      <4> QED
        BY <2>1, <4>1, AttemptTyped
    <3> HIDE DEF p, d
    <3>4. ASSUME NEW u \in Callers, u # t
          PROVE  /\ s2'[u] \in Gate!Calls /\ s2'[u].pc = s2[u].pc /\ s2'[u].n = s2[u].n
                 /\ s2[u].pc = "queue" => s2'[u].stale
      BY <1>0, <3>1, <3>4 DEF Gate!Calls
    <3>5. s1' \in 0 .. MaxPause /\ s3' \in 0 .. MaxPause /\ s3' <= s1'
      BY <1>0, <3>1, <3>2 DEF Gate!MaxOf
    <3>6. Gate!GateTypeOK' /\ Gate!HoldCovers'
      BY <3>1, <3>3, <3>4, <3>5 DEF Gate!GateTypeOK, Gate!HoldCovers
    <3>7. s2'[t] = d
      BY <3>1
    <3>8. Gate!SleepsBeforeLast'
      BY <3>3, <3>4, <3>7 DEF Gate!GateInv, Gate!SleepsBeforeLast
    <3>9. Gate!PassedRightly'
      BY <3>3, <3>4, <3>7 DEF Gate!PassedRightly
    <3> QED
      BY <3>6, <3>8, <3>9 DEF Gate!GateInv
  <2> QED
    BY <2>2, <2>3, Zenon
<1>6. CASE Gate!Tick
  <2>1. /\ s1' = Gate!Less(s1) /\ s3' = Gate!Less(s3)
        /\ s2' = [t \in Callers |-> [s2[t] EXCEPT !.left = Gate!Less(s2[t].left)]]
    BY <1>6 DEF Gate!Tick
  <2>2. s1' \in 0 .. MaxPause /\ s3' \in 0 .. MaxPause /\ s3' <= s1' /\ (s3 = 0 => s3' = 0)
    BY <1>0, <2>1, GateAssumption DEF Gate!Less
  <2>3. ASSUME NEW t \in Callers
        PROVE  /\ s2'[t] \in Gate!Calls /\ s2'[t].pc = s2[t].pc /\ s2'[t].n = s2[t].n
               /\ s2'[t].kind = s2[t].kind /\ s2'[t].stale = s2[t].stale
               /\ s2'[t].slices = s2[t].slices
    <3>1. Gate!Less(s2[t].left) \in Nat
      BY <1>0 DEF Gate!Calls, Gate!Less
    <3> QED
      BY <1>0, <2>1, <3>1 DEF Gate!Calls
  <2>4. Gate!GateTypeOK' /\ Gate!HoldCovers' /\ Gate!SleepsBeforeLast'
    BY <2>1, <2>2, <2>3 DEF Gate!GateInv, Gate!GateTypeOK, Gate!HoldCovers, Gate!SleepsBeforeLast
  <2>5. Gate!PassedRightly'
    BY <2>2, <2>3, Zenon DEF Gate!GateInv, Gate!PassedRightly, Gate!OutOfSlices
  <2> QED
    BY <2>4, <2>5 DEF Gate!GateInv
<1>7. CASE UNCHANGED Gate!gateVars
  <2>1. s1' = s1 /\ s2' = s2 /\ s3' = s3
    BY <1>7 DEF Gate!gateVars
  <2> QED
    BY <2>1, Zenon DEF Gate!GateInv, Gate!GateTypeOK, Gate!HoldCovers, Gate!SleepsBeforeLast,
       Gate!PassedRightly, Gate!OutOfSlices
<1> QED
  BY <1>1, <1>2, <1>3, <1>4, <1>5, <1>6, <1>7, Zenon DEF Gate!GateNext, Gate!NoHint

LEMMA GateStart == ServicesInit /\ part = "gate" => Gate!GateInv
<1> SUFFICES ASSUME Gate!GateInit PROVE Gate!GateInv
  BY DEF ServicesInit
<1> QED
  BY GateAssumption, NoCallTyped DEF Gate!GateInit, Gate!GateInv, Gate!GateTypeOK,
     Gate!HoldCovers, Gate!SleepsBeforeLast, Gate!PassedRightly

(* No call goes out in a pause that some 429 announced, unless the pause    *)
(* was published after the call looked, or its slices of waiting were used   *)
(* up (_bb_ratelimit_wait)                                                   *)
THEOREM AllBrake == ServicesSpec => BrakesTogether
<1> DEFINE I == part = "gate" => Gate!GateInv
<1>1. ServicesInit => I
  BY GateStart
<1>2. I /\ [ServicesNext]_all => I'
  <2> SUFFICES ASSUME I, [ServicesNext]_all, (part = "gate")' PROVE Gate!GateInv'
    OBVIOUS
  <2>1. part = "gate"
    BY DEF ServicesNext, all
  <2> QED
    BY <2>1, GateGo, GateKept
<1>3. I /\ [ServicesNext]_all => [part = "gate" => Gate!BrakesTogether]_slots
  <2> SUFFICES ASSUME I, part = "gate", [ServicesNext]_all PROVE Gate!BrakesTogether
    OBVIOUS
  <2>1. Gate!PassedRightly
    BY DEF Gate!GateInv
  <2> QED
    BY <2>1, Zenon DEF Gate!BrakesTogether, Gate!PassedRightly
<1> QED
  BY <1>1, <1>2, <1>3, PTL DEF ServicesSpec, BrakesTogether

-----------------------------------------------------------------------------
(* The value files: FileReads *)

LEMMA FilesGo ==
    ASSUME part = "files", [ServicesNext]_all
    PROVE  part' = "files" /\ [Files!FilesNext]_(Files!fileVars)
  BY DEF ServicesNext, SlotStep, all, slots, Files!fileVars

LEMMA FilesStart == ServicesInit /\ part = "files" => Files!FilesInv
<1> SUFFICES ASSUME Files!FilesInit PROVE Files!FilesInv
  BY DEF ServicesInit
<1> QED
  BY FilesAssumption DEF ServicesInit, Files!FilesInit, Files!FilesInv, Files!FilesTypeOK,
     Files!CacheIsTrue, Files!FetchedIsTrue, Files!Facts, Files!Statuses, Files!Unread

(* Who hands out what may stand for the file, or an error, guesses nothing, *)
(* and what could stand for a file before still can                         *)
LEMMA HandKept ==
    ASSUME Files!FilesInv, NEW r \in Readers,
           NEW status \in {"content", "absent", "error"},
           \/ status = "error"
           \/ status = s2[KeyOf[r]]
           \/ status = "absent" /\ KeyOf[r] \in s9',
           Files!Hand(r, status),
           s9 \subseteq s9', s9' \subseteq Keys,
           UNCHANGED <<s1, s2, s3, s4, s5, s6, s7>>
    PROVE  Files!FilesInv'
<1> USE FilesAssumption DEF Files!FilesInv, Files!FilesTypeOK, Files!Facts, Files!Statuses
<1>1. status \in Files!Statuses
  OBVIOUS
<1>2. PICK pc \in {"store", "done"} : s8' = [s8 EXCEPT ![r].pc = pc, ![r].got = status]
  BY Zenon DEF Files!Hand, Files!Ends
<1>3. Files!FilesTypeOK'
  BY <1>1, <1>2
<1>4. Files!CacheIsTrue' /\ Files!FetchedIsTrue'
  BY <1>2 DEF Files!CacheIsTrue, Files!FetchedIsTrue, Files!Right
<1> QED
  BY <1>3, <1>4

LEMMA FilesKept == Files!FilesInv /\ [Files!FilesNext]_(Files!fileVars) => Files!FilesInv'
<1> SUFFICES ASSUME Files!FilesInv, [Files!FilesNext]_(Files!fileVars) PROVE Files!FilesInv'
  OBVIOUS
<1> USE FilesAssumption DEF Files!FilesInv, Files!FilesTypeOK, Files!CacheIsTrue,
    Files!FetchedIsTrue, Files!Right, Files!Facts, Files!Statuses, Files!world, Files!single,
    Files!mirror
<1>1. CASE UNCHANGED Files!fileVars
  BY <1>1 DEF Files!fileVars
<1>2. CASE Files!BeginSync \/ Files!Arrive
  BY <1>2 DEF Files!BeginSync, Files!Arrive
<1>3. ASSUME NEW ok \in BOOLEAN, Files!EndSync(ok) PROVE Files!FilesInv'
  BY <1>3 DEF Files!EndSync, Files!AfterFetch
<1>4. ASSUME NEW r \in Readers PROVE
        /\ Files!Claim(r) => Files!FilesInv'
        /\ Files!Follow(r) => Files!FilesInv'
        /\ Files!Store(r) => Files!FilesInv'
  <2> USE <1>4
  <2>1. CASE Files!Claim(r)
    BY <2>1 DEF Files!Claim, Files!Ends, Files!To
  <2>2. CASE Files!Follow(r)
    BY <2>2 DEF Files!Follow, Files!Unanswered, Files!Ends, Files!To
  <2>3. CASE Files!Store(r)
    BY <2>3 DEF Files!Store, Files!Landing, Files!To
  <2> QED
    BY <2>1, <2>2, <2>3
<1>5. ASSUME NEW r \in Readers PROVE
        /\ Files!LookIndex(r) => Files!FilesInv'
        /\ Files!Probe(r) => Files!FilesInv'
        /\ Files!NoteIndex(r) => Files!FilesInv'
        /\ Files!ReadBlob(r) => Files!FilesInv'
        /\ Files!AskApi(r) => Files!FilesInv'
  <2> USE <1>5
  <2>1. CASE Files!LookIndex(r)
    BY <2>1 DEF Files!LookIndex, Files!To
  <2>2. CASE Files!Probe(r)
    BY <2>2 DEF Files!Probe
  <2>3. CASE Files!NoteIndex(r)
    <3>1. s4' \in {"unknown", "present", "missing"} /\ UNCHANGED <<s1, s2, s3, s5, s6, s7, s9>>
      BY <2>3 DEF Files!NoteIndex
    <3>2. PICK pc \in {"blob", "api"} :
             s8' = [s8 EXCEPT ![r].pc = pc, ![r].seen = FALSE]
      BY <2>3, Zenon DEF Files!NoteIndex
    <3>3. Files!FilesTypeOK'
      BY <3>1, <3>2
    <3>4. Files!CacheIsTrue' /\ Files!FetchedIsTrue'
      BY <3>1, <3>2
    <3> QED
      BY <3>3, <3>4
  <2>4. CASE Files!ReadBlob(r)
    <3>1. UNCHANGED <<s1, s2, s3, s4, s5, s6, s7>>
      BY <2>4 DEF Files!ReadBlob
    <3>2. CASE Files!To(r, "api") /\ UNCHANGED s9
      BY <2>4, <3>1, <3>2 DEF Files!To
    <3>3. CASE Files!Hand(r, s2[KeyOf[r]]) /\ UNCHANGED s9
      BY <3>1, <3>3, HandKept
    <3>4. CASE Files!GitFails(r)
      <4>1. /\ s9' = IF s2[KeyOf[r]] = "absent" THEN s9 ELSE s9 \cup {KeyOf[r]}
            /\ Files!Hand(r, "absent")
        BY <3>4, Zenon DEF Files!GitFails
      <4> QED
        BY <3>1, <4>1, HandKept
    <3> QED
      BY <2>4, <3>2, <3>3, <3>4, Zenon DEF Files!ReadBlob
  <2>5. CASE Files!AskApi(r)
    BY <2>5, HandKept DEF Files!AskApi, Files!ApiStatus
  <2> QED
    BY <2>1, <2>2, <2>3, <2>4, <2>5
<1> QED
  BY <1>1, <1>2, <1>3, <1>4, <1>5, Zenon DEF Files!FilesNext

(* No file's fate is guessed, unless git failed to read it (_fetch_value_files) *)
THEOREM FilesNeverGuessed == ServicesSpec => []NothingGuessed
<1> DEFINE I == part = "files" => Files!FilesInv
<1>1. ServicesInit => I
  BY FilesStart
<1>2. I /\ [ServicesNext]_all => I'
  <2> SUFFICES ASSUME I, [ServicesNext]_all, (part = "files")' PROVE Files!FilesInv'
    OBVIOUS
  <2>1. part = "files"
    BY DEF ServicesNext, all
  <2> QED
    BY <2>1, FilesGo, FilesKept
<1>3. I => NothingGuessed
  BY DEF NothingGuessed, Files!NothingGuessed, Files!FilesInv, Files!FetchedIsTrue
<1> QED
  BY <1>1, <1>2, <1>3, PTL DEF ServicesSpec

-----------------------------------------------------------------------------
(* The path maps: PathMap *)

LEMMA MapsGo ==
    ASSUME part = "maps", [ServicesNext]_all
    PROVE  [Maps!MapsNext]_(Maps!mapVars)
  BY DEF ServicesNext, SlotStep, all, slots, Maps!mapVars

Pcs == {"idle", "check", "lock", "list", "bind", "use", "revision", "project"}

LEMMA OrderFacts ==
    /\ Len(Maps!Order) = 6
    /\ \A i \in 1 .. 5 : Maps!Order[i] \in Maps!Globals /\ Maps!Order[i] # "ts"
    /\ \A g \in Maps!Globals : \E i \in 1 .. 5 : Maps!Order[i] = g
    /\ \A i, j \in 1 .. 6 : Maps!Order[i] = Maps!Order[j] => i = j
    /\ Maps!Order[6] = "ts"
  BY DEF Maps!Order, Maps!Globals

LEMMA FleetListed == Maps!Generations \subseteq Nat /\ 1 \in Maps!Generations
  BY MapsAssumption DEF Maps!Generations

LEMMA OffPlace ==
    /\ Maps!Off \in Maps!Places
    /\ Maps!Off.pc = "idle" /\ ~Maps!Off.refreshed
<1>1. Len(Maps!Order) = 6
  BY OrderFacts
<1> QED
  BY <1>1 DEF Maps!Off, Maps!Places

LEMMA MapsStart == ServicesInit /\ part = "maps" => Maps!MapsInv
<1> SUFFICES ASSUME Maps!MapsInit PROVE Maps!MapsInv
  BY DEF ServicesInit
<1> USE MapsAssumption, FleetListed DEF Maps!MapsInit, Maps!Off, Maps!Threads
<1>1. Maps!MapsTypeOK
  <2>1. s5 \in [Maps!Threads -> Maps!Places]
    BY OffPlace, Zenon DEF Maps!MapsInit
  <2>2. s1 = 1 /\ s6 = 0 /\ s4 = Maps!Nobody /\ s2 = [g \in Maps!Globals |-> 1] /\ s3 = TRUE
    BY Zenon DEF Maps!MapsInit
  <2> QED
    BY <2>1, <2>2 DEF Maps!MapsTypeOK, Maps!Generations, Maps!Nobody
<1>2. Maps!OneRebuilds /\ Maps!StaleMeanwhile /\ Maps!SparedProd
  BY DEF Maps!OneRebuilds, Maps!StaleMeanwhile, Maps!SparedProd, Maps!Rebuilding, Maps!Nobody
<1>3. Maps!BoundSoFar /\ Maps!WholeBetween
  BY DEF Maps!BoundSoFar, Maps!WholeBetween
<1> QED
  BY <1>1, <1>2, <1>3 DEF Maps!MapsInv

LEMMA AtPlace ==
    ASSUME NEW th \in Maps!Places, NEW pc \in Pcs
    PROVE  /\ [th EXCEPT !.pc = pc] \in Maps!Places
           /\ [th EXCEPT !.pc = pc].pc = pc
           /\ [th EXCEPT !.pc = pc].refreshed = th.refreshed
           /\ [th EXCEPT !.pc = pc].project = th.project
  BY DEF Maps!Places, Pcs

Binding(th, pc, n) == [th EXCEPT !.pc = pc, !.n = n]

LEMMA BindingPlace ==
    ASSUME NEW th \in Maps!Places, NEW pc \in Pcs, NEW n \in 1 .. 7
    PROVE  /\ Binding(th, pc, n) \in Maps!Places
           /\ Binding(th, pc, n).pc = pc /\ Binding(th, pc, n).n = n
           /\ Binding(th, pc, n).listed = th.listed
           /\ Binding(th, pc, n).refreshed = th.refreshed
           /\ Binding(th, pc, n).project = th.project
<1>1. 1 .. Len(Maps!Order) + 1 = 1 .. 7
  BY OrderFacts
<1> QED
  BY <1>1 DEF Maps!Places, Pcs, Binding

LEMMA ListedPlace ==
    ASSUME NEW th \in Maps!Places, NEW g \in Maps!Generations
    PROVE  LET new == [th EXCEPT !.pc = "bind", !.listed = g, !.n = 1] IN
           /\ new \in Maps!Places /\ new.pc = "bind" /\ new.listed = g /\ new.n = 1
           /\ new.refreshed = th.refreshed /\ new.project = th.project
<1>1. [th EXCEPT !.listed = g] \in Maps!Places
  BY DEF Maps!Places
<1>2. 1 \in 1 .. 7 /\ "bind" \in Pcs
  BY DEF Pcs
<1>3. [[th EXCEPT !.listed = g] EXCEPT !.pc = "bind", !.n = 1] \in Maps!Places
  BY <1>1, <1>2, BindingPlace DEF Binding
<1>4. [[th EXCEPT !.listed = g] EXCEPT !.pc = "bind", !.n = 1]
       = [th EXCEPT !.pc = "bind", !.listed = g, !.n = 1]
  BY DEF Maps!Places
<1> DEFINE new == [th EXCEPT !.pc = "bind", !.listed = g, !.n = 1]
<1>6. /\ new.pc = "bind" /\ new.listed = g /\ new.n = 1
      /\ new.refreshed = th.refreshed /\ new.project = th.project
  BY DEF Maps!Places
<1> QED
  BY <1>3, <1>4, <1>6

(* A thread that goes on outside a rebuild disturbs none *)
LEMMA OutsideKept ==
    ASSUME Maps!MapsInv, NEW t \in Maps!Threads, NEW th \in Maps!Places,
           s5' = [s5 EXCEPT ![t] = th], UNCHANGED <<s1, s2, s3, s4, s6>>,
           s5[t].pc \notin {"list", "bind"}, th.pc \notin {"list", "bind"},
           t \in Refreshers /\ th.refreshed => ~Maps!IsProd(th.project)
    PROVE  Maps!MapsInv'
<1> USE DEF Maps!MapsInv, Maps!MapsTypeOK
<1>1. Maps!MapsTypeOK'
  OBVIOUS
<1>2. Maps!OneRebuilds' /\ Maps!StaleMeanwhile'
  BY DEF Maps!OneRebuilds, Maps!StaleMeanwhile, Maps!Rebuilding
<1>3. Maps!BoundSoFar' /\ Maps!WholeBetween'
  BY DEF Maps!BoundSoFar, Maps!WholeBetween
<1>4. Maps!SparedProd'
  BY MapsAssumption DEF Maps!SparedProd, Maps!Threads, Maps!IsProd
<1> QED
  BY <1>1, <1>2, <1>3, <1>4

(* Steps that no thread takes *)
LEMMA AroundKept ==
    ASSUME Maps!MapsInv, s1' \in Maps!Generations, s3' = s3 \/ s3' = FALSE,
           s6' \in 0 .. MaxExpiries, UNCHANGED <<s2, s4, s5>>
    PROVE  Maps!MapsInv'
<1> USE DEF Maps!MapsInv, Maps!MapsTypeOK
<1>1. Maps!MapsTypeOK'
  OBVIOUS
<1>2. Maps!StaleMeanwhile'
  BY Zenon DEF Maps!StaleMeanwhile, Maps!Rebuilding
<1>3. /\ Maps!OneRebuilds' /\ Maps!BoundSoFar' /\ Maps!WholeBetween' /\ Maps!SparedProd'
  BY DEF Maps!OneRebuilds, Maps!Rebuilding, Maps!BoundSoFar, Maps!WholeBetween,
     Maps!SparedProd, Maps!IsProd
<1> QED
  BY <1>1, <1>2, <1>3

LEMMA AcquireKept ==
    ASSUME Maps!MapsInv, NEW t \in Maps!Threads, Maps!Acquire(t) PROVE Maps!MapsInv'
<1>1. s5[t] \in Maps!Places /\ s5[t].pc = "lock"
  BY DEF Maps!MapsInv, Maps!MapsTypeOK, Maps!Acquire
<1>2. CASE s3
  <2>1. s5' = [s5 EXCEPT ![t] = [s5[t] EXCEPT !.pc = "use"]] /\ UNCHANGED <<s1, s2, s3, s4, s6>>
    BY <1>2 DEF Maps!Acquire, Maps!Rebuilt, Maps!To
  <2> QED
    BY <1>1, <2>1, AtPlace, OutsideKept DEF Pcs, Maps!SparedProd, Maps!MapsInv
<1>3. CASE ~s3
  <2> DEFINE th == [s5[t] EXCEPT !.pc = "list"]
  <2>1. s5' = [s5 EXCEPT ![t] = th] /\ s4 = "nobody" /\ s4' = t /\ UNCHANGED <<s1, s2, s3, s6>>
    BY <1>3 DEF Maps!Acquire, Maps!Rebuilt, Maps!To, Maps!Nobody
  <2>2. /\ th \in Maps!Places /\ th.pc = "list"
        /\ th.refreshed = s5[t].refreshed /\ th.project = s5[t].project
    BY <1>1, AtPlace DEF Pcs
  <2> HIDE DEF th
  <2>3. Maps!MapsTypeOK'
    BY <2>1, <2>2 DEF Maps!MapsInv, Maps!MapsTypeOK
  <2>4. Maps!OneRebuilds' /\ Maps!StaleMeanwhile'
    BY <1>3, <2>1, <2>2, MapsAssumption
    DEF Maps!MapsInv, Maps!MapsTypeOK, Maps!OneRebuilds, Maps!StaleMeanwhile, Maps!Rebuilding,
        Maps!Threads
  <2>5. Maps!BoundSoFar' /\ Maps!WholeBetween'
    BY <1>1, <2>1, <2>2 DEF Maps!MapsInv, Maps!MapsTypeOK, Maps!BoundSoFar, Maps!WholeBetween
  <2>6. Maps!SparedProd'
    BY <2>1, <2>2 DEF Maps!MapsInv, Maps!MapsTypeOK, Maps!SparedProd, Maps!IsProd, Maps!Threads
  <2> QED
    BY <2>3, <2>4, <2>5, <2>6 DEF Maps!MapsInv
<1> QED
  BY <1>2, <1>3 DEF Maps!MapsInv, Maps!MapsTypeOK

LEMMA ListKept ==
    ASSUME Maps!MapsInv, NEW t \in Maps!Threads, Maps!List(t) PROVE Maps!MapsInv'
<1> USE DEF Maps!MapsInv, Maps!MapsTypeOK
<1>1. s5[t] \in Maps!Places /\ s5[t].pc = "list" /\ s4 = t /\ ~s3
  BY DEF Maps!List, Maps!OneRebuilds, Maps!StaleMeanwhile, Maps!Rebuilding
<1>2. CASE Maps!To(t, "idle") /\ s4' = "nobody" /\ UNCHANGED <<s1, s2, s3, s6>>
  <2> DEFINE th == [s5[t] EXCEPT !.pc = "idle"]
  <2>1. s5' = [s5 EXCEPT ![t] = th]
    BY <1>2 DEF Maps!To
  <2>2. /\ th \in Maps!Places /\ th.pc = "idle"
        /\ th.refreshed = s5[t].refreshed /\ th.project = s5[t].project
    BY <1>1, AtPlace DEF Pcs
  <2> HIDE DEF th
  <2>3. Maps!MapsTypeOK'
    BY <1>2, <2>1, <2>2 DEF Maps!Nobody
  <2>4. Maps!OneRebuilds' /\ Maps!StaleMeanwhile'
    BY <1>1, <1>2, <2>1, <2>2, MapsAssumption
    DEF Maps!OneRebuilds, Maps!StaleMeanwhile, Maps!Rebuilding, Maps!Threads
  <2>5. Maps!BoundSoFar' /\ Maps!WholeBetween'
    BY <1>1, <1>2, <2>1, <2>2 DEF Maps!BoundSoFar, Maps!WholeBetween
  <2>6. Maps!SparedProd'
    BY <1>2, <2>1, <2>2 DEF Maps!SparedProd, Maps!IsProd, Maps!Threads
  <2> QED
    BY <2>3, <2>4, <2>5, <2>6
<1>3. CASE /\ s5' = [s5 EXCEPT ![t].pc = "bind", ![t].listed = s1, ![t].n = 1]
           /\ UNCHANGED <<s1, s2, s3, s4, s6>>
  <2> DEFINE th == [s5[t] EXCEPT !.pc = "bind", !.listed = s1, !.n = 1]
  <2>1. s5' = [s5 EXCEPT ![t] = th]
    BY <1>3, Zenon
  <2>2. /\ th \in Maps!Places /\ th.pc = "bind" /\ th.listed = s1 /\ th.n = 1
        /\ th.refreshed = s5[t].refreshed /\ th.project = s5[t].project
    BY <1>1, ListedPlace
  <2> HIDE DEF th
  <2>3. Maps!MapsTypeOK'
    BY <1>3, <2>1, <2>2
  <2>4. Maps!OneRebuilds' /\ Maps!StaleMeanwhile'
    BY <1>1, <1>3, <2>1, <2>2 DEF Maps!OneRebuilds, Maps!StaleMeanwhile, Maps!Rebuilding
  <2>5. Maps!BoundSoFar' /\ Maps!WholeBetween'
    <3>1. Maps!BoundSoFar'
      <4> SUFFICES ASSUME NEW u \in Maps!Threads, s5'[u].pc = "bind"
                   PROVE  /\ s5'[u].n <= 6 /\ s5'[u].listed \in Maps!Generations
                          /\ \A i \in 1 .. s5'[u].n - 1 : s2'[Maps!Order[i]] = s5'[u].listed
        BY OrderFacts DEF Maps!BoundSoFar
      <4>1. u = t
        BY <1>1, <2>1 DEF Maps!OneRebuilds, Maps!Rebuilding
      <4> QED
        BY <4>1, <2>1, <2>2
    <3>2. Maps!WholeBetween'
      BY <2>1, <2>2 DEF Maps!WholeBetween
    <3> QED
      BY <3>1, <3>2
  <2>6. Maps!SparedProd'
    BY <1>3, <2>1, <2>2 DEF Maps!SparedProd, Maps!IsProd, Maps!Threads
  <2> QED
    BY <2>3, <2>4, <2>5, <2>6
<1> QED
  BY <1>2, <1>3 DEF Maps!List, Maps!Nobody

LEMMA BindKept ==
    ASSUME Maps!MapsInv, NEW t \in Maps!Threads, Maps!Bind(t) PROVE Maps!MapsInv'
<1> USE DEF Maps!MapsInv, Maps!MapsTypeOK
<1> DEFINE n == s5[t].n
           listed == s5[t].listed
<1>1. /\ s5[t] \in Maps!Places /\ s5[t].pc = "bind" /\ s4 = t /\ ~s3
      /\ n \in 1 .. 6 /\ listed \in Maps!Generations
      /\ \A i \in 1 .. n - 1 : s2[Maps!Order[i]] = listed
      /\ UNCHANGED <<s1, s6>>
  BY OrderFacts
  DEF Maps!Bind, Maps!OneRebuilds, Maps!StaleMeanwhile, Maps!Rebuilding, Maps!BoundSoFar,
      Maps!Places
<1>2. \A u \in Maps!Threads \ {t} : s5[u].pc \notin {"list", "bind"}
  BY <1>1 DEF Maps!OneRebuilds, Maps!Rebuilding
<1>3. CASE n = 6
  <2> DEFINE th == Binding(s5[t], "use", 7)
  <2>0. Len(Maps!Order) = 6 /\ Maps!Order[6] = "ts"
    BY OrderFacts
  <2>a. s5' = [s5 EXCEPT ![t].pc = "use", ![t].n = s5[t].n + 1]
    BY <1>3, <2>0, Zenon DEF Maps!Bind
  <2>b. s5' = [s5 EXCEPT ![t] = th]
    BY <1>3, <2>a, 6 + 1 = 7, Zenon DEF Binding
  <2>1. s5' = [s5 EXCEPT ![t] = th] /\ s4' = "nobody" /\ s3' = TRUE /\ s2' = s2
    BY <1>3, <2>0, <2>b DEF Maps!Bind, Maps!Bound, Maps!Nobody
  <2>2. /\ th \in Maps!Places /\ th.pc = "use"
        /\ th.refreshed = s5[t].refreshed /\ th.project = s5[t].project
    <3>1. 7 \in 1 .. 7 /\ "use" \in Pcs
      BY DEF Pcs
    <3> HIDE DEF Maps!MapsInv, Maps!MapsTypeOK
    <3>2. s5[t] \in Maps!Places
      BY <1>1
    <3> QED
      BY <3>1, <3>2, BindingPlace
  <2> HIDE DEF th
  <2>3. Maps!MapsTypeOK'
    BY <1>1, <2>1, <2>2 DEF Maps!Nobody
  <2>4. Maps!OneRebuilds' /\ Maps!StaleMeanwhile'
    BY <1>2, <2>1, <2>2, MapsAssumption
    DEF Maps!OneRebuilds, Maps!StaleMeanwhile, Maps!Rebuilding, Maps!Threads
  <2>5. Maps!BoundSoFar'
    BY <1>2, <2>1, <2>2 DEF Maps!BoundSoFar
  <2>6. Maps!WholeBetween'
    <3>1. \A g \in Maps!Globals : s2[g] = listed
      BY <1>1, <1>3, OrderFacts
    <3> QED
      BY <3>1, <2>1 DEF Maps!WholeBetween
  <2>7. Maps!SparedProd'
    BY <2>1, <2>2 DEF Maps!SparedProd, Maps!IsProd, Maps!Threads
  <2> QED
    BY <2>3, <2>4, <2>5, <2>6, <2>7
<1>4. CASE n < 6
  <2> DEFINE th == Binding(s5[t], "bind", n + 1)
  <2>0. s5[t].n # Len(Maps!Order) /\ Maps!Order[n] # "ts"
    BY <1>1, <1>4, OrderFacts
  <2>a. s5' = [s5 EXCEPT ![t].pc = "bind", ![t].n = s5[t].n + 1]
    BY <2>0, Zenon DEF Maps!Bind
  <2>b. s5' = [s5 EXCEPT ![t] = th]
    BY <2>a, Zenon DEF Binding
  <2>1. /\ s5' = [s5 EXCEPT ![t] = th] /\ UNCHANGED <<s3, s4>>
        /\ s2' = [s2 EXCEPT ![Maps!Order[n]] = listed]
    BY <2>0, <2>b DEF Maps!Bind, Maps!Bound
  <2>2. /\ th \in Maps!Places /\ th.pc = "bind" /\ th.n = n + 1 /\ th.listed = listed
        /\ th.refreshed = s5[t].refreshed /\ th.project = s5[t].project
    <3>1. n + 1 \in 1 .. 7 /\ "bind" \in Pcs
      BY <1>1, <1>4 DEF Pcs
    <3> HIDE DEF Maps!MapsInv, Maps!MapsTypeOK
    <3>2. s5[t] \in Maps!Places
      BY <1>1
    <3> QED
      BY <3>1, <3>2, BindingPlace
  <2> HIDE DEF th
  <2>3. Maps!MapsTypeOK'
    BY <1>1, <1>4, <2>1, <2>2, OrderFacts
  <2>4. Maps!OneRebuilds' /\ Maps!StaleMeanwhile'
    BY <1>1, <1>2, <2>1, <2>2 DEF Maps!OneRebuilds, Maps!StaleMeanwhile, Maps!Rebuilding
  <2>5. Maps!BoundSoFar'
    <3> SUFFICES ASSUME NEW u \in Maps!Threads, s5'[u].pc = "bind"
                 PROVE  /\ s5'[u].n <= 6 /\ s5'[u].listed \in Maps!Generations
                        /\ \A i \in 1 .. s5'[u].n - 1 : s2'[Maps!Order[i]] = s5'[u].listed
      BY OrderFacts DEF Maps!BoundSoFar
    <3>1. s5'[u].n = n + 1 /\ s5'[u].listed = listed
      BY <1>2, <2>1, <2>2
    <3>2. ASSUME NEW i \in 1 .. n PROVE s2'[Maps!Order[i]] = listed
      BY <1>1, <1>4, <2>1, OrderFacts
    <3> QED
      BY <1>1, <1>4, <3>1, <3>2
  <2>6. Maps!WholeBetween'
    BY <2>1, <2>2 DEF Maps!WholeBetween
  <2>7. Maps!SparedProd'
    BY <2>1, <2>2 DEF Maps!SparedProd, Maps!IsProd, Maps!Threads
  <2> QED
    BY <2>3, <2>4, <2>5, <2>6, <2>7
<1> QED
  BY <1>1, <1>3, <1>4

LEMMA RefreshKept ==
    ASSUME Maps!MapsInv, NEW t \in Maps!Threads, Maps!Refresh(t) PROVE Maps!MapsInv'
<1> DEFINE g == s2["project"]
<1>1. PICK refreshed \in BOOLEAN :
        /\ refreshed => ~Maps!IsProd(g)
        /\ s5' = [s5 EXCEPT ![t] = [s5[t] EXCEPT !.pc = "idle", !.project = g,
                                                 !.refreshed = refreshed]]
  <2>1. Maps!Spared([s5[t] EXCEPT !.pc = "idle", !.project = g]) = Maps!IsProd(g)
    BY DEF Maps!Spared, Maps!MapsInv, Maps!MapsTypeOK, Maps!Places
  <2> QED
    BY <2>1 DEF Maps!Refresh
<1> DEFINE th == [s5[t] EXCEPT !.pc = "idle", !.project = g, !.refreshed = refreshed]
<1>2. g \in Maps!Generations /\ s5[t] \in Maps!Places
  BY DEF Maps!MapsInv, Maps!MapsTypeOK, Maps!Globals
<1>3. th \in Maps!Places /\ th.pc = "idle" /\ th.project = g /\ (th.refreshed <=> refreshed)
  BY <1>2 DEF Maps!Places
<1>4. s5[t].pc = "project" /\ UNCHANGED <<s1, s2, s3, s4, s6>>
  BY DEF Maps!Refresh
<1> HIDE DEF th
<1> QED
  BY <1>1, <1>3, <1>4, OutsideKept DEF th

LEMMA ReadKept ==
    ASSUME Maps!MapsInv, NEW t \in Maps!Threads, Maps!Read(t) PROVE Maps!MapsInv'
<1>1. s5[t] \in Maps!Places /\ s2["chart"] \in Maps!Generations /\ s2["revision"] \in Maps!Generations
  BY DEF Maps!MapsInv, Maps!MapsTypeOK, Maps!Globals
<1>2. s5[t].pc \notin {"list", "bind"} /\ UNCHANGED <<s1, s2, s3, s4, s6>>
  BY DEF Maps!Read
<1>3. PICK th \in Maps!Places :
        /\ s5' = [s5 EXCEPT ![t] = th] /\ th.pc \notin {"list", "bind"}
        /\ th.refreshed = s5[t].refreshed /\ th.project = s5[t].project
  <2> DEFINE c == [s5[t] EXCEPT !.pc = "revision", !.chart = s2["chart"]]
             r == [s5[t] EXCEPT !.pc = "project", !.revision = s2["revision"]]
  <2>1. /\ c \in Maps!Places /\ c.pc = "revision"
        /\ c.refreshed = s5[t].refreshed /\ c.project = s5[t].project
    BY <1>1 DEF Maps!Places
  <2>2. /\ r \in Maps!Places /\ r.pc = "project"
        /\ r.refreshed = s5[t].refreshed /\ r.project = s5[t].project
    BY <1>1 DEF Maps!Places
  <2>3. s5' = [s5 EXCEPT ![t] = c] \/ s5' = [s5 EXCEPT ![t] = r]
    BY Zenon DEF Maps!Read
  <2> HIDE DEF c, r
  <2> QED
    BY <2>1, <2>2, <2>3
<1> QED
  BY <1>2, <1>3, OutsideKept DEF Maps!SparedProd, Maps!MapsInv

LEMMA MapsKept == Maps!MapsInv /\ [Maps!MapsNext]_(Maps!mapVars) => Maps!MapsInv'
<1> SUFFICES ASSUME Maps!MapsInv, [Maps!MapsNext]_(Maps!mapVars) PROVE Maps!MapsInv'
  OBVIOUS
<1>0. Maps!MapsTypeOK
  BY DEF Maps!MapsInv
<1>1. CASE Maps!FleetChanges \/ Maps!Expire \/ UNCHANGED Maps!mapVars
  <2>1. /\ s1' \in Maps!Generations /\ s6' \in 0 .. MaxExpiries /\ UNCHANGED <<s2, s4, s5>>
    BY <1>0, <1>1, MapsAssumption
    DEF Maps!MapsTypeOK, Maps!FleetChanges, Maps!Expire, Maps!mapVars, Maps!Generations
  <2>2. s3' = s3 \/ s3' = FALSE
    BY <1>1 DEF Maps!FleetChanges, Maps!Expire, Maps!mapVars
  <2> QED
    BY <2>1, <2>2, AroundKept, Zenon
<1>2. ASSUME NEW t \in Maps!Threads, Maps!Call(t) PROVE Maps!MapsInv'
  <2>1. [Maps!Off EXCEPT !.pc = "check"] \in Maps!Places
    BY OffPlace, AtPlace DEF Pcs
  <2>2. /\ [Maps!Off EXCEPT !.pc = "check"].pc = "check"
        /\ ~[Maps!Off EXCEPT !.pc = "check"].refreshed
    BY DEF Maps!Off
  <2>3. s5[t].pc = "idle" /\ UNCHANGED <<s1, s2, s3, s4, s6>>
    BY <1>2 DEF Maps!Call
  <2> QED
    BY <1>2, <2>1, <2>2, <2>3, OutsideKept DEF Maps!Call
<1>3. ASSUME NEW t \in Maps!Threads, Maps!Check(t) PROVE Maps!MapsInv'
  <2>1. PICK pc \in {"use", "lock"} : s5' = [s5 EXCEPT ![t] = [s5[t] EXCEPT !.pc = pc]]
    BY <1>3, Zenon DEF Maps!Check, Maps!To
  <2>2. s5[t] \in Maps!Places /\ s5[t].pc = "check" /\ UNCHANGED <<s1, s2, s3, s4, s6>>
    BY <1>0, <1>3 DEF Maps!Check, Maps!MapsTypeOK
  <2> DEFINE th == [s5[t] EXCEPT !.pc = pc]
  <2>3. /\ th \in Maps!Places /\ th.pc \notin {"list", "bind"}
        /\ th.refreshed = s5[t].refreshed /\ th.project = s5[t].project
    <3>1. pc \in Pcs /\ pc # "list" /\ pc # "bind"
      BY <2>1 DEF Pcs
    <3>2. /\ th \in Maps!Places /\ th.pc = pc
          /\ th.refreshed = s5[t].refreshed /\ th.project = s5[t].project
      BY <2>2, <3>1, AtPlace, Zenon
    <3> QED
      BY <3>1, <3>2, Zenon
  <2>4. s5' = [s5 EXCEPT ![t] = th]
    BY <2>1
  <2> HIDE DEF th
  <2> QED
    BY <2>2, <2>3, <2>4, OutsideKept DEF Maps!SparedProd, Maps!MapsInv
<1>4. CASE Maps!PollReads
  <2>1. Poll \in Maps!Threads /\ Poll \notin Refreshers
    BY MapsAssumption DEF Maps!Threads
  <2>2. /\ s5[Poll].pc = "use" /\ s5' = [s5 EXCEPT ![Poll] = Maps!Off]
        /\ UNCHANGED <<s1, s2, s3, s4, s6>>
    BY <1>4 DEF Maps!PollReads
  <2> QED
    BY <2>1, <2>2, OffPlace, OutsideKept
<1> QED
  BY <1>1, <1>2, <1>3, <1>4, AcquireKept, ListKept, BindKept, ReadKept, RefreshKept, Zenon
  DEF Maps!MapsNext

(* Maps that discover_path_app_map finds fresh are of one listing, and no    *)
(* production application is ever recorded as its own preview                *)
THEOREM MapsWhole == ServicesSpec => []MapsAreWhole
<1> DEFINE I == part = "maps" => Maps!MapsInv
<1>1. ServicesInit => I
  BY MapsStart
<1>2. I /\ [ServicesNext]_all => I'
  <2> SUFFICES ASSUME I, [ServicesNext]_all, (part = "maps")' PROVE Maps!MapsInv'
    OBVIOUS
  <2>1. part = "maps"
    BY DEF ServicesNext, all
  <2> QED
    BY <2>1, MapsGo, MapsKept
<1>3. I => MapsAreWhole
  <2> SUFFICES ASSUME Maps!MapsInv PROVE Maps!MapsAreWhole
    BY DEF MapsAreWhole
  <2>1. s3 => \A g, h \in Maps!Globals : s2[g] = s2[h]
    <3>1. s3 => \A t \in Maps!Threads : s5[t].pc # "bind"
      BY DEF Maps!MapsInv, Maps!StaleMeanwhile, Maps!Rebuilding
    <3> QED
      BY <3>1 DEF Maps!MapsInv, Maps!WholeBetween
  <2>2. ASSUME NEW t \in Refreshers, s5[t].refreshed, Maps!IsProd(s5[t].chart)
        PROVE  s5[t].project # s5[t].chart
    BY <2>2 DEF Maps!MapsInv, Maps!SparedProd
  <2> QED
    BY <2>1, <2>2 DEF Maps!MapsAreWhole
<1> QED
  BY <1>1, <1>2, <1>3, PTL DEF ServicesSpec

-----------------------------------------------------------------------------
(* The life of a pod: PodLife *)

LEMMA PodGo ==
    ASSUME part = "pod", [ServicesNext]_all
    PROVE  [Pod!PodNext]_(Pod!podVars)
  BY DEF ServicesNext, SlotStep, all, slots, Pod!podVars

LEMMA PodStart == ServicesInit /\ part = "pod" => Pod!PodInv
<1> SUFFICES ASSUME Pod!PodInit PROVE Pod!PodInv
  BY DEF ServicesInit
<1> QED
  BY PodAssumption DEF Pod!PodInit, Pod!PodInv, Pod!PodTypeOK, Pod!LoginIsPaced, Pod!Slack

LEMMA PodKept == Pod!PodInv /\ [Pod!PodNext]_(Pod!podVars) => Pod!PodInv'
<1> SUFFICES ASSUME Pod!PodInv, [Pod!PodNext]_(Pod!podVars) PROVE Pod!PodInv'
  OBVIOUS
<1> USE PodAssumption DEF Pod!PodInv, Pod!PodTypeOK
<1>1. CASE UNCHANGED Pod!podVars
  BY <1>1 DEF Pod!podVars, Pod!LoginIsPaced, Pod!Slack
<1>2. ASSUME NEW time \in LoginTimes, Pod!LoggedIn(time) PROVE Pod!PodInv'
  BY <1>2 DEF Pod!LoggedIn, Pod!LoginIsPaced
<1>3. ASSUME NEW time \in LoginTimes, NEW transient \in BOOLEAN,
             Pod!LoginFails(time, transient)
      PROVE  Pod!PodInv'
  <2> DEFINE w == s2.waited  d == s2.delay  e == s2.elapsed
  <2>1. /\ s1 = "login" /\ UNCHANGED <<s3, s4, s5>> /\ w \in 0 .. Budget /\ d \in {2, 4, 8, 16}
        /\ e \in Nat /\ time \in Nat /\ Budget \in Nat
    BY <1>3 DEF Pod!LoginFails
  <2>2. CASE s1' = "raised" /\ s2' = [s2 EXCEPT !.elapsed = e + time]
    <3>1. Pod!PodTypeOK'
      BY <2>1, <2>2
    <3>2. ASSUME NEW longest \in LoginTimes, \A t \in LoginTimes : t <= longest
          PROVE  16 * (e + time) <= 16 * Budget + longest * (Budget + 50)
      <4>1. /\ 16 * e <= 16 * w + longest * (w + Pod!Slack) /\ time <= longest
            /\ longest \in Nat
        BY <2>1, <3>2 DEF Pod!LoginIsPaced
      <4>2. w + Pod!Slack + 16 <= Budget + 50 /\ Pod!Slack \in Nat
        BY <2>1 DEF Pod!Slack
      <4>3. longest * (w + Pod!Slack + 16) <= longest * (Budget + 50)
        BY <2>1, <4>1, <4>2
      <4>4. longest * (w + Pod!Slack + 16) = longest * (w + Pod!Slack) + 16 * longest
        BY <2>1, <4>1, <4>2
      <4> HIDE DEF w, e
      <4> QED
        BY <2>1, <4>1, <4>2, <4>3, <4>4
    <3> QED
      BY <2>2, <3>1, <3>2 DEF Pod!LoginIsPaced
  <2>3. CASE /\ s1' = s1 /\ w + d <= Budget
             /\ s2' = [waited |-> w + d, delay |-> Pod!Least(d * 2, 16), elapsed |-> e + time + d]
    <3>1. Pod!PodTypeOK'
      BY <2>1, <2>3 DEF Pod!Least
    <3>2. ASSUME NEW longest \in LoginTimes, \A t \in LoginTimes : t <= longest
          PROVE  16 * (e + time + d) <= 16 * (w + d) + longest * (w + d + Pod!Slack')
      <4>1. /\ 16 * e <= 16 * w + longest * (w + Pod!Slack) /\ time <= longest
            /\ longest \in Nat
        BY <2>1, <3>2 DEF Pod!LoginIsPaced
      <4>2. w + d + Pod!Slack' = w + Pod!Slack + 16 /\ Pod!Slack \in Nat
        BY <2>1, <2>3 DEF Pod!Slack, Pod!Least
      <4>3. longest * (w + Pod!Slack + 16) = longest * (w + Pod!Slack) + 16 * longest
        BY <2>1, <4>1, <4>2
      <4> HIDE DEF w, e
      <4> QED
        BY <2>1, <4>1, <4>2, <4>3
    <3> QED
      BY <2>1, <2>3, <3>1, <3>2 DEF Pod!LoginIsPaced
  <2> QED
    <3>1. CASE ~transient \/ Pod!OverBudget
      BY <1>3, <2>2, <3>1, Zenon DEF Pod!LoginFails
    <3>2. CASE ~(~transient \/ Pod!OverBudget)
      <4>1. w + d <= Budget
        BY <2>1, <3>2 DEF Pod!OverBudget
      <4>2. Pod!Least(w + d, Budget) = w + d
        BY <2>1, <4>1 DEF Pod!Least
      <4> QED
        BY <1>3, <2>3, <3>2, <4>1, <4>2, Zenon DEF Pod!LoginFails
    <3> QED
      BY <3>1, <3>2, Zenon
<1>4. CASE Pod!Progress \/ Pod!WakeUp \/ Pod!Wedge \/ Pod!Drained \/ Pod!LivenessKills
  BY <1>4 DEF Pod!Progress, Pod!WakeUp, Pod!Wedge, Pod!Drained, Pod!Up, Pod!LivenessKills,
     Pod!LoginIsPaced, Pod!Slack
<1>6. CASE Pod!Beat
  <2>1. StaleAfter \in Nat
    BY PodAssumption
  <2>2. s5' \in 0 .. StaleAfter
    <3> HIDE PodAssumption
    <3> QED
      BY <1>6, <2>1 DEF Pod!Beat, Pod!Least
  <2> QED
    BY <1>6, <2>2 DEF Pod!Beat, Pod!Up, Pod!LoginIsPaced
<1>5. ASSUME NEW clean \in BOOLEAN, Pod!GoIdle(clean) PROVE Pod!PodInv'
  BY <1>5 DEF Pod!GoIdle, Pod!LoginIsPaced, Pod!Up
<1> QED
  BY <1>1, <1>2, <1>3, <1>4, <1>5, <1>6, Zenon DEF Pod!PodNext

(* A login that fails raises before the probe loses its patience *)
THEOREM StartupEnds == ServicesSpec => []StartupEndsItself
<1> DEFINE I == part = "pod" => Pod!PodInv
<1>1. ServicesInit => I
  BY PodStart
<1>2. I /\ [ServicesNext]_all => I'
  <2> SUFFICES ASSUME I, [ServicesNext]_all, (part = "pod")' PROVE Pod!PodInv'
    OBVIOUS
  <2>1. part = "pod"
    BY DEF ServicesNext, all
  <2> QED
    BY <2>1, PodGo, PodKept
<1>3. I => StartupEndsItself
  <2> SUFFICES ASSUME Pod!PodInv, s1 \in {"login", "raised"} PROVE s2.elapsed < Patience
    BY DEF StartupEndsItself, Pod!StartupEndsItself
  <2>1. PICK longest \in LoginTimes :
          /\ \A time \in LoginTimes : time <= longest
          /\ 16 * Budget + longest * (Budget + 50) < 16 * Patience
    BY PodAssumption
  <2>2. /\ Budget \in Nat /\ Patience \in Nat /\ longest \in Nat
        /\ s2.waited \in 0 .. Budget /\ s2.elapsed \in Nat /\ Pod!Slack \in 0 .. 34
    BY PodAssumption DEF Pod!PodInv, Pod!PodTypeOK, Pod!Slack
  <2>3. 16 * s2.elapsed <= 16 * Budget + longest * (Budget + 50)
    <3>1. CASE s1 = "raised"
      BY <2>1, <3>1 DEF Pod!PodInv, Pod!LoginIsPaced
    <3>2. CASE s1 = "login"
      <4>1. 16 * s2.elapsed <= 16 * s2.waited + longest * (s2.waited + Pod!Slack)
        BY <2>1, <3>2 DEF Pod!PodInv, Pod!LoginIsPaced
      <4>2. s2.waited + Pod!Slack <= Budget + 50
        BY <2>2
      <4>3. longest * (s2.waited + Pod!Slack) <= longest * (Budget + 50)
        BY <2>2, <4>2
      <4> QED
        BY <2>2, <4>1, <4>3
    <3> QED
      BY <3>1, <3>2
  <2> QED
    BY <2>1, <2>2, <2>3
<1> QED
  BY <1>1, <1>2, <1>3, PTL DEF ServicesSpec

-----------------------------------------------------------------------------
(* The chart cache and the render cache: RenderCache *)

LEMMA RendersGo ==
    ASSUME part = "renders", [ServicesNext]_all
    PROVE  [Renders!CacheNext]_(Renders!cacheVars)
  BY DEF ServicesNext, SlotStep, all, slots, Renders!cacheVars

Right(tier, torn) == \A e \in tier : e.body = e.key \/ e.key \in torn

(* What is stored under a key was there, or is the new body *)
LEMMA StoredRight ==
    ASSUME NEW tier \in SUBSET Renders!Entry, NEW key \in Renders!Inputs,
           NEW body \in Renders!Inputs, NEW torn, Right(tier, torn),
           body = key \/ key \in torn
    PROVE  /\ Renders!Stored(tier, key, body) \in SUBSET Renders!Entry
           /\ Right(Renders!Stored(tier, key, body), torn)
  BY DEF Renders!Stored, Renders!Without, Renders!Entry, Right

(* What a tier holds under a key *)
LEMMA HeldRight ==
    ASSUME NEW tier \in SUBSET Renders!Entry, NEW key, NEW torn, Right(tier, torn),
           Renders!Holds(tier, key)
    PROVE  /\ Renders!BodyOf(tier, key) \in Renders!Inputs
           /\ Renders!BodyOf(tier, key) = key \/ key \in torn
<1>1. \E e \in tier : e.key = key
  BY DEF Renders!Holds
<1> DEFINE e == CHOOSE e \in tier : e.key = key
<1>2. e \in tier /\ e.key = key
  BY <1>1
<1>3. Renders!BodyOf(tier, key) = e.body
  BY DEF Renders!BodyOf
<1> HIDE DEF e
<1> QED
  BY <1>2, <1>3 DEF Renders!Entry, Right

LEMMA InputsTyped ==
    /\ Renders!NoRender \in Renders!Inputs
    /\ Renders!Resting.pc = "idle"
    /\ Renders!Resting \in Renders!Diffs
<1>1. /\ (CHOOSE v \in Values : TRUE) \in Values
      /\ 0 \in 0 .. MaxBuild /\ 0 \in 0 .. MaxHelm /\ 0 \in 0 .. Retries - 1
  BY RendersAssumption
<1>2. Renders!NoRender \in Renders!Inputs
  BY <1>1 DEF Renders!NoRender, Renders!Inputs
<1> QED
  BY <1>1, <1>2 DEF Renders!Resting, Renders!Diffs

(* A worker goes on with what it has, or with something right *)
RightDiff(wk, torn) ==
    /\ wk.pc \in {"render", "hit", "done"} => wk.key = wk.inputs
    /\ wk.pc \in {"hit", "done"} => wk.body = wk.key \/ wk.key \in torn

LEMMA CacheParts ==
    Renders!CacheInv <=>
      /\ s1 \in 1 .. MaxBuild /\ s2 \in 0 .. MaxBuild
      /\ s3 \in BOOLEAN /\ s4 \in 0 .. MaxStale /\ s5 \subseteq DiffWorkers /\ s6 \in 1 .. MaxHelm
      /\ s7 \in SUBSET Renders!Entry /\ s8 \in SUBSET Renders!Entry /\ s9 \in SUBSET Renders!Entry
      /\ s10 \in [DiffWorkers -> Renders!Diffs] /\ s11 \subseteq Renders!Inputs
      /\ Right(s7, s11) /\ Right(s8, s11) /\ Right(s9, s11)
      /\ \A w \in DiffWorkers : RightDiff(s10[w], s11)
  BY Zenon DEF Renders!CacheInv, Renders!CacheTypeOK, Renders!TiersAreRight, Renders!TakenIsRight,
         Right, RightDiff

LEMMA CachePartsNext ==
    Renders!CacheInv' <=>
      /\ s1' \in 1 .. MaxBuild /\ s2' \in 0 .. MaxBuild
      /\ s3' \in BOOLEAN /\ s4' \in 0 .. MaxStale /\ s5' \subseteq DiffWorkers /\ s6' \in 1 .. MaxHelm
      /\ s7' \in SUBSET Renders!Entry /\ s8' \in SUBSET Renders!Entry /\ s9' \in SUBSET Renders!Entry
      /\ s10' \in [DiffWorkers -> Renders!Diffs] /\ s11' \subseteq Renders!Inputs
      /\ Right(s7', s11') /\ Right(s8', s11') /\ Right(s9', s11')
      /\ \A v \in DiffWorkers : RightDiff(s10'[v], s11')
  BY Zenon DEF Renders!CacheInv, Renders!CacheTypeOK, Renders!TiersAreRight,
         Renders!TakenIsRight, Right, RightDiff

(* The body's inputs are those of the key, but for the tree *)
LEMMA BodyTyped ==
    ASSUME NEW in \in Renders!Inputs, s2 \in 0 .. MaxBuild
    PROVE  /\ [in EXCEPT !.tree = s2] \in Renders!Inputs
           /\ [in EXCEPT !.tree = s2].tree = in.tree => [in EXCEPT !.tree = s2] = in
  BY DEF Renders!Inputs

(* A step of one worker, which may store the render of a key *)
LEMMA WorkerKept ==
    ASSUME Renders!CacheInv, NEW w \in DiffWorkers, NEW wk \in Renders!Diffs,
           s10' = [s10 EXCEPT ![w] = wk], UNCHANGED <<s1, s4, s6>>,
           s2' \in 0 .. MaxBuild, s3' \in BOOLEAN, s5' \subseteq DiffWorkers,
           s11' \in SUBSET Renders!Inputs, s11 \subseteq s11', RightDiff(wk, s11'),
           s7' \in SUBSET Renders!Entry, Right(s7', s11'),
           s8' \in SUBSET Renders!Entry, Right(s8', s11'),
           s9' \in SUBSET Renders!Entry, Right(s9', s11')
    PROVE  Renders!CacheInv'
<1>1. /\ s1' \in 1 .. MaxBuild /\ s4' \in 0 .. MaxStale /\ s6' \in 1 .. MaxHelm
      /\ s10' \in [DiffWorkers -> Renders!Diffs]
  BY CacheParts
<1>2. ASSUME NEW v \in DiffWorkers PROVE RightDiff(s10'[v], s11')
  <2>1. RightDiff(s10[v], s11) /\ s10 \in [DiffWorkers -> Renders!Diffs]
    BY CacheParts
  <2>2. RightDiff(s10[v], s11')
    BY <2>1, Zenon DEF RightDiff
  <2> QED
    BY <2>1, <2>2
<1> QED
  BY <1>1, <1>2, CachePartsNext

(* Storing a render: unless it is the key's, the key is torn *)
LEMMA PutRight ==
    ASSUME Renders!CacheInv, NEW key \in Renders!Inputs, NEW body \in Renders!Inputs,
           body.tree = key.tree => body = key, Renders!Put(key, body)
    PROVE  /\ s11' \in SUBSET Renders!Inputs /\ s11 \subseteq s11'
           /\ body = key \/ key \in s11'
           /\ s7' \in SUBSET Renders!Entry /\ Right(s7', s11')
           /\ s9' \in SUBSET Renders!Entry /\ Right(s9', s11')
<1>1. s11' = IF body.tree = key.tree THEN s11 ELSE s11 \cup {key}
  BY DEF Renders!Put
<1>2. /\ s11' \in SUBSET Renders!Inputs /\ s11 \subseteq s11'
      /\ body = key \/ key \in s11'
  BY <1>1, CacheParts
<1>3. /\ s7 \in SUBSET Renders!Entry /\ Right(s7, s11')
      /\ s9 \in SUBSET Renders!Entry /\ Right(s9, s11')
  BY <1>2, CacheParts DEF Right
<1>4. s7' \in SUBSET Renders!Entry /\ Right(s7', s11')
  BY <1>2, <1>3, StoredRight DEF Renders!Put
<1>5. s9' = s9 \cup {[key |-> key, body |-> body]}
  BY DEF Renders!Put
<1>6. s9' \in SUBSET Renders!Entry /\ Right(s9', s11')
  BY <1>2, <1>3, <1>5 DEF Renders!Entry, Right
<1> QED
  BY <1>2, <1>4, <1>6

LEMMA FailedTyped ==
    ASSUME NEW w \in DiffWorkers, s10[w] \in Renders!Diffs
    PROVE  Renders!Failed(w) \in Renders!Diffs /\ Renders!Failed(w).pc \in {"idle", "failed"}
<1>1. s10[w].n \in 0 .. Retries - 1 /\ Renders!Resting \in Renders!Diffs
  BY InputsTyped DEF Renders!Diffs
<1>2. CASE s10[w].n < Retries - 1
  <2>1. s10[w].n + 1 \in 0 .. Retries - 1
    BY <1>1, <1>2, RendersAssumption
  <2>2. Renders!Failed(w) = [Renders!Resting EXCEPT !.pc = "idle", !.n = s10[w].n + 1]
    BY <1>2, Zenon DEF Renders!Failed
  <2> QED
    BY <1>1, <2>1, <2>2 DEF Renders!Diffs
<1>3. CASE ~(s10[w].n < Retries - 1)
  <2>1. Renders!Failed(w) = [Renders!Resting EXCEPT !.pc = "failed"]
    BY <1>3, Zenon DEF Renders!Failed
  <2> QED
    BY <1>1, <2>1 DEF Renders!Diffs
<1> QED
  BY <1>2, <1>3

(* Who has nothing in hand has nothing wrong *)
LEMMA NothingInHand ==
    ASSUME NEW wk, NEW torn, wk.pc \in {"idle", "land", "hash", "failed"} PROVE RightDiff(wk, torn)
  BY DEF RightDiff

LEMMA EnsureKept ==
    ASSUME Renders!CacheInv, NEW w \in DiffWorkers, Renders!Ensure(w) PROVE Renders!CacheInv'
<1> DEFINE n == IF s10[w].pc = "idle" THEN s10[w].n ELSE 0
<1>1. /\ UNCHANGED <<s1, s3, s4, s6, s7, s8, s9, s11>>
      /\ \/ s10' = [s10 EXCEPT ![w] = [Renders!Resting EXCEPT !.pc = "hash", !.n = n]]
            /\ UNCHANGED <<s2, s5>>
         \/ s10' = [s10 EXCEPT ![w] = [Renders!Resting EXCEPT !.pc = "land", !.n = n]]
            /\ s5' = s5 \cup {w} /\ s2' = 0
  BY Zenon DEF Renders!Ensure, Renders!Set
<1>2. n \in 0 .. Retries - 1
  BY CacheParts, RendersAssumption DEF Renders!Diffs
<1> HIDE DEF n
<1>3. PICK wk \in Renders!Diffs : wk.pc \in {"hash", "land"} /\ s10' = [s10 EXCEPT ![w] = wk]
  <2>1. ASSUME NEW pc \in {"hash", "land"}
        PROVE  LET wk == [Renders!Resting EXCEPT !.pc = pc, !.n = n] IN
               wk \in Renders!Diffs /\ wk.pc = pc
    BY <1>2, InputsTyped DEF Renders!Diffs
  <2> QED
    BY <1>1, <2>1
<1>4. s2' \in 0 .. MaxBuild /\ s3' \in BOOLEAN /\ s5' \subseteq DiffWorkers
  BY <1>1, CacheParts, RendersAssumption
<1>5. /\ s11' \in SUBSET Renders!Inputs /\ s11 \subseteq s11'
      /\ s7' \in SUBSET Renders!Entry /\ Right(s7', s11')
      /\ s8' \in SUBSET Renders!Entry /\ Right(s8', s11')
      /\ s9' \in SUBSET Renders!Entry /\ Right(s9', s11')
  BY <1>1, CacheParts
<1>6. RightDiff(wk, s11') /\ UNCHANGED <<s1, s4, s6>>
  BY <1>1, <1>3, NothingInHand
<1> QED
  BY <1>3, <1>4, <1>5, <1>6, WorkerKept

LEMMA LandKept ==
    ASSUME Renders!CacheInv, NEW w \in DiffWorkers, Renders!Land(w) PROVE Renders!CacheInv'
<1>1. /\ UNCHANGED <<s1, s4, s6, s7, s8, s9, s11>> /\ s5' = s5 \ {w} /\ s10[w].pc = "land"
      /\ \/ /\ s10' = [s10 EXCEPT ![w] = [s10[w] EXCEPT !.pc = "hash"]]
            /\ s2' = (IF s2 = 0 THEN s1 ELSE s2) /\ s3' = TRUE
         \/ s10' = [s10 EXCEPT ![w] = Renders!Failed(w)] /\ UNCHANGED <<s2, s3>>
  BY Zenon DEF Renders!Land, Renders!Set
<1>2. s10[w] \in Renders!Diffs
  BY CacheParts
<1>3. PICK wk \in Renders!Diffs :
        wk.pc \in {"hash", "idle", "failed"} /\ s10' = [s10 EXCEPT ![w] = wk]
  <2>1. LET wk == [s10[w] EXCEPT !.pc = "hash"] IN wk \in Renders!Diffs /\ wk.pc = "hash"
    BY <1>2 DEF Renders!Diffs
  <2> QED
    BY <1>1, <1>2, <2>1, FailedTyped
<1>4. s2' \in 0 .. MaxBuild /\ s3' \in BOOLEAN /\ s5' \subseteq DiffWorkers
  <2>1. s1 \in 0 .. MaxBuild /\ s2 \in 0 .. MaxBuild /\ s3 \in BOOLEAN /\ s5 \subseteq DiffWorkers
    BY CacheParts, RendersAssumption
  <2>2. s2' \in {s1, s2} /\ (s3' = TRUE \/ s3' = s3) /\ s5' = s5 \ {w}
    BY <1>1
  <2>3. s3' \in BOOLEAN
    BY <2>1, <2>2, Zenon
  <2> QED
    BY <2>1, <2>2, <2>3
<1>5. /\ s11' \in SUBSET Renders!Inputs /\ s11 \subseteq s11'
      /\ s7' \in SUBSET Renders!Entry /\ Right(s7', s11')
      /\ s8' \in SUBSET Renders!Entry /\ Right(s8', s11')
      /\ s9' \in SUBSET Renders!Entry /\ Right(s9', s11')
  BY <1>1, CacheParts
<1>6. RightDiff(wk, s11') /\ UNCHANGED <<s1, s4, s6>>
  BY <1>1, <1>3, NothingInHand
<1> QED
  BY <1>3, <1>4, <1>5, <1>6, WorkerKept

LEMMA HashKept ==
    ASSUME Renders!CacheInv, NEW w \in DiffWorkers, NEW vals \in Values, Renders!Hash(w, vals)
    PROVE  Renders!CacheInv'
<1> DEFINE in == [tree |-> s2, vals |-> vals, helm |-> s6]
           key == Renders!ContentKey(in)
           wk == [s10[w] EXCEPT !.inputs = in, !.key = key]
<1>1. in \in Renders!Inputs /\ key = in
  BY CacheParts, RendersAssumption DEF Renders!Inputs, Renders!ContentKey
<1>2. wk \in Renders!Diffs /\ wk.inputs = in /\ wk.key = in
  BY <1>1, CacheParts DEF Renders!Diffs
<1>3. /\ UNCHANGED <<s1, s2, s3, s4, s5, s6, s8, s9, s11>>
      /\ \/ /\ Renders!Holds(s7, key) /\ UNCHANGED s7
            /\ s10' = [s10 EXCEPT ![w] = [wk EXCEPT !.pc = "hit", !.body = Renders!BodyOf(s7, key)]]
         \/ /\ Renders!Holds(s8, key)
            /\ s7' = Renders!Stored(s7, key, Renders!BodyOf(s8, key))
            /\ s10' = [s10 EXCEPT ![w] = [wk EXCEPT !.pc = "hit", !.body = Renders!BodyOf(s8, key)]]
         \/ s10' = [s10 EXCEPT ![w] = [wk EXCEPT !.pc = "render"]] /\ UNCHANGED s7
  BY Zenon DEF Renders!Hash, Renders!Set
<1> HIDE DEF in, key, wk
<1>4. ASSUME NEW body \in Renders!Inputs, body = key \/ key \in s11
      PROVE  LET hit == [wk EXCEPT !.pc = "hit", !.body = body] IN
             hit \in Renders!Diffs /\ RightDiff(hit, s11)
  BY <1>1, <1>2, <1>4 DEF Renders!Diffs, RightDiff
<1>5. LET miss == [wk EXCEPT !.pc = "render"] IN miss \in Renders!Diffs /\ RightDiff(miss, s11)
  BY <1>1, <1>2 DEF Renders!Diffs, RightDiff
<1>6. ASSUME Renders!Holds(s7, key)
      PROVE  Renders!BodyOf(s7, key) \in Renders!Inputs
             /\ (Renders!BodyOf(s7, key) = key \/ key \in s11)
  BY <1>6, HeldRight, CacheParts
<1>7. ASSUME Renders!Holds(s8, key)
      PROVE  /\ Renders!BodyOf(s8, key) \in Renders!Inputs
             /\ Renders!BodyOf(s8, key) = key \/ key \in s11
  BY <1>7, HeldRight, CacheParts
<1>8. s7' \in SUBSET Renders!Entry /\ Right(s7', s11)
  <2>1. CASE s7' = s7
    BY <2>1, CacheParts
  <2>2. CASE /\ Renders!Holds(s8, key)
             /\ s7' = Renders!Stored(s7, key, Renders!BodyOf(s8, key))
    BY <1>1, <1>7, <2>2, StoredRight, CacheParts
  <2> QED
    BY <1>3, <2>1, <2>2
<1>9. PICK new \in Renders!Diffs : RightDiff(new, s11) /\ s10' = [s10 EXCEPT ![w] = new]
  BY <1>3, <1>4, <1>5, <1>6, <1>7
<1>10. /\ s2' \in 0 .. MaxBuild /\ s3' \in BOOLEAN /\ s5' \subseteq DiffWorkers
       /\ s11' \in SUBSET Renders!Inputs /\ s11 \subseteq s11'
       /\ s8' \in SUBSET Renders!Entry /\ Right(s8', s11')
       /\ s9' \in SUBSET Renders!Entry /\ Right(s9', s11')
  BY <1>3, CacheParts
<1> QED
  BY <1>3, <1>8, <1>9, <1>10, WorkerKept

LEMMA RenderKept ==
    ASSUME Renders!CacheInv, NEW w \in DiffWorkers, Renders!Render(w) \/ Renders!Audit(w)
    PROVE  Renders!CacheInv'
<1> DEFINE wk == s10[w]
           body == [wk.inputs EXCEPT !.tree = s2]
           done == [wk EXCEPT !.pc = "done", !.body = body]
<1>1. /\ wk \in Renders!Diffs /\ wk.inputs \in Renders!Inputs /\ wk.key = wk.inputs
      /\ body \in Renders!Inputs /\ (body.tree = wk.key.tree => body = wk.key)
  BY CacheParts, BodyTyped DEF Renders!Diffs, Renders!Render, Renders!Audit, RightDiff
<1>2. UNCHANGED <<s1, s2, s3, s4, s5, s6>>
  BY DEF Renders!Render, Renders!Audit
<1>3. s2' \in 0 .. MaxBuild /\ s3' \in BOOLEAN /\ s5' \subseteq DiffWorkers
  BY <1>2, CacheParts
<1>4. CASE Renders!Set(w, Renders!Failed(w)) /\ UNCHANGED <<s7, s8, s9, s11>>
  <2>1. /\ Renders!Failed(w) \in Renders!Diffs /\ RightDiff(Renders!Failed(w), s11')
        /\ s10' = [s10 EXCEPT ![w] = Renders!Failed(w)]
    BY <1>1, <1>4, FailedTyped, NothingInHand DEF Renders!Set
  <2>2. /\ s11' \in SUBSET Renders!Inputs /\ s11 \subseteq s11'
        /\ s7' \in SUBSET Renders!Entry /\ Right(s7', s11')
        /\ s8' \in SUBSET Renders!Entry /\ Right(s8', s11')
        /\ s9' \in SUBSET Renders!Entry /\ Right(s9', s11')
    BY <1>4, CacheParts
  <2> QED
    BY <1>2, <1>3, <2>1, <2>2, WorkerKept
<1>5. CASE /\ Renders!Put(wk.key, body) /\ Renders!Set(w, done)
           /\ s8' = s8 \/ s8' = Renders!Without(s8, wk.key)
  <2>1. /\ s11' \in SUBSET Renders!Inputs /\ s11 \subseteq s11'
        /\ body = wk.key \/ wk.key \in s11'
        /\ s7' \in SUBSET Renders!Entry /\ Right(s7', s11')
        /\ s9' \in SUBSET Renders!Entry /\ Right(s9', s11')
    BY <1>1, <1>5, PutRight
  <2>2. s8' \in SUBSET Renders!Entry /\ Right(s8', s11')
    BY <1>5, <2>1, CacheParts DEF Right, Renders!Without
  <2>3. done \in Renders!Diffs /\ RightDiff(done, s11')
    BY <1>1, <2>1 DEF Renders!Diffs, RightDiff
  <2>4. s10' = [s10 EXCEPT ![w] = done]
    BY <1>5 DEF Renders!Set
  <2> HIDE DEF done
  <2> QED
    BY <1>2, <1>3, <2>1, <2>2, <2>3, <2>4, WorkerKept
<1> QED
  BY <1>4, <1>5, Zenon DEF Renders!Render, Renders!Audit

LEMMA RendersKept ==
    Renders!CacheInv /\ [Renders!CacheNext]_(Renders!cacheVars) => Renders!CacheInv'
<1> SUFFICES ASSUME Renders!CacheInv, [Renders!CacheNext]_(Renders!cacheVars)
             PROVE  Renders!CacheInv'
  OBVIOUS
<1>1. CASE Renders!PushAgain \/ Renders!Stale \/ UNCHANGED Renders!cacheVars
  <2>1. /\ s2' = s2 /\ s5' = s5 /\ s6' = s6 /\ s7' = s7 /\ s8' = s8
        /\ s9' = s9 /\ s10' = s10 /\ s11' = s11
        /\ s3' = s3 \/ s3' = FALSE
        /\ s1' = s1 \/ (s1 < MaxBuild /\ s1' = s1 + 1)
        /\ s4' = s4 \/ (s4 < MaxStale /\ s4' = s4 + 1)
    <3>1. CASE Renders!PushAgain
      <4>1. s2' = s2 /\ s5' = s5 /\ s6' = s6 /\ s7' = s7 /\ s8' = s8
        /\ s9' = s9 /\ s10' = s10 /\ s11' = s11 /\ s3' = s3 /\ s4' = s4
        BY <3>1 DEF Renders!PushAgain
      <4>2. s1 < MaxBuild /\ s1' = s1 + 1
        BY <3>1 DEF Renders!PushAgain
      <4> QED
        BY <4>1, <4>2, Zenon
    <3>2. CASE Renders!Stale
      <4>1. s2' = s2 /\ s5' = s5 /\ s6' = s6 /\ s7' = s7 /\ s8' = s8
        /\ s9' = s9 /\ s10' = s10 /\ s11' = s11 /\ s1' = s1
        BY <3>2 DEF Renders!Stale
      <4>2. s3' = FALSE /\ s4 < MaxStale /\ s4' = s4 + 1
        BY <3>2, Zenon DEF Renders!Stale
      <4> QED
        BY <4>1, <4>2, Zenon
    <3>3. CASE UNCHANGED Renders!cacheVars
      <4>1. s2' = s2 /\ s5' = s5 /\ s6' = s6 /\ s7' = s7 /\ s8' = s8
        /\ s9' = s9 /\ s10' = s10 /\ s11' = s11 /\ s1' = s1 /\ s3' = s3 /\ s4' = s4
        BY <3>3 DEF Renders!cacheVars
      <4> QED
        BY <4>1, Zenon
    <3> QED
      BY <1>1, <3>1, <3>2, <3>3, Zenon
  <2>2. s1' \in 1 .. MaxBuild /\ s4' \in 0 .. MaxStale
    BY <2>1, CacheParts, RendersAssumption
  <2>3. s3' \in BOOLEAN
    BY <2>1, CacheParts, Zenon
  <2> QED
    BY <2>1, <2>2, <2>3, CacheParts, CachePartsNext, Zenon
<1>2. CASE Renders!NewPod
  <2>1. /\ UNCHANGED <<s1, s4, s8, s11>> /\ s2' = 0 /\ s3' = FALSE /\ s5' = {}
        /\ s6 < MaxHelm /\ s6' = s6 + 1 /\ s7' = {} /\ s9' = {}
        /\ s10' = [w \in DiffWorkers |-> Renders!Resting]
    BY <1>2, Zenon DEF Renders!NewPod
  <2>2. /\ s1' \in 1 .. MaxBuild /\ s2' \in 0 .. MaxBuild
        /\ s4' \in 0 .. MaxStale /\ s5' \subseteq DiffWorkers /\ s3' \in BOOLEAN
    <3>1. s1 \in 1 .. MaxBuild /\ s4 \in 0 .. MaxStale
      BY CacheParts
    <3>2. 0 \in 0 .. MaxBuild
      BY RendersAssumption
    <3> QED
      BY <2>1, <3>1, <3>2
  <2>5. s6' \in 1 .. MaxHelm
    <3>1. s6 \in 1 .. MaxHelm /\ MaxHelm \in Nat
      BY CacheParts, RendersAssumption
    <3>2. s6' = s6 + 1 /\ s6 < MaxHelm
      BY <2>1
    <3> QED
      BY <3>1, <3>2
  <2>3. /\ s10' \in [DiffWorkers -> Renders!Diffs]
        /\ \A v \in DiffWorkers : RightDiff(s10'[v], s11')
    BY <2>1, InputsTyped, NothingInHand
  <2>4. /\ s7' \in SUBSET Renders!Entry /\ Right(s7', s11')
        /\ s8' \in SUBSET Renders!Entry /\ Right(s8', s11')
        /\ s9' \in SUBSET Renders!Entry /\ Right(s9', s11') /\ s11' \subseteq Renders!Inputs
    BY <2>1, CacheParts DEF Right
  <2> QED
    BY <2>2, <2>3, <2>4, <2>5, CachePartsNext
<1>3. ASSUME NEW w \in DiffWorkers, Renders!Unreadable(w) \/ Renders!Served(w)
      PROVE  Renders!CacheInv'
  <2>1. s10[w] \in Renders!Diffs /\ RightDiff(s10[w], s11)
    BY CacheParts
  <2>2. PICK wk \in Renders!Diffs : RightDiff(wk, s11) /\ s10' = [s10 EXCEPT ![w] = wk]
    <3>1. CASE Renders!Unreadable(w)
      <4>1. Renders!Failed(w) \in Renders!Diffs /\ RightDiff(Renders!Failed(w), s11)
        BY <2>1, FailedTyped, NothingInHand
      <4>2. s10' = [s10 EXCEPT ![w] = Renders!Failed(w)]
        BY <3>1 DEF Renders!Unreadable, Renders!Set
      <4> QED
        BY <4>1, <4>2
    <3>2. CASE Renders!Served(w)
      <4> DEFINE wk == [s10[w] EXCEPT !.pc = "done"]
      <4>1. wk \in Renders!Diffs /\ RightDiff(wk, s11)
        BY <2>1, <3>2 DEF Renders!Diffs, RightDiff, Renders!Served
      <4>2. s10' = [s10 EXCEPT ![w] = wk]
        BY <3>2 DEF Renders!Served, Renders!Set
      <4> HIDE DEF wk
      <4> QED
        BY <4>1, <4>2
    <3> QED
      BY <1>3, <3>1, <3>2
  <2>3. UNCHANGED <<s1, s2, s3, s4, s5, s6, s7, s8, s9, s11>>
    BY <1>3 DEF Renders!Unreadable, Renders!Served
  <2>4. /\ s2' \in 0 .. MaxBuild /\ s3' \in BOOLEAN /\ s5' \subseteq DiffWorkers
        /\ s11' \in SUBSET Renders!Inputs /\ s11 \subseteq s11'
        /\ s7' \in SUBSET Renders!Entry /\ Right(s7', s11')
        /\ s8' \in SUBSET Renders!Entry /\ Right(s8', s11')
        /\ s9' \in SUBSET Renders!Entry /\ Right(s9', s11')
    BY <2>3, CacheParts
  <2> QED
    BY <2>2, <2>3, <2>4, WorkerKept
<1>4. ASSUME NEW e \in s9, Renders!Upload(e) PROVE Renders!CacheInv'
  <2>1. /\ UNCHANGED <<s1, s2, s3, s4, s5, s6, s7, s10, s11>> /\ s9' = s9 \ {e}
        /\ s8' = s8 \/ s8' = Renders!Stored(s8, e.key, e.body)
    BY <1>4 DEF Renders!Upload
  <2>2. /\ e.key \in Renders!Inputs /\ e.body \in Renders!Inputs
        /\ e.body = e.key \/ e.key \in s11
    BY CacheParts DEF Renders!Entry, Right
  <2>3. s8' \in SUBSET Renders!Entry /\ Right(s8', s11)
    BY <2>1, <2>2, StoredRight, CacheParts
  <2>4. s9' \in SUBSET Renders!Entry /\ Right(s9', s11)
    BY <2>1, CacheParts DEF Right
  <2> QED
    BY <2>1, <2>3, <2>4, CacheParts
    DEF Renders!CacheInv, Renders!CacheTypeOK, Renders!TiersAreRight, Renders!TakenIsRight, Right
<1> QED
  BY <1>1, <1>2, <1>3, <1>4, EnsureKept, LandKept, HashKept, RenderKept, Zenon
  DEF Renders!CacheNext

LEMMA RendersStart == ServicesInit /\ part = "renders" => Renders!CacheInv
<1> SUFFICES ASSUME Renders!CacheInit PROVE Renders!CacheInv
  BY DEF ServicesInit
<1>1. /\ s1 \in 1 .. MaxBuild /\ s2 \in 0 .. MaxBuild /\ s3 \in BOOLEAN
      /\ s4 \in 0 .. MaxStale /\ s5 \subseteq DiffWorkers /\ s6 \in 1 .. MaxHelm
  <2>1. s1 = 1 /\ s2 = 0 /\ s3 = FALSE /\ s4 = 0 /\ s5 = {} /\ s6 = 1
    BY Zenon DEF Renders!CacheInit
  <2>2. 1 \in 1 .. MaxBuild /\ 0 \in 0 .. MaxBuild /\ 0 \in 0 .. MaxStale /\ 1 \in 1 .. MaxHelm
    <3>1. MaxBuild \in Nat \ {0} /\ MaxHelm \in Nat \ {0} /\ MaxStale \in Nat
      BY RendersAssumption
    <3> QED
      BY <3>1
  <2> QED
    BY <2>1, <2>2
<1>2. /\ s10 \in [DiffWorkers -> Renders!Diffs]
      /\ \A w \in DiffWorkers : RightDiff(s10[w], s11)
  BY InputsTyped, NothingInHand DEF Renders!CacheInit
<1>3. s7 = {} /\ s8 = {} /\ s9 = {} /\ s11 = {}
  BY DEF Renders!CacheInit
<1>4. Right(s7, s11) /\ Right(s8, s11) /\ Right(s9, s11)
  BY <1>3 DEF Right
<1> QED
  BY <1>1, <1>2, <1>3, <1>4, CacheParts

(* What a diff uses as its main side is the render of the inputs it hashed, *)
(* unless the tree was replaced between the hash and the helm run           *)
THEOREM RendersAreRight == ServicesSpec => []ServedIsRight
<1> DEFINE I == part = "renders" => Renders!CacheInv
<1>1. ServicesInit => I
  BY RendersStart
<1>2. I /\ [ServicesNext]_all => I'
  <2> SUFFICES ASSUME I, [ServicesNext]_all, (part = "renders")' PROVE Renders!CacheInv'
    OBVIOUS
  <2>1. part = "renders"
    BY DEF ServicesNext, all
  <2> QED
    BY <2>1, RendersGo, RendersKept
<1>3. I => ServedIsRight
  <2> SUFFICES ASSUME Renders!CacheInv, NEW w \in DiffWorkers, s10[w].pc = "done"
               PROVE  s10[w].body = s10[w].inputs \/ s10[w].key \in s11
    BY DEF ServedIsRight, Renders!ServedIsRight
  <2> QED
    BY CacheParts DEF RightDiff
<1> QED
  BY <1>1, <1>2, <1>3, PTL DEF ServicesSpec

-----------------------------------------------------------------------------
(* The comments: CommentStore *)

LEMMA CommentsGo ==
    ASSUME part = "comments", [ServicesNext]_all
    PROVE  [Comments!CommentsNext]_(Comments!commentVars)
  BY DEF ServicesNext, SlotStep, all, slots, Comments!commentVars

(* The least of some numbers is one of them *)
LEMMA MinIn == ASSUME NEW S, S \subseteq Nat, S # {} PROVE Comments!Min(S) \in S
<1> DEFINE R == {ss \in Nat \X Nat : ss[1] < ss[2]}
<1>1. IsWellFoundedOn(R, Nat)
  BY NatLessThanWellFounded DEF OpToRel
<1>2. \A x, y \in Nat : y < x => <<y, x>> \in R
  OBVIOUS
<1> HIDE DEF R
<1>3. PICK x \in S : \A y \in S : ~(<<y, x>> \in R)
  BY <1>1, WFMin
<1>4. ASSUME NEW y \in S PROVE x <= y
  <2>1. x \in Nat /\ y \in Nat
    OBVIOUS
  <2>2. ~(y < x)
    BY <1>2, <1>3, <2>1, Zenon
  <2> QED
    BY <2>1, <2>2
<1> QED
  BY <1>4 DEF Comments!Min

(* Counting: a set with at most one element more, and one with one less *)
LEMMA OneMore ==
    ASSUME NEW S, NEW T, NEW x, IsFiniteSet(S), T \subseteq S \cup {x}
    PROVE  Cardinality(T) \in Nat /\ Cardinality(S) \in Nat /\ Cardinality(T) <= Cardinality(S) + 1
<1>1. /\ IsFiniteSet(S \cup {x}) /\ Cardinality(S) \in Nat
      /\ Cardinality(S \cup {x}) \in {Cardinality(S), Cardinality(S) + 1}
  BY FS_AddElement, FS_CardinalityType
<1>2. IsFiniteSet(T) /\ Cardinality(T) <= Cardinality(S \cup {x})
  BY <1>1, FS_Subset
<1>3. Cardinality(T) \in Nat
  BY <1>2, FS_CardinalityType
<1> QED
  BY <1>1, <1>2, <1>3

LEMMA NoMore ==
    ASSUME NEW S, NEW T, IsFiniteSet(S), T \subseteq S
    PROVE  Cardinality(T) \in Nat /\ Cardinality(S) \in Nat /\ Cardinality(T) <= Cardinality(S)
<1>1. IsFiniteSet(T) /\ Cardinality(T) <= Cardinality(S)
  BY FS_Subset
<1> QED
  BY <1>1, FS_CardinalityType

LEMMA OneLess ==
    ASSUME NEW S, NEW T, NEW x \in S, IsFiniteSet(S), T \subseteq S \ {x}
    PROVE  Cardinality(T) \in Nat /\ Cardinality(S) \in Nat /\ Cardinality(T) <= Cardinality(S) - 1
<1>1. /\ IsFiniteSet(S \ {x}) /\ Cardinality(S) \in Nat
      /\ Cardinality(S \ {x}) = Cardinality(S) - 1
  BY FS_RemoveElement, FS_CardinalityType
<1>2. IsFiniteSet(T) /\ Cardinality(T) <= Cardinality(S \ {x})
  BY <1>1, FS_Subset
<1>3. Cardinality(T) \in Nat
  BY <1>2, FS_CardinalityType
<1> QED
  BY <1>1, <1>2, <1>3

(* The instance's Cardinality is the library's *)
LEMMA SameCount == ASSUME NEW S PROVE Comments!Cardinality(S) = Cardinality(S)
  BY Zenon DEF Comments!Cardinality, Cardinality

(* The invariant in its parts.  What a pass has found: *)
Writes(ps) == ps.pc \in {"render", "put", "post"}
Found(ps, l) ==
    /\ Writes(ps) /\ ps.id # 0 => l[ps.id].state # "none"
    /\ ps.pc = "put" => ps.id # 0
    /\ ps.pc = "post" /\ ps.id # 0 => l[ps.id].state = "deleted"

LEMMA CommentParts ==
    Comments!CommentsInv <=>
      /\ s1 \in [Comments!Ids -> Comments!Entries] /\ s2 \in Pods
      /\ s3 \in [Pods -> {0} \cup Comments!Ids] /\ s4 \in [Pods -> Comments!Passes]
      /\ s5 \in 0 .. MaxPasses /\ s6 \in 0 .. MaxLost
      /\ s7 \in 0 .. MaxMeddling /\ s8 \in 0 .. MaxMeddling
      /\ Cardinality(Comments!Handed) <= s7 /\ s7 <= s8
      /\ Cardinality(Comments!Ours) + Cardinality(Comments!Handed) <= 1 + s6 + s7
      /\ Writes(s4[s2]) =>
           Cardinality(Comments!Ours \ {s4[s2].id}) + Cardinality(Comments!Handed) <= s6 + s7
      /\ \A p \in Pods : Found(s4[p], s1)
<1>1. Comments!FoundWas <=> \A p \in Pods : Found(s4[p], s1)
  BY Zenon DEF Comments!FoundWas, Comments!Writing, Found, Writes
<1>2. Comments!Writing(s2) <=> Writes(s4[s2])
  BY Zenon DEF Comments!Writing, Writes
<1>3. Comments!LeaderAddsNone <=>
        (Writes(s4[s2]) =>
           Cardinality(Comments!Ours \ {s4[s2].id}) + Cardinality(Comments!Handed)
             <= s6 + s7)
  BY <1>2, SameCount, Zenon DEF Comments!LeaderAddsNone
<1>5. Comments!HandedOver <=> Cardinality(Comments!Handed) <= s7 /\ s7 <= s8
  BY SameCount, Zenon DEF Comments!HandedOver
<1>6. Comments!AllPaidFor <=>
        Cardinality(Comments!Ours) + Cardinality(Comments!Handed) <= 1 + s6 + s7
  BY SameCount, Zenon DEF Comments!AllPaidFor
<1>4. Comments!CommentsTypeOK <=>
      /\ s1 \in [Comments!Ids -> Comments!Entries] /\ s2 \in Pods
      /\ s3 \in [Pods -> {0} \cup Comments!Ids] /\ s4 \in [Pods -> Comments!Passes]
      /\ s5 \in 0 .. MaxPasses /\ s6 \in 0 .. MaxLost
      /\ s7 \in 0 .. MaxMeddling /\ s8 \in 0 .. MaxMeddling
  BY Zenon DEF Comments!CommentsTypeOK
<1> QED
  BY <1>1, <1>3, <1>4, <1>5, <1>6, Zenon DEF Comments!CommentsInv

LEMMA CommentPartsNext ==
    Comments!CommentsInv' <=>
      /\ s1' \in [Comments!Ids -> Comments!Entries] /\ s2' \in Pods
      /\ s3' \in [Pods -> {0} \cup Comments!Ids] /\ s4' \in [Pods -> Comments!Passes]
      /\ s5' \in 0 .. MaxPasses /\ s6' \in 0 .. MaxLost
      /\ s7' \in 0 .. MaxMeddling /\ s8' \in 0 .. MaxMeddling
      /\ Cardinality(Comments!Handed') <= s7' /\ s7' <= s8'
      /\ Cardinality(Comments!Ours') + Cardinality(Comments!Handed') <= 1 + s6' + s7'
      /\ Writes(s4'[s2']) =>
           Cardinality(Comments!Ours' \ {s4'[s2'].id}) + Cardinality(Comments!Handed') <= s6' + s7'
      /\ \A p \in Pods : Found(s4'[p], s1')
<1>1. Comments!FoundWas' <=> \A p \in Pods : Found(s4'[p], s1')
  BY Zenon DEF Comments!FoundWas, Comments!Writing, Found, Writes
<1>2. Comments!Writing(s2)' <=> Writes(s4'[s2'])
  BY Zenon DEF Comments!Writing, Writes
<1>3. Comments!LeaderAddsNone' <=>
        (Writes(s4'[s2']) =>
           Cardinality(Comments!Ours' \ {s4'[s2'].id}) + Cardinality(Comments!Handed')
             <= s6' + s7')
  BY <1>2, SameCount, Zenon DEF Comments!LeaderAddsNone
<1>5. Comments!HandedOver' <=> Cardinality(Comments!Handed') <= s7' /\ s7' <= s8'
  BY SameCount, Zenon DEF Comments!HandedOver
<1>6. Comments!AllPaidFor' <=>
        Cardinality(Comments!Ours') + Cardinality(Comments!Handed') <= 1 + s6' + s7'
  BY SameCount, Zenon DEF Comments!AllPaidFor
<1>4. Comments!CommentsTypeOK' <=>
      /\ s1' \in [Comments!Ids -> Comments!Entries] /\ s2' \in Pods
      /\ s3' \in [Pods -> {0} \cup Comments!Ids] /\ s4' \in [Pods -> Comments!Passes]
      /\ s5' \in 0 .. MaxPasses /\ s6' \in 0 .. MaxLost
      /\ s7' \in 0 .. MaxMeddling /\ s8' \in 0 .. MaxMeddling
  BY Zenon DEF Comments!CommentsTypeOK
<1> QED
  BY <1>1, <1>3, <1>4, <1>5, <1>6, Zenon DEF Comments!CommentsInv

(* The sets that are counted are finite *)
LEMMA Countable ==
    /\ IsFiniteSet(Comments!Ours) /\ IsFiniteSet(Comments!Handed)
    /\ IsFiniteSet(Comments!Ours') /\ IsFiniteSet(Comments!Handed')
<1>1. IsFiniteSet(Comments!Ids)
  <2>1. 1 \in Int /\ MaxComments \in Int
    BY CommentsAssumption
  <2> QED
    BY <2>1, FS_Interval DEF Comments!Ids
<1>2. /\ Comments!Ours \subseteq Comments!Ids /\ Comments!Handed \subseteq Pods
      /\ Comments!Ours' \subseteq Comments!Ids /\ Comments!Handed' \subseteq Pods
  BY DEF Comments!Ours, Comments!Handed
<1> QED
  BY <1>1, <1>2, CommentsAssumption, FS_Subset

(* A step of one pod's pass that leaves the comments and the lease alone *)
LEMMA PassKept ==
    ASSUME Comments!CommentsInv, NEW p \in Pods, NEW ps \in Comments!Passes,
           s4' = [s4 EXCEPT ![p] = ps], UNCHANGED <<s1, s2, s6, s7>>,
           s3' \in [Pods -> {0} \cup Comments!Ids], s5' \in 0 .. MaxPasses,
           s8' \in 0 .. MaxMeddling, s8' = s8 \/ s8' = s8 + 1,
           p = s2 \/ s4[p].pc # "idle" \/ ps.pc = "idle",
           Found(ps, s1),
           p = s2 /\ Writes(ps) =>
             Cardinality(Comments!Ours \ {ps.id}) + Cardinality(Comments!Handed) <= s6 + s7
    PROVE  Comments!CommentsInv'
<1>1. /\ s1' \in [Comments!Ids -> Comments!Entries] /\ s2' \in Pods
      /\ s4' \in [Pods -> Comments!Passes] /\ s4 \in [Pods -> Comments!Passes]
      /\ s6' \in 0 .. MaxLost /\ s7' \in 0 .. MaxMeddling
  BY CommentParts
<1>2. Comments!Ours' = Comments!Ours
  BY DEF Comments!Ours
<1>3. Comments!Handed' \subseteq Comments!Handed
  BY <1>1 DEF Comments!Handed
<1>4. /\ Cardinality(Comments!Handed') <= Cardinality(Comments!Handed)
      /\ Cardinality(Comments!Handed') \in Nat /\ Cardinality(Comments!Handed) \in Nat
      /\ Cardinality(Comments!Ours) \in Nat /\ s6 \in Nat /\ s7 \in Nat
  BY <1>3, Countable, NoMore, FS_CardinalityType, CommentParts
<1>5. ASSUME NEW q \in Pods PROVE Found(s4'[q], s1')
  BY <1>1, CommentParts
<1>6. /\ Cardinality(Comments!Handed') <= s7'
      /\ Cardinality(Comments!Ours') + Cardinality(Comments!Handed') <= 1 + s6' + s7'
  BY <1>2, <1>4, CommentParts
<1>7. ASSUME Writes(s4'[s2'])
      PROVE  Cardinality(Comments!Ours' \ {s4'[s2'].id}) + Cardinality(Comments!Handed')
               <= s6' + s7'
  <2>1. Cardinality(Comments!Ours \ {s4'[s2].id}) + Cardinality(Comments!Handed) <= s6 + s7
    <3>1. CASE p = s2
      <4>1. s4'[s2] = ps
        BY <1>1, <3>1
      <4> QED
        BY <1>7, <3>1, <4>1
    <3>2. CASE p # s2
      <4>1. s4'[s2] = s4[s2]
        BY <1>1, <3>2
      <4> QED
        BY <1>7, <4>1, CommentParts
    <3> QED
      BY <3>1, <3>2
  <2>2. Cardinality(Comments!Ours \ {s4'[s2].id}) \in Nat
    BY Countable, NoMore
  <2> QED
    BY <1>2, <1>4, <2>1, <2>2
<1>8. s7' <= s8'
  <2>1. s7 <= s8 /\ s7 \in 0 .. MaxMeddling /\ s8 \in 0 .. MaxMeddling /\ s7' = s7
    BY CommentParts
  <2> QED
    BY <2>1
<1> QED
  BY <1>1, <1>5, <1>6, <1>7, <1>8, CommentPartsNext

(* Whoever rests after a step adds nothing *)
LEMMA RestingPass ==
    /\ Comments!Resting \in Comments!Passes /\ Comments!Resting.pc = "idle"
    /\ \A l : Found(Comments!Resting, l)
    /\ ~Writes(Comments!Resting)
<1>1. 0 \in 0 .. MaxPasses /\ 0 \in 0 .. CommentTries - 1
  <2>1. MaxPasses \in Nat /\ CommentTries \in Nat \ {0}
    BY CommentsAssumption
  <2> QED
    BY <2>1
<1> QED
  BY <1>1 DEF Comments!Resting, Comments!Passes, Found, Writes

LEMMA LeaveKept ==
    ASSUME Comments!CommentsInv, NEW p \in Pods, Comments!Leave(p), UNCHANGED <<s1, s2, s6, s7>>,
           s3' \in [Pods -> {0} \cup Comments!Ids], s5' \in 0 .. MaxPasses,
           s8' \in 0 .. MaxMeddling, s8' = s8 \/ s8' = s8 + 1
    PROVE  Comments!CommentsInv'
<1>1. s4' = [s4 EXCEPT ![p] = Comments!Resting]
  BY DEF Comments!Leave
<1> QED
  BY <1>1, RestingPass, PassKept

(* A step that makes a comment of the service out of entry i, or rewrites    *)
(* it: it ends the pass that was to write, or costs a lost answer            *)
LEMMA AddKept ==
    ASSUME Comments!CommentsInv, NEW p \in Pods, NEW ps \in Comments!Passes,
           NEW i \in Comments!Ids, NEW e \in Comments!Entries, e.state = "ours",
           s1' = [s1 EXCEPT ![i] = e], s1[i].state # "deleted",
           i = s4[p].id \/ s4[p].id \notin Comments!Ours,
           s4[p].pc \in {"put", "post"}, s4' = [s4 EXCEPT ![p] = ps],
           UNCHANGED <<s2, s7>>,
           s3' \in [Pods -> {0} \cup Comments!Ids], s5' \in 0 .. MaxPasses,
           s6' \in 0 .. MaxLost, s8' \in 0 .. MaxMeddling, s8' = s8 \/ s8' = s8 + 1,
           \/ s6' = s6 /\ ps.pc = "idle"
           \/ s6' = s6 + 1 /\ (ps.pc = "idle" \/ (ps.pc = s4[p].pc /\ ps.id = s4[p].id))
    PROVE  Comments!CommentsInv'
<1> DEFINE O == Comments!Ours  H == Comments!Handed
<1>1. /\ s1 \in [Comments!Ids -> Comments!Entries] /\ s4 \in [Pods -> Comments!Passes]
      /\ s2 \in Pods /\ s6 \in Nat /\ s7 \in Nat /\ s7 \in 0 .. MaxMeddling
      /\ s6' \in Nat /\ s2' = s2 /\ s7' = s7
  BY CommentParts
<1>2. s1' \in [Comments!Ids -> Comments!Entries] /\ s4' \in [Pods -> Comments!Passes]
  BY <1>1
<1>3. O' \subseteq O \cup {i} /\ O' \subseteq (O \ {s4[p].id}) \cup {i}
  BY <1>1 DEF Comments!Ours
<1>4. H' \subseteq H /\ (p # s2 => p \in H) /\ (p # s2 /\ ps.pc = "idle" => H' \subseteq H \ {p})
  BY <1>1 DEF Comments!Handed
<1>5. ASSUME NEW q \in Pods PROVE Found(s4'[q], s1')
  <2>1. ASSUME NEW x \in Comments!Ids
        PROVE  /\ s1[x].state # "none" => s1'[x].state # "none"
               /\ s1[x].state = "deleted" => s1'[x].state = "deleted"
    BY <1>1
  <2>2. Found(s4[q], s1) /\ Found(s4[p], s1)
    BY CommentParts
  <2>3. s4'[q].pc = "idle" \/ (s4'[q].pc = s4[q].pc /\ s4'[q].id = s4[q].id)
    <3>1. CASE q = p
      BY <1>1, <3>1
    <3>2. CASE q # p
      BY <1>1, <3>2
    <3> QED
      BY <3>1, <3>2
  <2>4. s4[q].id \in {0} \cup Comments!Ids
    BY <1>1 DEF Comments!Passes
  <2>5. CASE s4'[q].pc = "idle"
    BY <2>5 DEF Found, Writes
  <2>6. CASE s4'[q].pc = s4[q].pc /\ s4'[q].id = s4[q].id
    BY <2>1, <2>2, <2>4, <2>6, Zenon DEF Found, Writes
  <2> QED
    BY <2>3, <2>5, <2>6
<1> DEFINE o == Cardinality(O)  o1 == Cardinality(O')
           h == Cardinality(H)  h1 == Cardinality(H')
           w == Cardinality(O \ {s4[s2].id})  w1 == Cardinality(O' \ {s4[s2].id})
<1>6. /\ o \in Nat /\ o1 \in Nat /\ h \in Nat /\ h1 \in Nat /\ w \in Nat /\ w1 \in Nat
      /\ o1 <= o + 1 /\ h1 <= h /\ w1 <= w + 1
  <2>1. /\ IsFiniteSet(O \ {s4[s2].id}) /\ O' \ {s4[s2].id} \subseteq (O \ {s4[s2].id}) \cup {i}
        /\ IsFiniteSet(O) /\ IsFiniteSet(H)
    BY <1>3, Countable, FS_RemoveElement
  <2>2. o \in Nat /\ o1 \in Nat /\ o1 <= o + 1
    BY <1>3, <2>1, OneMore
  <2>3. w \in Nat /\ w1 \in Nat /\ w1 <= w + 1
    BY <2>1, OneMore
  <2>4. h \in Nat /\ h1 \in Nat /\ h1 <= h
    BY <1>4, <2>1, NoMore
  <2> QED
    BY <2>2, <2>3, <2>4
<1>7. p = s2 => o1 <= w + 1
  <2>1. IsFiniteSet(O \ {s4[s2].id})
    BY Countable, FS_RemoveElement
  <2> QED
    BY <1>3, <2>1, OneMore
<1>8. p # s2 /\ ps.pc = "idle" => h1 <= h - 1
  BY <1>4, Countable, OneLess
<1>9. /\ h <= s7 /\ o + h <= 1 + s6 + s7
      /\ Writes(s4[s2]) => w + h <= s6 + s7
  BY CommentParts
<1>10. /\ p = s2 => Writes(s4[s2])
       /\ p # s2 => s4'[s2] = s4[s2]
       /\ p = s2 => s4'[s2] = ps
  BY <1>1 DEF Writes
<1>11. /\ Writes(s4'[s2]) => ps.pc # "idle" \/ p # s2
       /\ Writes(s4'[s2]) => Writes(s4[s2]) /\ s4'[s2].id = s4[s2].id
  BY <1>10 DEF Writes
<1> HIDE DEF O, H, o, o1, h, h1, w, w1
<1>12. h1 <= s7' /\ o1 + h1 <= 1 + s6' + s7'
  <2>1. CASE s6' = s6 /\ ps.pc = "idle"
    BY <1>1, <1>6, <1>7, <1>8, <1>9, <1>10, <2>1
  <2>2. CASE s6' = s6 + 1
    BY <1>1, <1>6, <1>9, <2>2
  <2> QED
    BY <2>1, <2>2
<1>13. ASSUME Writes(s4'[s2]) PROVE w1 + h1 <= s6' + s7' /\ s4'[s2].id = s4[s2].id
  <2>1. CASE s6' = s6 /\ ps.pc = "idle"
    BY <1>1, <1>6, <1>8, <1>9, <1>11, <1>13, <2>1
  <2>2. CASE s6' = s6 + 1
    BY <1>1, <1>6, <1>9, <1>11, <1>13, <2>2
  <2> QED
    BY <2>1, <2>2
<1>14. Writes(s4'[s2']) =>
         Cardinality(Comments!Ours' \ {s4'[s2'].id}) + Cardinality(Comments!Handed') <= s6' + s7'
  BY <1>1, <1>13 DEF O, H, w1, h1
<1>15. s7' <= s8'
  <2>1. s7 <= s8 /\ s7 \in 0 .. MaxMeddling /\ s8 \in 0 .. MaxMeddling /\ s7' = s7
    BY CommentParts
  <2> QED
    BY <2>1
<1> QED
  BY <1>1, <1>2, <1>5, <1>12, <1>14, <1>15, CommentPartsNext DEF O, H, o1, h1

(* The state's parts that most steps leave alone *)
LEMMA PartTypes ==
    ASSUME Comments!CommentsInv
    PROVE  /\ s1 \in [Comments!Ids -> Comments!Entries] /\ s2 \in Pods
           /\ s3 \in [Pods -> {0} \cup Comments!Ids] /\ s4 \in [Pods -> Comments!Passes]
           /\ s5 \in 0 .. MaxPasses /\ s6 \in 0 .. MaxLost
           /\ s7 \in 0 .. MaxMeddling /\ s8 \in 0 .. MaxMeddling
  BY CommentParts

LEMMA BeginPassKept ==
    ASSUME Comments!CommentsInv, NEW p \in Pods, Comments!BeginPass(p) PROVE Comments!CommentsInv'
<1>1. p = s2 /\ UNCHANGED <<s1, s2, s3, s5, s6, s7, s8>>
  BY DEF Comments!BeginPass, Comments!people
<1>2. PICK pc \in {"find", "scan"} : s4' = [s4 EXCEPT ![p] = [s4[p] EXCEPT !.pc = pc]]
  BY Zenon DEF Comments!BeginPass
<1> DEFINE ps == [s4[p] EXCEPT !.pc = pc]
<1>3. ps \in Comments!Passes /\ ps.pc = pc
  BY PartTypes DEF Comments!Passes
<1>4. s4' = [s4 EXCEPT ![p] = ps]
  BY <1>2
<1> HIDE DEF ps
<1>5. Found(ps, s1) /\ ~Writes(ps)
  BY <1>3 DEF Found, Writes
<1> QED
  BY <1>1, <1>3, <1>4, <1>5, PartTypes, PassKept

(* A pass that found the service's comment, or none *)
LEMMA FoundKept ==
    ASSUME Comments!CommentsInv, NEW p \in Pods, NEW id \in {0} \cup Comments!Ids,
           s4[p].pc \in {"find", "scan"},
           id \in Comments!Ours \/ (id = 0 /\ Comments!Ours = {}),
           s4' = [s4 EXCEPT ![p] = [s4[p] EXCEPT !.pc = "render", !.id = id]],
           UNCHANGED <<s1, s2, s5, s6, s7, s8>>, s3' \in [Pods -> {0} \cup Comments!Ids]
    PROVE  Comments!CommentsInv'
<1> DEFINE ps == [s4[p] EXCEPT !.pc = "render", !.id = id]
<1>1. ps \in Comments!Passes /\ ps.pc = "render" /\ ps.id = id
  BY PartTypes DEF Comments!Passes
<1>2. s4' = [s4 EXCEPT ![p] = ps]
  OBVIOUS
<1> HIDE DEF ps
<1>3. Found(ps, s1)
  BY <1>1 DEF Found, Comments!Ours
<1>4. Cardinality(Comments!Ours \ {id}) + Cardinality(Comments!Handed) <= s6 + s7
  <2>1. /\ Cardinality(Comments!Handed) <= s7 /\ s6 \in Nat /\ s7 \in Nat
        /\ Cardinality(Comments!Ours) + Cardinality(Comments!Handed) <= 1 + s6 + s7
        /\ Cardinality(Comments!Handed) \in Nat
    BY CommentParts, Countable, FS_CardinalityType
  <2>2. CASE id \in Comments!Ours
    <3>1. /\ Cardinality(Comments!Ours \ {id}) \in Nat /\ Cardinality(Comments!Ours) \in Nat
          /\ Cardinality(Comments!Ours \ {id}) <= Cardinality(Comments!Ours) - 1
      BY <2>2, Countable, OneLess
    <3> QED
      BY <2>1, <3>1
  <2>3. CASE Comments!Ours = {}
    <3>1. Cardinality(Comments!Ours \ {id}) = 0
      <4>1. Comments!Ours \ {id} = {}
        BY <2>3
      <4> QED
        BY <4>1, FS_EmptySet
    <3> QED
      BY <2>1, <3>1
  <2> QED
    BY <2>2, <2>3
<1> QED
  BY <1>1, <1>2, <1>3, <1>4, PartTypes, PassKept

LEMMA FindKept ==
    ASSUME Comments!CommentsInv, NEW p \in Pods, Comments!Find(p) PROVE Comments!CommentsInv'
<1>1. s4[p].pc = "find" /\ UNCHANGED <<s1, s2, s5, s6, s7, s8>>
  BY DEF Comments!Find, Comments!people
<1>2. s3' = s3 \/ s3' = [s3 EXCEPT ![p] = 0]
  BY Zenon DEF Comments!Find
<1>3. s3' \in [Pods -> {0} \cup Comments!Ids] /\ s3[p] \in {0} \cup Comments!Ids
  BY <1>2, PartTypes
<1>4. CASE s3[p] \in Comments!Ours
  <2>1. s4' = [s4 EXCEPT ![p] = [s4[p] EXCEPT !.pc = "render", !.id = s3[p]]]
    BY <1>4, Zenon DEF Comments!Find
  <2> QED
    BY <1>1, <1>3, <1>4, <2>1, FoundKept
<1>5. CASE s3[p] \notin Comments!Ours
  <2> DEFINE ps == [s4[p] EXCEPT !.pc = "scan", !.id = 0]
  <2>1. s4' = [s4 EXCEPT ![p] = ps]
    BY <1>5, Zenon DEF Comments!Find
  <2>2. ps \in Comments!Passes /\ ps.pc = "scan"
    BY PartTypes DEF Comments!Passes
  <2> HIDE DEF ps
  <2>3. Found(ps, s1) /\ ~Writes(ps)
    BY <2>2 DEF Found, Writes
  <2> QED
    BY <1>1, <1>3, <2>1, <2>2, <2>3, PartTypes, PassKept
<1> QED
  BY <1>4, <1>5

LEMMA ScanKept ==
    ASSUME Comments!CommentsInv, NEW p \in Pods, Comments!Scan(p) PROVE Comments!CommentsInv'
<1> DEFINE id == IF Comments!Ours = {} THEN 0 ELSE Comments!Min(Comments!Ours)
<1>1. /\ s4[p].pc = "scan" /\ UNCHANGED <<s1, s2, s5, s6, s7, s8>>
      /\ s4' = [s4 EXCEPT ![p] = [s4[p] EXCEPT !.pc = "render", !.id = id]]
      /\ s3' = s3 \/ s3' = [s3 EXCEPT ![p] = id]
  BY Zenon DEF Comments!Scan, Comments!people
<1>2. id \in Comments!Ours \/ (id = 0 /\ Comments!Ours = {})
  <2>1. Comments!Ours \subseteq Nat
    BY CommentsAssumption DEF Comments!Ours, Comments!Ids
  <2> QED
    BY <2>1, MinIn
<1>3. id \in {0} \cup Comments!Ids
  BY <1>2 DEF Comments!Ours
<1> HIDE DEF id
<1>4. s3' \in [Pods -> {0} \cup Comments!Ids]
  BY <1>1, <1>3, PartTypes
<1> QED
  BY <1>1, <1>2, <1>3, <1>4, FoundKept

LEMMA CommentRenderKept ==
    ASSUME Comments!CommentsInv, NEW p \in Pods, Comments!Render(p) PROVE Comments!CommentsInv'
<1>1. s4[p].pc = "render" /\ UNCHANGED <<s1, s2, s3, s6, s7, s8>>
  BY DEF Comments!Render, Comments!people
<1>2. CASE ~(p = s2 /\ s5 < MaxPasses)
  <2>1. Comments!Leave(p) /\ s5' = s5
    BY <1>2, Zenon DEF Comments!Render
  <2> QED
    BY <1>1, <2>1, PartTypes, LeaveKept
<1>3. CASE p = s2 /\ s5 < MaxPasses
  <2> DEFINE pc == IF s4[p].id = 0 THEN "post" ELSE "put"
             ps == [s4[p] EXCEPT !.pc = pc, !.text = s5', !.n = 0]
  <2>1. s4' = [s4 EXCEPT ![p] = ps] /\ s5' = s5 + 1
    BY <1>3, Zenon DEF Comments!Render
  <2>2. s5' \in 0 .. MaxPasses /\ 0 \in 0 .. CommentTries - 1
    <3>1. MaxPasses \in Nat /\ CommentTries \in Nat \ {0} /\ s5 \in 0 .. MaxPasses
      BY PartTypes, CommentsAssumption
    <3> QED
      BY <1>3, <2>1, <3>1
  <2>3. ps \in Comments!Passes /\ ps.pc = pc /\ ps.id = s4[p].id
    BY <2>2, PartTypes DEF Comments!Passes
  <2> HIDE DEF ps
  <2>4. Found(ps, s1)
    <3>1. Found(s4[p], s1)
      BY CommentParts
    <3> QED
      BY <1>1, <2>3, <3>1 DEF Found, Writes
  <2>5. Cardinality(Comments!Ours \ {ps.id}) + Cardinality(Comments!Handed) <= s6 + s7
    BY <1>1, <1>3, <2>3, CommentParts DEF Writes
  <2> QED
    BY <1>1, <2>1, <2>2, <2>3, <2>4, <2>5, PartTypes, PassKept
<1> QED
  BY <1>2, <1>3

LEMMA PutKept ==
    ASSUME Comments!CommentsInv, NEW p \in Pods, Comments!Put(p) PROVE Comments!CommentsInv'
<1> DEFINE i == s4[p].id
           e == [state |-> "ours", text |-> s4[p].text]
<1>1. s4[p].pc = "put" /\ UNCHANGED <<s2, s5, s6, s7, s8>>
  BY DEF Comments!Put, Comments!people
<1>2. Found(s4[p], s1) /\ s4[p] \in Comments!Passes
  BY CommentParts
<1>3. i \in Comments!Ids /\ s1[i].state # "none" /\ e \in Comments!Entries
  BY <1>1, <1>2 DEF Found, Writes, Comments!Passes, Comments!Entries
<1>4. CASE Comments!Exists(i)
  <2>1. s1' = [s1 EXCEPT ![i] = e] /\ s4' = [s4 EXCEPT ![p] = Comments!Resting] /\ s3' = s3
    BY <1>4, Zenon DEF Comments!Put, Comments!Leave
  <2>2. s1[i].state # "deleted" /\ e.state = "ours"
    BY <1>4 DEF Comments!Exists
  <2> HIDE DEF e
  <2> QED
    BY <1>1, <1>3, <2>1, <2>2, RestingPass, PartTypes, AddKept
<1>5. CASE ~Comments!Exists(i)
  <2> DEFINE ps == [s4[p] EXCEPT !.pc = "post", !.n = 0]
  <2>1. s4' = [s4 EXCEPT ![p] = ps] /\ s3' = [s3 EXCEPT ![p] = 0] /\ s1' = s1
    BY <1>5, Zenon DEF Comments!Put
  <2>2. 0 \in 0 .. CommentTries - 1
    <3>1. CommentTries \in Nat \ {0}
      BY CommentsAssumption
    <3> QED
      BY <3>1
  <2>3. ps \in Comments!Passes /\ ps.pc = "post" /\ ps.id = i
    BY <1>2, <2>2 DEF Comments!Passes
  <2>4. s1[i].state = "deleted"
    <3>1. s1[i] \in Comments!Entries
      BY <1>3, PartTypes
    <3> QED
      BY <1>3, <1>5, <3>1 DEF Comments!Exists, Comments!Entries
  <2> HIDE DEF ps
  <2>5. Found(ps, s1)
    BY <1>3, <2>3, <2>4 DEF Found, Writes
  <2>6. p = s2 =>
          Cardinality(Comments!Ours \ {ps.id}) + Cardinality(Comments!Handed) <= s6 + s7
    BY <1>1, <2>3, CommentParts DEF Writes
  <2>7. s3' \in [Pods -> {0} \cup Comments!Ids]
    BY <2>1, PartTypes
  <2> QED
    BY <1>1, <2>1, <2>3, <2>5, <2>6, <2>7, PartTypes, PassKept
<1> QED
  BY <1>4, <1>5

(* A new comment takes the place of no other *)
LEMMA CreatedIs ==
    ASSUME Comments!Room, NEW t \in 0 .. MaxPasses
    PROVE  \E i \in Comments!Ids, e \in Comments!Entries :
             /\ s1[i].state = "none" /\ e.state = "ours"
             /\ Comments!Created(t) = [s1 EXCEPT ![i] = e]
<1> DEFINE free == {j \in Comments!Ids : s1[j].state = "none"}
           i == Comments!Min(free)
           e == [state |-> "ours", text |-> t]
<1>1. free \subseteq Nat /\ free # {}
  BY CommentsAssumption DEF Comments!Room, Comments!Ids
<1>2. i \in free
  BY <1>1, MinIn
<1>3. Comments!Created(t) = [s1 EXCEPT ![i] = e]
  BY Zenon DEF Comments!Created
<1>4. e \in Comments!Entries /\ e.state = "ours"
  BY DEF Comments!Entries
<1> HIDE DEF e, i
<1> QED
  BY <1>2, <1>3, <1>4

LEMMA PostKept ==
    ASSUME Comments!CommentsInv, NEW p \in Pods, Comments!Post(p) PROVE Comments!CommentsInv'
<1>1. /\ s4[p].pc = "post" /\ UNCHANGED <<s2, s5, s6, s7, s8>> /\ Comments!Room
      /\ s1' = Comments!Created(s4[p].text)
      /\ s4' = [s4 EXCEPT ![p] = Comments!Resting]
  BY DEF Comments!Post, Comments!people, Comments!Leave
<1>2. s4[p].text \in 0 .. MaxPasses /\ s4[p].id \in {0} \cup Comments!Ids
  BY PartTypes DEF Comments!Passes
<1>3. PICK i \in Comments!Ids, e \in Comments!Entries :
        s1[i].state = "none" /\ e.state = "ours" /\ s1' = [s1 EXCEPT ![i] = e]
  BY <1>1, <1>2, CreatedIs
<1>4. s4[p].id \notin Comments!Ours
  <2>1. Found(s4[p], s1)
    BY CommentParts
  <2>2. 0 \notin Comments!Ids
    BY CommentsAssumption DEF Comments!Ids
  <2> QED
    BY <1>1, <2>1, <2>2 DEF Found, Writes, Comments!Ours
<1>5. s3' \in [Pods -> {0} \cup Comments!Ids]
  <2>1. s1'[i].state = "ours" /\ s1'[i] # s1[i]
    BY <1>3, PartTypes
  <2>2. (CHOOSE j \in Comments!Ids : s1'[j] # s1[j]) \in Comments!Ids
    BY <2>1
  <2>3. s3' = [s3 EXCEPT ![p] = CHOOSE j \in Comments!Ids : s1'[j] # s1[j]]
    BY Zenon DEF Comments!Post
  <2> QED
    BY <2>2, <2>3, PartTypes
<1>6. /\ s1[i].state # "deleted" /\ s4[p].pc \in {"put", "post"} /\ s6' = s6
      /\ UNCHANGED <<s2, s7>>
  BY <1>1, <1>3
<1>7. s5' \in 0 .. MaxPasses /\ s6' \in 0 .. MaxLost /\ s8' \in 0 .. MaxMeddling
  BY <1>1, PartTypes
<1> QED
  BY <1>1, <1>3, <1>4, <1>5, <1>6, <1>7, RestingPass, AddKept

(* A request that was carried out unheard *)
LEMMA CarriedOutIs ==
    ASSUME Comments!CommentsInv, NEW p \in Pods, Comments!CarriedOut(p)
    PROVE  /\ s6' = s6 + 1 /\ s6' \in 0 .. MaxLost /\ s4[p].pc \in {"put", "post"}
           /\ \E i \in Comments!Ids, e \in Comments!Entries :
                /\ e.state = "ours" /\ s1' = [s1 EXCEPT ![i] = e] /\ s1[i].state # "deleted"
                /\ i = s4[p].id \/ s4[p].id \notin Comments!Ours
<1>1. s4[p].text \in 0 .. MaxPasses /\ s4[p].id \in {0} \cup Comments!Ids /\ Found(s4[p], s1)
  BY CommentParts DEF Comments!Passes
<1>2. s6' = s6 + 1 /\ s6' \in 0 .. MaxLost /\ s4[p].pc \in {"put", "post"}
  <2>1. s6' = s6 + 1 /\ s6 < MaxLost /\ s4[p].pc \in {"put", "post"}
    BY DEF Comments!CarriedOut
  <2>2. s6 \in 0 .. MaxLost /\ MaxLost \in Nat
    BY PartTypes, CommentsAssumption
  <2> QED
    BY <2>1, <2>2
<1>3. CASE /\ s4[p].pc = "put" /\ Comments!Exists(s4[p].id)
           /\ s1' = [s1 EXCEPT ![s4[p].id] = [state |-> "ours", text |-> s4[p].text]]
  <2> DEFINE e == [state |-> "ours", text |-> s4[p].text]
  <2>1. e \in Comments!Entries /\ e.state = "ours"
    BY <1>1 DEF Comments!Entries
  <2>2. s4[p].id \in Comments!Ids /\ s1[s4[p].id].state # "deleted"
    BY <1>1, <1>3 DEF Found, Writes, Comments!Exists
  <2>3. s1' = [s1 EXCEPT ![s4[p].id] = e]
    BY <1>3
  <2> HIDE DEF e
  <2> QED
    BY <1>2, <2>1, <2>2, <2>3
<1>4. CASE s4[p].pc = "post" /\ Comments!Room /\ s1' = Comments!Created(s4[p].text)
  <2>1. PICK i \in Comments!Ids, e \in Comments!Entries :
          s1[i].state = "none" /\ e.state = "ours" /\ s1' = [s1 EXCEPT ![i] = e]
    BY <1>1, <1>4, CreatedIs
  <2>2. s4[p].id \notin Comments!Ours
    <3>1. 0 \notin Comments!Ids
      BY CommentsAssumption DEF Comments!Ids
    <3> QED
      BY <1>1, <1>4, <3>1 DEF Found, Writes, Comments!Ours
  <2>3. s1[i].state # "deleted"
    BY <2>1
  <2> QED
    BY <1>2, <2>1, <2>2, <2>3
<1> QED
  BY <1>3, <1>4, Zenon DEF Comments!CarriedOut

LEMMA ResendKept ==
    ASSUME Comments!CommentsInv, NEW p \in Pods, Comments!Resend(p) PROVE Comments!CommentsInv'
<1>1. Comments!CarriedOut(p) /\ UNCHANGED <<s2, s3, s4, s5, s7, s8>>
  BY DEF Comments!Resend, Comments!people
<1>2. PICK i \in Comments!Ids, e \in Comments!Entries :
        /\ e.state = "ours" /\ s1' = [s1 EXCEPT ![i] = e] /\ s1[i].state # "deleted"
        /\ i = s4[p].id \/ s4[p].id \notin Comments!Ours
  BY <1>1, CarriedOutIs
<1>3. s4[p] \in Comments!Passes /\ s4' = [s4 EXCEPT ![p] = s4[p]]
  BY <1>1, PartTypes
<1>4. s6' = s6 + 1 /\ s6' \in 0 .. MaxLost /\ s4[p].pc \in {"put", "post"}
  BY <1>1, CarriedOutIs
<1> QED
  BY <1>1, <1>2, <1>3, <1>4, PartTypes, AddKept

LEMMA LoseKept ==
    ASSUME Comments!CommentsInv, NEW p \in Pods, Comments!Lose(p) PROVE Comments!CommentsInv'
<1>1. s4[p].pc \in {"put", "post"} /\ UNCHANGED <<s2, s3, s5, s7, s8>>
  BY DEF Comments!Lose, Comments!people
<1>2. PICK ps \in Comments!Passes :
        /\ s4' = [s4 EXCEPT ![p] = ps]
        /\ ps.pc = "idle" \/ (ps.pc = s4[p].pc /\ ps.id = s4[p].id)
  <2>1. CASE s4[p].n < CommentTries - 1
    <3> DEFINE ps == [s4[p] EXCEPT !.n = s4[p].n + 1]
    <3>1. s4' = [s4 EXCEPT ![p] = ps]
      BY <2>1, Zenon DEF Comments!Lose
    <3>2. s4[p] \in Comments!Passes /\ s4[p].n + 1 \in 0 .. CommentTries - 1
      <4>1. s4[p] \in Comments!Passes /\ s4[p].n \in 0 .. CommentTries - 1 /\ CommentTries \in Nat
        BY PartTypes, CommentsAssumption DEF Comments!Passes
      <4> QED
        BY <2>1, <4>1
    <3>3. ps \in Comments!Passes /\ ps.pc = s4[p].pc /\ ps.id = s4[p].id
      BY <3>2 DEF Comments!Passes
    <3> HIDE DEF ps
    <3> QED
      BY <3>1, <3>3
  <2>2. CASE ~(s4[p].n < CommentTries - 1)
    <3>1. s4' = [s4 EXCEPT ![p] = Comments!Resting]
      BY <2>2, Zenon DEF Comments!Lose, Comments!GiveUp, Comments!Leave
    <3> QED
      BY <3>1, RestingPass
  <2> QED
    BY <2>1, <2>2
<1>3. CASE Comments!CarriedOut(p)
  <2>1. PICK i \in Comments!Ids, e \in Comments!Entries :
          /\ e.state = "ours" /\ s1' = [s1 EXCEPT ![i] = e] /\ s1[i].state # "deleted"
          /\ i = s4[p].id \/ s4[p].id \notin Comments!Ours
    BY <1>3, CarriedOutIs
  <2>2. s6' = s6 + 1 /\ s6' \in 0 .. MaxLost
    BY <1>3, CarriedOutIs
  <2> QED
    BY <1>1, <1>2, <2>1, <2>2, PartTypes, AddKept
<1>4. CASE UNCHANGED <<s1, s6>>
  <2>1. Found(s4[p], s1)
    BY CommentParts
  <2>2. Found(ps, s1)
    BY <1>2, <2>1, Zenon DEF Found, Writes
  <2>3. p = s2 /\ Writes(ps) =>
          Cardinality(Comments!Ours \ {ps.id}) + Cardinality(Comments!Handed) <= s6 + s7
    BY <1>1, <1>2, CommentParts DEF Writes
  <2> QED
    BY <1>1, <1>2, <1>4, <2>2, <2>3, PartTypes, PassKept
<1> QED
  BY <1>3, <1>4, Zenon DEF Comments!Lose

LEMMA MeddleKept ==
    ASSUME Comments!CommentsInv, NEW i \in Comments!Ids, Comments!Meddle(i)
    PROVE  Comments!CommentsInv'
<1>1. s1[i].state = "ours" /\ UNCHANGED <<s2, s3, s4, s5, s6, s7>>
  BY DEF Comments!Meddle
<1>2. PICK state \in {"deleted", "edited"} : s1' = [s1 EXCEPT ![i] = [s1[i] EXCEPT !.state = state]]
  BY Zenon DEF Comments!Meddle
<1>3. s8' \in 0 .. MaxMeddling /\ s7' <= s8'
  <2>1. s8 < MaxMeddling /\ s8' = s8 + 1 /\ s7' = s7
    BY DEF Comments!Meddle
  <2>2. s8 \in 0 .. MaxMeddling /\ s7 \in 0 .. MaxMeddling /\ MaxMeddling \in Nat /\ s7 <= s8
    BY CommentParts, CommentsAssumption
  <2> QED
    BY <2>1, <2>2
<1> DEFINE e == [s1[i] EXCEPT !.state = state]
<1>4. e \in Comments!Entries /\ e.state = state /\ s1' = [s1 EXCEPT ![i] = e]
  BY <1>2, PartTypes DEF Comments!Entries
<1> HIDE DEF e
<1>5. /\ s1' \in [Comments!Ids -> Comments!Entries] /\ Comments!Ours' \subseteq Comments!Ours
      /\ Comments!Handed' = Comments!Handed
  BY <1>1, <1>2, <1>4, PartTypes DEF Comments!Ours, Comments!Handed
<1>6. ASSUME NEW q \in Pods PROVE Found(s4'[q], s1')
  <2>1. ASSUME NEW x \in Comments!Ids
        PROVE  /\ s1[x].state # "none" => s1'[x].state # "none"
               /\ s1[x].state = "deleted" => s1'[x].state = "deleted"
    BY <1>1, <1>2, <1>4, PartTypes
  <2>2. Found(s4[q], s1) /\ s4' = s4 /\ s4[q].id \in {0} \cup Comments!Ids
    BY <1>1, CommentParts DEF Comments!Passes
  <2> QED
    BY <2>1, <2>2, Zenon DEF Found, Writes
<1>7. /\ Cardinality(Comments!Ours') <= Cardinality(Comments!Ours)
      /\ Cardinality(Comments!Ours') \in Nat /\ Cardinality(Comments!Ours) \in Nat
      /\ Cardinality(Comments!Handed) \in Nat /\ s6 \in Nat /\ s7 \in Nat
  BY <1>5, Countable, NoMore, FS_CardinalityType, PartTypes
<1>8. /\ Cardinality(Comments!Handed') <= s7'
      /\ Cardinality(Comments!Ours') + Cardinality(Comments!Handed') <= 1 + s6' + s7'
  BY <1>1, <1>5, <1>7, CommentParts
<1>9. ASSUME Writes(s4'[s2'])
      PROVE  Cardinality(Comments!Ours' \ {s4'[s2'].id}) + Cardinality(Comments!Handed')
               <= s6' + s7'
  <2>1. Cardinality(Comments!Ours \ {s4[s2].id}) + Cardinality(Comments!Handed) <= s6 + s7
    BY <1>1, <1>9, CommentParts
  <2>2. /\ Cardinality(Comments!Ours' \ {s4[s2].id}) <= Cardinality(Comments!Ours \ {s4[s2].id})
        /\ Cardinality(Comments!Ours' \ {s4[s2].id}) \in Nat
        /\ Cardinality(Comments!Ours \ {s4[s2].id}) \in Nat
    <3>1. /\ IsFiniteSet(Comments!Ours \ {s4[s2].id})
          /\ Comments!Ours' \ {s4[s2].id} \subseteq Comments!Ours \ {s4[s2].id}
      BY <1>5, Countable, FS_RemoveElement
    <3> QED
      BY <3>1, NoMore
  <2> QED
    BY <1>1, <1>5, <1>7, <2>1, <2>2
<1> QED
  BY <1>1, <1>3, <1>5, <1>6, <1>8, <1>9, PartTypes, CommentPartsNext

LEMMA TakeOverKept ==
    ASSUME Comments!CommentsInv, NEW p \in Pods, Comments!TakeOver(p) PROVE Comments!CommentsInv'
<1>1. /\ p # s2 /\ s2' = p /\ s7' = s7 + 1 /\ s8 < MaxMeddling /\ s8' = s8 + 1
      /\ UNCHANGED <<s1, s3, s4, s5, s6>>
  BY DEF Comments!TakeOver
<1>2. s8' \in 0 .. MaxMeddling /\ s7' \in 0 .. MaxMeddling /\ s7' <= s8'
  <2>1. /\ s8 \in 0 .. MaxMeddling /\ s7 \in 0 .. MaxMeddling /\ MaxMeddling \in Nat
        /\ s7 <= s8
    BY CommentParts, CommentsAssumption
  <2> QED
    BY <1>1, <2>1
<1>3. /\ Comments!Ours' = Comments!Ours /\ Comments!Handed' \subseteq Comments!Handed \cup {s2}
      /\ s4[p].pc # "idle" => /\ p \in Comments!Handed
                              /\ Comments!Handed' \subseteq (Comments!Handed \ {p}) \cup {s2}
  BY <1>1 DEF Comments!Ours, Comments!Handed
<1> DEFINE o == Cardinality(Comments!Ours)  h == Cardinality(Comments!Handed)
           h1 == Cardinality(Comments!Handed')
<1>4. o \in Nat /\ h \in Nat /\ h1 \in Nat /\ h1 <= h + 1 /\ s6 \in Nat /\ s7 \in Nat
  <2>1. h \in Nat /\ h1 \in Nat /\ h1 <= h + 1
    <3>1. IsFiniteSet(Comments!Handed) /\ Comments!Handed' \subseteq Comments!Handed \cup {s2}
      BY <1>3, Countable
    <3> QED
      BY <3>1, OneMore
  <2>2. o \in Nat
    BY Countable, FS_CardinalityType
  <2>3. s6 \in Nat /\ s7 \in Nat
    BY PartTypes
  <2> QED
    BY <2>1, <2>2, <2>3
<1>5. s4[p].pc # "idle" => h1 <= h
  <2> SUFFICES ASSUME s4[p].pc # "idle" PROVE h1 <= h
    OBVIOUS
  <2>1. /\ IsFiniteSet(Comments!Handed \ {p})
        /\ Cardinality(Comments!Handed \ {p}) = h - 1
    BY <1>3, Countable, FS_RemoveElement
  <2>2. h1 <= Cardinality(Comments!Handed \ {p}) + 1
    BY <1>3, <2>1, OneMore
  <2> QED
    BY <1>4, <2>1, <2>2
<1>6. h <= s7 /\ o + h <= 1 + s6 + s7
  BY CommentParts
<1> HIDE DEF o, h, h1
<1>7. h1 <= s7' /\ o + h1 <= 1 + s6 + s7'
  BY <1>1, <1>4, <1>6
<1>8. ASSUME Writes(s4[p])
      PROVE  Cardinality(Comments!Ours \ {s4[p].id}) + h1 <= s6 + s7'
  <2>1. s4[p].pc # "idle"
    BY <1>8 DEF Writes
  <2>2. /\ Cardinality(Comments!Ours \ {s4[p].id}) \in Nat
        /\ Cardinality(Comments!Ours \ {s4[p].id}) <= o
    BY Countable, NoMore DEF o
  <2> QED
    BY <1>1, <1>4, <1>5, <1>6, <2>1, <2>2
<1>9. \A q \in Pods : Found(s4'[q], s1')
  BY <1>1, CommentParts
<1>10. Writes(s4'[s2']) =>
         Cardinality(Comments!Ours' \ {s4'[s2'].id}) + Cardinality(Comments!Handed') <= s6' + s7'
  BY <1>1, <1>3, <1>8 DEF h1
<1>11. /\ Cardinality(Comments!Handed') <= s7'
       /\ Cardinality(Comments!Ours') + Cardinality(Comments!Handed') <= 1 + s6' + s7'
  BY <1>1, <1>3, <1>7 DEF o, h1
<1> QED
  BY <1>1, <1>2, <1>9, <1>10, <1>11, PartTypes, CommentPartsNext

LEMMA CommentsKept ==
    Comments!CommentsInv /\ [Comments!CommentsNext]_(Comments!commentVars) => Comments!CommentsInv'
<1> SUFFICES ASSUME Comments!CommentsInv, [Comments!CommentsNext]_(Comments!commentVars)
             PROVE  Comments!CommentsInv'
  OBVIOUS
<1>1. ASSUME NEW p \in Pods, Comments!FindFails(p) PROVE Comments!CommentsInv'
  <2>1. Comments!Leave(p) /\ UNCHANGED <<s1, s2, s3, s5, s6, s7, s8>>
    BY <1>1 DEF Comments!FindFails, Comments!people
  <2> QED
    BY <2>1, PartTypes, LeaveKept
<1>2. ASSUME NEW p \in Pods, Comments!Restart(p) PROVE Comments!CommentsInv'
  <2>1. /\ Comments!Leave(p) /\ UNCHANGED <<s1, s2, s5, s6, s7>>
        /\ s3' = [s3 EXCEPT ![p] = 0] /\ s8 < MaxMeddling /\ s8' = s8 + 1
    BY <1>2 DEF Comments!Restart
  <2>2. s8' \in 0 .. MaxMeddling
    <3>1. s8 \in 0 .. MaxMeddling /\ MaxMeddling \in Nat
      BY PartTypes, CommentsAssumption
    <3> QED
      BY <2>1, <3>1
  <2>3. s3' \in [Pods -> {0} \cup Comments!Ids]
    BY <2>1, PartTypes
  <2> QED
    BY <2>1, <2>2, <2>3, PartTypes, LeaveKept
<1>3. CASE UNCHANGED Comments!commentVars
  <2>1. /\ s1' = s1 /\ s2' = s2 /\ s3' = s3 /\ s4' = s4 /\ s5' = s5 /\ s6' = s6 /\ s7' = s7
        /\ s8' = s8
    BY <1>3 DEF Comments!commentVars, Comments!people
  <2>2. Comments!Ours' = Comments!Ours /\ Comments!Handed' = Comments!Handed
    BY <2>1 DEF Comments!Ours, Comments!Handed
  <2> QED
    BY <2>1, <2>2, CommentParts, CommentPartsNext, Zenon
<1> QED
  BY <1>1, <1>2, <1>3, BeginPassKept, FindKept, ScanKept, CommentRenderKept, PutKept, PostKept,
     LoseKept, ResendKept, TakeOverKept, MeddleKept, Zenon
  DEF Comments!CommentsNext

LEMMA CommentsStart == ServicesInit /\ part = "comments" => Comments!CommentsInv
<1> SUFFICES ASSUME Comments!CommentsInit PROVE Comments!CommentsInv
  BY DEF ServicesInit
<1>1. /\ s1 = [i \in Comments!Ids |-> [state |-> "none", text |-> 0]] /\ s2 \in Pods
      /\ s3 = [p \in Pods |-> 0] /\ s4 = [p \in Pods |-> Comments!Resting]
      /\ s5 = 0 /\ s6 = 0 /\ s7 = 0 /\ s8 = 0
  BY Zenon DEF Comments!CommentsInit
<1>2. 0 \in 0 .. MaxPasses /\ 0 \in 0 .. MaxLost /\ 0 \in 0 .. MaxMeddling
  BY CommentsAssumption
<1>3. [state |-> "none", text |-> 0] \in Comments!Entries
  BY <1>2 DEF Comments!Entries
<1>4. s1 \in [Comments!Ids -> Comments!Entries] /\ s4 \in [Pods -> Comments!Passes]
  BY <1>1, <1>3, RestingPass, Zenon
<1>5. Comments!Ours = {} /\ Comments!Handed = {}
  BY <1>1, RestingPass DEF Comments!Ours, Comments!Handed
<1>6. Cardinality(Comments!Ours) = 0 /\ Cardinality(Comments!Handed) = 0
  BY <1>5, FS_EmptySet
<1>7. ~Writes(s4[s2]) /\ \A p \in Pods : Found(s4[p], s1)
  BY <1>1, RestingPass
<1>8. s3 \in [Pods -> {0} \cup Comments!Ids]
  BY <1>1
<1>9. /\ Cardinality(Comments!Handed) <= s7 /\ s7 <= s8
      /\ Cardinality(Comments!Ours) + Cardinality(Comments!Handed) <= 1 + s6 + s7
  BY <1>1, <1>6
<1>10. s5 \in 0 .. MaxPasses /\ s6 \in 0 .. MaxLost /\ s7 \in 0 .. MaxMeddling
       /\ s8 \in 0 .. MaxMeddling
  BY <1>1, <1>2
<1> QED
  BY <1>1, <1>4, <1>7, <1>8, <1>9, <1>10, CommentParts

(* The service never has more comments on a pull request than the one it     *)
(* keeps and those that a lost answer, or a pod that lost the lease while it *)
(* was writing, may have left (upsert_comment)                               *)
THEOREM NoDuplicates == ServicesSpec => []NoNeedlessDuplicate
<1> DEFINE I == part = "comments" => Comments!CommentsInv
<1>1. ServicesInit => I
  BY CommentsStart
<1>2. I /\ [ServicesNext]_all => I'
  <2> SUFFICES ASSUME I, [ServicesNext]_all, (part = "comments")' PROVE Comments!CommentsInv'
    OBVIOUS
  <2>1. part = "comments"
    BY DEF ServicesNext, all
  <2> QED
    BY <2>1, CommentsGo, CommentsKept
<1>3. I => NoNeedlessDuplicate
  <2> SUFFICES ASSUME Comments!CommentsInv PROVE Comments!NoNeedlessDuplicate
    BY DEF NoNeedlessDuplicate
  <2>1. /\ Cardinality(Comments!Ours) + Cardinality(Comments!Handed) <= 1 + s6 + s7
        /\ Cardinality(Comments!Ours) \in Nat /\ Cardinality(Comments!Handed) \in Nat
        /\ s6 \in Nat /\ s7 \in Nat
    BY CommentParts, Countable, FS_CardinalityType
  <2>2. Cardinality(Comments!Ours) <= 1 + s6 + s7
    BY <2>1
  <2> QED
    BY <2>2, SameCount DEF Comments!NoNeedlessDuplicate
<1> QED
  BY <1>1, <1>2, <1>3, PTL DEF ServicesSpec

-----------------------------------------------------------------------------
(* The webhook: JFrogHook *)

LEMMA HookGo ==
    ASSUME part = "hook", [ServicesNext]_all
    PROVE  [Hook!HookNext]_(Hook!hookVars)
  BY DEF ServicesNext, SlotStep, all, slots, Hook!hookVars

LEMMA SameCards ==
    ASSUME NEW S
    PROVE  Hook!Cardinality(S) = Cardinality(S) /\ (Hook!IsFiniteSet(S) <=> IsFiniteSet(S))
<1>1. Hook!Cardinality(S) = Cardinality(S)
  BY Zenon DEF Hook!Cardinality, Cardinality
<1>2. Hook!IsFiniteSet(S) <=> IsFiniteSet(S)
  BY Zenon DEF Hook!IsFiniteSet, IsFiniteSet
<1> QED
  BY <1>1, <1>2

(* What RemoveAt leaves of a sequence *)
LEMMA Removed ==
    ASSUME NEW S, NEW q \in Seq(S), NEW i \in 1 .. Len(q)
    PROVE  /\ Hook!RemoveAt(q, i) \in Seq(S)
           /\ DOMAIN Hook!RemoveAt(q, i) = 1 .. Len(q) - 1
           /\ \A j \in 1 .. Len(q) - 1 :
                Hook!RemoveAt(q, i)[j] = IF j < i THEN q[j] ELSE q[j + 1]
<1> DEFINE a == SubSeq(q, 1, i - 1)
           b == SubSeq(q, i + 1, Len(q))
<1>1. /\ a \in Seq(S) /\ Len(a) = i - 1 /\ \A j \in 1 .. i - 1 : a[j] = q[j]
  OBVIOUS
<1>2. /\ b \in Seq(S) /\ Len(b) = Len(q) - i /\ \A j \in 1 .. Len(q) - i : b[j] = q[j + i]
  OBVIOUS
<1>3. Hook!RemoveAt(q, i) = a \o b
  BY DEF Hook!RemoveAt
<1> HIDE DEF a, b
<1>4. a \o b \in Seq(S) /\ Len(a \o b) = Len(q) - 1
  BY <1>1, <1>2
<1>5. ASSUME NEW j \in 1 .. Len(q) - 1 PROVE (a \o b)[j] = IF j < i THEN q[j] ELSE q[j + 1]
  BY <1>1, <1>2
<1> QED
  BY <1>3, <1>4, <1>5

LEMMA Pairs == ASSUME NEW a, NEW b PROVE <<a>> \o <<b>> = <<a, b>>
<1> DEFINE S == {a, b}
<1>1. <<a>> \in Seq(S) /\ <<b>> \in Seq(S) /\ <<a, b>> \in Seq(S)
  OBVIOUS
<1>2. /\ <<a>> \o <<b>> \in Seq(S) /\ Len(<<a>> \o <<b>>) = 2
      /\ (<<a>> \o <<b>>)[1] = a /\ (<<a>> \o <<b>>)[2] = b
  BY <1>1
<1>3. \A i \in 1 .. 2 : (<<a>> \o <<b>>)[i] = <<a, b>>[i]
  BY <1>2
<1> QED
  BY <1>1, <1>2, <1>3, SeqEqual

(* The tasks of a request that was handled *)
Task(kind, r) == [kind |-> kind, build |-> r.build]

LEMMA SubmittedIs ==
    ASSUME NEW r \in Hook!Requests
    PROVE  /\ r.relayed => Hook!Submitted(r) = <<>>
           /\ ~r.relayed /\ r.pod = s4 => Hook!Submitted(r) = <<Task("refresh", r)>>
           /\ ~r.relayed /\ r.pod # s4 =>
                Hook!Submitted(r) = <<Task("refresh", r), Task("relay", r)>>
<1>1. ASSUME r.relayed PROVE Hook!Submitted(r) = <<>>
  BY <1>1 DEF Hook!Submitted, Hook!Refreshes, Hook!Relays
<1>2. ASSUME ~r.relayed, r.pod = s4 PROVE Hook!Submitted(r) = <<Task("refresh", r)>>
  BY <1>2 DEF Hook!Submitted, Hook!Refreshes, Hook!Relays, Task
<1>3. ASSUME ~r.relayed, r.pod # s4
      PROVE  Hook!Submitted(r) = <<Task("refresh", r), Task("relay", r)>>
  <2>1. Hook!Submitted(r) = <<Task("refresh", r)>> \o <<Task("relay", r)>>
    BY <1>3, Zenon DEF Hook!Submitted, Hook!Refreshes, Hook!Relays, Task
  <2> QED
    BY <2>1, Pairs
<1> QED
  BY <1>1, <1>2, <1>3

LEMMA Submitting ==
    ASSUME NEW q \in Seq(Hook!Tasks), NEW r \in Hook!Requests,
           NEW new, new = q \o Hook!Submitted(r)
    PROVE  /\ new \in Seq(Hook!Tasks) /\ DOMAIN q \subseteq DOMAIN new
           /\ \A j \in DOMAIN q : new[j] = q[j]
           /\ \A j \in DOMAIN new \ DOMAIN q :
                /\ ~r.relayed /\ new[j].build = r.build
                /\ new[j].kind = "refresh" => j = Len(q) + 1
                /\ new[j].kind = "relay" => j = Len(q) + 2
           /\ ~r.relayed /\ r.pod # s4 =>
                /\ Len(q) + 2 \in DOMAIN new
                /\ new[Len(q) + 2].kind = "relay" /\ new[Len(q) + 2].build = r.build
<1> DEFINE a == Task("refresh", r)  b == Task("relay", r)
<1>1. /\ a \in Hook!Tasks /\ a.kind = "refresh" /\ a.build = r.build
      /\ b \in Hook!Tasks /\ b.kind = "relay" /\ b.build = r.build
  BY DEF Task, Hook!Tasks, Hook!Requests
<1> HIDE DEF a, b
<1>2. CASE r.relayed
  <2>1. new = q \o <<>>
    BY <1>2, SubmittedIs
  <2>2. new = q
    BY <2>1
  <2> QED
    BY <1>2, <2>2
<1>3. CASE ~r.relayed /\ r.pod = s4
  <2>1. new = q \o <<a>>
    BY <1>3, SubmittedIs DEF a
  <2>2. /\ new \in Seq(Hook!Tasks) /\ DOMAIN new = 1 .. Len(q) + 1 /\ new[Len(q) + 1] = a
        /\ \A j \in DOMAIN q : new[j] = q[j]
    BY <1>1, <2>1
  <2> QED
    BY <1>1, <1>3, <2>2
<1>4. CASE ~r.relayed /\ r.pod # s4
  <2>1. new = q \o <<a, b>>
    BY <1>4, SubmittedIs DEF a, b
  <2>2. /\ new \in Seq(Hook!Tasks) /\ DOMAIN new = 1 .. Len(q) + 2
        /\ new[Len(q) + 1] = a /\ new[Len(q) + 2] = b
        /\ \A j \in DOMAIN q : new[j] = q[j]
    BY <1>1, <2>1
  <2>3. ASSUME NEW j \in DOMAIN new \ DOMAIN q
        PROVE  /\ new[j].build = r.build
               /\ new[j].kind = "refresh" => j = Len(q) + 1
               /\ new[j].kind = "relay" => j = Len(q) + 2
    <3>1. j = Len(q) + 1 \/ j = Len(q) + 2
      BY <2>2
    <3> QED
      BY <1>1, <2>2, <3>1
  <2>4. Len(q) + 2 \in DOMAIN new /\ DOMAIN q \subseteq DOMAIN new
    BY <2>2
  <2>5. new[Len(q) + 2].kind = "relay" /\ new[Len(q) + 2].build = r.build
    BY <1>1, <2>2
  <2> QED
    BY <1>4, <2>2, <2>3, <2>4, <2>5
<1> QED
  BY <1>2, <1>3, <1>4

-----------------------------------------------------------------------------

(* Counting the tasks of a kind.  A task that is removed is one less: *)
LEMMA QueuedIs ==
    ASSUME NEW pl, NEW kind
    PROVE  \A x : x \in UNION {{p} \X {i \in DOMAIN pl[p] : pl[p][i].kind = kind} : p \in Pods}
             <=> /\ x = <<x[1], x[2]>> /\ x[1] \in Pods
                 /\ x[2] \in DOMAIN pl[x[1]] /\ pl[x[1]][x[2]].kind = kind
  OBVIOUS

LEMMA InQueue ==
    ASSUME NEW kind, NEW x
    PROVE  /\ x \in Hook!Queued(kind) <=>
                /\ x = <<x[1], x[2]>> /\ x[1] \in Pods
                /\ x[2] \in DOMAIN s5[x[1]] /\ s5[x[1]][x[2]].kind = kind
           /\ x \in Hook!Queued(kind)' <=>
                /\ x = <<x[1], x[2]>> /\ x[1] \in Pods
                /\ x[2] \in DOMAIN s5'[x[1]] /\ s5'[x[1]][x[2]].kind = kind
  BY QueuedIs DEF Hook!Queued

LEMMA QueuedRemoved ==
    ASSUME s5 \in [Pods -> Seq(Hook!Tasks)], NEW p \in Pods, NEW i \in DOMAIN s5[p],
           s5' = [s5 EXCEPT ![p] = Hook!RemoveAt(s5[p], i)],
           NEW kind, IsFiniteSet(Hook!Queued(kind))
    PROVE  /\ IsFiniteSet(Hook!Queued(kind)')
           /\ Cardinality(Hook!Queued(kind)') <= Cardinality(Hook!Queued(kind))
           /\ s5[p][i].kind = kind =>
                Cardinality(Hook!Queued(kind)') <= Cardinality(Hook!Queued(kind)) - 1
<1> DEFINE Q == Hook!Queued(kind)  Q1 == Hook!Queued(kind)'
           T == Q \ {<<p, i>>}
           f == [x \in Q1 |-> IF x[1] = p /\ x[2] >= i THEN <<p, x[2] + 1>> ELSE x]
<1>1. /\ DOMAIN s5[p] = 1 .. Len(s5[p]) /\ Len(s5[p]) \in Nat
      /\ DOMAIN s5'[p] = 1 .. Len(s5[p]) - 1
      /\ \A j \in 1 .. Len(s5[p]) - 1 : s5'[p][j] = IF j < i THEN s5[p][j] ELSE s5[p][j + 1]
      /\ \A q \in Pods \ {p} : s5'[q] = s5[q]
  <2>1. s5[p] \in Seq(Hook!Tasks)
    OBVIOUS
  <2>2. i \in 1 .. Len(s5[p]) /\ DOMAIN s5[p] = 1 .. Len(s5[p]) /\ Len(s5[p]) \in Nat
    BY <2>1
  <2>3. s5'[p] = Hook!RemoveAt(s5[p], i) /\ \A q \in Pods \ {p} : s5'[q] = s5[q]
    OBVIOUS
  <2> QED
    BY <2>1, <2>2, <2>3, Removed
<1>2. ASSUME NEW x \in Q1
      PROVE  /\ f[x] \in T /\ x[1] \in Pods /\ x = <<x[1], x[2]>>
             /\ x[1] = p => x[2] \in Nat
  <2>1. /\ x = <<x[1], x[2]>> /\ x[1] \in Pods
        /\ x[2] \in DOMAIN s5'[x[1]] /\ s5'[x[1]][x[2]].kind = kind
    BY InQueue
  <2>2. CASE x[1] = p /\ x[2] >= i
    <3>1. x[2] \in 1 .. Len(s5[p]) - 1 /\ s5'[p][x[2]] = s5[p][x[2] + 1]
      BY <1>1, <2>1, <2>2
    <3>2. x[2] + 1 \in DOMAIN s5[p] /\ s5[p][x[2] + 1].kind = kind /\ x[2] + 1 # i
      BY <1>1, <2>1, <2>2, <3>1
    <3>3. <<p, x[2] + 1>> \in Q
      BY <3>2, InQueue
    <3>4. f[x] = <<p, x[2] + 1>>
      BY <2>2
    <3> QED
      BY <2>1, <3>1, <3>2, <3>3, <3>4
  <2>3. CASE x[1] = p /\ ~(x[2] >= i)
    <3>1. x[2] \in 1 .. Len(s5[p]) - 1 /\ s5'[p][x[2]] = s5[p][x[2]] /\ x[2] # i
      BY <1>1, <2>1, <2>3
    <3>2. x \in Q
      BY <1>1, <2>1, <2>3, <3>1, InQueue
    <3>3. f[x] = x
      BY <2>3
    <3> QED
      BY <2>1, <3>1, <3>2, <3>3
  <2>4. CASE x[1] # p
    <3>1. x \in Q
      BY <1>1, <2>1, <2>4, InQueue
    <3>2. f[x] = x
      BY <2>4
    <3> QED
      BY <2>1, <2>4, <3>1, <3>2
  <2> QED
    BY <2>2, <2>3, <2>4
<1>3. ASSUME NEW x \in Q1, NEW y \in Q1, f[x] = f[y] PROVE x = y
  <2>1. /\ x = <<x[1], x[2]>> /\ y = <<y[1], y[2]>>
        /\ x[1] = p => x[2] \in Nat
        /\ y[1] = p => y[2] \in Nat
    BY <1>2
  <2>2. /\ f[x] = IF x[1] = p /\ x[2] >= i THEN <<p, x[2] + 1>> ELSE x
        /\ f[y] = IF y[1] = p /\ y[2] >= i THEN <<p, y[2] + 1>> ELSE y
    OBVIOUS
  <2>3. /\ f[x] = <<x[1], IF x[1] = p /\ x[2] >= i THEN x[2] + 1 ELSE x[2]>>
        /\ f[y] = <<y[1], IF y[1] = p /\ y[2] >= i THEN y[2] + 1 ELSE y[2]>>
    BY <2>1, <2>2
  <2>4. x[1] = y[1] /\ (IF x[1] = p /\ x[2] >= i THEN x[2] + 1 ELSE x[2])
                       = (IF y[1] = p /\ y[2] >= i THEN y[2] + 1 ELSE y[2])
    BY <1>3, <2>3
  <2>5. x[2] = y[2]
    BY <1>1, <2>1, <2>4
  <2> QED
    BY <2>1, <2>4, <2>5
<1>4. f \in Injection(Q1, T)
  BY <1>2, <1>3 DEF Injection, IsInjective
<1>5. /\ IsFiniteSet(T) /\ Cardinality(T) \in Nat /\ Cardinality(Q) \in Nat
      /\ Cardinality(T) <= Cardinality(Q)
      /\ <<p, i>> \in Q => Cardinality(T) = Cardinality(Q) - 1
  <2>1. IsFiniteSet(Q) /\ Cardinality(Q) \in Nat
    BY FS_CardinalityType
  <2>2. /\ IsFiniteSet(T)
        /\ Cardinality(T) = IF <<p, i>> \in Q THEN Cardinality(Q) - 1 ELSE Cardinality(Q)
    BY <2>1, FS_RemoveElement
  <2>3. Cardinality(T) \in Nat
    BY <2>2, FS_CardinalityType
  <2> HIDE DEF Q, T
  <2> QED
    BY <2>1, <2>2, <2>3
<1>6. IsFiniteSet(Q1) /\ Cardinality(Q1) <= Cardinality(T)
  BY <1>4, <1>5, FS_Injection
<1>7. s5[p][i].kind = kind => <<p, i>> \in Q
  BY InQueue
<1>8. Cardinality(Q1) \in Nat
  BY <1>6, FS_CardinalityType
<1> HIDE DEF Q, Q1, T
<1>9. /\ Cardinality(Q1) <= Cardinality(Q)
      /\ s5[p][i].kind = kind => Cardinality(Q1) <= Cardinality(Q) - 1
  BY <1>5, <1>6, <1>7, <1>8
<1> QED
  BY <1>6, <1>9 DEF Q, Q1

(* Tasks that are submitted are at most one more of each kind *)
LEMMA QueuedSubmitted ==
    ASSUME s5 \in [Pods -> Seq(Hook!Tasks)], NEW r \in Hook!Requests,
           s5' = [s5 EXCEPT ![r.pod] = s5[r.pod] \o Hook!Submitted(r)],
           NEW kind \in {"refresh", "relay"}, IsFiniteSet(Hook!Queued(kind))
    PROVE  /\ IsFiniteSet(Hook!Queued(kind)')
           /\ Cardinality(Hook!Queued(kind)') <= Cardinality(Hook!Queued(kind)) + 1
           /\ r.relayed => Cardinality(Hook!Queued(kind)') <= Cardinality(Hook!Queued(kind))
<1> DEFINE p == r.pod
           Q == Hook!Queued(kind)  Q1 == Hook!Queued(kind)'
           x0 == <<p, IF kind = "refresh" THEN Len(s5[p]) + 1 ELSE Len(s5[p]) + 2>>
<1>1. p \in Pods /\ s5[p] \in Seq(Hook!Tasks)
  BY DEF Hook!Requests
<1>2. s5'[p] = s5[p] \o Hook!Submitted(r) /\ \A q \in Pods \ {p} : s5'[q] = s5[q]
  BY <1>1
<1>3. /\ \A j \in DOMAIN s5[p] : s5'[p][j] = s5[p][j]
      /\ \A j \in DOMAIN s5'[p] \ DOMAIN s5[p] :
           /\ ~r.relayed
           /\ s5'[p][j].kind = "refresh" => j = Len(s5[p]) + 1
           /\ s5'[p][j].kind = "relay" => j = Len(s5[p]) + 2
  <2> DEFINE q == s5[p]  new == s5'[p]
  <2>1. q \in Seq(Hook!Tasks) /\ new = q \o Hook!Submitted(r)
    BY <1>1, <1>2
  <2> HIDE DEF q, new
  <2>2. /\ \A j \in DOMAIN q : new[j] = q[j]
        /\ \A j \in DOMAIN new \ DOMAIN q :
             /\ ~r.relayed
             /\ new[j].kind = "refresh" => j = Len(q) + 1
             /\ new[j].kind = "relay" => j = Len(q) + 2
    BY <2>1, Submitting
  <2> QED
    BY <2>2 DEF q, new
<1>4. ASSUME NEW x \in Q1 PROVE x \in Q \/ (x = x0 /\ ~r.relayed)
  <2>1. /\ x = <<x[1], x[2]>> /\ x[1] \in Pods
        /\ x[2] \in DOMAIN s5'[x[1]] /\ s5'[x[1]][x[2]].kind = kind
    BY InQueue
  <2>2. CASE x[1] # p
    BY <1>2, <2>1, <2>2, InQueue
  <2>3. CASE x[1] = p /\ x[2] \in DOMAIN s5[p]
    <3>1. s5[x[1]][x[2]].kind = kind /\ x[2] \in DOMAIN s5[x[1]]
      BY <1>3, <2>1, <2>3
    <3> QED
      BY <2>1, <3>1, InQueue
  <2>4. CASE x[1] = p /\ x[2] \notin DOMAIN s5[p]
    <3>1. ~r.relayed /\ x[2] = IF kind = "refresh" THEN Len(s5[p]) + 1 ELSE Len(s5[p]) + 2
      BY <1>3, <2>1, <2>4
    <3>2. x = <<p, x[2]>>
      BY <2>1, <2>4
    <3> QED
      BY <3>1, <3>2
  <2> QED
    BY <2>2, <2>3, <2>4
<1> HIDE DEF Q, Q1, x0, p
<1>5. IsFiniteSet(Q) /\ Cardinality(Q) \in Nat
  BY FS_CardinalityType DEF Q
<1>6. /\ IsFiniteSet(Q \cup {x0})
      /\ Cardinality(Q \cup {x0}) \in {Cardinality(Q), Cardinality(Q) + 1}
  BY <1>5, FS_AddElement
<1>7. Q1 \subseteq Q \cup {x0} /\ (r.relayed => Q1 \subseteq Q)
  BY <1>4
<1>8. IsFiniteSet(Q1) /\ Cardinality(Q1) <= Cardinality(Q \cup {x0})
  BY <1>6, <1>7, FS_Subset
<1>9. r.relayed => Cardinality(Q1) <= Cardinality(Q)
  BY <1>5, <1>7, FS_Subset
<1>10. Cardinality(Q1) \in Nat
  BY <1>8, FS_CardinalityType
<1>11. Cardinality(Q1) <= Cardinality(Q) + 1
  BY <1>5, <1>6, <1>8, <1>10
<1> QED
  BY <1>8, <1>9, <1>11 DEF Q, Q1

-----------------------------------------------------------------------------

(* The invariant in its parts *)
WireTold == \E r \in s2 : r.build = s1 /\ r.pod = s4
PoolTold ==
    \E p \in Pods \ {s4} : \E i \in DOMAIN s5[p] : s5[p][i].kind = "relay" /\ s5[p][i].build = s1
IsTold == s6[s4] = s1 \/ WireTold \/ PoolTold

LEMMA ToldIs == (Hook!Told <=> IsTold) /\ (Hook!Told' <=> IsTold')
<1>1. Hook!Told <=> IsTold
  BY Zenon DEF Hook!Told, IsTold, WireTold, PoolTold, Hook!IsRelayOf
<1>2. Hook!Told' <=> IsTold'
  BY Zenon DEF Hook!Told, IsTold, WireTold, PoolTold, Hook!IsRelayOf
<1> QED
  BY <1>1, <1>2

Counted(kind) ==
    /\ IsFiniteSet(Hook!Queued(kind))
    /\ Hook!Begun(kind) + Cardinality(Hook!Queued(kind)) + Cardinality(Hook!Unhandled) <= s7.events
Paid == IsFiniteSet(s2) /\ Counted("refresh") /\ Counted("relay")

Behind ==
    /\ \A r \in s2 : r.signed /\ r.build <= s1
    /\ \A p \in Pods : s3[p] <= s1
    /\ \A p \in Pods : \A i \in DOMAIN s5[p] : s5[p][i].build <= s1
OnItsWay ==
    /\ IsTold \/ \E r \in s2 : r.build = s1 /\ ~r.relayed
    /\ s1 # 0 => \A p \in Pods : s3[p] = s1 => IsTold
    /\ s1 # 0 /\ s3[s4] = s1 => s6[s4] = s1
    /\ \A r \in s2 : r.relayed /\ r.build = s1 => r.pod = s4

LEMMA HookParts ==
    Hook!HookInv <=>
      /\ s1 \in 0 .. MaxPushes /\ (\A r \in s2 : r \in Hook!Requests)
      /\ s3 \in [Pods -> 0 .. MaxPushes] /\ s4 \in Pods
      /\ s5 \in [Pods -> Seq(Hook!Tasks)] /\ s6 \in [Pods -> 0 .. MaxPushes]
      /\ s7 \in [events : Nat, refreshes : Nat, relays : Nat, moves : 0 .. MaxMoves]
      /\ s8 \subseteq {"window", "relay", "moved"}
      /\ Behind /\ (s8 = {} => OnItsWay) /\ Paid
<1>1. Hook!HookTypeOK <=>
      /\ s1 \in 0 .. MaxPushes /\ (\A r \in s2 : r \in Hook!Requests)
      /\ s3 \in [Pods -> 0 .. MaxPushes] /\ s4 \in Pods
      /\ s5 \in [Pods -> Seq(Hook!Tasks)] /\ s6 \in [Pods -> 0 .. MaxPushes]
      /\ s7 \in [events : Nat, refreshes : Nat, relays : Nat, moves : 0 .. MaxMoves]
      /\ s8 \subseteq {"window", "relay", "moved"}
  BY Zenon DEF Hook!HookTypeOK
<1>2. Hook!NothingFromAhead <=> Behind
  BY Zenon DEF Hook!NothingFromAhead, Behind
<1>3. Hook!ToldOrOnItsWay <=> (s8 = {} => OnItsWay)
  BY ToldIs, Zenon DEF Hook!ToldOrOnItsWay, OnItsWay, Hook!Announced
<1>4. Hook!EachOnce <=> Paid
  <2>1. \A S : Hook!Cardinality(S) = Cardinality(S) /\ (Hook!IsFiniteSet(S) <=> IsFiniteSet(S))
    BY SameCards
  <2> QED
    BY <2>1 DEF Hook!EachOnce, Paid, Counted
<1> QED
  BY <1>1, <1>2, <1>3, <1>4, Zenon DEF Hook!HookInv

LEMMA HookPartsNext ==
    Hook!HookInv' <=>
      /\ s1' \in 0 .. MaxPushes /\ (\A r \in s2' : r \in Hook!Requests)
      /\ s3' \in [Pods -> 0 .. MaxPushes] /\ s4' \in Pods
      /\ s5' \in [Pods -> Seq(Hook!Tasks)] /\ s6' \in [Pods -> 0 .. MaxPushes]
      /\ s7' \in [events : Nat, refreshes : Nat, relays : Nat, moves : 0 .. MaxMoves]
      /\ s8' \subseteq {"window", "relay", "moved"}
      /\ Behind' /\ (s8' = {} => OnItsWay') /\ Paid'
<1>1. Hook!HookTypeOK' <=>
      /\ s1' \in 0 .. MaxPushes /\ (\A r \in s2' : r \in Hook!Requests)
      /\ s3' \in [Pods -> 0 .. MaxPushes] /\ s4' \in Pods
      /\ s5' \in [Pods -> Seq(Hook!Tasks)] /\ s6' \in [Pods -> 0 .. MaxPushes]
      /\ s7' \in [events : Nat, refreshes : Nat, relays : Nat, moves : 0 .. MaxMoves]
      /\ s8' \subseteq {"window", "relay", "moved"}
  BY Zenon DEF Hook!HookTypeOK
<1>2. Hook!NothingFromAhead' <=> Behind'
  BY Zenon DEF Hook!NothingFromAhead, Behind
<1>3. Hook!ToldOrOnItsWay' <=> (s8' = {} => OnItsWay')
  BY ToldIs, Zenon DEF Hook!ToldOrOnItsWay, OnItsWay, Hook!Announced
<1>4. Hook!EachOnce' <=> Paid'
  <2>1. \A S : Hook!Cardinality(S) = Cardinality(S) /\ (Hook!IsFiniteSet(S) <=> IsFiniteSet(S))
    BY SameCards
  <2> QED
    BY <2>1 DEF Hook!EachOnce, Paid, Counted
<1> QED
  BY <1>1, <1>2, <1>3, <1>4, Zenon DEF Hook!HookInv

-----------------------------------------------------------------------------

(* The requests nobody has handled, as one is sent or taken *)
LEMMA WireGrows ==
    ASSUME IsFiniteSet(s2), NEW e, s2' = s2 \cup {e}
    PROVE  /\ IsFiniteSet(s2')
           /\ Cardinality(Hook!Unhandled) \in Nat /\ Cardinality(Hook!Unhandled') \in Nat
           /\ Cardinality(Hook!Unhandled') <= Cardinality(Hook!Unhandled) + 1
           /\ e.relayed => Cardinality(Hook!Unhandled') <= Cardinality(Hook!Unhandled)
<1> DEFINE U == Hook!Unhandled  U1 == Hook!Unhandled'
<1>1. IsFiniteSet(s2')
  BY FS_AddElement
<1>2. U \subseteq s2 /\ U1 \subseteq U \cup {e} /\ (e.relayed => U1 \subseteq U)
  BY DEF Hook!Unhandled
<1> HIDE DEF U, U1
<1>3. IsFiniteSet(U) /\ Cardinality(U) \in Nat
  BY <1>2, FS_Subset, FS_CardinalityType
<1>4. /\ IsFiniteSet(U \cup {e})
      /\ Cardinality(U \cup {e}) \in {Cardinality(U), Cardinality(U) + 1}
  BY <1>3, FS_AddElement
<1>5. IsFiniteSet(U1) /\ Cardinality(U1) <= Cardinality(U \cup {e})
  BY <1>2, <1>4, FS_Subset
<1>6. e.relayed => Cardinality(U1) <= Cardinality(U)
  BY <1>2, <1>3, FS_Subset
<1>7. Cardinality(U1) \in Nat
  BY <1>5, FS_CardinalityType
<1>8. Cardinality(U1) <= Cardinality(U) + 1
  BY <1>3, <1>4, <1>5, <1>7
<1> QED
  BY <1>1, <1>3, <1>6, <1>7, <1>8 DEF U, U1

LEMMA WireShrinks ==
    ASSUME IsFiniteSet(s2), NEW e \in s2, s2' = s2 \ {e}
    PROVE  /\ IsFiniteSet(s2')
           /\ Cardinality(Hook!Unhandled) \in Nat /\ Cardinality(Hook!Unhandled') \in Nat
           /\ Cardinality(Hook!Unhandled') <= Cardinality(Hook!Unhandled)
           /\ ~e.relayed => Cardinality(Hook!Unhandled') <= Cardinality(Hook!Unhandled) - 1
<1> DEFINE U == Hook!Unhandled  U1 == Hook!Unhandled'
<1>1. IsFiniteSet(s2')
  BY FS_RemoveElement
<1>2. U \subseteq s2 /\ U1 = U \ {e} /\ (~e.relayed => e \in U)
  BY DEF Hook!Unhandled
<1> HIDE DEF U, U1
<1>3. IsFiniteSet(U) /\ Cardinality(U) \in Nat
  BY <1>2, FS_Subset, FS_CardinalityType
<1>4. /\ IsFiniteSet(U1)
      /\ Cardinality(U1) = IF e \in U THEN Cardinality(U) - 1 ELSE Cardinality(U)
  BY <1>2, <1>3, FS_RemoveElement
<1>5. Cardinality(U1) \in Nat
  BY <1>4, FS_CardinalityType
<1>6. /\ Cardinality(U1) <= Cardinality(U)
      /\ ~e.relayed => Cardinality(U1) <= Cardinality(U) - 1
  BY <1>2, <1>3, <1>4, <1>5
<1> QED
  BY <1>1, <1>3, <1>5, <1>6 DEF U, U1

(* The account of an event: it pays for a refresh and a relay *)
LEMMA Balance ==
    ASSUME NEW kind \in {"refresh", "relay"}, Counted(kind),
           s7 \in [events : Nat, refreshes : Nat, relays : Nat, moves : 0 .. MaxMoves],
           IsFiniteSet(Hook!Queued(kind)'),
           Cardinality(Hook!Unhandled) \in Nat, Cardinality(Hook!Unhandled') \in Nat,
           NEW b \in Int, NEW q \in Int, NEW u \in Int, NEW e \in Int,
           Hook!Begun(kind)' = Hook!Begun(kind) + b,
           Cardinality(Hook!Queued(kind)') <= Cardinality(Hook!Queued(kind)) + q,
           Cardinality(Hook!Unhandled') <= Cardinality(Hook!Unhandled) + u,
           s7'.events = s7.events + e,
           b + q + u <= e
    PROVE  Counted(kind)'
<1>1. /\ Cardinality(Hook!Queued(kind)) \in Nat /\ Cardinality(Hook!Queued(kind)') \in Nat
      /\ Hook!Begun(kind) \in Nat /\ s7.events \in Nat
  BY FS_CardinalityType DEF Counted, Hook!Begun
<1>2. Hook!Begun(kind) + Cardinality(Hook!Queued(kind)) + Cardinality(Hook!Unhandled) <= s7.events
  BY DEF Counted
<1>3. Hook!Begun(kind)' + Cardinality(Hook!Queued(kind)') + Cardinality(Hook!Unhandled')
        <= s7'.events
  BY <1>1, <1>2
<1> QED
  BY <1>3 DEF Counted

SentType == [events : Nat, refreshes : Nat, relays : Nat, moves : 0 .. MaxMoves]

(* What is unchanged stays counted *)
LEMMA SameQueue ==
    ASSUME NEW kind, Counted(kind), s5' = s5
    PROVE  /\ IsFiniteSet(Hook!Queued(kind)')
           /\ Cardinality(Hook!Queued(kind)') <= Cardinality(Hook!Queued(kind)) + 0
<1>1. Hook!Queued(kind)' = Hook!Queued(kind)
  BY DEF Hook!Queued
<1>2. IsFiniteSet(Hook!Queued(kind)) /\ Cardinality(Hook!Queued(kind)) \in Nat
  BY FS_CardinalityType DEF Counted
<1> QED
  BY <1>1, <1>2

LEMMA SameWire ==
    ASSUME IsFiniteSet(s2), s2' = s2
    PROVE  /\ IsFiniteSet(s2')
           /\ Cardinality(Hook!Unhandled) \in Nat /\ Cardinality(Hook!Unhandled') \in Nat
           /\ Cardinality(Hook!Unhandled') <= Cardinality(Hook!Unhandled) + 0
<1>1. Hook!Unhandled' = Hook!Unhandled /\ Hook!Unhandled \subseteq s2
  BY DEF Hook!Unhandled
<1>2. IsFiniteSet(Hook!Unhandled) /\ Cardinality(Hook!Unhandled) \in Nat
  BY <1>1, FS_Subset, FS_CardinalityType
<1> QED
  BY <1>1, <1>2

-----------------------------------------------------------------------------

(* An event more on the wire is paid for *)
LEMMA EventPaid ==
    ASSUME Paid, s7 \in SentType, s5' = s5, NEW e, s2' = s2 \cup {e},
           s7' = [s7 EXCEPT !.events = @ + 1]
    PROVE  s7' \in SentType /\ Paid'
<1>1. /\ s7' \in SentType /\ s7'.events = s7.events + 1 /\ s7.events \in Nat
      /\ s7'.refreshes = s7.refreshes /\ s7'.relays = s7.relays
      /\ s7.refreshes \in Nat /\ s7.relays \in Nat
  BY DEF SentType
<1>2. IsFiniteSet(s2) /\ Counted("refresh") /\ Counted("relay")
  BY DEF Paid
<1>3. /\ IsFiniteSet(s2')
      /\ Cardinality(Hook!Unhandled) \in Nat /\ Cardinality(Hook!Unhandled') \in Nat
      /\ Cardinality(Hook!Unhandled') <= Cardinality(Hook!Unhandled) + 1
  BY <1>2, WireGrows
<1>4. ASSUME NEW kind \in {"refresh", "relay"}, Counted(kind) PROVE Counted(kind)'
  <2>1. /\ IsFiniteSet(Hook!Queued(kind)')
        /\ Cardinality(Hook!Queued(kind)') <= Cardinality(Hook!Queued(kind)) + 0
    BY <1>4, SameQueue
  <2>2. Hook!Begun(kind)' = Hook!Begun(kind) + 0
    BY <1>1 DEF Hook!Begun
  <2> QED
    BY <1>1, <1>3, <1>4, <2>1, <2>2, Balance DEF SentType
<1> QED
  BY <1>1, <1>2, <1>3, <1>4 DEF Paid

LEMMA EventIs ==
    ASSUME s7 \in SentType, NEW p \in Pods, NEW b \in 1 .. MaxPushes
    PROVE  /\ Hook!Event(p, b) \in Hook!Requests
           /\ Hook!Event(p, b).pod = p /\ Hook!Event(p, b).build = b
           /\ ~Hook!Event(p, b).relayed /\ Hook!Event(p, b).signed
  BY DEF Hook!Event, Hook!Requests, SentType

LEMMA PushKeeps ==
    ASSUME Hook!HookInv, NEW p \in Pods, Hook!Push(p) PROVE Hook!HookInv'
<1> DEFINE e == Hook!Event(p, s1 + 1)
<1>1. /\ s1 < MaxPushes /\ s1' = s1 + 1 /\ s2' = s2 \cup {e}
      /\ s7' = [s7 EXCEPT !.events = @ + 1] /\ s8' = {}
      /\ s3' = s3 /\ s4' = s4 /\ s5' = s5 /\ s6' = s6
  BY DEF Hook!Push
<1>2. /\ s1 \in 0 .. MaxPushes /\ (\A r \in s2 : r \in Hook!Requests)
      /\ s3 \in [Pods -> 0 .. MaxPushes] /\ s4 \in Pods
      /\ s5 \in [Pods -> Seq(Hook!Tasks)] /\ s6 \in [Pods -> 0 .. MaxPushes]
      /\ s7 \in SentType /\ Behind /\ Paid
  BY HookParts, Zenon DEF SentType
<1>3. s1 + 1 \in 1 .. MaxPushes /\ s1' \in 0 .. MaxPushes /\ s1 \in Nat /\ MaxPushes \in Nat
  BY <1>1, <1>2, HookAssumption
<1>4. /\ e \in Hook!Requests /\ e.pod = p /\ e.build = s1 + 1 /\ ~e.relayed /\ e.signed
  BY <1>2, <1>3, EventIs
<1> HIDE DEF e
<1>5. s7' \in SentType /\ Paid'
  BY <1>1, <1>2, EventPaid
<1>6. \A r \in s2' : r \in Hook!Requests
  BY <1>1, <1>2, <1>4
<1>7. Behind'
  <2>1. \A r \in s2' : r.signed /\ r.build <= s1'
    <3>1. \A r \in s2 : r.signed /\ r.build <= s1 /\ r.build \in Int
      BY <1>2 DEF Behind, Hook!Requests
    <3> QED
      BY <1>1, <1>3, <1>4, <3>1
  <2>2. \A q \in Pods : s3'[q] <= s1'
    <3>1. \A q \in Pods : s3[q] <= s1 /\ s3[q] \in Int
      BY <1>2 DEF Behind
    <3> QED
      BY <1>1, <1>3, <3>1
  <2>3. \A q \in Pods : \A i \in DOMAIN s5'[q] : s5'[q][i].build <= s1'
    <3>1. \A q \in Pods : \A i \in DOMAIN s5[q] : s5[q][i] \in Hook!Tasks
      BY <1>2
    <3>2. \A q \in Pods : \A i \in DOMAIN s5[q] :
            s5[q][i].build <= s1 /\ s5[q][i].build \in Int
      BY <1>2, <3>1 DEF Behind, Hook!Tasks
    <3> QED
      BY <1>1, <1>3, <3>2
  <2> QED
    BY <2>1, <2>2, <2>3 DEF Behind
<1>8. OnItsWay'
  <2>1. \A r \in s2 : r.build # s1'
    <3>1. \A r \in s2 : r.build <= s1 /\ r.build \in Int
      BY <1>2 DEF Behind, Hook!Requests
    <3> QED
      BY <1>1, <1>3, <3>1
  <2>2. \A q \in Pods : s3'[q] # s1'
    <3>1. \A q \in Pods : s3[q] <= s1 /\ s3[q] \in Int
      BY <1>2 DEF Behind
    <3> QED
      BY <1>1, <1>3, <3>1
  <2>3. \A r \in s2' : r.relayed => r.build # s1'
    BY <1>1, <1>4, <2>1
  <2>4. e \in s2' /\ e.build = s1' /\ ~e.relayed
    BY <1>1, <1>4
  <2> QED
    BY <1>1, <1>2, <2>2, <2>3, <2>4 DEF OnItsWay
<1> QED
  BY <1>1, <1>2, <1>3, <1>5, <1>6, <1>7, <1>8, HookPartsNext DEF SentType

LEMMA RepeatKeeps ==
    ASSUME Hook!HookInv, NEW p \in Pods, Hook!Repeat(p) PROVE Hook!HookInv'
<1> DEFINE e == Hook!Event(p, s1)
<1>1. /\ s1 > 0 /\ s2' = s2 \cup {e} /\ s7' = [s7 EXCEPT !.events = @ + 1]
      /\ s1' = s1 /\ s3' = s3 /\ s4' = s4 /\ s5' = s5 /\ s6' = s6 /\ s8' = s8
  BY DEF Hook!Repeat
<1>2. /\ s1 \in 0 .. MaxPushes /\ (\A r \in s2 : r \in Hook!Requests)
      /\ s3 \in [Pods -> 0 .. MaxPushes] /\ s4 \in Pods
      /\ s5 \in [Pods -> Seq(Hook!Tasks)] /\ s6 \in [Pods -> 0 .. MaxPushes]
      /\ s7 \in SentType /\ s8 \subseteq {"window", "relay", "moved"}
      /\ Behind /\ (s8 = {} => OnItsWay) /\ Paid
  BY HookParts, Zenon DEF SentType
<1>3. s1 \in 1 .. MaxPushes
  BY <1>1, <1>2, HookAssumption
<1>4. e \in Hook!Requests /\ e.pod = p /\ e.build = s1 /\ ~e.relayed /\ e.signed
  BY <1>2, <1>3, EventIs
<1> HIDE DEF e
<1>5. s7' \in SentType /\ Paid'
  BY <1>1, <1>2, EventPaid
<1>6. \A r \in s2' : r \in Hook!Requests
  BY <1>1, <1>2, <1>4
<1>7. Behind'
  BY <1>1, <1>2, <1>3, <1>4 DEF Behind
<1>8. ASSUME s8' = {} PROVE OnItsWay'
  <2>1. OnItsWay
    BY <1>1, <1>2, <1>8
  <2>2. IsTold => IsTold'
    BY <1>1 DEF IsTold, WireTold, PoolTold
  <2>3. e \in s2' /\ e.build = s1' /\ ~e.relayed
    BY <1>1, <1>4
  <2>4. \A r \in s2' : r.relayed /\ r.build = s1' => r.pod = s4'
    BY <1>1, <1>4, <2>1 DEF OnItsWay
  <2> QED
    BY <1>1, <2>1, <2>2, <2>3, <2>4 DEF OnItsWay
<1> QED
  BY <1>1, <1>2, <1>5, <1>6, <1>7, <1>8, HookPartsNext DEF SentType

(* Nothing in flight or queued, nothing to pay for *)
LEMMA NothingPaid ==
    ASSUME Paid, s7 \in SentType, s5' = s5, s2' = s2, s7'.events = s7.events,
           s7'.refreshes = s7.refreshes, s7'.relays = s7.relays
    PROVE  Paid'
<1>1. IsFiniteSet(s2) /\ Counted("refresh") /\ Counted("relay")
  BY DEF Paid
<1>2. ASSUME NEW kind, Counted(kind) PROVE Counted(kind)'
  <2>1. Hook!Queued(kind)' = Hook!Queued(kind)
    BY DEF Hook!Queued
  <2>2. Hook!Unhandled' = Hook!Unhandled
    BY DEF Hook!Unhandled
  <2>3. Hook!Begun(kind)' = Hook!Begun(kind)
    BY DEF Hook!Begun
  <2> QED
    BY <1>2, <2>1, <2>2, <2>3 DEF Counted
<1> QED
  BY <1>1, <1>2 DEF Paid

LEMMA LeaderMovesKeeps ==
    ASSUME Hook!HookInv, NEW p \in Pods, Hook!LeaderMoves(p) PROVE Hook!HookInv'
<1>1. /\ s7.moves < MaxMoves /\ s4' = p /\ s7' = [s7 EXCEPT !.moves = @ + 1]
      /\ s8' = s8 \cup {"moved"}
      /\ s1' = s1 /\ s2' = s2 /\ s3' = s3 /\ s5' = s5 /\ s6' = s6
  BY DEF Hook!LeaderMoves
<1>2. /\ s1 \in 0 .. MaxPushes /\ (\A r \in s2 : r \in Hook!Requests)
      /\ s3 \in [Pods -> 0 .. MaxPushes] /\ s4 \in Pods
      /\ s5 \in [Pods -> Seq(Hook!Tasks)] /\ s6 \in [Pods -> 0 .. MaxPushes]
      /\ s7 \in SentType /\ s8 \subseteq {"window", "relay", "moved"}
      /\ Behind /\ Paid
  BY HookParts, Zenon DEF SentType
<1>3. /\ s7' \in SentType /\ s7'.events = s7.events /\ s7'.refreshes = s7.refreshes
      /\ s7'.relays = s7.relays
  <2>1. s7.moves + 1 \in 0 .. MaxMoves
    <3>1. s7.moves \in 0 .. MaxMoves /\ MaxMoves \in Nat /\ s7.moves < MaxMoves
      BY <1>1, <1>2, HookAssumption DEF SentType
    <3> QED
      BY <3>1
  <2> QED
    BY <1>1, <1>2, <2>1 DEF SentType
<1>4. Paid'
  BY <1>1, <1>2, <1>3, NothingPaid
<1>5. Behind'
  BY <1>1, <1>2, Zenon DEF Behind
<1>6. s8' # {} /\ s8' \subseteq {"window", "relay", "moved"}
  BY <1>1, <1>2
<1> QED
  BY <1>1, <1>2, <1>3, <1>4, <1>5, <1>6, HookPartsNext DEF SentType

LEMMA WindowEndsKeeps ==
    ASSUME Hook!HookInv, NEW p \in Pods, Hook!WindowEnds(p) PROVE Hook!HookInv'
<1>1. /\ s3' = [s3 EXCEPT ![p] = 0]
      /\ s1' = s1 /\ s2' = s2 /\ s4' = s4 /\ s5' = s5 /\ s6' = s6 /\ s7' = s7 /\ s8' = s8
  BY DEF Hook!WindowEnds
<1>2. /\ s1 \in 0 .. MaxPushes /\ (\A r \in s2 : r \in Hook!Requests)
      /\ s3 \in [Pods -> 0 .. MaxPushes] /\ s4 \in Pods
      /\ s5 \in [Pods -> Seq(Hook!Tasks)] /\ s6 \in [Pods -> 0 .. MaxPushes]
      /\ s7 \in SentType /\ s8 \subseteq {"window", "relay", "moved"}
      /\ Behind /\ (s8 = {} => OnItsWay) /\ Paid
  BY HookParts, Zenon DEF SentType
<1>3. /\ s3' \in [Pods -> 0 .. MaxPushes]
      /\ \A q \in Pods : s3'[q] = 0 \/ s3'[q] = s3[q]
  BY <1>1, <1>2, HookAssumption
<1>4. Paid'
  BY <1>1, <1>2, NothingPaid
<1>5. Behind'
  <2>1. 0 <= s1'
    BY <1>1, <1>2
  <2>2. \A q \in Pods : s3'[q] <= s1'
    BY <1>1, <1>2, <1>3, <2>1 DEF Behind
  <2> QED
    BY <1>1, <1>2, <2>2, Zenon DEF Behind
<1>6. ASSUME s8' = {} PROVE OnItsWay'
  <2>1. OnItsWay
    BY <1>1, <1>2, <1>6
  <2>2. IsTold' <=> IsTold
    BY <1>1, Zenon DEF IsTold, WireTold, PoolTold
  <2>3. s1' # 0 => \A q \in Pods : s3'[q] = s1' => IsTold'
    BY <1>1, <1>3, <2>1, <2>2, Zenon DEF OnItsWay
  <2>4. s1' # 0 /\ s3'[s4'] = s1' => s6'[s4'] = s1'
    BY <1>1, <1>2, <1>3, <2>1, Zenon DEF OnItsWay
  <2> QED
    BY <1>1, <2>1, <2>2, <2>3, <2>4, Zenon DEF OnItsWay
<1> QED
  BY <1>1, <1>2, <1>3, <1>4, <1>5, <1>6, HookPartsNext DEF SentType

-----------------------------------------------------------------------------

(* A repetition is dropped by the window: nothing new is queued *)
LEMMA DroppedKeeps ==
    ASSUME Hook!HookInv, NEW r \in s2, s2' = s2 \ {r}, s3[r.pod] # 0,
           s8' = IF s3[r.pod] # r.build THEN s8 \cup {"window"} ELSE s8,
           s1' = s1, s3' = s3, s4' = s4, s5' = s5, s6' = s6, s7' = s7
    PROVE  Hook!HookInv'
<1>1. /\ s1 \in 0 .. MaxPushes /\ (\A x \in s2 : x \in Hook!Requests)
      /\ s3 \in [Pods -> 0 .. MaxPushes] /\ s4 \in Pods
      /\ s5 \in [Pods -> Seq(Hook!Tasks)] /\ s6 \in [Pods -> 0 .. MaxPushes]
      /\ s7 \in SentType /\ s8 \subseteq {"window", "relay", "moved"}
      /\ Behind /\ (s8 = {} => OnItsWay) /\ Paid
  BY HookParts, Zenon DEF SentType
<1>2. s8' \subseteq {"window", "relay", "moved"} /\ (s8' = {} => s8 = {} /\ s3[r.pod] = r.build)
  BY <1>1
<1>3. Paid'
  <2>1. IsFiniteSet(s2) /\ Counted("refresh") /\ Counted("relay")
    BY <1>1 DEF Paid
  <2>2. /\ IsFiniteSet(s2')
        /\ Cardinality(Hook!Unhandled) \in Nat /\ Cardinality(Hook!Unhandled') \in Nat
        /\ Cardinality(Hook!Unhandled') <= Cardinality(Hook!Unhandled)
    BY <2>1, WireShrinks
  <2>3. ASSUME NEW kind \in {"refresh", "relay"}, Counted(kind) PROVE Counted(kind)'
    <3>1. /\ IsFiniteSet(Hook!Queued(kind)')
          /\ Cardinality(Hook!Queued(kind)') <= Cardinality(Hook!Queued(kind)) + 0
      BY <2>3, SameQueue
    <3>2. Hook!Begun(kind)' = Hook!Begun(kind) + 0 /\ s7'.events = s7.events + 0
      BY <1>1 DEF Hook!Begun, SentType
    <3>3. Cardinality(Hook!Unhandled') <= Cardinality(Hook!Unhandled) + 0
      BY <2>2
    <3> QED
      BY <1>1, <2>2, <2>3, <3>1, <3>2, <3>3, Balance DEF SentType
  <2> QED
    BY <2>1, <2>2, <2>3 DEF Paid
<1>4. Behind'
  BY <1>1, Zenon DEF Behind
<1>5. ASSUME s8' = {} PROVE OnItsWay'
  <2>1. OnItsWay /\ s3[r.pod] = r.build /\ r.pod \in Pods /\ r.build # 0
    BY <1>1, <1>2, <1>5 DEF Hook!Requests
  <2>2. PoolTold' <=> PoolTold
    BY Zenon DEF PoolTold
  <2>3. ASSUME IsTold PROVE IsTold'
    <3>1. CASE s6[s4] = s1 \/ PoolTold
      BY <2>2, <3>1, Zenon DEF IsTold
    <3>2. CASE WireTold
      <4>1. PICK w \in s2 : w.build = s1 /\ w.pod = s4
        BY <3>2 DEF WireTold
      <4>2. CASE w # r
        BY <4>1, <4>2 DEF IsTold, WireTold
      <4>3. CASE w = r
        <5>1. s1 # 0 /\ s3[s4] = s1
          BY <2>1, <4>1, <4>3
        <5>2. s6[s4] = s1
          BY <2>1, <5>1, Zenon DEF OnItsWay
        <5> QED
          BY <5>2 DEF IsTold
      <4> QED
        BY <4>2, <4>3
    <3> QED
      BY <2>3, <3>1, <3>2 DEF IsTold
  <2>4. (\E x \in s2 : x.build = s1 /\ ~x.relayed) =>
          IsTold' \/ \E x \in s2' : x.build = s1' /\ ~x.relayed
    <3>1. r.build = s1 => IsTold
      BY <2>1 DEF OnItsWay
    <3> QED
      BY <2>3, <3>1
  <2>5. IsTold' \/ \E x \in s2' : x.build = s1' /\ ~x.relayed
    BY <2>1, <2>3, <2>4, Zenon DEF OnItsWay
  <2>6. s1' # 0 => \A p \in Pods : s3'[p] = s1' => IsTold'
    BY <2>1, <2>3, Zenon DEF OnItsWay
  <2>7. \A x \in s2' : x.relayed /\ x.build = s1' => x.pod = s4'
    BY <2>1 DEF OnItsWay
  <2>8. s1' # 0 /\ s3'[s4'] = s1' => s6'[s4'] = s1'
    BY <2>1, Zenon DEF OnItsWay
  <2> QED
    BY <2>5, <2>6, <2>7, <2>8, Zenon DEF OnItsWay
<1>6. \A x \in s2' : x \in Hook!Requests
  BY <1>1
<1> QED
  BY <1>1, <1>2, <1>3, <1>4, <1>5, <1>6, HookPartsNext, Zenon DEF SentType

(* A request the window lets through: an event is queued, and a relayed      *)
(* push is only invalidated after                                            *)
LEMMA TakenKeeps ==
    ASSUME Hook!HookInv, NEW r \in s2, s2' = s2 \ {r}, s3[r.pod] = 0,
           s3' = [s3 EXCEPT ![r.pod] = r.build],
           s6' = [s6 EXCEPT ![r.pod] = s1],
           s5' = [s5 EXCEPT ![r.pod] = s5[r.pod] \o Hook!Submitted(r)],
           s1' = s1, s4' = s4, s7' = s7, s8' = s8
    PROVE  Hook!HookInv'
<1>1. /\ s1 \in 0 .. MaxPushes /\ (\A x \in s2 : x \in Hook!Requests)
      /\ s3 \in [Pods -> 0 .. MaxPushes] /\ s4 \in Pods
      /\ s5 \in [Pods -> Seq(Hook!Tasks)] /\ s6 \in [Pods -> 0 .. MaxPushes]
      /\ s7 \in SentType /\ s8 \subseteq {"window", "relay", "moved"}
      /\ Behind /\ (s8 = {} => OnItsWay) /\ Paid
  BY HookParts, Zenon DEF SentType
<1> DEFINE p == r.pod
<1>2. r \in Hook!Requests /\ p \in Pods /\ r.build \in 1 .. MaxPushes /\ r.build <= s1
  BY <1>1 DEF Behind, Hook!Requests
<1>3. /\ s3'[p] = r.build /\ s6'[p] = s1 /\ s5'[p] = s5[p] \o Hook!Submitted(r)
      /\ \A q \in Pods : q # p => s3'[q] = s3[q] /\ s6'[q] = s6[q] /\ s5'[q] = s5[q]
  BY <1>1, <1>2
<1>4. /\ s5'[p] \in Seq(Hook!Tasks) /\ DOMAIN s5[p] \subseteq DOMAIN s5'[p]
      /\ \A j \in DOMAIN s5[p] : s5'[p][j] = s5[p][j]
      /\ \A j \in DOMAIN s5'[p] \ DOMAIN s5[p] : s5'[p][j].build = r.build
      /\ ~r.relayed /\ p # s4 =>
           \E j \in DOMAIN s5'[p] : s5'[p][j].kind = "relay" /\ s5'[p][j].build = r.build
  <2>1. s5[p] \in Seq(Hook!Tasks)
    BY <1>1, <1>2
  <2> DEFINE q == s5[p]  new == s5'[p]
  <2>2. q \in Seq(Hook!Tasks) /\ new = q \o Hook!Submitted(r)
    BY <1>3, <2>1
  <2> HIDE DEF q, new
  <2>3. r \in Hook!Requests
    BY <1>2
  <2>4. /\ new \in Seq(Hook!Tasks) /\ DOMAIN q \subseteq DOMAIN new
        /\ \A j \in DOMAIN q : new[j] = q[j]
    BY <2>2, <2>3, Submitting
  <2>5. \A j \in DOMAIN new \ DOMAIN q :
          /\ ~r.relayed /\ new[j].build = r.build
    BY <2>2, <2>3, Submitting
  <2>6. ~r.relayed /\ r.pod # s4 =>
          /\ Len(q) + 2 \in DOMAIN new
          /\ new[Len(q) + 2].kind = "relay" /\ new[Len(q) + 2].build = r.build
    BY <2>2, <2>3, Submitting
  <2>7. ~r.relayed /\ r.pod # s4 =>
          \E j \in DOMAIN new : new[j].kind = "relay" /\ new[j].build = r.build
    BY <2>6
  <2> QED
    BY <2>4, <2>5, <2>7 DEF q, new
<1>5. /\ s3' \in [Pods -> 0 .. MaxPushes] /\ s6' \in [Pods -> 0 .. MaxPushes]
      /\ s5' \in [Pods -> Seq(Hook!Tasks)]
  <2>1. r.build \in 0 .. MaxPushes
    BY <1>2
  <2>2. s3' \in [Pods -> 0 .. MaxPushes] /\ s6' \in [Pods -> 0 .. MaxPushes]
    BY <1>1, <2>1
  <2>3. s5' \in [Pods -> Seq(Hook!Tasks)]
    BY <1>1, <1>3, <1>4
  <2> QED
    BY <2>2, <2>3
<1>6. Paid'
  <2>1. IsFiniteSet(s2) /\ Counted("refresh") /\ Counted("relay")
    BY <1>1 DEF Paid
  <2>2. /\ IsFiniteSet(s2')
        /\ Cardinality(Hook!Unhandled) \in Nat /\ Cardinality(Hook!Unhandled') \in Nat
        /\ Cardinality(Hook!Unhandled') <= Cardinality(Hook!Unhandled)
        /\ ~r.relayed => Cardinality(Hook!Unhandled') <= Cardinality(Hook!Unhandled) - 1
    BY <2>1, WireShrinks
  <2>3. ASSUME NEW kind \in {"refresh", "relay"}, Counted(kind) PROVE Counted(kind)'
    <3> DEFINE n == IF r.relayed THEN 0 ELSE 1
    <3>1. IsFiniteSet(Hook!Queued(kind)) /\ Cardinality(Hook!Queued(kind)) \in Nat
      BY <2>3, FS_CardinalityType DEF Counted
    <3>2. /\ IsFiniteSet(Hook!Queued(kind)')
          /\ Cardinality(Hook!Queued(kind)') <= Cardinality(Hook!Queued(kind)) + 1
          /\ r.relayed => Cardinality(Hook!Queued(kind)') <= Cardinality(Hook!Queued(kind))
      BY <1>1, <1>2, <3>1, QueuedSubmitted
    <3>3. Cardinality(Hook!Queued(kind)') <= Cardinality(Hook!Queued(kind)) + n
      BY <3>1, <3>2
    <3>4. Cardinality(Hook!Unhandled') <= Cardinality(Hook!Unhandled) + (0 - n)
      BY <2>2
    <3>5. Hook!Begun(kind)' = Hook!Begun(kind) + 0 /\ s7'.events = s7.events + 0
      BY <1>1 DEF Hook!Begun, SentType
    <3>6. n \in Int /\ 0 - n \in Int /\ 0 + n + (0 - n) <= 0
      OBVIOUS
    <3> HIDE DEF n
    <3> QED
      BY <1>1, <2>2, <2>3, <3>2, <3>3, <3>4, <3>5, <3>6, Balance DEF SentType
  <2> QED
    BY <2>1, <2>2, <2>3 DEF Paid
<1>7. Behind'
  <2>1. \A x \in s2' : x.signed /\ x.build <= s1'
    BY <1>1 DEF Behind
  <2>2. \A q \in Pods : s3'[q] <= s1'
    BY <1>1, <1>2, <1>3 DEF Behind
  <2>3. ASSUME NEW q \in Pods, NEW j \in DOMAIN s5'[q] PROVE s5'[q][j].build <= s1'
    <3>1. CASE q # p
      BY <1>1, <1>3, <3>1 DEF Behind
    <3>2. CASE q = p /\ j \in DOMAIN s5[p]
      BY <1>1, <1>2, <1>4, <3>2 DEF Behind
    <3>3. CASE q = p /\ j \notin DOMAIN s5[p]
      BY <1>2, <1>4, <3>3
    <3> QED
      BY <3>1, <3>2, <3>3
  <2> QED
    BY <2>1, <2>2, <2>3 DEF Behind
<1>8. ASSUME s8' = {} PROVE OnItsWay'
  <2>1. OnItsWay
    BY <1>1, <1>8
  <2>2. PoolTold => PoolTold'
    <3>1. ASSUME NEW q \in Pods \ {s4}, NEW i \in DOMAIN s5[q]
          PROVE  i \in DOMAIN s5'[q] /\ s5'[q][i] = s5[q][i]
      BY <1>3, <1>4
    <3>2. ASSUME PoolTold PROVE PoolTold'
      <4>1. PICK q \in Pods \ {s4} : \E i \in DOMAIN s5[q] :
              s5[q][i].kind = "relay" /\ s5[q][i].build = s1
        BY <3>2 DEF PoolTold
      <4>2. PICK i \in DOMAIN s5[q] : s5[q][i].kind = "relay" /\ s5[q][i].build = s1
        BY <4>1
      <4>3. /\ i \in DOMAIN s5'[q] /\ s5'[q][i].kind = "relay" /\ s5'[q][i].build = s1'
            /\ q \in Pods \ {s4'}
        BY <3>1, <4>2
      <4> QED
        BY <4>3, Zenon DEF PoolTold
    <3> QED
      BY <3>2
  <2>3. s6[s4] = s1 => s6'[s4'] = s1'
    BY <1>1, <1>3
  <2>4. ASSUME IsTold PROVE IsTold'
    <3>1. CASE s6[s4] = s1 \/ PoolTold
      BY <2>2, <2>3, <3>1 DEF IsTold
    <3>2. CASE WireTold
      <4>1. PICK w \in s2 : w.build = s1 /\ w.pod = s4
        BY <3>2 DEF WireTold
      <4>2. CASE w # r
        BY <4>1, <4>2 DEF IsTold, WireTold
      <4>3. CASE w = r
        <5>1. s6'[s4'] = s1'
          BY <1>3, <4>1, <4>3
        <5> QED
          BY <5>1 DEF IsTold
      <4> QED
        BY <4>2, <4>3
    <3> QED
      BY <2>4, <3>1, <3>2 DEF IsTold
  <2>5. ASSUME r.build = s1 PROVE IsTold'
    <3>1. CASE p = s4
      <4>1. s6'[s4'] = s1'
        BY <1>3, <3>1
      <4> QED
        BY <4>1 DEF IsTold
    <3>2. CASE p # s4
      <4>1. ~r.relayed
        BY <2>1, <2>5, <3>2 DEF OnItsWay
      <4>2. \E j \in DOMAIN s5'[p] : s5'[p][j].kind = "relay" /\ s5'[p][j].build = s1'
        BY <1>4, <2>5, <3>2, <4>1
      <4>3. p \in Pods \ {s4'}
        BY <1>2, <3>2
      <4>4. PoolTold'
        BY <4>2, <4>3, Zenon DEF PoolTold
      <4> QED
        BY <4>4 DEF IsTold
    <3> QED
      BY <3>1, <3>2
  <2>6. IsTold' \/ \E x \in s2' : x.build = s1' /\ ~x.relayed
    <3>1. CASE IsTold
      BY <2>4, <3>1
    <3>2. CASE ~IsTold
      <4>1. PICK x \in s2 : x.build = s1 /\ ~x.relayed
        BY <2>1, <3>2 DEF OnItsWay
      <4>2. x = r \/ x \in s2'
        OBVIOUS
      <4> QED
        BY <2>5, <4>1, <4>2
    <3> QED
      BY <3>1, <3>2
  <2>7. ASSUME s1' # 0, NEW q \in Pods, s3'[q] = s1' PROVE IsTold'
    <3>1. CASE q = p
      BY <1>3, <2>5, <2>7, <3>1
    <3>2. CASE q # p
      BY <1>3, <2>1, <2>4, <2>7, <3>2 DEF OnItsWay
    <3> QED
      BY <3>1, <3>2
  <2>8. s1' # 0 /\ s3'[s4'] = s1' => s6'[s4'] = s1'
    BY <1>1, <1>3, <2>1 DEF OnItsWay
  <2>9. \A x \in s2' : x.relayed /\ x.build = s1' => x.pod = s4'
    BY <2>1 DEF OnItsWay
  <2> QED
    BY <2>6, <2>7, <2>8, <2>9, Zenon DEF OnItsWay
<1>9. \A x \in s2' : x \in Hook!Requests
  BY <1>1
<1> QED
  BY <1>1, <1>5, <1>6, <1>7, <1>8, <1>9, HookPartsNext, Zenon DEF SentType

LEMMA HandleKeeps ==
    ASSUME Hook!HookInv, NEW r \in s2, Hook!Handle(r) PROVE Hook!HookInv'
<1>1. s2' = s2 \ {r} /\ s1' = s1 /\ s4' = s4 /\ s7' = s7
  BY DEF Hook!Handle
<1>2. r.signed
  BY HookParts DEF Behind
<1>3. CASE s3[r.pod] # 0
  <2>1. s8' = IF s3[r.pod] # r.build THEN s8 \cup {"window"} ELSE s8
    BY <1>2, <1>3, Zenon DEF Hook!Handle
  <2>2. s3' = s3 /\ s5' = s5 /\ s6' = s6
    BY <1>2, <1>3 DEF Hook!Handle
  <2> QED
    BY <1>1, <1>3, <2>1, <2>2, DroppedKeeps
<1>4. CASE s3[r.pod] = 0
  <2>1. /\ s3' = [s3 EXCEPT ![r.pod] = r.build] /\ s6' = [s6 EXCEPT ![r.pod] = s1]
        /\ s5' = [s5 EXCEPT ![r.pod] = s5[r.pod] \o Hook!Submitted(r)] /\ s8' = s8
    BY <1>2, <1>4, Zenon DEF Hook!Handle
  <2> QED
    BY <1>1, <1>4, <2>1, TakenKeeps
<1> QED
  BY <1>3, <1>4

-----------------------------------------------------------------------------

(* The queue a task was taken from keeps the others *)
LEMMA OthersStay ==
    ASSUME NEW q \in Seq(Hook!Tasks), NEW i \in DOMAIN q, NEW new, new = Hook!RemoveAt(q, i)
    PROVE  /\ new \in Seq(Hook!Tasks)
           /\ \A j \in DOMAIN new : \E k \in DOMAIN q : new[j] = q[k]
           /\ \A k \in DOMAIN q : k # i => \E j \in DOMAIN new : new[j] = q[k]
<1>1. i \in 1 .. Len(q) /\ DOMAIN q = 1 .. Len(q) /\ Len(q) \in Nat
  OBVIOUS
<1>2. /\ new \in Seq(Hook!Tasks) /\ DOMAIN new = 1 .. Len(q) - 1
      /\ \A j \in 1 .. Len(q) - 1 : new[j] = IF j < i THEN q[j] ELSE q[j + 1]
  BY <1>1, Removed
<1>3. ASSUME NEW j \in DOMAIN new PROVE \E k \in DOMAIN q : new[j] = q[k]
  <2>1. j \in DOMAIN q /\ j + 1 \in DOMAIN q /\ (new[j] = q[j] \/ new[j] = q[j + 1])
    BY <1>1, <1>2
  <2> QED
    BY <2>1
<1>4. ASSUME NEW k \in DOMAIN q, k # i PROVE \E j \in DOMAIN new : new[j] = q[k]
  <2>1. CASE k < i
    <3>1. k \in DOMAIN new /\ new[k] = q[k]
      BY <1>1, <1>2, <2>1
    <3> QED
      BY <3>1
  <2>2. CASE ~(k < i)
    <3>1. k - 1 \in DOMAIN new /\ new[k - 1] = q[k]
      BY <1>1, <1>2, <1>4, <2>2
    <3> QED
      BY <3>1
  <2> QED
    BY <2>1, <2>2
<1> QED
  BY <1>2, <1>3, <1>4

LEMMA TaskEnds ==
    ASSUME s5 \in [Pods -> Seq(Hook!Tasks)], NEW p \in Pods, NEW i \in DOMAIN s5[p],
           s5' = [s5 EXCEPT ![p] = Hook!RemoveAt(s5[p], i)]
    PROVE  /\ s5' \in [Pods -> Seq(Hook!Tasks)]
           /\ \A q \in Pods : \A j \in DOMAIN s5'[q] :
                \E k \in DOMAIN s5[q] : s5'[q][j] = s5[q][k]
           /\ \A q \in Pods : \A k \in DOMAIN s5[q] :
                \/ q = p /\ k = i
                \/ \E j \in DOMAIN s5'[q] : s5'[q][j] = s5[q][k]
<1>1. s5[p] \in Seq(Hook!Tasks) /\ s5'[p] = Hook!RemoveAt(s5[p], i)
  OBVIOUS
<1>2. /\ s5'[p] \in Seq(Hook!Tasks)
      /\ \A j \in DOMAIN s5'[p] : \E k \in DOMAIN s5[p] : s5'[p][j] = s5[p][k]
      /\ \A k \in DOMAIN s5[p] : k # i => \E j \in DOMAIN s5'[p] : s5'[p][j] = s5[p][k]
  BY <1>1, OthersStay
<1>3. \A q \in Pods : q # p => s5'[q] = s5[q]
  OBVIOUS
<1>4. s5' \in [Pods -> Seq(Hook!Tasks)]
  BY <1>2, <1>3
<1>5. ASSUME NEW q \in Pods, NEW j \in DOMAIN s5'[q]
      PROVE  \E k \in DOMAIN s5[q] : s5'[q][j] = s5[q][k]
  BY <1>2, <1>3
<1>6. ASSUME NEW q \in Pods, NEW k \in DOMAIN s5[q], q # p \/ k # i
      PROVE  \E j \in DOMAIN s5'[q] : s5'[q][j] = s5[q][k]
  BY <1>2, <1>3, <1>6
<1> QED
  BY <1>4, <1>5, <1>6

LEMMA EndedPaid ==
    ASSUME NEW kind \in {"refresh", "relay"}, Counted(kind), s7 \in SentType,
           IsFiniteSet(Hook!Queued(kind)'),
           Cardinality(Hook!Unhandled) \in Nat, Cardinality(Hook!Unhandled') \in Nat,
           NEW n \in {0, 1},
           Hook!Begun(kind)' = Hook!Begun(kind) + n,
           Cardinality(Hook!Queued(kind)') <= Cardinality(Hook!Queued(kind)) - n,
           Cardinality(Hook!Unhandled') <= Cardinality(Hook!Unhandled),
           s7'.events = s7.events
    PROVE  Counted(kind)'
<1>1. /\ Cardinality(Hook!Queued(kind)) \in Nat /\ Cardinality(Hook!Queued(kind)') \in Nat
      /\ Hook!Begun(kind) \in Nat /\ s7.events \in Nat
  BY FS_CardinalityType DEF Counted, Hook!Begun, SentType
<1>2. Hook!Begun(kind) + Cardinality(Hook!Queued(kind)) + Cardinality(Hook!Unhandled) <= s7.events
  BY DEF Counted
<1>3. Hook!Begun(kind)' + Cardinality(Hook!Queued(kind)') + Cardinality(Hook!Unhandled')
        <= s7'.events
  BY <1>1, <1>2
<1> QED
  BY <1>3 DEF Counted

LEMMA Begins ==
    ASSUME s7 \in SentType, NEW kind \in {"refresh", "relay"},
           s7' = IF kind = "refresh" THEN [s7 EXCEPT !.refreshes = @ + 1]
                                     ELSE [s7 EXCEPT !.relays = @ + 1]
    PROVE  /\ s7' \in SentType /\ s7'.events = s7.events
           /\ \A k \in {"refresh", "relay"} :
                Hook!Begun(k)' = Hook!Begun(k) + (IF kind = k THEN 1 ELSE 0)
<1>1. CASE kind = "refresh"
  <2>1. s7' = [s7 EXCEPT !.refreshes = @ + 1]
    BY <1>1
  <2>2. /\ s7' \in SentType /\ s7'.events = s7.events
        /\ s7'.refreshes = s7.refreshes + 1 /\ s7'.relays = s7.relays /\ s7.relays \in Nat
    BY <2>1 DEF SentType
  <2> QED
    BY <1>1, <2>2 DEF Hook!Begun
<1>2. CASE kind = "relay"
  <2>1. s7' = [s7 EXCEPT !.relays = @ + 1]
    BY <1>2
  <2>2. /\ s7' \in SentType /\ s7'.events = s7.events
        /\ s7'.relays = s7.relays + 1 /\ s7'.refreshes = s7.refreshes /\ s7.refreshes \in Nat
    BY <2>1 DEF SentType
  <2> QED
    BY <1>2, <2>2 DEF Hook!Begun
<1> QED
  BY <1>1, <1>2

(* A task ends.  It is one begun, and unless it was the relay that would     *)
(* have told the leader of the newest build, nothing about it changes        *)
LEMMA WorkKeeps ==
    ASSUME Hook!HookInv, NEW p \in Pods, Hook!Work(p) PROVE Hook!HookInv'
<1>1. PICK i \in DOMAIN s5[p] :
        /\ s5' = [s5 EXCEPT ![p] = Hook!RemoveAt(s5[p], i)]
        /\ Hook!HardRefresh(p, i) \/ \E arrives, fails \in BOOLEAN : Hook!Relay(p, i, arrives, fails)
        /\ s1' = s1 /\ s3' = s3 /\ s4' = s4 /\ s6' = s6
  BY DEF Hook!Work
<1>2. /\ s1 \in 0 .. MaxPushes /\ (\A r \in s2 : r \in Hook!Requests)
      /\ s3 \in [Pods -> 0 .. MaxPushes] /\ s4 \in Pods
      /\ s5 \in [Pods -> Seq(Hook!Tasks)] /\ s6 \in [Pods -> 0 .. MaxPushes]
      /\ s7 \in SentType /\ s8 \subseteq {"window", "relay", "moved"}
      /\ Behind /\ (s8 = {} => OnItsWay) /\ Paid
  BY HookParts, Zenon DEF SentType
<1> DEFINE t == s5[p][i]
           e == Hook!Forwarded(t.build)
<1>3. t \in Hook!Tasks /\ t.build \in 1 .. MaxPushes /\ t.build <= s1
  <2>1. t \in Hook!Tasks
    BY <1>2
  <2> QED
    BY <1>2, <2>1 DEF Behind, Hook!Tasks
<1>4. /\ s5' \in [Pods -> Seq(Hook!Tasks)]
      /\ \A q \in Pods : \A j \in DOMAIN s5'[q] :
           \E k \in DOMAIN s5[q] : s5'[q][j] = s5[q][k]
      /\ \A q \in Pods : \A k \in DOMAIN s5[q] :
           \/ q = p /\ k = i
           \/ \E j \in DOMAIN s5'[q] : s5'[q][j] = s5[q][k]
  BY <1>1, <1>2, TaskEnds
<1>5. /\ e \in Hook!Requests /\ e.pod = s4 /\ e.build = t.build /\ e.relayed /\ e.signed
  <2> DEFINE b == t.build
  <2>1. b \in 1 .. MaxPushes
    BY <1>3
  <2> HIDE DEF b
  <2>2. /\ Hook!Forwarded(b) \in Hook!Requests /\ Hook!Forwarded(b).pod = s4
        /\ Hook!Forwarded(b).build = b /\ Hook!Forwarded(b).relayed /\ Hook!Forwarded(b).signed
    BY <1>2, <2>1 DEF Hook!Forwarded, Hook!Requests, SentType
  <2> QED
    BY <2>2 DEF b
<1>6. \/ /\ t.kind = "refresh" /\ s7' = [s7 EXCEPT !.refreshes = @ + 1]
         /\ s2' = s2 /\ s8' = s8
      \/ /\ t.kind = "relay" /\ s7' = [s7 EXCEPT !.relays = @ + 1]
         /\ s2' = s2 \/ s2' = s2 \cup {e}
         /\ s8' = s8 \/ s8' = s8 \cup {"relay"}
         /\ s8' = {} => p = s4 \/ s2' = s2 \cup {e}
  <2>1. CASE Hook!HardRefresh(p, i)
    BY <2>1 DEF Hook!HardRefresh
  <2>2. CASE \E arrives, fails \in BOOLEAN : Hook!Relay(p, i, arrives, fails)
    <3>1. PICK arrives \in BOOLEAN, fails \in BOOLEAN : Hook!Relay(p, i, arrives, fails)
      BY <2>2
    <3>2. t.kind = "relay" /\ s7' = [s7 EXCEPT !.relays = @ + 1]
      BY <3>1 DEF Hook!Relay
    <3>3. CASE p = s4
      <4>1. s2' = s2 /\ s8' = s8
        BY <3>1, <3>3 DEF Hook!Relay
      <4> QED
        BY <3>2, <3>3, <4>1
    <3>4. CASE p # s4
      <4>1. /\ arrives \/ fails
            /\ s2' = IF arrives THEN s2 \cup {e} ELSE s2
            /\ s8' = IF fails THEN s8 \cup {"relay"} ELSE s8
        BY <3>1, <3>4, Zenon DEF Hook!Relay
      <4>2. arrives => s2' = s2 \cup {e}
        BY <4>1
      <4>3. ~arrives => s2' = s2 /\ s8' = s8 \cup {"relay"}
        BY <4>1
      <4>4. s8' = s8 \/ s8' = s8 \cup {"relay"}
        BY <4>1
      <4> HIDE DEF t, e
      <4> QED
        BY <3>2, <3>4, <4>2, <4>3, <4>4
    <3> QED
      BY <3>3, <3>4
  <2> QED
    BY <1>1, <2>1, <2>2
<1> HIDE DEF e
<1>7. /\ s2 \subseteq s2' /\ \A r \in s2' : r \in s2 \/ r = e
      /\ s8' \subseteq {"window", "relay", "moved"} /\ (s8' = {} => s8 = {})
  BY <1>2, <1>6
<1>8. \A r \in s2' : r \in Hook!Requests
  BY <1>2, <1>5, <1>7
<1>9. Behind'
  <2>1. \A r \in s2' : r.signed /\ r.build <= s1'
    BY <1>1, <1>2, <1>3, <1>5, <1>7 DEF Behind
  <2>2. \A q \in Pods : s3'[q] <= s1'
    BY <1>1, <1>2 DEF Behind
  <2>3. \A q \in Pods : \A j \in DOMAIN s5'[q] : s5'[q][j].build <= s1'
    <3>1. \A q \in Pods : \A k \in DOMAIN s5[q] : s5[q][k].build <= s1'
      BY <1>1, <1>2 DEF Behind
    <3> QED
      BY <1>4, <3>1
  <2> QED
    BY <2>1, <2>2, <2>3 DEF Behind
<1>10. ASSUME s8' = {} PROVE OnItsWay'
  <2>1. OnItsWay
    BY <1>2, <1>7, <1>10
  <2>2. PoolTold => IsTold'
    <3> SUFFICES ASSUME PoolTold PROVE IsTold'
      OBVIOUS
    <3>1. PICK q \in Pods \ {s4} : \E k \in DOMAIN s5[q] :
            s5[q][k].kind = "relay" /\ s5[q][k].build = s1
      BY DEF PoolTold
    <3>2. PICK k \in DOMAIN s5[q] : s5[q][k].kind = "relay" /\ s5[q][k].build = s1
      BY <3>1
    <3>3. CASE q = p /\ k = i
      <4>1. t.kind = "relay" /\ t.build = s1 /\ p # s4
        BY <3>1, <3>2, <3>3
      <4>2. s2' = s2 \cup {e}
        BY <1>6, <1>10, <4>1
      <4>3. e \in s2' /\ e.build = s1' /\ e.pod = s4'
        BY <1>1, <1>5, <4>1, <4>2
      <4>4. WireTold'
        BY <4>3, Zenon DEF WireTold
      <4> QED
        BY <4>4 DEF IsTold
    <3>4. CASE ~(q = p /\ k = i)
      <4>1. PICK j \in DOMAIN s5'[q] : s5'[q][j] = s5[q][k]
        BY <1>4, <3>4
      <4>2. s5'[q][j].kind = "relay" /\ s5'[q][j].build = s1' /\ q \in Pods \ {s4'}
        BY <1>1, <3>2, <4>1
      <4>3. PoolTold'
        BY <4>1, <4>2, Zenon DEF PoolTold
      <4> QED
        BY <4>3 DEF IsTold
    <3> QED
      BY <3>3, <3>4
  <2>3. WireTold => WireTold'
    BY <1>1, <1>7 DEF WireTold
  <2>4. IsTold => IsTold'
    BY <1>1, <2>2, <2>3 DEF IsTold
  <2>5. IsTold' \/ \E r \in s2' : r.build = s1' /\ ~r.relayed
    BY <1>1, <1>7, <2>1, <2>4 DEF OnItsWay
  <2>6. s1' # 0 => \A q \in Pods : s3'[q] = s1' => IsTold'
    BY <1>1, <2>1, <2>4, Zenon DEF OnItsWay
  <2>7. s1' # 0 /\ s3'[s4'] = s1' => s6'[s4'] = s1'
    BY <1>1, <2>1, Zenon DEF OnItsWay
  <2>8. \A r \in s2' : r.relayed /\ r.build = s1' => r.pod = s4'
    BY <1>1, <1>5, <1>7, <2>1 DEF OnItsWay
  <2> QED
    BY <2>5, <2>6, <2>7, <2>8, Zenon DEF OnItsWay
<1>11. s7' \in SentType /\ Paid'
  <2>1. IsFiniteSet(s2) /\ Counted("refresh") /\ Counted("relay")
    BY <1>2 DEF Paid
  <2>2. s2' = s2 \/ (s2' = s2 \cup {e} /\ e.relayed)
    BY <1>5, <1>6
  <2>3. /\ IsFiniteSet(s2')
        /\ Cardinality(Hook!Unhandled) \in Nat /\ Cardinality(Hook!Unhandled') \in Nat
        /\ Cardinality(Hook!Unhandled') <= Cardinality(Hook!Unhandled) + 0
    <3>1. CASE s2' = s2
      BY <2>1, <3>1, SameWire
    <3>2. CASE s2' = s2 \cup {e} /\ e.relayed
      <4>1. /\ IsFiniteSet(s2')
            /\ Cardinality(Hook!Unhandled) \in Nat /\ Cardinality(Hook!Unhandled') \in Nat
            /\ Cardinality(Hook!Unhandled') <= Cardinality(Hook!Unhandled)
        BY <2>1, <3>2, WireGrows
      <4> QED
        BY <4>1
    <3> QED
      BY <2>2, <3>1, <3>2
  <2>4. /\ s7' \in SentType /\ s7'.events = s7.events
        /\ \A k \in {"refresh", "relay"} :
             Hook!Begun(k)' = Hook!Begun(k) + (IF t.kind = k THEN 1 ELSE 0)
    <3>1. s7' = IF t.kind = "refresh" THEN [s7 EXCEPT !.refreshes = @ + 1]
                                      ELSE [s7 EXCEPT !.relays = @ + 1]
      BY <1>6, Zenon
    <3>2. t.kind \in {"refresh", "relay"}
      BY <1>6
    <3> QED
      BY <1>2, <3>1, <3>2, Begins
  <2>5. ASSUME NEW kind \in {"refresh", "relay"}, Counted(kind) PROVE Counted(kind)'
    <3> DEFINE n == IF t.kind = kind THEN 1 ELSE 0
    <3>1. IsFiniteSet(Hook!Queued(kind)) /\ Cardinality(Hook!Queued(kind)) \in Nat
      BY <2>5, FS_CardinalityType DEF Counted
    <3>2. /\ IsFiniteSet(Hook!Queued(kind)')
          /\ Cardinality(Hook!Queued(kind)') <= Cardinality(Hook!Queued(kind))
          /\ t.kind = kind =>
               Cardinality(Hook!Queued(kind)') <= Cardinality(Hook!Queued(kind)) - 1
      BY <1>1, <1>2, <3>1, QueuedRemoved
    <3>3. Cardinality(Hook!Queued(kind)') <= Cardinality(Hook!Queued(kind)) - n
      BY <3>1, <3>2
    <3>4. Hook!Begun(kind)' = Hook!Begun(kind) + n
      BY <2>4
    <3>5. n \in {0, 1}
      OBVIOUS
    <3>6. Cardinality(Hook!Unhandled') <= Cardinality(Hook!Unhandled)
      BY <2>3
    <3> HIDE DEF n
    <3> QED
      BY <1>2, <2>3, <2>4, <2>5, <3>2, <3>3, <3>4, <3>5, <3>6, EndedPaid
  <2> QED
    BY <2>1, <2>3, <2>4, <2>5 DEF Paid
<1> QED
  BY <1>1, <1>2, <1>4, <1>7, <1>8, <1>9, <1>10, <1>11, HookPartsNext, Zenon DEF SentType

LEMMA HookKept == Hook!HookInv /\ [Hook!HookNext]_(Hook!hookVars) => Hook!HookInv'
<1> SUFFICES ASSUME Hook!HookInv, [Hook!HookNext]_(Hook!hookVars) PROVE Hook!HookInv'
  OBVIOUS
<1>1. ASSUME NEW p \in Pods, Hook!Push(p) PROVE Hook!HookInv'
  BY <1>1, PushKeeps
<1>2. ASSUME NEW p \in Pods, Hook!Repeat(p) PROVE Hook!HookInv'
  BY <1>2, RepeatKeeps
<1>3. ASSUME NEW p \in Pods, Hook!LeaderMoves(p) PROVE Hook!HookInv'
  BY <1>3, LeaderMovesKeeps
<1>4. ASSUME NEW p \in Pods, Hook!WindowEnds(p) PROVE Hook!HookInv'
  BY <1>4, WindowEndsKeeps
<1>5. ASSUME NEW p \in Pods, Hook!Work(p) PROVE Hook!HookInv'
  BY <1>5, WorkKeeps
<1>6. ASSUME NEW r \in s2, Hook!Handle(r) PROVE Hook!HookInv'
  BY <1>6, HandleKeeps
<1>7. ASSUME UNCHANGED Hook!hookVars PROVE Hook!HookInv'
  <2>1. /\ s1' = s1 /\ s2' = s2 /\ s3' = s3 /\ s4' = s4
        /\ s5' = s5 /\ s6' = s6 /\ s7' = s7 /\ s8' = s8
    BY <1>7 DEF Hook!hookVars
  <2>2. /\ s7 \in SentType /\ Paid /\ Behind /\ (s8 = {} => OnItsWay)
    BY HookParts, Zenon DEF SentType
  <2>3. Paid'
    BY <2>1, <2>2, NothingPaid
  <2>4. Behind' /\ (s8' = {} => OnItsWay')
    BY <2>1, <2>2, Zenon DEF Behind, OnItsWay, IsTold, WireTold, PoolTold
  <2> QED
    BY <2>1, <2>2, <2>3, <2>4, HookParts, HookPartsNext, Zenon
<1> QED
  BY <1>1, <1>2, <1>3, <1>4, <1>5, <1>6, <1>7 DEF Hook!HookNext

LEMMA HookStart == ServicesInit => (part = "hook" => Hook!HookInv)
<1> SUFFICES ASSUME ServicesInit, part = "hook" PROVE Hook!HookInv
  OBVIOUS
<1>1. /\ s1 = 0 /\ s2 = {} /\ s3 = [p \in Pods |-> 0] /\ s4 \in Pods
      /\ s5 = [p \in Pods |-> <<>>] /\ s6 = [p \in Pods |-> 0]
      /\ s7 = [events |-> 0, refreshes |-> 0, relays |-> 0, moves |-> 0] /\ s8 = {}
  BY DEF ServicesInit, Hook!HookInit
<1>2. /\ s1 \in 0 .. MaxPushes /\ s7 \in SentType
      /\ s3 \in [Pods -> 0 .. MaxPushes] /\ s6 \in [Pods -> 0 .. MaxPushes]
      /\ s5 \in [Pods -> Seq(Hook!Tasks)]
  <2>1. 0 \in 0 .. MaxPushes /\ 0 \in 0 .. MaxMoves
    BY HookAssumption
  <2>2. <<>> \in Seq(Hook!Tasks)
    OBVIOUS
  <2> QED
    BY <1>1, <2>1, <2>2 DEF SentType
<1>3. Behind
  BY <1>1 DEF Behind
<1>4. OnItsWay
  BY <1>1 DEF OnItsWay, IsTold
<1>5. Paid
  <2>1. IsFiniteSet({}) /\ Cardinality({}) = 0
    BY FS_EmptySet
  <2>2. Hook!Unhandled = {}
    BY <1>1 DEF Hook!Unhandled
  <2>3. ASSUME NEW kind \in {"refresh", "relay"} PROVE Counted(kind)
    <3>1. Hook!Queued(kind) = {}
      BY <1>1, InQueue
    <3>2. Hook!Begun(kind) = 0 /\ s7.events = 0
      BY <1>1 DEF Hook!Begun
    <3> QED
      BY <2>1, <2>2, <3>1, <3>2 DEF Counted
  <2> QED
    BY <1>1, <2>1, <2>3 DEF Paid
<1> QED
  BY <1>1, <1>2, <1>3, <1>4, <1>5, HookParts DEF SentType

(* The leader hears of the newest build, and an event starts one refresh and *)
(* at most one relay                                                         *)
THEOREM PushesAreHeard == ServicesSpec => []PushIsHeardOnce
<1> DEFINE I == part = "hook" => Hook!HookInv
<1>1. ServicesInit => I
  BY HookStart
<1>2. I /\ [ServicesNext]_all => I'
  <2> SUFFICES ASSUME I, [ServicesNext]_all, (part = "hook")' PROVE Hook!HookInv'
    OBVIOUS
  <2>1. part = "hook"
    BY DEF ServicesNext, all
  <2> QED
    BY <2>1, HookGo, HookKept
<1>3. I => PushIsHeardOnce
  <2> SUFFICES ASSUME Hook!HookInv PROVE Hook!PushIsHeardOnce
    BY DEF PushIsHeardOnce
  <2>1. /\ s7 \in SentType /\ Paid /\ (s8 = {} => OnItsWay)
    BY HookParts, Zenon DEF SentType
  <2>2. ASSUME Hook!Quiet, s8 = {} PROVE s6[s4] = s1
    <3>1. ~WireTold /\ ~PoolTold /\ ~\E r \in s2 : r.build = s1 /\ ~r.relayed
      BY <2>2 DEF Hook!Quiet, WireTold, PoolTold
    <3> QED
      BY <2>1, <2>2, <3>1 DEF OnItsWay, IsTold
  <2>3. Counted("refresh") /\ Counted("relay") /\ IsFiniteSet(s2)
    BY <2>1 DEF Paid
  <2>4. Cardinality(Hook!Unhandled) \in Nat
    <3>1. Hook!Unhandled \subseteq s2
      BY DEF Hook!Unhandled
    <3> QED
      BY <2>3, <3>1, FS_Subset, FS_CardinalityType
  <2>5. ASSUME NEW kind \in {"refresh", "relay"}, Counted(kind)
        PROVE  Hook!Begun(kind) <= s7.events
    <3>1. Cardinality(Hook!Queued(kind)) \in Nat /\ Hook!Begun(kind) \in Nat /\ s7.events \in Nat
      BY <2>1, <2>5, FS_CardinalityType DEF Counted, Hook!Begun, SentType
    <3>2. Hook!Begun(kind) + Cardinality(Hook!Queued(kind)) + Cardinality(Hook!Unhandled) <= s7.events
      BY <2>5 DEF Counted
    <3> QED
      BY <2>4, <3>1, <3>2
  <2>6. s7.refreshes <= s7.events /\ s7.relays <= s7.events
    BY <2>3, <2>5 DEF Hook!Begun
  <2> QED
    BY <2>2, <2>6 DEF Hook!PushIsHeardOnce
<1> QED
  BY <1>1, <1>2, <1>3, PTL DEF ServicesSpec

-----------------------------------------------------------------------------
(* All parts *)

(* Every part keeps to its types: the pages under the invariant of           *)
(* ArtifactStore_proofs, the others under their own                          *)
Parts == {"pages", "gate", "files", "comments", "maps", "pod", "hook", "renders"}
AllInv ==
    /\ part \in Parts
    /\ part = "pages" => IInv
    /\ part = "gate" => Gate!GateInv
    /\ part = "files" => Files!FilesInv
    /\ part = "comments" => Comments!CommentsInv
    /\ part = "maps" => Maps!MapsInv
    /\ part = "pod" => Pod!PodInv
    /\ part = "hook" => Hook!HookInv
    /\ part = "renders" => Renders!CacheInv

(* A step of the services is one of its part, or none of it *)
LEMMA PagesGo == ASSUME part = "pages", [ServicesNext]_all PROVE [Next]_vars
  BY DEF ServicesNext, SlotStep, all

THEOREM ServicesTyped == ServicesSpec => []ServicesTypeOK
<1>1. ServicesInit => AllInv
  <2> SUFFICES ASSUME ServicesInit PROVE AllInv
    OBVIOUS
  <2>1. part \in Parts /\ Init
    BY DEF ServicesInit, Parts
  <2> QED
    BY <2>1, InitHolds, GateStart, FilesStart, CommentsStart, MapsStart, PodStart, HookStart,
       RendersStart, Zenon DEF AllInv
<1>2. AllInv /\ [ServicesNext]_all => AllInv'
  <2> SUFFICES ASSUME AllInv, [ServicesNext]_all PROVE AllInv'
    OBVIOUS
  <2>1. part' = part
    BY DEF ServicesNext, all
  <2>2. part = "pages" => IInv'
    BY PagesGo, NextHolds, Zenon DEF AllInv
  <2>3. part = "gate" => Gate!GateInv'
    BY GateGo, GateKept, Zenon DEF AllInv
  <2>4. part = "files" => Files!FilesInv'
    BY FilesGo, FilesKept, Zenon DEF AllInv
  <2>5. part = "comments" => Comments!CommentsInv'
    BY CommentsGo, CommentsKept, Zenon DEF AllInv
  <2>6. part = "maps" => Maps!MapsInv'
    BY MapsGo, MapsKept, Zenon DEF AllInv
  <2>7. part = "pod" => Pod!PodInv'
    BY PodGo, PodKept, Zenon DEF AllInv
  <2>8. part = "hook" => Hook!HookInv'
    BY HookGo, HookKept, Zenon DEF AllInv
  <2>9. part = "renders" => Renders!CacheInv'
    BY RendersGo, RendersKept, Zenon DEF AllInv
  <2>10. part \in Parts
    BY DEF AllInv
  <2> QED
    BY <2>1, <2>2, <2>3, <2>4, <2>5, <2>6, <2>7, <2>8, <2>9, <2>10, Zenon DEF AllInv
<1>3. AllInv => ServicesTypeOK
  <2> SUFFICES ASSUME AllInv PROVE ServicesTypeOK
    OBVIOUS
  <2>1. CASE part = "pages"
    BY <2>1, Zenon DEF AllInv, ServicesTypeOK, IInv
  <2>2. CASE part = "gate"
    BY <2>2 DEF AllInv, ServicesTypeOK, Gate!GateInv
  <2>3. CASE part = "files"
    BY <2>3 DEF AllInv, ServicesTypeOK, Files!FilesInv
  <2>4. CASE part = "comments"
    BY <2>4 DEF AllInv, ServicesTypeOK, Comments!CommentsInv
  <2>5. CASE part = "maps"
    BY <2>5 DEF AllInv, ServicesTypeOK, Maps!MapsInv
  <2>6. CASE part = "pod"
    BY <2>6 DEF AllInv, ServicesTypeOK, Pod!PodInv
  <2>7. CASE part = "hook"
    BY <2>7 DEF AllInv, ServicesTypeOK, Hook!HookInv
  <2>8. CASE part = "renders"
    BY <2>8 DEF AllInv, ServicesTypeOK, Renders!CacheInv
  <2> QED
    BY <2>1, <2>2, <2>3, <2>4, <2>5, <2>6, <2>7, <2>8 DEF AllInv, Parts
<1> QED
  BY <1>1, <1>2, <1>3, PTL DEF ServicesSpec

=============================================================================
