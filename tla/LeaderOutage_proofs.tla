------------------------- MODULE LeaderOutage_proofs -------------------------
(***************************************************************************)
(* Proof that an outage is bounded, for any replicas, clocks and timing    *)
(* constants, and whatever becomes of everybody but the survivor.          *)
(*                                                                         *)
(* The argument counts from the last sign of life.  A round of the         *)
(* survivor that was under way then may have read an older lease; it is    *)
(* over within Round.  The next one begins a sleep later and reads the     *)
(* lease as it still is, or has a sighting of it that is older still.      *)
(* From the sighting on each round either finds it younger than Duration,  *)
(* and then ends soon enough (Watching), or takes the lease; and its write *)
(* wins, as a write that beat it would have been a later sign of life.     *)
(***************************************************************************)
EXTENDS LeaderOutage, LeaderElection_proofs

(* The survivor has sighted the lease as it is now, soon after the last sign *)
FirstSeen == observed[survivor].since - Offset[survivor]

Sighted ==
    /\ observed[survivor] # None
    /\ observed[survivor].holder = lease.holder
    /\ observed[survivor].renew = lease.renew
    /\ FirstSeen <= lastSign + Sight

(* It runs, and what it dates is not in the future *)
Living ==
    /\ survivor \in Replicas /\ survivor \in alive /\ ~stopped[survivor]
    /\ lastSign \in Int /\ lastSign <= time
    /\ since[survivor] <= time
    /\ observed[survivor] # None =>
        /\ FirstSeen <= time
        /\ tickPc[survivor] \in {"get", "got"} => FirstSeen <= since[survivor]
    /\ tickPc[survivor] \in {"get", "got"} =>
        tickNow[survivor] - Offset[survivor] = since[survivor]

(* Its last round ended, or its round began, soon enough after the last sign *)
(* or after the sighting                                                     *)
Watching ==
    LET began == since[survivor]
    IN  /\ tickPc[survivor] = "sleep" =>
            /\ time <= began + Retry + Lag
            /\ \/ began <= lastSign + Round
               \/ Sighted /\ began <= FirstSeen + Duration + MaxGet
        /\ tickPc[survivor] \in {"get", "got"} =>
            /\ time <= began + MaxGet
            /\ \/ began <= lastSign + Sight
               \/ Sighted /\ began <= FirstSeen + Duration + Watch
        /\ tickPc[survivor] = "got" => reply[survivor] = lease \/ began <= lastSign

(* A write of its own is sent soon enough, and loses only to a sign of life  *)
(* after the GET before it                                                   *)
Writing ==
    LET began == since[survivor]
    IN  /\ tickPc[survivor] \in {"put", "won", "lost"} => time <= began + SlowestPut
        /\ tickPc[survivor] = "put" =>
            \/ sent[survivor].rv = lease.rv /\ began + SlowestPut <= lastSign + Longest
            \/ began <= lastSign + MaxGet
        /\ tickPc[survivor] \in {"won", "lost"} => began <= lastSign + MaxGet
        /\ tickPc[survivor] # "ended"

OutageInv ==
    survivor # None => Living /\ Watching /\ Writing /\ time <= lastSign + Longest

-----------------------------------------------------------------------------
(* Numbers *)

LEMMA Lengths ==
    /\ Duration \in Nat /\ Retry \in Nat /\ Lag \in Nat /\ MaxGet \in Nat
    /\ SlowestPut \in Nat /\ Round \in Nat /\ Sight \in Nat /\ Watch \in Nat
    /\ Longest \in Nat
    /\ Round = MaxGet + SlowestPut /\ Sight = Round + Retry + Lag
    /\ Watch = MaxGet + Retry + Lag /\ Longest = Sight + Duration + Watch + Round
<1>1. /\ Duration \in Nat /\ Retry \in Nat /\ Lag \in Nat /\ MaxGet \in Nat
      /\ SlowestPut \in Nat
  BY ConstantsAssumption, OutageAssumption DEF ConstantsAssumption, OutageAssumption
<1> QED
  BY <1>1, SMT DEF Round, Sight, Watch, Longest

LEMMA Numbers ==
    ASSUME TypeOK, survivor \in Replicas
    PROVE  /\ time \in Int /\ since[survivor] \in Int /\ tickNow[survivor] \in Int
           /\ Offset[survivor] \in Int
           /\ observed[survivor] # None => observed[survivor].since \in Int
           /\ lease \in Leases /\ lease.rv \in Nat
           /\ reply[survivor] \in Leases
BY ConstantsAssumption, SMT DEF ConstantsAssumption, TypeOK, Leases

(* A span that is counted from a later sign of life, too *)
LEMMA Remains ==
    ASSUME NEW t \in Int, NEW sign \in Int, NEW later \in Int, NEW d \in Nat,
           sign <= later, t <= sign + d
    PROVE  t <= later + d
BY SMT

LEMMA Longer ==
    ASSUME NEW t \in Int, NEW sign \in Int, NEW d \in Nat, NEW e \in Nat,
           t <= sign + d, d <= e
    PROVE  t <= sign + e
BY SMT

(* Two spans one after the other *)
LEMMA Sums ==
    ASSUME NEW t \in Int, NEW began \in Int, NEW sign \in Int,
           NEW d \in Nat, NEW e \in Nat,
           began <= sign + d, t <= began + e
    PROVE  t <= sign + (d + e)
BY SMT

(* What every step with a survivor has in common *)
Passing ==
    /\ TypeOK /\ TypeOK' /\ survivor # None
    /\ Living /\ Watching /\ Writing /\ time <= lastSign + Longest
    /\ survivor' = survivor /\ survivor \in alive' /\ ~stopped'[survivor]
    /\ lastSign' \in {lastSign, time}
    /\ lease' # lease => lastSign' = time

LEMMA Signs ==
    ASSUME Passing
    PROVE  /\ time \in Int /\ lastSign \in Int /\ lastSign' \in Int
           /\ lastSign <= lastSign' /\ lastSign' <= time
           /\ since[survivor] \in Int /\ Offset[survivor] \in Int
           /\ since[survivor] <= time
           /\ observed[survivor] # None => observed[survivor].since \in Int
<1>1. /\ time \in Int /\ since[survivor] \in Int /\ Offset[survivor] \in Int
      /\ observed[survivor] # None => observed[survivor].since \in Int
  BY Numbers DEF Passing, Living
<1>2. /\ lastSign \in Int /\ lastSign <= time /\ since[survivor] <= time
      /\ lastSign' \in {lastSign, time}
  BY DEF Passing, Living
<1> QED
  BY <1>1, <1>2, SMT

(* The count is within its bound after a step that takes no time *)
LEMMA StillShort ==
    ASSUME Passing, time' = time PROVE time' <= lastSign' + Longest
<1>1. time <= lastSign + Longest
  BY DEF Passing
<1>2. time <= lastSign' + Longest
  BY <1>1, Signs, Lengths, Remains
<1> QED
  BY <1>2

(* The survivor's thread and its memory of the lease *)
Untouched(r) ==
    /\ tickPc'[r] = tickPc[r] /\ tickNow'[r] = tickNow[r] /\ since'[r] = since[r]
    /\ reply'[r] = reply[r] /\ sent'[r] = sent[r] /\ observed'[r] = observed[r]

LEMMA UntouchedLives ==
    ASSUME Passing, Untouched(survivor), time' \in {time, time + 1}
    PROVE  Living' /\ FirstSeen' = FirstSeen
<1>1. FirstSeen' = FirstSeen
  BY DEF Passing, Untouched, FirstSeen
<1>2. time \in Int /\ time <= time' /\ lastSign' \in Int /\ lastSign' <= time
  BY Signs, SMT
<1>3. /\ survivor \in Replicas /\ since[survivor] <= time
      /\ observed[survivor] # None =>
          /\ FirstSeen <= time
          /\ tickPc[survivor] \in {"get", "got"} => FirstSeen <= since[survivor]
      /\ tickPc[survivor] \in {"get", "got"} =>
          tickNow[survivor] - Offset[survivor] = since[survivor]
  BY DEF Passing, Living
<1>4. /\ survivor' = survivor /\ survivor \in alive' /\ ~stopped'[survivor]
      /\ tickPc'[survivor] = tickPc[survivor] /\ tickNow'[survivor] = tickNow[survivor]
      /\ since'[survivor] = since[survivor] /\ observed'[survivor] = observed[survivor]
  BY DEF Passing, Untouched
<1>5. time' \in Int /\ lastSign' <= time' /\ since[survivor] <= time'
  BY <1>2, <1>3, Signs, SMT
<1>6. observed[survivor] # None => FirstSeen <= time'
  <2>1. observed[survivor] # None => FirstSeen \in Int
    BY Signs DEF FirstSeen
  <2> QED
    BY <1>2, <1>3, <1>5, <2>1, SMT
<1>7. Living'
  BY <1>1, <1>2, <1>3, <1>4, <1>5, <1>6 DEF Living
<1> QED
  BY <1>1, <1>7

(* A sighting of the lease as it still is *)
LEMMA StaysSighted ==
    ASSUME Passing, Sighted, lease' = lease, observed'[survivor] = observed[survivor]
    PROVE  Sighted' /\ FirstSeen' = FirstSeen /\ FirstSeen \in Int
<1>1. /\ observed[survivor] # None
      /\ observed[survivor].holder = lease.holder
      /\ observed[survivor].renew = lease.renew
      /\ FirstSeen <= lastSign + Sight
  BY DEF Sighted
<1>2. FirstSeen' = FirstSeen /\ observed'[survivor'] = observed[survivor]
  BY DEF Passing, FirstSeen
<1>3. FirstSeen \in Int
  BY <1>1, Signs DEF FirstSeen
<1>4. FirstSeen <= lastSign' + Sight
  BY <1>1, <1>3, Signs, Lengths, Remains
<1> QED
  BY <1>1, <1>2, <1>3, <1>4 DEF Sighted

(* Where the survivor's rounds stand if it has not been touched *)
LEMMA StaysWatching ==
    ASSUME Passing, Untouched(survivor),
           lease' # lease => time' = time,
           tickPc[survivor] = "sleep" => time' <= since[survivor] + Retry + Lag,
           tickPc[survivor] \in {"get", "got"} => time' <= since[survivor] + MaxGet
    PROVE  Watching'
<1>1. /\ tickPc'[survivor'] = tickPc[survivor] /\ since'[survivor'] = since[survivor]
      /\ reply'[survivor'] = reply[survivor] /\ observed'[survivor] = observed[survivor]
  BY DEF Passing, Untouched
<1> DEFINE Slept == \/ since[survivor] <= lastSign + Round
                    \/ Sighted /\ since[survivor] <= FirstSeen + Duration + MaxGet
           Looked == \/ since[survivor] <= lastSign + Sight
                     \/ Sighted /\ since[survivor] <= FirstSeen + Duration + Watch
           Heard == reply[survivor] = lease \/ since[survivor] <= lastSign
           Slept1 == \/ since[survivor] <= lastSign' + Round
                     \/ Sighted' /\ since[survivor] <= FirstSeen' + Duration + MaxGet
           Looked1 == \/ since[survivor] <= lastSign' + Sight
                      \/ Sighted' /\ since[survivor] <= FirstSeen' + Duration + Watch
           Heard1 == reply[survivor] = lease' \/ since[survivor] <= lastSign'
<1>2. /\ tickPc[survivor] = "sleep" => Slept
      /\ tickPc[survivor] \in {"get", "got"} => Looked
      /\ tickPc[survivor] = "got" => Heard
  BY DEF Passing, Watching
<1>3. CASE lease' = lease
  <2>1. Sighted => Sighted' /\ FirstSeen' = FirstSeen
    BY <1>1, <1>3, StaysSighted
  <2>2. Slept => Slept1
    BY <2>1, Signs, Lengths, Remains
  <2>3. Looked => Looked1
    BY <2>1, Signs, Lengths, Remains
  <2>4. since[survivor] <= lastSign => since[survivor] <= lastSign'
    BY Signs, SMT
  <2>5. Heard => Heard1
    BY <1>3, <2>4
  <2> QED
    BY <1>1, <1>2, <2>2, <2>3, <2>5 DEF Watching
<1>4. CASE lastSign' = time
  <2>1. since[survivor] <= lastSign'
    BY <1>4, Signs
  <2>2. since[survivor] <= lastSign' + Round /\ since[survivor] <= lastSign' + Sight
    BY <2>1, Signs, Lengths, SMT
  <2> QED
    BY <1>1, <2>1, <2>2 DEF Watching
<1> QED
  BY <1>3, <1>4 DEF Passing

LEMMA StaysWriting ==
    ASSUME Passing, Untouched(survivor),
           tickPc[survivor] \in {"put", "won", "lost"} => time' <= since[survivor] + SlowestPut
    PROVE  Writing'
<1>1. /\ tickPc'[survivor'] = tickPc[survivor] /\ since'[survivor'] = since[survivor]
      /\ sent'[survivor'] = sent[survivor]
  BY DEF Passing, Untouched
<1>2. since[survivor] <= lastSign + MaxGet => since[survivor] <= lastSign' + MaxGet
  BY Signs, Lengths, Remains
<1>3. /\ tickPc[survivor] = "put" =>
          \/ sent[survivor].rv = lease.rv /\ since[survivor] + SlowestPut <= lastSign + Longest
          \/ since[survivor] <= lastSign + MaxGet
      /\ tickPc[survivor] \in {"won", "lost"} => since[survivor] <= lastSign + MaxGet
      /\ tickPc[survivor] # "ended"
  BY DEF Passing, Writing
<1>4. CASE lease' = lease
  <2>1. since[survivor] + SlowestPut <= lastSign + Longest =>
            since[survivor] + SlowestPut <= lastSign' + Longest
    BY Signs, Lengths, SMT
  <2> QED
    BY <1>1, <1>2, <1>3, <1>4, <2>1 DEF Writing
<1>5. CASE lastSign' = time
  <2>1. since[survivor] <= lastSign' + MaxGet
    BY <1>5, Signs, Lengths, SMT
  <2> QED
    BY <1>1, <1>3, <2>1 DEF Writing
<1> QED
  BY <1>4, <1>5 DEF Passing

(* Whatever the others do, the sign of life it gives sets the count back *)
LEMMA OthersPass ==
    ASSUME Passing, Untouched(survivor), time' = time
    PROVE  OutageInv'
<1>1. /\ tickPc[survivor] = "sleep" => time <= since[survivor] + Retry + Lag
      /\ tickPc[survivor] \in {"get", "got"} => time <= since[survivor] + MaxGet
      /\ tickPc[survivor] \in {"put", "won", "lost"} => time <= since[survivor] + SlowestPut
  BY DEF Passing, Watching, Writing
<1>2. Living'
  BY UntouchedLives
<1>3. Watching'
  BY <1>1, StaysWatching
<1>4. Writing'
  BY <1>1, StaysWriting
<1> QED
  BY <1>2, <1>3, <1>4, StillShort DEF OutageInv

(* Time passes only while the survivor's round may take longer *)
LEMMA TimePasses ==
    ASSUME Passing, Tick, time' # time => Prompt(survivor)
    PROVE  OutageInv'
<1>1. /\ time' = time + 1 /\ Patient(survivor) /\ lease' = lease /\ Untouched(survivor)
  BY Zenon DEF Tick, Passing, Living, Untouched, threadVars, memoryVars, mainVars
<1>2. time' \in Int /\ time' # time
  BY <1>1, Signs, SMT
<1>3. /\ tickPc[survivor] = "sleep" => time' <= since[survivor] + Retry + Lag
      /\ tickPc[survivor] \in {"get", "got"} => time' <= since[survivor] + MaxGet
      /\ tickPc[survivor] \in {"put", "won", "lost"} => time' <= since[survivor] + SlowestPut
  <2>1. /\ tickPc[survivor] = "sleep" => time < since[survivor] + Retry + Lag
        /\ tickPc[survivor] \in {"get", "got"} => time < since[survivor] + MaxGet
        /\ tickPc[survivor] \in {"put", "won", "lost"} => time < since[survivor] + SlowestPut
    BY <1>1, <1>2 DEF Patient, Prompt
  <2> QED
    BY <1>1, <2>1, Signs, Lengths, SMT
<1>4. Living'
  BY <1>1, UntouchedLives
<1>5. Watching'
  BY <1>1, <1>3, StaysWatching
<1>6. Writing'
  BY <1>1, <1>3, StaysWriting
<1>7. time' <= lastSign + Longest
  <2>1. tickPc[survivor] \in {"sleep", "get", "got", "put", "won", "lost"}
    BY DEF Passing, TypeOK, Living, Writing
  <2>2. Sighted => FirstSeen \in Int /\ FirstSeen <= lastSign + Sight
    BY Signs DEF Sighted, FirstSeen
  <2>3. CASE tickPc[survivor] = "sleep"
    <3>1. \/ since[survivor] <= lastSign + Round
          \/ Sighted /\ since[survivor] <= FirstSeen + Duration + MaxGet
      BY <2>3 DEF Passing, Watching
    <3>2. time' <= since[survivor] + Retry + Lag
      BY <1>3, <2>3
    <3>3. CASE since[survivor] <= lastSign + Round
      BY <1>2, <3>2, <3>3, Signs, Lengths, SMT
    <3>4. CASE Sighted /\ since[survivor] <= FirstSeen + Duration + MaxGet
      BY <1>2, <2>2, <3>2, <3>4, Signs, Lengths, SMT
    <3> QED
      BY <3>1, <3>3, <3>4
  <2>4. CASE tickPc[survivor] \in {"get", "got"}
    <3>1. \/ since[survivor] <= lastSign + Sight
          \/ Sighted /\ since[survivor] <= FirstSeen + Duration + Watch
      BY <2>4 DEF Passing, Watching
    <3>2. time' <= since[survivor] + MaxGet
      BY <1>3, <2>4
    <3>3. CASE since[survivor] <= lastSign + Sight
      BY <1>2, <3>2, <3>3, Signs, Lengths, SMT
    <3>4. CASE Sighted /\ since[survivor] <= FirstSeen + Duration + Watch
      BY <1>2, <2>2, <3>2, <3>4, Signs, Lengths, SMT
    <3> QED
      BY <3>1, <3>3, <3>4
  <2>5. CASE tickPc[survivor] \in {"put", "won", "lost"}
    <3>1. \/ since[survivor] + SlowestPut <= lastSign + Longest
          \/ since[survivor] <= lastSign + MaxGet
      BY <2>5 DEF Passing, Writing
    <3>2. time' <= since[survivor] + SlowestPut
      BY <1>3, <2>5
    <3> QED
      BY <1>2, <3>1, <3>2, Signs, Lengths, SMT
  <2> QED
    BY <2>1, <2>3, <2>4, <2>5
<1>8. time' <= lastSign' + Longest
  BY <1>2, <1>7, Signs, Lengths, Remains
<1> QED
  BY <1>4, <1>5, <1>6, <1>8 DEF OutageInv

-----------------------------------------------------------------------------
(* The survivor's own round *)

LEMMA RoundBegins ==
    ASSUME Passing, StartTick(survivor) PROVE OutageInv'
<1>1. /\ tickPc[survivor] = "sleep" /\ tickPc'[survivor'] = "get"
      /\ tickNow'[survivor'] = time + Offset[survivor] /\ since'[survivor'] = time
      /\ time' = time /\ lease' = lease /\ observed' = observed
  BY SMT DEF Passing, Living, TypeOK, StartTick, Clock, memoryVars
<1>2. /\ survivor \in Replicas /\ survivor' = survivor /\ survivor \in alive'
      /\ ~stopped'[survivor]
      /\ observed[survivor] # None => FirstSeen <= time
  BY DEF Passing, Living
<1>3. FirstSeen' = FirstSeen
  BY <1>1, <1>2 DEF FirstSeen
<1>4. (time + Offset[survivor]) - Offset[survivor] = time
  BY Signs, SMT
<1>5. Living'
  BY <1>1, <1>2, <1>3, <1>4, Signs DEF Living
<1>6. /\ time <= since[survivor] + Retry + Lag
      /\ \/ since[survivor] <= lastSign + Round
         \/ Sighted /\ since[survivor] <= FirstSeen + Duration + MaxGet
  BY <1>1 DEF Passing, Watching
<1>7. \/ time <= lastSign' + Sight
      \/ Sighted' /\ time <= FirstSeen' + Duration + Watch
  <2>1. CASE since[survivor] <= lastSign + Round
    <3>1. time <= lastSign + Sight
      BY <1>6, <2>1, Signs, Lengths, SMT
    <3> QED
      BY <3>1, Signs, Lengths, Remains
  <2>2. CASE Sighted /\ since[survivor] <= FirstSeen + Duration + MaxGet
    <3>1. Sighted' /\ FirstSeen \in Int
      BY <1>1, <2>2, StaysSighted
    <3>2. time <= FirstSeen + Duration + Watch
      BY <1>6, <2>2, <3>1, Signs, Lengths, SMT
    <3> QED
      BY <1>3, <3>1, <3>2
  <2> QED
    BY <1>6, <2>1, <2>2
<1>8. time <= time + MaxGet
  BY Signs, Lengths, SMT
<1>9. Watching'
  BY <1>1, <1>7, <1>8 DEF Watching
<1>10. Writing'
  BY <1>1 DEF Writing
<1> QED
  BY <1>1, <1>5, <1>9, <1>10, StillShort DEF OutageInv

LEMMA LeaseIsRead ==
    ASSUME Passing, ServeGet(survivor) PROVE OutageInv'
<1>1. /\ tickPc[survivor] = "get" /\ tickPc'[survivor'] = "got"
      /\ reply'[survivor'] = lease
      /\ tickNow' = tickNow /\ since'[survivor'] = since[survivor]
      /\ time' = time /\ lease' = lease /\ observed' = observed
  BY SMT DEF Passing, Living, TypeOK, ServeGet, memoryVars
<1>2. /\ survivor \in Replicas /\ survivor' = survivor /\ survivor \in alive'
      /\ ~stopped'[survivor]
      /\ observed[survivor] # None => FirstSeen <= time /\ FirstSeen <= since[survivor]
      /\ tickNow[survivor] - Offset[survivor] = since[survivor]
  BY <1>1 DEF Passing, Living
<1>3. FirstSeen' = FirstSeen
  BY <1>1, <1>2 DEF FirstSeen
<1>4. Living'
  BY <1>1, <1>2, <1>3, Signs DEF Living
<1>5. /\ time <= since[survivor] + MaxGet
      /\ \/ since[survivor] <= lastSign + Sight
         \/ Sighted /\ since[survivor] <= FirstSeen + Duration + Watch
  BY <1>1 DEF Passing, Watching
<1>6. Sighted => Sighted'
  BY <1>1, StaysSighted
<1>7. since[survivor] <= lastSign + Sight => since[survivor] <= lastSign' + Sight
  BY Signs, Lengths, Remains
<1>8. Watching'
  BY <1>1, <1>3, <1>5, <1>6, <1>7 DEF Watching
<1>9. Writing'
  BY <1>1 DEF Writing
<1> QED
  BY <1>1, <1>4, <1>8, <1>9, StillShort DEF OutageInv

(* The sighting of the lease as it is now *)
LEMMA LeaseIsSighted ==
    ASSUME Passing, tickPc[survivor] = "got", reply[survivor] = lease,
           NEW seen, seen = Observation(survivor)
    PROVE  /\ seen # None
           /\ seen.holder = lease.holder /\ seen.renew = lease.renew
           /\ seen.since \in Int
           /\ seen.since - Offset[survivor] <= since[survivor]
           /\ seen.since - Offset[survivor] <= lastSign + Sight
<1>1. tickNow[survivor] - Offset[survivor] = since[survivor] /\ tickNow[survivor] \in Int
  BY Numbers DEF Passing, Living
<1>2. \/ since[survivor] <= lastSign + Sight
      \/ Sighted
  BY DEF Passing, Watching
<1>3. CASE /\ observed[survivor] # None
           /\ observed[survivor].holder = lease.holder
           /\ observed[survivor].renew = lease.renew
  <2>1. seen = observed[survivor]
    BY <1>3 DEF Observation
  <2>2. FirstSeen <= since[survivor] /\ FirstSeen \in Int
    BY <1>3, Signs DEF Passing, Living, FirstSeen
  <2>3. FirstSeen <= lastSign + Sight
    <3>1. CASE since[survivor] <= lastSign + Sight
      BY <2>2, <3>1, Signs, Lengths, SMT
    <3>2. CASE Sighted
      BY <3>2 DEF Sighted
    <3> QED
      BY <1>2, <3>1, <3>2
  <2> QED
    BY <1>3, <2>1, <2>2, <2>3, Signs DEF FirstSeen
<1>4. CASE ~(/\ observed[survivor] # None
             /\ observed[survivor].holder = lease.holder
             /\ observed[survivor].renew = lease.renew)
  <2>1. seen = [holder |-> lease.holder, renew |-> lease.renew,
                since |-> tickNow[survivor]]
    BY <1>4 DEF Observation
  <2>2. since[survivor] <= lastSign + Sight
    BY <1>2, <1>4 DEF Sighted
  <2>3. seen # None
    <3>1. /\ lease.holder \in Replicas \cup {NoOne} /\ lease.renew \in Int
          /\ tickNow[survivor] \in Int
      BY <1>1 DEF Passing, TypeOK, Leases
    <3>2. seen \in [holder : Replicas \cup {NoOne}, renew : Int, since : Int]
      BY <2>1, <3>1
    <3> QED
      BY <3>2, NoneAssumption
  <2>4. since[survivor] <= since[survivor]
    BY Signs
  <2> QED
    BY <1>1, <2>1, <2>2, <2>3, <2>4
<1> QED
  BY <1>3, <1>4

(* What _tick notes of the lease it got, if anything, is from its round or   *)
(* from before                                                               *)
LEMMA NotedInTime ==
    ASSUME Passing, tickPc[survivor] = "got",
           NEW seen, seen \in {None, observed[survivor], Observation(survivor)},
           seen # None
    PROVE  seen.since - Offset[survivor] <= time
<1>1. /\ observed[survivor] # None => FirstSeen <= time
      /\ tickNow[survivor] - Offset[survivor] = since[survivor]
  BY DEF Passing, Living
<1>2. CASE seen = observed[survivor]
  BY <1>1, <1>2 DEF FirstSeen
<1>3. CASE seen = Observation(survivor) /\ seen # observed[survivor]
  <2>1. seen.since = tickNow[survivor]
    BY <1>3 DEF Observation
  <2> QED
    BY <1>1, <2>1, Signs
<1> QED
  BY <1>2, <1>3

(* A round that ends early enough after the last sign *)
LEMMA RoundEndsEarly ==
    ASSUME Passing, time' = time, time <= lastSign' + Round,
           tickPc'[survivor] = "sleep", since'[survivor] = time,
           observed'[survivor] # None =>
               observed'[survivor].since - Offset[survivor] <= time
    PROVE  OutageInv'
<1>1. /\ survivor \in Replicas /\ survivor' = survivor /\ survivor \in alive'
      /\ ~stopped'[survivor]
  BY DEF Passing, Living
<1>2. tickPc'[survivor'] = "sleep" /\ since'[survivor'] = time /\ time <= time
  BY <1>1, Signs
<1>3. Living'
  BY <1>1, <1>2, Signs DEF Living, FirstSeen
<1>4. Watching'
  <2>1. time <= time + Retry + Lag
    BY Signs, Lengths, SMT
  <2> QED
    BY <1>2, <2>1 DEF Watching
<1>5. Writing'
  BY <1>2 DEF Writing
<1> QED
  BY <1>3, <1>4, <1>5, StillShort DEF OutageInv

(* The lease is somebody's, and not old enough *)
LEMMA RoundStandsBy ==
    ASSUME Passing, StandBy(survivor) PROVE OutageInv'
<1>1. /\ tickPc[survivor] = "got" /\ ~Expired(survivor)
      /\ tickPc'[survivor] = "sleep" /\ since'[survivor] = time
      /\ observed'[survivor] = Observation(survivor)
      /\ time' = time /\ lease' = lease
  BY SMT DEF Passing, Living, TypeOK, StandBy, Sleep
<1>2. observed'[survivor] # None => observed'[survivor].since - Offset[survivor] <= time
  BY <1>1, NotedInTime
<1>3. time <= since[survivor] + MaxGet
  BY <1>1 DEF Passing, Watching
<1>4. CASE since[survivor] <= lastSign
  <2>1. time <= lastSign + Round
    BY <1>3, <1>4, Signs, Lengths, SMT
  <2>2. time <= lastSign' + Round
    BY <2>1, Signs, Lengths, Remains
  <2> QED
    BY <1>1, <1>2, <2>2, RoundEndsEarly
<1>5. CASE reply[survivor] = lease
  <2>1. ASSUME NEW seen, seen = Observation(survivor)
        PROVE  OutageInv'
    <3>1. /\ seen # None
          /\ seen.holder = lease.holder /\ seen.renew = lease.renew
          /\ seen.since \in Int
          /\ seen.since - Offset[survivor] <= since[survivor]
          /\ seen.since - Offset[survivor] <= lastSign + Sight
      BY <1>1, <1>5, <2>1, LeaseIsSighted
    <3>2. /\ survivor \in Replicas /\ survivor' = survivor /\ survivor \in alive'
          /\ ~stopped'[survivor]
          /\ tickNow[survivor] - Offset[survivor] = since[survivor]
      BY <1>1 DEF Passing, Living
    <3>3. observed'[survivor'] = seen
      BY <1>1, <2>1, <3>2
    <3> DEFINE first == seen.since - Offset[survivor]
    <3>4. FirstSeen' = first
      BY <3>2, <3>3 DEF FirstSeen
    <3>5. first \in Int
      BY <3>1, Signs
    <3>6. time <= first + Duration + MaxGet
      <4>1. tickNow[survivor] \in Int
        BY <3>2, Numbers DEF Passing
      <4>2. tickNow[survivor] - seen.since <= Duration
        BY <1>1, <2>1, <3>1, <4>1, Lengths, SMT DEF Expired
      <4>3. since[survivor] <= first + Duration
        BY <3>1, <3>2, <4>1, <4>2, Signs, Lengths, SMT
      <4> HIDE DEF first
      <4> QED
        BY <1>3, <3>5, <4>3, Signs, Lengths, SMT
    <3>7. first <= lastSign' + Sight
      <4> HIDE DEF first
      <4>1. first <= lastSign + Sight
        BY <3>1 DEF first
      <4> QED
        BY <3>5, <4>1, Signs, Lengths, Remains
    <3>8. Sighted'
      BY <1>1, <3>1, <3>3, <3>4, <3>7 DEF Sighted
    <3>9. tickPc'[survivor'] = "sleep" /\ since'[survivor'] = time
      BY <1>1, <3>2
    <3>10. Living'
      <4>1. first <= time
        BY <1>1, <1>2, <2>1, <3>1
      <4>2. time <= time
        BY Signs
      <4> QED
        BY <1>1, <3>2, <3>4, <3>9, <4>1, <4>2, Signs DEF Living
    <3>11. Watching'
      <4>1. time <= time + Retry + Lag
        BY Signs, Lengths, SMT
      <4> QED
        BY <1>1, <3>4, <3>6, <3>8, <3>9, <4>1 DEF Watching
    <3>12. Writing'
      BY <3>9 DEF Writing
    <3> QED
      BY <1>1, <3>10, <3>11, <3>12, StillShort DEF OutageInv
  <2> QED
    BY <2>1
<1> QED
  BY <1>1, <1>4, <1>5 DEF Passing, Watching

(* The lease is taken, made or renewed: the write is about the lease as it   *)
(* is now, or the round began early                                          *)
LEMMA RoundWrites ==
    ASSUME Passing, CreateOrRenew(survivor) \/ TakeOver(survivor) PROVE OutageInv'
<1>1. /\ tickPc[survivor] = "got" /\ tickPc'[survivor] = "put" /\ since'[survivor] = time
      /\ sent'[survivor].rv = reply[survivor].rv
      /\ observed'[survivor] \in {observed[survivor], Observation(survivor)}
      /\ time' = time /\ lease' = lease
  BY SMT DEF Passing, Living, TypeOK, CreateOrRenew, TakeOver, Send, memoryVars
<1>2. /\ survivor \in Replicas /\ survivor' = survivor /\ survivor \in alive'
      /\ ~stopped'[survivor]
  BY DEF Passing, Living
<1>3. tickPc'[survivor'] = "put" /\ since'[survivor'] = time /\ time <= time
  BY <1>1, <1>2, Signs
<1>4. observed'[survivor] # None => observed'[survivor].since - Offset[survivor] <= time
  BY <1>1, NotedInTime
<1>5. Living'
  BY <1>1, <1>2, <1>3, <1>4, Signs DEF Living, FirstSeen
<1>6. Watching'
  BY <1>3 DEF Watching
<1>7. /\ time <= since[survivor] + MaxGet
      /\ \/ since[survivor] <= lastSign + Sight
         \/ Sighted /\ since[survivor] <= FirstSeen + Duration + Watch
      /\ reply[survivor] = lease \/ since[survivor] <= lastSign
  BY <1>1 DEF Passing, Watching
<1>8. time <= time + SlowestPut
  BY Signs, Lengths, SMT
<1>9. CASE reply[survivor] = lease
  <2>1. time + SlowestPut <= lastSign + Longest
    <3>1. CASE since[survivor] <= lastSign + Sight
      BY <1>7, <3>1, Signs, Lengths, SMT
    <3>2. CASE Sighted /\ since[survivor] <= FirstSeen + Duration + Watch
      <4>1. FirstSeen \in Int /\ FirstSeen <= lastSign + Sight
        BY <3>2, Signs DEF Sighted, FirstSeen
      <4>2. since[survivor] <= lastSign + Sight + Duration + Watch
        BY <3>2, <4>1, Signs, Lengths, SMT
      <4> QED
        BY <1>7, <4>2, Signs, Lengths, SMT
    <3> QED
      BY <1>7, <3>1, <3>2
  <2>2. time + SlowestPut <= lastSign' + Longest
    BY <2>1, Signs, Lengths, SMT
  <2> QED
    BY <1>1, <1>2, <1>3, <1>5, <1>6, <1>8, <1>9, <2>2, StillShort DEF OutageInv, Writing
<1>10. CASE since[survivor] <= lastSign
  <2>1. time <= lastSign + MaxGet
    BY <1>7, <1>10, Signs, Lengths, SMT
  <2>2. time <= lastSign' + MaxGet
    BY <2>1, Signs, Lengths, Remains
  <2> QED
    BY <1>1, <1>3, <1>5, <1>6, <1>8, <2>2, StillShort DEF OutageInv, Writing
<1> QED
  BY <1>7, <1>9, <1>10

LEMMA WriteIsDecided ==
    ASSUME Passing, ServePut(survivor) PROVE OutageInv'
<1>1. /\ tickPc[survivor] = "put"
      /\ tickPc'[survivor] = IF Wins(sent[survivor]) THEN "won" ELSE "lost"
      /\ since' = since /\ observed' = observed /\ time' = time
      /\ Store(sent[survivor])
  BY SMT DEF Passing, Living, TypeOK, ServePut, memoryVars
<1>2. /\ survivor \in Replicas /\ survivor' = survivor /\ survivor \in alive'
      /\ ~stopped'[survivor]
      /\ observed[survivor] # None => FirstSeen <= time
  BY DEF Passing, Living
<1>3. tickPc'[survivor'] \in {"won", "lost"} /\ since'[survivor'] = since[survivor]
  BY <1>1, <1>2
<1>4. Living'
  BY <1>1, <1>2, <1>3, Signs DEF Living, FirstSeen
<1>5. Watching'
  BY <1>3 DEF Watching
<1>6. since[survivor] <= lastSign' + MaxGet
  <2>1. CASE Wins(sent[survivor])
    <3>1. lease.rv \in Nat
      BY Numbers, <1>2 DEF Passing
    <3>2. lease'.rv = lease.rv + 1
      BY <1>1, <2>1 DEF Store
    <3>3. lease' # lease
      BY <3>1, <3>2, SMT
    <3>4. lastSign' = time
      BY <3>3 DEF Passing
    <3> QED
      BY <3>4, Signs, Lengths, SMT
  <2>2. CASE ~Wins(sent[survivor])
    <3>1. since[survivor] <= lastSign + MaxGet
      BY <1>1, <2>2 DEF Passing, Writing, Wins
    <3> QED
      BY <3>1, Signs, Lengths, Remains
  <2> QED
    BY <2>1, <2>2
<1>7. time <= since[survivor] + SlowestPut
  BY <1>1 DEF Passing, Writing
<1>8. Writing'
  BY <1>1, <1>3, <1>6, <1>7 DEF Writing
<1> QED
  BY <1>1, <1>4, <1>5, <1>8, StillShort DEF OutageInv

LEMMA RoundEnds ==
    ASSUME Passing, SetLeading(survivor) PROVE OutageInv'
<1>1. /\ tickPc[survivor] \in {"won", "lost"}
      /\ tickPc'[survivor] = "sleep" /\ since'[survivor] = time
      /\ observed'[survivor] \in {None, observed[survivor]}
      /\ time' = time
  BY SMT DEF Passing, Living, TypeOK, SetLeading, Sleep
<1>2. time <= since[survivor] + SlowestPut /\ since[survivor] <= lastSign + MaxGet
  BY <1>1 DEF Passing, Writing
<1>3. time <= lastSign + Round
  BY <1>2, Signs, Lengths, SMT
<1>4. time <= lastSign' + Round
  BY <1>3, Signs, Lengths, Remains
<1>5. observed'[survivor] # None =>
        observed'[survivor].since - Offset[survivor] <= time
  BY <1>1 DEF Passing, Living, FirstSeen
<1> QED
  BY <1>1, <1>4, <1>5, RoundEndsEarly

-----------------------------------------------------------------------------
(* The invariant *)

LEMMA OutageInvInit == OutageInit => OutageInv
<1> SUFFICES ASSUME OutageInit, survivor # None PROVE OutageInv
  BY DEF OutageInv
<1>1. /\ survivor \in Replicas /\ survivor \in alive /\ ~stopped[survivor]
      /\ time = 0 /\ lastSign = 0 /\ since[survivor] = -Retry
      /\ tickPc[survivor] = "sleep" /\ observed[survivor] = None
  BY DEF OutageInit, Init
<1>2. Living
  BY <1>1, Lengths, SMT DEF Living
<1>3. time <= since[survivor] + Retry + Lag /\ since[survivor] <= lastSign + Round
  BY <1>1, Lengths, SMT
<1>4. Watching
  BY <1>1, <1>3 DEF Watching
<1>5. Writing
  BY <1>1 DEF Writing
<1>6. time <= lastSign + Longest
  BY <1>1, Lengths, SMT
<1> QED
  BY <1>2, <1>4, <1>5, <1>6 DEF OutageInv

(* The survivor is left alone by the rounds, the releases, the crash and the *)
(* restart of everybody else, by its own main thread and by the API server   *)
LEMMA OthersLeaveIt ==
    ASSUME TypeOK, survivor \in Replicas, survivor \in alive, survivor \in alive',
           NEW r \in Replicas,
           \/ /\ r # survivor
              /\ \/ StartTick(r) \/ EndThread(r)
                 \/ ServeGet(r) \/ CreateOrRenew(r) \/ StandBy(r) \/ TakeOver(r)
                 \/ ServePut(r) \/ SetLeading(r) \/ GiveUp(r)
           \/ BeginRelease(r) \/ Joined(r) \/ Demote(r)
           \/ ReleaseGet(r) \/ ReleaseDone(r)
           \/ Crash(r) \/ Restart(r)
    PROVE  Untouched(survivor) /\ time' = time
<1>1. CASE r # survivor /\ StartTick(r)
  BY <1>1, SMT DEF TypeOK, StartTick, Untouched, memoryVars, mainVars
<1>2. CASE r # survivor /\ EndThread(r)
  BY <1>2, SMT DEF TypeOK, EndThread, Untouched, memoryVars, mainVars
<1>3. CASE r # survivor /\ ServeGet(r)
  BY <1>3, SMT DEF TypeOK, ServeGet, Untouched, memoryVars, mainVars
<1>4. CASE r # survivor /\ CreateOrRenew(r)
  BY <1>4, SMT DEF TypeOK, CreateOrRenew, Send, Untouched, memoryVars, mainVars
<1>5. CASE r # survivor /\ StandBy(r)
  BY <1>5, SMT DEF TypeOK, StandBy, Sleep, Untouched, mainVars
<1>6. CASE r # survivor /\ TakeOver(r)
  BY <1>6, SMT DEF TypeOK, TakeOver, Send, Untouched, mainVars
<1>7. CASE r # survivor /\ ServePut(r)
  BY <1>7, SMT DEF TypeOK, ServePut, Untouched, memoryVars, mainVars
<1>8. CASE r # survivor /\ SetLeading(r)
  BY <1>8, SMT DEF TypeOK, SetLeading, Sleep, Untouched, mainVars
<1>9. CASE r # survivor /\ GiveUp(r)
  BY <1>9, SMT DEF TypeOK, GiveUp, Sleep, Untouched, memoryVars
<1>10. CASE BeginRelease(r) \/ Joined(r) \/ Demote(r) \/ ReleaseGet(r) \/ ReleaseDone(r)
  BY <1>10, SMT DEF TypeOK, BeginRelease, Joined, Demote, ReleaseGet, ReleaseDone,
                    Untouched, memoryVars, threadVars, mainVars
<1>11. CASE Crash(r)
  <2>1. r # survivor
    BY <1>11 DEF Crash
  <2> QED
    BY <1>11, <2>1, SMT DEF TypeOK, Crash, Sleep, Untouched
<1>12. CASE Restart(r)
  <2>1. r # survivor
    BY <1>12 DEF Restart
  <2> QED
    BY <1>12, <2>1, SMT DEF TypeOK, Restart, Untouched, memoryVars, mainVars
<1> QED
  BY <1>1, <1>2, <1>3, <1>4, <1>5, <1>6, <1>7, <1>8, <1>9, <1>10, <1>11, <1>12, Zenon

LEMMA OutageInvKept ==
    ASSUME TypeOK, TypeOK', OutageInv, [OutageNext]_outageVars
    PROVE  OutageInv'
<1>1. CASE UNCHANGED outageVars
  BY <1>1, Zenon
  DEF OutageInv, Living, Watching, Writing, Sighted, FirstSeen, outageVars, vars,
      threadVars, memoryVars, mainVars, faultVars
<1>2. CASE survivor = None /\ OutageNext
  BY <1>2 DEF OutageNext, OutageInv
<1>3. CASE survivor # None /\ OutageNext
  <2>1. /\ Next /\ survivor' = survivor /\ survivor \in alive'
        /\ ~stopped'[survivor] /\ Answered(survivor)
        /\ time' # time => Prompt(survivor)
        /\ lastSign' \in {lastSign, time}
        /\ lease' # lease => lastSign' = time
    BY <1>3 DEF OutageNext
  <2>2. Living /\ Watching /\ Writing /\ time <= lastSign + Longest
    BY <1>3 DEF OutageInv
  <2>3. Passing
    BY <1>3, <2>1, <2>2 DEF Passing
  <2>4. survivor \in Replicas /\ survivor \in alive /\ ~stopped[survivor]
    BY <2>2 DEF Living
  <2>5. ~GiveUp(survivor)
    BY <2>1, <2>4, SMT DEF TypeOK, GiveUp, Sleep, Answered
  <2>6. ~EndThread(survivor)
    BY <2>4 DEF EndThread
  <2>7. ASSUME NEW r \in Replicas,
               \/ /\ r # survivor
                  /\ \/ StartTick(r) \/ EndThread(r)
                     \/ ServeGet(r) \/ CreateOrRenew(r) \/ StandBy(r) \/ TakeOver(r)
                     \/ ServePut(r) \/ SetLeading(r) \/ GiveUp(r)
               \/ BeginRelease(r) \/ Joined(r) \/ Demote(r)
               \/ ReleaseGet(r) \/ ReleaseDone(r)
               \/ Crash(r) \/ Restart(r)
        PROVE  OutageInv'
    BY <2>1, <2>3, <2>4, <2>7, OthersLeaveIt, OthersPass, Zenon
  <2>8. ASSUME \/ StartTick(survivor) \/ ServeGet(survivor)
               \/ CreateOrRenew(survivor) \/ StandBy(survivor) \/ TakeOver(survivor)
               \/ ServePut(survivor) \/ SetLeading(survivor)
        PROVE  OutageInv'
    BY <2>3, <2>8, RoundBegins, LeaseIsRead, RoundWrites, RoundStandsBy,
       WriteIsDecided, RoundEnds
  <2>9. ASSUME NEW w \in puts, ServeUnheard(w)
        PROVE  OutageInv'
    <3>1. Untouched(survivor) /\ time' = time
      BY <2>9 DEF ServeUnheard, Untouched, memoryVars, threadVars, mainVars
    <3> QED
      BY <2>3, <3>1, OthersPass
  <2>10. ASSUME Tick
         PROVE  OutageInv'
    BY <2>1, <2>3, <2>4, <2>10, TimePasses
  <2>11. ASSUME NEW r \in Replicas,
                \/ StartTick(r) \/ EndThread(r)
                \/ ServeGet(r) \/ CreateOrRenew(r) \/ StandBy(r) \/ TakeOver(r)
                \/ ServePut(r) \/ SetLeading(r) \/ GiveUp(r)
                \/ BeginRelease(r) \/ Joined(r) \/ Demote(r)
                \/ ReleaseGet(r) \/ ReleaseDone(r)
                \/ Crash(r) \/ Restart(r)
         PROVE  OutageInv'
    <3>1. CASE r = survivor
      BY <2>5, <2>6, <2>7, <2>8, <2>11, <3>1
    <3>2. CASE r # survivor
      BY <2>7, <2>11, <3>2
    <3> QED
      BY <3>1, <3>2
  <2> QED
    BY <2>1, <2>9, <2>10, <2>11 DEF Next
<1> QED
  BY <1>1, <1>2, <1>3

LEMMA OutageInvAlways == OutageSpec => [](TypeOK /\ OutageInv)
<1>1. OutageInit => TypeOK /\ OutageInv
  BY TypeInit, OutageInvInit DEF OutageInit
<1>2. TypeOK /\ OutageInv /\ [OutageNext]_outageVars => (TypeOK /\ OutageInv)'
  <2>1. [OutageNext]_outageVars => [Next]_vars
    BY DEF OutageNext, outageVars
  <2>2. TypeOK /\ [OutageNext]_outageVars => TypeOK'
    BY <2>1, TypeStep
  <2> QED
    BY <2>2, OutageInvKept
<1> QED
  BY <1>1, <1>2, PTL DEF OutageSpec

(* Nobody leads for at most Longest after the last sign of life, as long as  *)
(* one replica lives and is answered: for any number of replicas, clocks and *)
(* timing constants, and whatever becomes of the others (_tick, _observed).  *)
THEOREM OutageIsShort == OutageSpec => []OutageIsBounded
<1>1. TypeOK /\ OutageInv => OutageIsBounded
  <2> SUFFICES ASSUME TypeOK, OutageInv, survivor # None
               PROVE  time - lastSign <= Longest
    BY DEF OutageIsBounded
  <2>1. time <= lastSign + Longest /\ lastSign \in Int /\ time \in Int
    BY DEF OutageInv, Living, TypeOK
  <2> QED
    BY <2>1, Lengths, SMT
<1> QED
  BY <1>1, OutageInvAlways, PTL
=============================================================================
