------------------------ MODULE LeaderElection_proofs ------------------------
(***************************************************************************)
(* Proofs about LeaderElection, for any set of replicas, any clock offsets *)
(* and any timing constants with SafeWindow.                               *)
(*                                                                         *)
(* The argument: whoever claims to lead, release() apart, is the holder on *)
(* the API server (Claims).  A write that is still current there (Current) either renews  *)
(* its sender's own lease, or blanks the lease of a replica that has given *)
(* up its claim, or takes a lease its sender has watched for longer than   *)
(* Duration; what was watched was written at most MaxGet after the watch   *)
(* began (Sightings), so by then its holder's claim has lapsed.  A round   *)
(* that outlives the join of release() is dated before the stop (Releases).*)
(***************************************************************************)
EXTENDS LeaderElection, TLAPS

InRound(r) == tickPc[r] \in {"get", "got", "put", "won", "lost"}

(* The election thread of one replica *)
Rounds ==
    \A r \in Replicas :
        /\ InRound(r) =>
            /\ tickNow[r] <= Clock(r)
            /\ leading[r] => lastRenew[r] <= tickNow[r]
            /\ lease.holder = r => lease.renew <= tickNow[r]
        /\ tickPc[r] \in {"get", "got"} =>
            /\ since[r] + Offset[r] = tickNow[r]
            /\ time <= since[r] + MaxGet
        /\ tickPc[r] \in {"put", "won", "lost"} =>
            since[r] <= time /\ time <= since[r] + MaxPut
        /\ tickPc[r] = "put" =>
            /\ sent[r].from = r
            /\ sent[r].holder = r
            /\ sent[r].renew = tickNow[r]
        /\ leading[r] => lastRenew[r] <= Clock(r)
        /\ r \notin alive =>
            tickPc[r] = "sleep" /\ ~leading[r] /\ mainPc[r] = "serve"

(* The stored lease *)
Stored ==
    /\ lease.rv = 0 => lease.holder = NoOne
    /\ lease.holder # NoOne => lease.renew <= Clock(lease.holder)

(* Any write under way *)
Sent ==
    \A w \in puts :
        /\ w.rv <= lease.rv
        /\ w.holder \in {w.from, NoOne}
        /\ w.renew <= Clock(w.from)
        /\ InRound(w.from) => w.renew <= tickNow[w.from]

(* A write under way that can still win the compare-and-swap *)
Current ==
    \A w \in puts : w.rv = lease.rv =>
        /\ w.holder = w.from /\ lease.holder = w.from => lease.renew <= w.renew
        /\ w.holder = w.from /\ lease.holder \notin {w.from, NoOne} =>
            w.renew - Offset[w.from] >
                lease.renew - Offset[lease.holder] + Duration - MaxGet
        /\ w.holder = NoOne =>
            /\ lease.holder = w.from
            /\ \/ Released(w.from)
               \/ ~leading[w.from] /\ tickPc[w.from] # "won"

(* What a GET returned *)
Replies ==
    \A r \in Replicas : tickPc[r] = "got" =>
        /\ reply[r].rv <= lease.rv
        /\ reply[r].rv = lease.rv => reply[r] = lease
        /\ reply[r].holder # NoOne =>
            reply[r].renew - Offset[reply[r].holder]
                <= tickNow[r] - Offset[r] + MaxGet

(* The sighting of a foreign lease *)
Sightings ==
    \A r \in Replicas : observed[r] # None /\ observed[r].holder # NoOne =>
        observed[r].renew - Offset[observed[r].holder]
            <= observed[r].since - Offset[r] + MaxGet

(* Who leads, or has just won a write, holds the lease *)
Claims ==
    \A r \in Replicas : ~Released(r) =>
        /\ leading[r] /\ Clock(r) - lastRenew[r] < Deadline =>
            lease.holder = r /\ lastRenew[r] <= lease.renew
        /\ tickPc[r] = "won" /\ Clock(r) - tickNow[r] < Deadline =>
            lease.holder = r /\ tickNow[r] <= lease.renew

(* No round begins after the stop event, and one that is still under way     *)
(* when release() goes on began a whole join earlier                         *)
Releases ==
    \A r \in Replicas :
        /\ mainPc[r] # "serve" => stopped[r]
        /\ mainPc[r] = "join" /\ InRound(r) =>
            tickNow[r] <= mainSince[r] + Offset[r]
        /\ mainPc[r] \in {"demote", "demoteOnly"} /\ InRound(r) =>
            tickNow[r] + JoinTimeout <= Clock(r)
        /\ Released(r) =>
            /\ mainSince[r] <= time
            /\ InRound(r) => tickNow[r] + JoinTimeout <= mainSince[r] + Offset[r]
            /\ leading[r] => lastRenew[r] + JoinTimeout <= mainSince[r] + Offset[r]

IInv ==
    /\ TypeOK
    /\ Rounds
    /\ Stored
    /\ Sent
    /\ Current
    /\ Replies
    /\ Sightings
    /\ Claims
    /\ Releases
-----------------------------------------------------------------------------
(* Type correctness *)

LEMMA TypeInit == Init => TypeOK
BY ConstantsAssumption, SMT DEF ConstantsAssumption, Init, TypeOK, Leases, Writes, NoLease

LEMMA TypeStep == TypeOK /\ [Next]_vars => TypeOK'
<1> SUFFICES ASSUME TypeOK, [Next]_vars PROVE TypeOK'
  OBVIOUS
<1> USE ConstantsAssumption DEF ConstantsAssumption, TypeOK, Leases, Writes,
        Clock, threadVars, memoryVars, mainVars, faultVars, NoLease
<1>1. ASSUME NEW r \in Replicas, StartTick(r) PROVE TypeOK'
  BY <1>1, SMT DEF StartTick
<1>2. ASSUME NEW r \in Replicas, EndThread(r) PROVE TypeOK'
  BY <1>2, SMT DEF EndThread
<1>3. ASSUME NEW r \in Replicas, ServeGet(r) PROVE TypeOK'
  BY <1>3, SMT DEF ServeGet
<1>4. ASSUME NEW r \in Replicas, CreateOrRenew(r) PROVE TypeOK'
  BY <1>4, SMT DEF CreateOrRenew, Send
<1>5. ASSUME NEW r \in Replicas, StandBy(r) PROVE TypeOK'
  BY <1>5, SMT DEF StandBy, Sleep, Observation
<1>6. ASSUME NEW r \in Replicas, TakeOver(r) PROVE TypeOK'
  BY <1>6, SMT DEF TakeOver, Send, Observation
<1>7. ASSUME NEW r \in Replicas, ServePut(r) PROVE TypeOK'
  BY <1>7, SMT DEF ServePut, Store, Wins
<1>8. ASSUME NEW r \in Replicas, SetLeading(r) PROVE TypeOK'
  <2>1. leading' \in [Replicas -> BOOLEAN]
    <3>1. ASSUME NEW b \in BOOLEAN
          PROVE  [leading EXCEPT ![r] = b] \in [Replicas -> BOOLEAN]
      BY SMT
    <3> QED
      BY <1>8, <3>1, Zenon DEF SetLeading
  <2>3. lastRenew' \in [Replicas -> Int]
    BY <1>8, SMT DEF SetLeading
  <2>2. observed' \in [Replicas -> {None} \cup
            [holder : Replicas \cup {NoOne}, renew : Int, since : Int]]
    BY <1>8, SMT DEF SetLeading
  <2> QED
    BY <1>8, <2>1, <2>2, <2>3, SMT DEF SetLeading, Sleep
<1>9. ASSUME NEW r \in Replicas, GiveUp(r) PROVE TypeOK'
  BY <1>9, SMT DEF GiveUp, Sleep
<1>10. ASSUME NEW r \in Replicas, BeginRelease(r) PROVE TypeOK'
  BY <1>10, SMT DEF BeginRelease
<1>11. ASSUME NEW r \in Replicas, Joined(r) PROVE TypeOK'
  BY <1>11, SMT DEF Joined, IsLeader
<1>12. ASSUME NEW r \in Replicas, Demote(r) PROVE TypeOK'
  BY <1>12, SMT DEF Demote
<1>13. ASSUME NEW r \in Replicas, ReleaseGet(r) PROVE TypeOK'
  BY <1>13, SMT DEF ReleaseGet
<1>14. ASSUME NEW r \in Replicas, ReleaseDone(r) PROVE TypeOK'
  BY <1>14, SMT DEF ReleaseDone
<1>15. ASSUME NEW r \in Replicas, Crash(r) PROVE TypeOK'
  BY <1>15, SMT DEF Crash, Sleep
<1>16. ASSUME NEW r \in Replicas, Restart(r) PROVE TypeOK'
  BY <1>16, SMT DEF Restart
<1>17. ASSUME NEW w \in puts, ServeUnheard(w) PROVE TypeOK'
  BY <1>17, SMT DEF ServeUnheard, Store, Wins
<1>18. CASE Tick
  BY <1>18, SMT DEF Tick
<1>19. CASE UNCHANGED vars
  BY <1>19, SMT DEF vars
<1> QED
  BY <1>1, <1>2, <1>3, <1>4, <1>5, <1>6, <1>7, <1>8, <1>9, <1>10, <1>11, <1>12, <1>13, <1>14, <1>15, <1>16, <1>17, <1>18, <1>19 DEF Next

-----------------------------------------------------------------------------
(* The inductive invariant *)

LEMMA IInvStep ==
    ASSUME SafeWindow, IInv, [Next]_vars
    PROVE  IInv'
<1> USE ConstantsAssumption DEF ConstantsAssumption, Clock, Released, JoinTimeout, InRound,
        threadVars, memoryVars, mainVars, faultVars
<1>1. ASSUME NEW r \in Replicas, StartTick(r) PROVE IInv'
  <2> USE <1>1 DEF StartTick
  <2>1. Rounds'
    BY SMT DEF IInv, TypeOK, Rounds, InRound, Stored
  <2>2. Sent'
    BY SMT DEF IInv, TypeOK, InRound, Sent
  <2>3. Stored' /\ Current' /\ Replies' /\ Sightings' /\ Claims' /\ Releases'
    BY SMT DEF IInv, Stored, Current, Replies, Sightings, Claims, Releases
  <2> QED
    BY <2>1, <2>2, <2>3, TypeStep DEF IInv
<1>2. ASSUME NEW r \in Replicas, EndThread(r) PROVE IInv'
  <2> USE <1>2 DEF EndThread
  <2>1. Rounds' /\ Stored' /\ Sent' /\ Current' /\ Replies' /\ Sightings' /\ Claims' /\ Releases'
    BY SMT DEF IInv, Rounds, InRound, Stored, Sent, Current, Replies,
        Sightings, Claims, Releases
  <2> QED
    BY <2>1, TypeStep DEF IInv
<1>3. ASSUME NEW r \in Replicas, ServeGet(r) PROVE IInv'
  <2> USE <1>3 DEF ServeGet
  <2>1. Replies'
    BY SMT DEF IInv, TypeOK, Leases, Rounds, Stored, Replies
  <2>2. Rounds' /\ Stored' /\ Sent' /\ Current' /\ Sightings' /\ Claims' /\ Releases'
    BY SMT DEF IInv, Rounds, InRound, Stored, Sent, Current, Sightings,
        Claims, Releases
  <2> QED
    BY <2>1, <2>2, TypeStep DEF IInv
<1>4. ASSUME NEW r \in Replicas, CreateOrRenew(r) PROVE IInv'
  <2> USE <1>4 DEF CreateOrRenew, Send
  <2>1. Rounds'
    BY SMT DEF IInv, TypeOK, Rounds, InRound
  <2>2. Sent'
    BY SMT DEF IInv, TypeOK, Rounds, InRound, Sent, Replies
  <2>3. Current'
    BY SMT DEF IInv, Rounds, InRound, Stored, Current, Replies
  <2>4. Releases'
    BY SMT DEF IInv, TypeOK, Rounds, Releases
  <2>5. Stored' /\ Replies' /\ Sightings' /\ Claims'
    BY SMT DEF IInv, Stored, Replies, Sightings, Claims
  <2> QED
    BY <2>1, <2>2, <2>3, <2>4, <2>5, TypeStep DEF IInv
<1>5. ASSUME NEW r \in Replicas, StandBy(r) PROVE IInv'
  <2> USE <1>5 DEF StandBy, Sleep, Observation
  <2>1. Rounds'
    BY SMT DEF IInv, TypeOK, Rounds, InRound
  <2>2. Sent'
    BY SMT DEF IInv, TypeOK, InRound, Sent
  <2>3. Replies'
    BY SMT DEF IInv, TypeOK, Replies
  <2>4. Sightings'
    BY SMT DEF IInv, Replies, Sightings
  <2>5. Releases'
    BY SMT DEF IInv, TypeOK, Rounds, Releases
  <2>6. Stored' /\ Current' /\ Claims'
    BY SMT DEF IInv, Stored, Current, Claims
  <2> QED
    BY <2>1, <2>2, <2>3, <2>4, <2>5, <2>6, TypeStep DEF IInv
<1>6. ASSUME NEW r \in Replicas, TakeOver(r) PROVE IInv'
  <2> USE <1>6 DEF TakeOver, Send, Observation, Foreign, Expired
  <2>1. Rounds'
    BY SMT DEF IInv, TypeOK, Rounds, InRound
  <2>2. Sent'
    BY SMT DEF IInv, TypeOK, Rounds, InRound, Sent, Replies
  <2>3. Current'
    BY SMT DEF IInv, TypeOK, Current, Replies, Sightings
  <2>4. Sightings'
    BY SMT DEF IInv, TypeOK, Sightings
  <2>5. Releases'
    BY SMT DEF IInv, TypeOK, Rounds, Releases
  <2>6. Stored' /\ Replies' /\ Claims'
    BY SMT DEF IInv, Stored, Replies, Claims
  <2> QED
    BY <2>1, <2>2, <2>3, <2>4, <2>5, <2>6, TypeStep DEF IInv
<1>7. ASSUME NEW r \in Replicas, ServePut(r) PROVE IInv'
  <2> USE <1>7 DEF ServePut, Store, Wins
  <2>1. Rounds'
    BY SMT DEF IInv, TypeOK, Rounds, InRound
  <2>2. Stored'
    BY SMT DEF IInv, TypeOK, Writes, Rounds, InRound, Stored
  <2>3. Sent'
    BY SMT DEF IInv, TypeOK, Writes, InRound, Sent
  <2>4. Current'
    BY SMT DEF IInv, TypeOK, Writes, Sent, Current
  <2>5. Replies'
    BY SMT DEF IInv, TypeOK, Leases, Replies
  <2>6. Claims'
    BY SMT DEF IInv, TypeOK, Leases, Rounds, InRound, Current, Claims, SafeWindow
  <2>7. Sightings' /\ Releases'
    BY SMT DEF IInv, Sightings, Releases
  <2> QED
    BY <2>1, <2>2, <2>3, <2>4, <2>5, <2>6, <2>7, TypeStep DEF IInv
<1>8. ASSUME NEW r \in Replicas, SetLeading(r) PROVE IInv'
  <2> USE <1>8 DEF SetLeading, Sleep
  <2>1. Rounds'
    BY SMT DEF IInv, TypeOK, Rounds, InRound
  <2>2. Sent'
    BY SMT DEF IInv, TypeOK, InRound, Sent
  <2>3. Current'
    BY SMT DEF IInv, TypeOK, Writes, Current
  <2>4. Sightings'
    BY SMT DEF IInv, TypeOK, Sightings
  <2>5. Claims'
    BY SMT DEF IInv, TypeOK, Claims
  <2>6. Releases'
    BY SMT DEF IInv, TypeOK, Rounds, Releases
  <2>7. Stored' /\ Replies'
    BY SMT DEF IInv, Stored, Replies
  <2> QED
    BY <2>1, <2>2, <2>3, <2>4, <2>5, <2>6, <2>7, TypeStep DEF IInv
<1>9. ASSUME NEW r \in Replicas, GiveUp(r) PROVE IInv'
  <2> USE <1>9 DEF GiveUp, Sleep
  <2>1. Rounds'
    BY SMT DEF IInv, TypeOK, Rounds, InRound
  <2>2. Sent'
    BY SMT DEF IInv, TypeOK, InRound, Sent
  <2>3. Releases'
    BY SMT DEF IInv, TypeOK, Rounds, Releases
  <2>4. Stored' /\ Current' /\ Replies' /\ Sightings' /\ Claims'
    BY SMT DEF IInv, Stored, Current, Replies, Sightings, Claims
  <2> QED
    BY <2>1, <2>2, <2>3, <2>4, TypeStep DEF IInv
<1>10. ASSUME NEW r \in Replicas, BeginRelease(r) PROVE IInv'
  <2> USE <1>10 DEF BeginRelease
  <2>1. Releases'
    BY SMT DEF IInv, TypeOK, Rounds, InRound, Releases
  <2>2. Rounds' /\ Stored' /\ Sent' /\ Current' /\ Replies' /\ Sightings' /\ Claims'
    BY SMT DEF IInv, Rounds, InRound, Stored, Sent, Current, Replies,
        Sightings, Claims
  <2> QED
    BY <2>1, <2>2, TypeStep DEF IInv
<1>11. ASSUME NEW r \in Replicas, Joined(r) PROVE IInv'
  <2> USE <1>11 DEF Joined, IsLeader
  <2>1. Releases'
    BY SMT DEF IInv, TypeOK, Rounds, Releases
  <2>2. Rounds' /\ Stored' /\ Sent' /\ Current' /\ Replies' /\ Sightings' /\ Claims'
    BY SMT DEF IInv, Rounds, InRound, Stored, Sent, Current, Replies,
        Sightings, Claims
  <2> QED
    BY <2>1, <2>2, TypeStep DEF IInv
<1>12. ASSUME NEW r \in Replicas, Demote(r) PROVE IInv'
  <2> USE <1>12 DEF Demote
  <2>1. Releases'
    BY SMT DEF IInv, TypeOK, Releases
  <2>2. Rounds' /\ Stored' /\ Sent' /\ Current' /\ Replies' /\ Sightings' /\ Claims'
    BY SMT DEF IInv, Rounds, InRound, Stored, Sent, Current, Replies,
        Sightings, Claims
  <2> QED
    BY <2>1, <2>2, TypeStep DEF IInv
<1>13. ASSUME NEW r \in Replicas, ReleaseGet(r) PROVE IInv'
  <2> USE <1>13 DEF ReleaseGet
  <2>1. Rounds'
    BY SMT DEF IInv, TypeOK, Rounds, InRound
  <2>2. Sent'
    BY SMT DEF IInv, TypeOK, Leases, Rounds, InRound, Stored, Sent
  <2>3. Current'
    BY SMT DEF IInv, TypeOK, Leases, Writes, Current
  <2>4. Releases'
    BY SMT DEF IInv, TypeOK, Releases
  <2>5. Stored' /\ Replies' /\ Sightings' /\ Claims'
    BY SMT DEF IInv, TypeOK, Stored, Replies, Sightings, Claims
  <2> QED
    BY <2>1, <2>2, <2>3, <2>4, <2>5, TypeStep DEF IInv
<1>14. ASSUME NEW r \in Replicas, ReleaseDone(r) PROVE IInv'
  <2> USE <1>14 DEF ReleaseDone, Blank
  <2>1. Rounds' /\ Stored' /\ Sent' /\ Current' /\ Replies' /\ Sightings' /\ Claims' /\ Releases'
    BY SMT DEF IInv, Rounds, InRound, Stored, Sent, Current, Replies,
        Sightings, Claims, Releases
  <2> QED
    BY <2>1, TypeStep DEF IInv
<1>15. ASSUME NEW r \in Replicas, Crash(r) PROVE IInv'
  <2> USE <1>15 DEF Crash, Sleep
  <2>1. Rounds'
    BY SMT DEF IInv, TypeOK, Rounds, InRound
  <2>2. Sent'
    BY SMT DEF IInv, TypeOK, InRound, Sent
  <2>3. Replies'
    BY SMT DEF IInv, TypeOK, Replies
  <2>4. Claims'
    BY SMT DEF IInv, TypeOK, Claims
  <2>5. Releases'
    BY SMT DEF IInv, TypeOK, Releases
  <2>6. Stored' /\ Current' /\ Sightings'
    BY SMT DEF IInv, TypeOK, Stored, Current, Sightings
  <2> QED
    BY <2>1, <2>2, <2>3, <2>4, <2>5, <2>6, TypeStep DEF IInv
<1>16. ASSUME NEW r \in Replicas, Restart(r) PROVE IInv'
  <2> USE <1>16 DEF Restart
  <2>1. Releases'
    BY SMT DEF IInv, Rounds, Releases
  <2>2. Rounds' /\ Stored' /\ Sent' /\ Current' /\ Replies' /\ Sightings' /\ Claims'
    BY SMT DEF IInv, Rounds, InRound, Stored, Sent, Current, Replies,
        Sightings, Claims
  <2> QED
    BY <2>1, <2>2, TypeStep DEF IInv
<1>17. ASSUME NEW w \in puts, ServeUnheard(w) PROVE IInv'
  <2> USE <1>17 DEF ServeUnheard, Store, Wins
  <2>1. Rounds'
    BY SMT DEF IInv, Rounds, InRound, Sent
  <2>2. Stored'
    BY SMT DEF IInv, TypeOK, Writes, Stored, Sent
  <2>3. Sent'
    BY SMT DEF IInv, TypeOK, Writes, InRound, Sent
  <2>4. Current'
    BY SMT DEF IInv, TypeOK, Writes, Sent, Current
  <2>5. Replies'
    BY SMT DEF IInv, TypeOK, Leases, Replies
  <2>6. Claims'
    BY SMT DEF IInv, TypeOK, Leases, Writes, Sent, Current, Claims, SafeWindow
  <2>7. Sightings' /\ Releases'
    BY SMT DEF IInv, Sightings, Releases
  <2> QED
    BY <2>1, <2>2, <2>3, <2>4, <2>5, <2>6, <2>7, TypeStep DEF IInv
<1>18. CASE Tick
  <2> USE <1>18 DEF Tick, Patient
  <2>1. Rounds'
    BY SMT DEF IInv, TypeOK, Rounds, InRound
  <2>2. Stored'
    BY SMT DEF IInv, TypeOK, Leases, Stored
  <2>3. Sent'
    BY SMT DEF IInv, TypeOK, Writes, InRound, Sent
  <2>4. Claims'
    BY SMT DEF IInv, TypeOK, Claims
  <2>5. Releases'
    BY SMT DEF IInv, TypeOK, Rounds, Releases
  <2>6. Current' /\ Replies' /\ Sightings'
    BY SMT DEF IInv, Current, Replies, Sightings
  <2> QED
    BY <2>1, <2>2, <2>3, <2>4, <2>5, <2>6, TypeStep DEF IInv
<1>19. CASE UNCHANGED vars
  <2> USE <1>19 DEF vars
  <2>1. Rounds' /\ Stored' /\ Sent' /\ Current' /\ Replies' /\ Sightings' /\ Claims' /\ Releases'
    BY SMT DEF IInv, Rounds, InRound, Stored, Sent, Current, Replies,
        Sightings, Claims, Releases
  <2> QED
    BY <2>1, TypeStep DEF IInv
<1> QED
  BY <1>1, <1>2, <1>3, <1>4, <1>5, <1>6, <1>7, <1>8, <1>9, <1>10, <1>11, <1>12, <1>13, <1>14, <1>15, <1>16, <1>17, <1>18, <1>19 DEF Next

(* One step takes a foreign lease only from a holder that is silent *)
LEMMA TakeOverStep ==
    ASSUME SafeWindow, IInv, Next,
           NEW r \in Replicas, NEW s \in Replicas,
           lease.holder = r, lease'.holder = s, r # s
    PROVE  Clock(r) - lease.renew >= Deadline
<1> USE ConstantsAssumption DEF ConstantsAssumption, IInv, TypeOK, Leases, Writes
<1>1. PICK w \in puts : Store(w)
  <2>1. lease' # lease
    OBVIOUS
  <2>2. CASE \E q \in Replicas : ServePut(q)
    BY <2>2 DEF ServePut
  <2>3. CASE \E w \in puts : ServeUnheard(w)
    BY <2>3 DEF ServeUnheard
  <2>4. CASE ~(\E q \in Replicas : ServePut(q)) /\ ~(\E w \in puts : ServeUnheard(w))
    BY <2>1, <2>4 DEF Next, StartTick, EndThread, ServeGet, CreateOrRenew, StandBy,
       TakeOver, SetLeading, GiveUp, BeginRelease, Joined, Demote, ReleaseGet,
       ReleaseDone, Crash, Restart, Tick
  <2> QED
    BY <2>2, <2>3, <2>4
<1>2. w.rv = lease.rv /\ w.holder = s
  BY <1>1 DEF Store, Wins
<1>3. w.from = s /\ w.renew <= Clock(s)
  BY <1>1, <1>2 DEF Sent
<1>4. w.renew - Offset[s] > lease.renew - Offset[r] + Duration - MaxGet
  BY <1>1, <1>2, <1>3 DEF Current
<1> QED
  BY <1>3, <1>4, SMT DEF Clock, SafeWindow
-----------------------------------------------------------------------------
(* Theorems *)

(* The invariant holds initially: nobody leads and no write is under way. *)
LEMMA IInvInit == Init => IInv
BY ConstantsAssumption, TypeInit, SMT
   DEF ConstantsAssumption, Init, IInv, InRound, Rounds, Stored, Sent, Current,
       Replies, Sightings, Claims, Releases, NoLease

(* The invariant is maintained, whatever the constants, as long as the lease *)
(* outlasts the renew deadline by a GET.                                     *)
LEMMA IInvAlways ==
    ASSUME SafeWindow
    PROVE  Spec => []IInv
<1>1. IInv /\ [Next]_vars => IInv'
  BY IInvStep
<1> QED
  BY IInvInit, <1>1, PTL DEF Spec

(* Every variable keeps its type, for any constants (leader.py, all of it).  *)
THEOREM TypeCorrect == Spec => []TypeOK
BY TypeInit, TypeStep, PTL DEF Spec

(* Two replicas that were not told to go never answer is_leader() with True  *)
(* at the same time: for any number of replicas, any clock skew, any         *)
(* crashes, lost replies and releases, if self-demotion plus the slowest GET *)
(* fit in the lease.                                                         *)
THEOREM OneLeader ==
    ASSUME SafeWindow
    PROVE  Spec => []AtMostOneLeader
<1>1. IInv => AtMostOneLeader
  BY DEF IInv, Claims, AtMostOneLeader, IsLeader
<1> QED
  BY IInvAlways, <1>1, PTL

(* Who thinks it leads, release() apart, holds the stored lease, and its own *)
(* renewal time is not ahead of the stored one: leadership is never a matter *)
(* of memory only.                                                           *)
THEOREM LeaderIsHolder ==
    ASSUME SafeWindow
    PROVE  Spec => []LeaderHoldsLease
<1>1. IInv => LeaderHoldsLease
  BY DEF IInv, Claims, LeaderHoldsLease, IsLeader
<1> QED
  BY IInvAlways, <1>1, PTL

(* A replica that release() has demoted leads again at most for what the     *)
(* join leaves of the renew deadline after the last request of release().    *)
THEOREM StrayEnds ==
    ASSUME SafeWindow
    PROVE  Spec => []StrayIsBrief
<1>1. IInv => StrayIsBrief
  BY ConstantsAssumption, SMT
     DEF ConstantsAssumption, IInv, TypeOK, Releases, StrayIsBrief, IsLeader, Clock,
         JoinTimeout
<1> QED
  BY IInvAlways, <1>1, PTL

(* A lease is taken only from a holder whose last renewal is at least a      *)
(* renew deadline old on its own clock: a live leader is never deposed.      *)
THEOREM NoLiveLeaderDeposed ==
    ASSUME SafeWindow
    PROVE  Spec => TakenOnlyFromTheSilent
<1> DEFINE Taken == \A r, s \in Replicas :
              lease.holder = r /\ lease'.holder = s /\ r # s
                  => Clock(r) - lease.renew >= Deadline
<1>1. IInv /\ [Next]_vars => [Taken]_vars
  BY TakeOverStep, Zenon
<1> QED
  BY IInvAlways, <1>1, PTL DEF Spec, TakenOnlyFromTheSilent
=============================================================================
