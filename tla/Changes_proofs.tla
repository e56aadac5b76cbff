--------------------------- MODULE Changes_proofs ----------------------------
(***************************************************************************)
(* Proofs about Changes, for every value of the constants.                 *)
(*                                                                         *)
(* No step is about two parts, so each part has an inductive invariant of  *)
(* its own, stated in its module (EnvInv, SuffixInv, DownInv, FleetInv,    *)
(* VmInv, RevisionInv, NewEnvsInv, MergeInv, SharedInv) or, for the        *)
(* wake-ups, in Supersede_proofs (Typed).  For each part: that a step of   *)
(* Changes in this part is a step of it (...Go), that it starts in its     *)
(* invariant (...Start), that its steps keep it (...Kept), that it always  *)
(* holds (...Always), and what follows of the part's properties.           *)
(***************************************************************************)
EXTENDS Changes, Supersede_proofs, FiniteSetTheorems, SequenceTheorems, TLAPS

-----------------------------------------------------------------------------
(* What a pull request does to the environments: EnvChanges *)

LEMMA EnvironmentsGo ==
    ASSUME part = "environments", [ChangesNext]_all
    PROVE  [Environments!EnvNext]_(Environments!envVars)
  BY DEF ChangesNext, SlotStep, all, slots, Environments!envVars

LEMMA EnvParts ==
    Environments!EnvInv <=>
        /\ Environments!EnvTypeOK /\ Environments!PairsAreMoves
        /\ Environments!RenamesAreMoves /\ Environments!GatesArePassed
        /\ Environments!ReportIsLast
        /\ Environments!NoEnvVanishes
        /\ Environments!CohortlessIsBlocked /\ Environments!MoveIsAMove
  BY Zenon DEF Environments!EnvInv, Environments!MovesAreChecked

(* A commit with a few files changed *)
LEMMA EditTyped ==
    ASSUME NEW main \in Environments!Commit, NEW head \in Environments!Edits(main)
    PROVE  head \in Environments!Commit
<1> DEFINE F == Environments!Files \cup {Environments!NoFile}
           C == Environments!CohortFiles
           K == Environments!Cohorts
<1>1. PICK few \in (SUBSET Places) \X (SUBSET K) : head \in Environments!Changing(main, few)
  BY DEF Environments!Edits
<1>2. PICK places \in [few[1] -> F], cohorts \in [few[2] -> C] :
        head = [place |-> Environments!Edited(main.place, places),
                cohort |-> Environments!Edited(main.cohort, cohorts)]
  BY <1>1 DEF Environments!Changing
<1>3. few[1] \subseteq Places /\ few[2] \subseteq K
  OBVIOUS
<1>4. main.place \in [Places -> F] /\ main.cohort \in [K -> C]
  BY DEF Environments!Commit
<1> HIDE DEF F, C, K
<1>5. Environments!Edited(main.place, places) \in [Places -> F]
  BY <1>3, <1>4 DEF Environments!Edited
<1>6. Environments!Edited(main.cohort, cohorts) \in [K -> C]
  BY <1>3, <1>4 DEF Environments!Edited
<1> QED
  BY <1>2, <1>5, <1>6 DEF Environments!Commit, F, C, K

LEMMA EnvStart ==
    ASSUME ChangesInit, part = "environments"
    PROVE  Environments!EnvInv
<1>1. Environments!EnvInit
  BY DEF ChangesInit
<1>2. s2 = <<>> /\ s3 = {} /\ s4 = Environments!NoReport /\ s5 = "pair"
  BY <1>1, Zenon DEF Environments!EnvInit
<1>3. PICK main \in Environments!Commit \cap EnvMains :
        \E stray \in {s \in SUBSET Places : Environments!Cardinality(s) <= MaxStray} :
          LET filed == {p \in Places : main.place[p] # Environments!NoFile}
              live == (filed \ stray) \cup (stray \ filed)
          IN \E head \in Environments!Edits(main) \ {main} :
             \E pairs \in Environments!PairsOf(main, head) :
               s1 = [main |-> main, head |-> head, live |-> live, pairs |-> pairs]
  BY <1>1, Zenon DEF Environments!EnvInit
<1>4. PICK stray \in SUBSET Places :
        LET filed == {p \in Places : main.place[p] # Environments!NoFile}
            live == (filed \ stray) \cup (stray \ filed)
        IN \E head \in Environments!Edits(main) \ {main} :
           \E pairs \in Environments!PairsOf(main, head) :
             s1 = [main |-> main, head |-> head, live |-> live, pairs |-> pairs]
  BY <1>3
<1>5. PICK head \in Environments!Edits(main) :
        \E pairs \in Environments!PairsOf(main, head), live \in SUBSET Places :
          s1 = [main |-> main, head |-> head, live |-> live, pairs |-> pairs]
  BY <1>4
<1>6. PICK pairs \in Environments!PairsOf(main, head), live \in SUBSET Places :
        s1 = [main |-> main, head |-> head, live |-> live, pairs |-> pairs]
  BY <1>5
<1>7. s1.main = main /\ s1.head = head /\ s1.live = live /\ s1.pairs = pairs
  BY <1>6
<1>8. head \in Environments!Commit
  BY EditTyped
<1>9. DOMAIN s2 = {} /\ \A p \in DOMAIN s2 : FALSE
  BY <1>2
<1>10. Environments!Range(s2) = {}
  BY <1>9 DEF Environments!Range
<1>11. /\ \A p \in DOMAIN Environments!NoReport \ {"silent"} : s4[p] \subseteq Places
       /\ s4.silent \subseteq Environments!Cohorts
  BY <1>2 DEF Environments!NoReport
<1>12. Environments!EnvTypeOK
  BY <1>2, <1>7, <1>8, <1>9, <1>10, <1>11 DEF Environments!EnvTypeOK
<1>13. \A p \in DOMAIN pairs :
         /\ p \in Places /\ main.place[p] # Environments!NoFile
         /\ head.place[p] = Environments!NoFile
         /\ pairs[p] \in Places /\ main.place[pairs[p]] = Environments!NoFile
         /\ head.place[pairs[p]] # Environments!NoFile
  BY DEF Environments!PairsOf
<1>14. Environments!PairsAreMoves
  BY <1>7, <1>13, Zenon DEF Environments!PairsAreMoves, Environments!Main, Environments!Head
<1>15. Environments!RenamesAreMoves /\ Environments!MoveIsAMove
  BY <1>9 DEF Environments!RenamesAreMoves, Environments!MoveIsAMove
<1>16. /\ Environments!GatesArePassed /\ Environments!ReportIsLast
       /\ Environments!NoEnvVanishes /\ Environments!CohortlessIsBlocked
  BY <1>2 DEF Environments!GatesArePassed, Environments!ReportIsLast,
     Environments!NoEnvVanishes, Environments!CohortlessIsBlocked
<1> QED
  BY <1>12, <1>14, <1>15, <1>16, EnvParts

(* A pass that has not ended yet has nothing to answer for *)
LEMMA EnvGoesOn ==
    ASSUME Environments!EnvInv, s1' = s1, Environments!EnvTypeOK',
           Environments!RenamesAreMoves', Environments!GatesArePassed',
           Environments!ReportIsLast', s5' # "green", s4' = Environments!NoReport
    PROVE  Environments!EnvInv'
<1>1. Environments!PairsAreMoves'
  BY EnvParts DEF Environments!PairsAreMoves, Environments!Main, Environments!Head
<1>2. Environments!NoEnvVanishes' /\ Environments!CohortlessIsBlocked'
  BY DEF Environments!NoEnvVanishes, Environments!CohortlessIsBlocked
<1>3. Environments!MoveIsAMove'
  BY DEF Environments!MoveIsAMove, Environments!NoReport
<1> QED
  BY <1>1, <1>2, <1>3, Zenon DEF Environments!EnvInv, Environments!MovesAreChecked

LEMMA EnvPair ==
    ASSUME Environments!EnvInv, Environments!Pair
    PROVE  Environments!EnvInv'
<1>1. s5 = "pair" /\ s5' = "cohorts" /\ UNCHANGED <<s1, s3, s4>>
  BY Zenon DEF Environments!Pair
<1>2. PICK unread \in SUBSET Environments!Changed :
        LET found == [p \in Environments!Pairable(unread) |->
                        CHOOSE q \in Environments!Matches(p, unread) : TRUE]
        IN s2' = [p \in DOMAIN s1.pairs \cup DOMAIN found |->
                    IF p \in DOMAIN s1.pairs THEN s1.pairs[p] ELSE found[p]]
  BY Zenon DEF Environments!Pair
<1> DEFINE F == Environments!Pairable(unread)
           q(p) == CHOOSE x \in Environments!Matches(p, unread) : TRUE
<1>3. s2' = [p \in DOMAIN s1.pairs \cup F |->
               IF p \in DOMAIN s1.pairs THEN s1.pairs[p] ELSE q(p)]
  BY <1>2
<1>4. \A p \in F : p \in s1.live \cap Environments!Changed
                   /\ Environments!Head(p) = Environments!NoFile /\ q(p) \in Environments!Matches(p, unread)
  <2> SUFFICES ASSUME NEW p \in F
               PROVE  /\ p \in s1.live \cap Environments!Changed
                      /\ Environments!Head(p) = Environments!NoFile
                      /\ q(p) \in Environments!Matches(p, unread)
    BY Zenon
  <2>1. /\ p \in s1.live \cap Environments!Changed
        /\ Environments!Head(p) = Environments!NoFile
        /\ Cardinality(Environments!Matches(p, unread)) = 1
    BY Zenon DEF Environments!Pairable, Environments!Cardinality, Cardinality
  <2>2. Environments!Matches(p, unread) # {}
    BY <2>1, FS_EmptySet
  <2> QED
    BY <2>1, <2>2
<1>5. \A p \in F : /\ q(p) \in Environments!Changed /\ q(p) \notin s1.live
                   /\ Environments!Head(q(p)) # Environments!NoFile
  BY <1>4, Zenon DEF Environments!Matches
<1> HIDE DEF F, q
<1>6. /\ DOMAIN s2' = DOMAIN s1.pairs \cup F
      /\ \A p \in DOMAIN s1.pairs : s2'[p] = s1.pairs[p]
      /\ \A p \in F \ DOMAIN s1.pairs : s2'[p] = q(p)
  BY <1>3
<1>7. Environments!Changed \subseteq Places
  BY DEF Environments!Changed
<1>8. \A p \in Places : /\ Environments!Main(p)' = Environments!Main(p)
                        /\ Environments!Head(p)' = Environments!Head(p)
  BY <1>1 DEF Environments!Main, Environments!Head
<1>9. Environments!Changed' = Environments!Changed
  BY <1>1 DEF Environments!Changed, Environments!Main, Environments!Head
<1>10. Environments!RenamesAreMoves'
  <2> SUFFICES ASSUME NEW p \in DOMAIN s2'
        PROVE  /\ p \in Environments!Changed /\ Environments!Head(p) = Environments!NoFile
               /\ s2'[p] \in Places /\ Environments!Head(s2'[p]) # Environments!NoFile
               /\ Environments!Main(s2'[p]) = Environments!NoFile \/ s2'[p] \notin s1.live
               /\ p \in s1.live \/ (p \in DOMAIN s1.pairs /\ s2'[p] = s1.pairs[p])
    BY <1>1, <1>9 DEF Environments!RenamesAreMoves, Environments!Main, Environments!Head
  <2>1. CASE p \in DOMAIN s1.pairs
    <3>1. p \in Places /\ Environments!Main(p) # Environments!Head(p)
          /\ Environments!Head(p) = Environments!NoFile
          /\ s1.pairs[p] \in Places /\ Environments!Main(s1.pairs[p]) = Environments!NoFile
          /\ Environments!Head(s1.pairs[p]) # Environments!NoFile
      BY <2>1, EnvParts, Zenon DEF Environments!PairsAreMoves
    <3> QED
      BY <1>6, <2>1, <3>1 DEF Environments!Changed
  <2>2. CASE p \notin DOMAIN s1.pairs
    BY <1>4, <1>5, <1>6, <1>7, <2>2
  <2> QED
    BY <2>1, <2>2
<1>11. DOMAIN s2' \subseteq Places /\ Environments!Range(s2') \subseteq Places
  BY <1>1, <1>7, <1>9, <1>10 DEF Environments!RenamesAreMoves, Environments!Range
<1>12. Environments!EnvTypeOK'
  BY <1>1, <1>11, EnvParts DEF Environments!EnvTypeOK
<1>13. Environments!GatesArePassed' /\ Environments!ReportIsLast' /\ s4' = Environments!NoReport
  BY <1>1, EnvParts DEF Environments!GatesArePassed, Environments!ReportIsLast
<1> QED
  BY <1>1, <1>10, <1>12, <1>13, EnvGoesOn

(* The pull request stays as it is through a pass *)
LEMMA SameChange ==
    ASSUME s1' = s1
    PROVE  /\ Environments!Changed' = Environments!Changed
           /\ \A p : /\ Environments!Main(p)' = Environments!Main(p)
                     /\ Environments!Head(p)' = Environments!Head(p)
           /\ s2' = s2 => /\ Environments!Orphaned' = Environments!Orphaned
                          /\ Environments!IdentityHits' = Environments!IdentityHits
                          /\ Environments!RenamesAreMoves => Environments!RenamesAreMoves'
<1>1. /\ Environments!Changed' = Environments!Changed
      /\ \A p : /\ Environments!Main(p)' = Environments!Main(p)
                /\ Environments!Head(p)' = Environments!Head(p)
  BY DEF Environments!Changed, Environments!Main, Environments!Head
<1>2. ASSUME s2' = s2 PROVE Environments!Orphaned' = Environments!Orphaned
  BY <1>2 DEF Environments!Orphaned, Environments!Head, Environments!HasCohort
<1>3. ASSUME s2' = s2 PROVE Environments!Compared' = Environments!Compared
  BY <1>1, <1>3 DEF Environments!Compared, Environments!Range
<1>4. ASSUME s2' = s2 PROVE Environments!IdentityHits' = Environments!IdentityHits
  BY <1>3, <1>4 DEF Environments!IdentityHits, Environments!Main, Environments!Head,
     Environments!HasCohort, Environments!AppsName
<1>5. ASSUME s2' = s2, Environments!RenamesAreMoves PROVE Environments!RenamesAreMoves'
  BY <1>1, <1>5 DEF Environments!RenamesAreMoves, Environments!Main, Environments!Head
<1> QED
  BY <1>1, <1>2, <1>4, <1>5

LEMMA EnvCohorts ==
    ASSUME Environments!EnvInv, Environments!CohortGate
    PROVE  Environments!EnvInv'
<1>1. /\ s5 = "cohorts" /\ s5' = IF Environments!Orphaned # {} THEN "failed" ELSE "identity"
      /\ UNCHANGED <<s1, s2, s3, s4>>
  BY Zenon DEF Environments!CohortGate
<1>2. s4 = Environments!NoReport
  BY <1>1, EnvParts DEF Environments!ReportIsLast
<1>3. Environments!EnvTypeOK'
  BY <1>1, EnvParts DEF Environments!EnvTypeOK, Environments!Range
<1>4. Environments!RenamesAreMoves'
  BY <1>1, SameChange, EnvParts
<1>5. Environments!GatesArePassed' /\ Environments!ReportIsLast'
  BY <1>1, <1>2, SameChange DEF Environments!GatesArePassed, Environments!ReportIsLast
<1> QED
  BY <1>1, <1>2, <1>3, <1>4, <1>5, EnvGoesOn

LEMMA HitsArePlaces ==
    ASSUME Environments!EnvTypeOK, NEW hit \in Environments!IdentityHits
    PROVE  hit[1] \in Places
<1>1. hit \in Environments!Compared
  BY DEF Environments!IdentityHits
<1>2. Environments!Changed \subseteq Places /\ s1.live \subseteq Places /\ DOMAIN s2 \subseteq Places
  BY DEF Environments!Changed, Environments!EnvTypeOK
<1>3. PICK p \in Places : hit[1] = p
  BY <1>1, <1>2 DEF Environments!Compared, Environments!Private
<1> QED
  BY <1>3

LEMMA EnvIdentity ==
    ASSUME Environments!EnvInv, Environments!IdentityGate
    PROVE  Environments!EnvInv'
<1>1. /\ s5 = "identity" /\ UNCHANGED <<s1, s2, s4>>
      /\ \/ s5' = "failed" /\ s3' = s3
         \/ s5' = "detect" /\ s3' = {pair[1] : pair \in Environments!IdentityHits}
  BY Zenon DEF Environments!IdentityGate
<1>2. s4 = Environments!NoReport /\ Environments!Orphaned = {}
  BY <1>1, EnvParts DEF Environments!ReportIsLast, Environments!GatesArePassed
<1>3. s3' \subseteq Places
  BY <1>1, HitsArePlaces, EnvParts DEF Environments!EnvTypeOK
<1>4. Environments!EnvTypeOK'
  BY <1>1, <1>3, EnvParts DEF Environments!EnvTypeOK, Environments!Range
<1>5. Environments!RenamesAreMoves'
  BY <1>1, SameChange, EnvParts
<1>6. Environments!GatesArePassed' /\ Environments!ReportIsLast'
  BY <1>1, <1>2, SameChange DEF Environments!GatesArePassed, Environments!ReportIsLast
<1> QED
  BY <1>1, <1>2, <1>4, <1>5, <1>6, EnvGoesOn

LEMMA EnvUnreadable ==
    ASSUME Environments!EnvInv, Environments!Unreadable
    PROVE  Environments!EnvInv'
<1>1. /\ s5 \in {"cohorts", "identity", "detect"} /\ s5' = "pair" /\ s3' = {}
      /\ UNCHANGED <<s1, s2, s4>>
  BY Zenon DEF Environments!Unreadable
<1>2. s4 = Environments!NoReport
  BY <1>1, EnvParts DEF Environments!ReportIsLast
<1>3. Environments!EnvTypeOK'
  BY <1>1, EnvParts DEF Environments!EnvTypeOK, Environments!Range
<1>4. Environments!RenamesAreMoves'
  BY <1>1, SameChange, EnvParts
<1>5. Environments!GatesArePassed' /\ Environments!ReportIsLast'
  BY <1>1, <1>2 DEF Environments!GatesArePassed, Environments!ReportIsLast
<1> QED
  BY <1>1, <1>2, <1>3, <1>4, <1>5, EnvGoesOn

(* A private environment that makes other apps after the pull request, or on   *)
(* another spoke, is compared                                                  *)
LEMMA StayedIsCompared ==
    ASSUME Environments!RenamesAreMoves, s1.live \subseteq Places,
           NEW p \in s1.live \cap Environments!Private,
           p \notin DOMAIN s2, Environments!Main(p) # Environments!NoFile,
           Environments!Head(p) # Environments!NoFile,
           Environments!AppsName(s1.main, p) # Environments!AppsName(s1.head, p)
    PROVE  <<p, p>> \in Environments!Compared
<1>1. p \notin Environments!Range(s2)
  BY DEF Environments!RenamesAreMoves, Environments!Range
<1>2. CASE p \in Environments!Changed
  BY <1>1, <1>2 DEF Environments!Compared
<1>3. CASE p \notin Environments!Changed
  <2>1. s1.main.place[p] = s1.head.place[p]
    BY <1>3 DEF Environments!Changed, Environments!Main, Environments!Head
  <2>2. s1.main.cohort[CohortOf[p]] # s1.head.cohort[CohortOf[p]]
    BY <2>1 DEF Environments!AppsName
  <2> QED
    BY <1>1, <1>3, <2>2 DEF Environments!Compared
<1> QED
  BY <1>2, <1>3

LEMMA MovedIsCompared ==
    ASSUME NEW p \in DOMAIN s2, p \in Environments!Private, s2[p] \in Environments!Private
    PROVE  <<p, s2[p]>> \in Environments!Compared
  BY DEF Environments!Compared

LEMMA EnvDetect ==
    ASSUME Environments!EnvInv, Environments!Detect
    PROVE  Environments!EnvInv'
<1>1. s5 = "detect" /\ UNCHANGED <<s1, s2, s3>>
  BY Zenon DEF Environments!Detect
<1>2. PICK unread \in SUBSET (DOMAIN s2 \cup Environments!Range(s2)),
           silent \in SUBSET {c \in Environments!Cohorts : s1.head.cohort[c] = "absent"},
           armed \in BOOLEAN, lifted \in BOOLEAN :
        LET fresh == Environments!NewEnvs
            candidates == Environments!TeardownCandidates(unread)
            torn == Environments!TornDown(candidates)
            skipped == Environments!SkippedForTeardown(candidates)
            rendered == Environments!Affected \ (skipped \cup Environments!Leftovers(Environments!Affected))
            blocked == \/ Environments!Cohortless(fresh, silent) # {}
                       \/ Environments!Duplicates(fresh) # {}
                       \/ Environments!Affected # {} /\ Environments!MovesMissingCohort(silent) # {}
                       \/ Environments!TeardownGates(torn, armed) # {} /\ ~lifted
                       \/ \E p \in rendered : Environments!RenderFails(p, unread)
        IN /\ s4' = [news |-> fresh, torn |-> torn, skipped |-> skipped, rendered |-> rendered,
                      silent |-> silent]
           /\ s5' = IF blocked THEN "failed" ELSE "green"
  BY Zenon DEF Environments!Detect
<1> DEFINE fresh == Environments!NewEnvs
           candidates == Environments!TeardownCandidates(unread)
           torn == Environments!TornDown(candidates)
           skipped == Environments!SkippedForTeardown(candidates)
           rendered == Environments!Affected
                         \ (skipped \cup Environments!Leftovers(Environments!Affected))
<1>3. /\ s4' = [news |-> fresh, torn |-> torn, skipped |-> skipped, rendered |-> rendered,
                 silent |-> silent]
      /\ s5' \in {"failed", "green"}
      /\ s5' = "green" => /\ Environments!Cohortless(fresh, silent) = {}
                          /\ \/ Environments!Affected = {}
                             \/ Environments!MovesMissingCohort(silent) = {}
  BY <1>2
<1>4. Environments!Changed \subseteq Places /\ s1.live \subseteq Places
  BY EnvParts DEF Environments!Changed, Environments!EnvTypeOK
<1>5. /\ fresh \subseteq Environments!Changed \ Environments!Range(s2)
      /\ candidates \subseteq s1.live \cap Environments!Changed
      /\ torn \subseteq candidates /\ skipped \subseteq candidates
      /\ rendered \subseteq s1.live
  BY DEF Environments!NewEnvs, Environments!TeardownCandidates, Environments!TornDown,
     Environments!SkippedForTeardown, Environments!Affected
<1>6. \A p \in s1.live \cap Environments!Changed :
        /\ Environments!Head(p) = Environments!NoFile
        /\ p \in DOMAIN s2 => ~Environments!Confirmed(p, unread)
        => p \in torn
  BY DEF Environments!TeardownCandidates, Environments!TornDown
<1>7. \A p \in candidates : p \in DOMAIN s2 => ~Environments!Confirmed(p, unread)
  BY DEF Environments!TeardownCandidates
<1>8. \A p \in Environments!Changed \ s1.live :
        /\ Environments!Head(p) # Environments!NoFile
        /\ p \notin Environments!Range(s2)
        => p \in fresh
  BY DEF Environments!NewEnvs
<1> HIDE DEF fresh, candidates, torn, skipped, rendered
<1>9. /\ s4'.news = fresh /\ s4'.torn = torn /\ s4'.skipped = skipped
      /\ s4'.rendered = rendered /\ s4'.silent = silent
  BY <1>3
<1>10. Environments!EnvTypeOK'
  <2>1. \A part_ \in DOMAIN Environments!NoReport \ {"silent"} : s4'[part_] \subseteq Places
    BY <1>4, <1>5, <1>9 DEF Environments!NoReport
  <2> QED
    BY <1>1, <1>3, <1>9, <2>1, EnvParts DEF Environments!EnvTypeOK, Environments!Range
<1>11. /\ Environments!RenamesAreMoves /\ Environments!Orphaned = {}
       /\ s3 = {pair[1] : pair \in Environments!IdentityHits}
       /\ Environments!PairsAreMoves
  BY <1>1, EnvParts DEF Environments!GatesArePassed
<1>12. Environments!PairsAreMoves' /\ Environments!RenamesAreMoves'
  BY <1>1, <1>11, SameChange DEF Environments!PairsAreMoves, Environments!Main, Environments!Head
<1>13. Environments!GatesArePassed' /\ Environments!ReportIsLast'
  BY <1>1, <1>3, <1>11, SameChange DEF Environments!GatesArePassed, Environments!ReportIsLast
<1>14. \A p \in s1.live \cap DOMAIN s2 : p \in Environments!Affected
  BY <1>11 DEF Environments!Affected, Environments!RenamesAreMoves
<1>15. ASSUME s5' = "green", NEW p \in s1.live \cap DOMAIN s2
       PROVE  Environments!HasCohort(s1.head, s2[p]) \/ CohortOf[s2[p]] \in silent
  BY <1>3, <1>14, <1>15 DEF Environments!MovesMissingCohort, Environments!Missing, Environments!Range
<1>16. ASSUME s5' = "green", NEW p \in Places, Environments!Deployed(p),
              p \in DOMAIN s2 => s2[p] \notin Public /\ CohortOf[s2[p]] \notin silent
       PROVE  Environments!StillDeployed(p) \/ p \in torn \/ p \in s3
  <2>1. /\ p \in s1.live /\ p \in Environments!Private
        /\ Environments!Main(p) # Environments!NoFile /\ Environments!HasCohort(s1.main, p)
    BY <1>16 DEF Environments!Deployed
  <2>2. ASSUME NEW q, <<p, q>> \in Environments!Compared,
               Environments!Head(q) # Environments!NoFile,
               \/ Environments!AppsName(s1.main, p) # Environments!AppsName(s1.head, q)
               \/ SpokeOf[p] # SpokeOf[q]
        PROVE  p \in s3
    <3>1. <<p, q>> \in Environments!IdentityHits
      BY <2>1, <2>2 DEF Environments!IdentityHits
    <3>2. <<p, q>>[1] = p
      OBVIOUS
    <3> QED
      BY <1>11, <3>1, <3>2
  <2>3. CASE p \notin DOMAIN s2 /\ Environments!Head(p) = Environments!NoFile
    BY <1>6, <2>1, <2>3 DEF Environments!Changed, Environments!Private
  <2>4. CASE p \notin DOMAIN s2 /\ Environments!Head(p) # Environments!NoFile
    <3>1. Environments!HasCohort(s1.head, p)
      BY <1>11, <2>1, <2>4 DEF Environments!Orphaned
    <3>2. CASE Environments!AppsName(s1.main, p) = Environments!AppsName(s1.head, p)
      BY <2>1, <2>4, <3>1, <3>2 DEF Environments!StillDeployed
    <3>3. CASE Environments!AppsName(s1.main, p) # Environments!AppsName(s1.head, p)
      BY <1>4, <1>11, <2>1, <2>2, <2>4, <3>3, StayedIsCompared
    <3> QED
      BY <3>2, <3>3
  <2>5. CASE p \in DOMAIN s2
    <3>1. /\ p \in Environments!Changed /\ Environments!Head(p) = Environments!NoFile
          /\ s2[p] \in Places /\ Environments!Head(s2[p]) # Environments!NoFile
      BY <1>11, <2>5, Zenon DEF Environments!RenamesAreMoves
    <3>2. s2[p] \in Environments!Private
      BY <1>16, <2>5, <3>1 DEF Environments!Private
    <3>3. <<p, s2[p]>> \in Environments!Compared
      BY <2>1, <2>5, <3>2, MovedIsCompared
    <3>4. Environments!HasCohort(s1.head, s2[p])
      BY <1>15, <1>16, <2>1, <2>5, Zenon
    <3> QED
      BY <2>2, <3>1, <3>2, <3>3, <3>4 DEF Environments!StillDeployed
  <2> QED
    BY <2>3, <2>4, <2>5
<1>17. Environments!NoEnvVanishes'
  <2>1. \A p \in Places : /\ Environments!Deployed(p)' = Environments!Deployed(p)
                          /\ Environments!StillDeployed(p)' = Environments!StillDeployed(p)
    BY <1>1 DEF Environments!Deployed, Environments!StillDeployed, Environments!Main,
       Environments!Head, Environments!HasCohort, Environments!AppsName
  <2> QED
    BY <1>1, <1>9, <1>16, <2>1, SameChange
    DEF Environments!NoEnvVanishes, Environments!MovesUnseen
<1>18. ASSUME s5' = "green", NEW p \in Environments!Private,
              Environments!Head(p) # Environments!NoFile, ~Environments!HasCohort(s1.head, p)
       PROVE  /\ p \in s1.live => ~Environments!HasCohort(s1.main, p)
              /\ p \in Environments!Changed \ s1.live =>
                    \/ CohortOf[p] \in silent
                    \/ \E old \in DOMAIN s1.pairs \ s1.live : s1.pairs[old] = p
  <2>1. p \notin DOMAIN s2
    BY <1>11, <1>18 DEF Environments!RenamesAreMoves
  <2>2. ASSUME p \in s1.live PROVE ~Environments!HasCohort(s1.main, p)
    BY <1>11, <1>18, <2>1, <2>2 DEF Environments!Orphaned
  <2>3. ASSUME p \in Environments!Changed \ s1.live, CohortOf[p] \notin silent
        PROVE  \E old \in DOMAIN s1.pairs \ s1.live : s1.pairs[old] = p
    <3>1. p \in Environments!Range(s2)
      BY <1>3, <1>8, <1>18, <2>3 DEF Environments!Cohortless, Environments!Missing
    <3>2. PICK old \in DOMAIN s2 : s2[old] = p
      BY <3>1 DEF Environments!Range
    <3>3. old \notin s1.live
      BY <1>15, <1>18, <2>3, <3>2
    <3> QED
      BY <1>11, <3>2, <3>3 DEF Environments!RenamesAreMoves
  <2> QED
    BY <2>2, <2>3
<1>19. Environments!CohortlessIsBlocked'
  BY <1>1, <1>9, <1>18 DEF Environments!CohortlessIsBlocked, Environments!Changed,
     Environments!Main, Environments!Head, Environments!HasCohort
<1>20. ASSUME NEW old \in DOMAIN s2 \cap s1.live,
              Environments!Main(old) = Environments!Head(s2[old])
       PROVE  s2[old] \notin fresh /\ old \notin torn \cup skipped
  <2>1. Environments!Confirmed(old, unread)
    BY <1>20 DEF Environments!Confirmed, Environments!SameIdentity
  <2> QED
    BY <1>5, <1>7, <2>1 DEF Environments!Range
<1>21. Environments!MoveIsAMove'
  BY <1>1, <1>9, <1>20, SameChange DEF Environments!MoveIsAMove
<1> QED
  BY <1>10, <1>12, <1>13, <1>17, <1>19, <1>21, Zenon
  DEF Environments!EnvInv, Environments!MovesAreChecked

LEMMA EnvKept ==
    ASSUME Environments!EnvInv, [Environments!EnvNext]_(Environments!envVars)
    PROVE  Environments!EnvInv'
<1>1. CASE UNCHANGED Environments!envVars
  <2>1. UNCHANGED <<s1, s2, s3, s4, s5>>
    BY <1>1 DEF Environments!envVars
  <2>2. Environments!EnvTypeOK'
    BY <2>1, EnvParts DEF Environments!EnvTypeOK, Environments!Range
  <2>3. Environments!PairsAreMoves' /\ Environments!RenamesAreMoves'
    BY <2>1, SameChange, EnvParts DEF Environments!PairsAreMoves, Environments!Main,
       Environments!Head
  <2>4. Environments!GatesArePassed' /\ Environments!ReportIsLast'
    BY <2>1, SameChange, EnvParts DEF Environments!GatesArePassed, Environments!ReportIsLast
  <2>5. Environments!NoEnvVanishes'
    BY <2>1, SameChange, EnvParts DEF Environments!NoEnvVanishes, Environments!MovesUnseen,
       Environments!Deployed,
       Environments!StillDeployed, Environments!Main, Environments!Head,
       Environments!HasCohort, Environments!AppsName
  <2>6. Environments!CohortlessIsBlocked' /\ Environments!MoveIsAMove'
    BY <2>1, SameChange, EnvParts DEF Environments!CohortlessIsBlocked,
       Environments!MoveIsAMove, Environments!Changed, Environments!Main, Environments!Head,
       Environments!HasCohort
  <2> QED
    BY <2>2, <2>3, <2>4, <2>5, <2>6, Zenon
    DEF Environments!EnvInv, Environments!MovesAreChecked
<1> QED
  BY <1>1, EnvPair, EnvCohorts, EnvIdentity, EnvUnreadable, EnvDetect
  DEF Environments!EnvNext

LEMMA EnvironmentsAlways == ChangesSpec => [](part = "environments" => Environments!EnvInv)
<1> DEFINE I == part = "environments" => Environments!EnvInv
<1>1. ChangesInit => I
  BY EnvStart
<1>2. I /\ [ChangesNext]_all => I'
  <2> SUFFICES ASSUME I, [ChangesNext]_all, (part = "environments")' PROVE Environments!EnvInv'
    OBVIOUS
  <2>1. part = "environments"
    BY DEF ChangesNext, all
  <2> QED
    BY <2>1, EnvironmentsGo, EnvKept
<1> QED
  BY <1>1, <1>2, PTL DEF ChangesSpec

(* The pairing, the two gates and the detectors of process_pr leave no gap:  *)
(* a green pull request that takes the applications of a live environment    *)
(* away names it, as a teardown or as a planned rename, but for a move that  *)
(* no gate compares (MovesUnseen)                                            *)
THEOREM NoEnvVanishesUnseen == ChangesSpec => []NoEnvVanishes
<1>1. (part = "environments" => Environments!EnvInv) => NoEnvVanishes
  BY EnvParts DEF NoEnvVanishes
<1> QED
  BY <1>1, EnvironmentsAlways, PTL

(* Renaming a folder is no way round the checks for a cohort file, and an      *)
(* unchanged file that moves is neither torn down nor new                     *)
(* (_augment_renames_with_identity_moves, _moves_missing_cohort)              *)
THEOREM NoMoveIsUnchecked == ChangesSpec => []MovesAreChecked
<1>1. (part = "environments" => Environments!EnvInv) => MovesAreChecked
  BY DEF Environments!EnvInv, MovesAreChecked
<1> QED
  BY <1>1, EnvironmentsAlways, PTL

-----------------------------------------------------------------------------
(* The suffix of a migrated customer: SuffixMigration *)

LEMMA SuffixGo ==
    ASSUME part = "suffix", [ChangesNext]_all
    PROVE  [Suffix!SuffixNext]_(Suffix!suffixVars)
  BY DEF ChangesNext, SlotStep, all, slots, Suffix!suffixVars



LEMMA SuffixParts ==
    Suffix!SuffixInv <=>
        /\ Suffix!SuffixTypeOK /\ Suffix!WritersAreSynced /\ Suffix!OneOwner
        /\ Suffix!ArmedAlone /\ Suffix!PrunedAlone
  BY Zenon DEF Suffix!SuffixInv

LEMMA SuffixStart ==
    ASSUME ChangesInit, part = "suffix"
    PROVE  Suffix!SuffixInv
<1>1. Suffix!SuffixInit
  BY DEF ChangesInit
<1>2. /\ s1 = [c \in Cells |-> Suffix!Absent] /\ s2 = s1
      /\ s3 = {} /\ s4 = "none" /\ s5 = {} /\ s6 = 0
      /\ s7 = {} /\ s8 = {} /\ s9 = {}
  BY <1>1, Zenon DEF Suffix!SuffixInit
<1>3. Suffix!Absent.record = FALSE
  BY DEF Suffix!Absent
<1>4. Suffix!SuffixTypeOK
  <2>1. s6 \in 0 .. MaxPRs
    BY <1>2, SuffixAssumption DEF SuffixAssumption
  <2> QED
    BY <1>2, <2>1 DEF Suffix!SuffixTypeOK
<1>5. Suffix!RecordOwners(s1) = {}
  BY <1>2, <1>3 DEF Suffix!RecordOwners
<1> QED
  BY <1>2, <1>4, <1>5, SuffixParts
  DEF Suffix!WritersAreSynced, Suffix!OneOwner, Suffix!ArmedAlone, Suffix!PrunedAlone

(* What the check reads: the cells it did not skip.  It skips none that change. *)
LEMMA SeenIsThere ==
    ASSUME NEW side, NEW skipped \in SUBSET Cells
    PROVE  /\ \A c \in Cells \ skipped : Suffix!Seen(side, skipped)[c] = side[c]
           /\ Suffix!RecordOwners(Suffix!Seen(side, skipped)) = Suffix!RecordOwners(side) \ skipped
           /\ Suffix!Serving(Suffix!Seen(side, skipped)) = Suffix!Serving(side) \ skipped
<1>1. /\ \A c \in Cells \ skipped : Suffix!Seen(side, skipped)[c] = side[c]
      /\ \A c \in skipped : Suffix!Seen(side, skipped)[c] = Suffix!Absent
  BY DEF Suffix!Seen
<1>2. Suffix!Absent.record = FALSE /\ Suffix!Absent.there = FALSE
  BY DEF Suffix!Absent
<1> QED
  BY <1>1, <1>2 DEF Suffix!RecordOwners, Suffix!Serving

LEMMA SeenChanges ==
    ASSUME NEW base, NEW head, NEW skipped \in SUBSET (Cells \ Suffix!Changed(base, head))
    PROVE  Suffix!Changed(Suffix!Seen(base, skipped), Suffix!Seen(head, skipped))
             = Suffix!Changed(base, head)
<1>1. skipped \in SUBSET Cells
  BY DEF Suffix!Changed
<1>2. \A c \in Cells \ skipped : /\ Suffix!Seen(base, skipped)[c] = base[c]
                                 /\ Suffix!Seen(head, skipped)[c] = head[c]
  BY <1>1, SeenIsThere
<1>3. \A c \in skipped : Suffix!Seen(base, skipped)[c] = Suffix!Seen(head, skipped)[c]
  BY <1>1 DEF Suffix!Seen
<1> QED
  BY <1>1, <1>2, <1>3 DEF Suffix!Changed

(* What a green pull request leaves: no second owner next to an old or a new   *)
(* one, and no armed owner that somebody else answers next to, unless one of   *)
(* the two was skipped, and then the whole check would have found it          *)
LEMMA GreenHasOneOwner ==
    ASSUME NEW base, NEW head, NEW skipped \in SUBSET (Cells \ Suffix!Changed(base, head)),
           ~Suffix!TwoOwners(Suffix!Seen(base, skipped), Suffix!Seen(head, skipped)),
           NEW c \in Suffix!RecordOwners(head) \ Suffix!RecordOwners(base),
           NEW d \in Suffix!RecordOwners(base) \cup Suffix!RecordOwners(head), c # d
    PROVE  d \in skipped /\ Suffix!TwoOwners(base, head)
<1>1. skipped \in SUBSET Cells
  BY DEF Suffix!Changed
<1>2. c \in Cells /\ c \in Suffix!Changed(base, head)
  BY DEF Suffix!RecordOwners, Suffix!Changed
<1>3. c \notin skipped
  BY <1>2
<1>4. d \in Suffix!Rivals(base, head, c)
  BY DEF Suffix!Rivals
<1>5. Suffix!TwoOwners(base, head)
  BY <1>2, <1>4 DEF Suffix!TwoOwners
<1>6. ASSUME d \notin skipped PROVE FALSE
  <2> DEFINE b == Suffix!Seen(base, skipped)
             h == Suffix!Seen(head, skipped)
  <2>1. /\ Suffix!RecordOwners(b) = Suffix!RecordOwners(base) \ skipped
        /\ Suffix!RecordOwners(h) = Suffix!RecordOwners(head) \ skipped
    BY <1>1, SeenIsThere
  <2>2. Suffix!Changed(b, h) = Suffix!Changed(base, head)
    BY SeenChanges
  <2>3. ~Suffix!TwoOwners(b, h)
    OBVIOUS
  <2> HIDE DEF b, h
  <2>4. d \in Suffix!Rivals(b, h, c)
    BY <1>6, <2>1 DEF Suffix!Rivals
  <2>5. c \in (Suffix!RecordOwners(h) \ Suffix!RecordOwners(b)) \cap Suffix!Changed(b, h)
    BY <1>2, <1>3, <2>1, <2>2
  <2> QED
    BY <2>3, <2>4, <2>5 DEF Suffix!TwoOwners
<1> QED
  BY <1>5, <1>6

LEMMA GreenIsArmedAlone ==
    ASSUME NEW base, NEW head, NEW skipped \in SUBSET (Cells \ Suffix!Changed(base, head)),
           ~Suffix!DecommissionShared(Suffix!Seen(base, skipped), Suffix!Seen(head, skipped)),
           NEW c \in Suffix!RecordOwners(head), head[c].decommission,
           NEW d \in Suffix!Serving(head) \ {c}
    PROVE  \/ base[c] = head[c] /\ base[d] = head[d]
           \/ (c \in skipped \/ d \in skipped) /\ Suffix!DecommissionShared(base, head)
<1>1. skipped \in SUBSET Cells /\ c \in Cells /\ d \in Cells
  BY DEF Suffix!Changed, Suffix!RecordOwners, Suffix!Serving
<1>2. CASE ({c} \cup Suffix!Serving(head)) \cap Suffix!Changed(base, head) = {}
  BY <1>1, <1>2 DEF Suffix!Changed
<1>3. CASE ({c} \cup Suffix!Serving(head)) \cap Suffix!Changed(base, head) # {}
  <2>1. Suffix!DecommissionShared(base, head)
    BY <1>3 DEF Suffix!DecommissionShared
  <2>2. ASSUME c \notin skipped, d \notin skipped PROVE FALSE
    <3> DEFINE b == Suffix!Seen(base, skipped)
               h == Suffix!Seen(head, skipped)
    <3>1. /\ Suffix!RecordOwners(h) = Suffix!RecordOwners(head) \ skipped
          /\ Suffix!Serving(h) = Suffix!Serving(head) \ skipped
          /\ h[c] = head[c]
      BY <1>1, <2>2, SeenIsThere
    <3>2. Suffix!Changed(b, h) = Suffix!Changed(base, head)
      BY SeenChanges
    <3>3. ~Suffix!DecommissionShared(b, h)
      OBVIOUS
    <3> HIDE DEF b, h
    <3>4. ({c} \cup Suffix!Serving(h)) \cap Suffix!Changed(b, h) # {}
      BY <1>3, <3>1, <3>2
    <3>5. c \in Suffix!RecordOwners(h) /\ h[c].decommission /\ Suffix!Serving(h) \ {c} # {}
      BY <2>2, <3>1
    <3> QED
      BY <3>3, <3>4, <3>5 DEF Suffix!DecommissionShared
  <2> QED
    BY <2>1, <2>2
<1> QED
  BY <1>2, <1>3

LEMMA SuffixMerge ==
    ASSUME Suffix!SuffixInv, Suffix!Merge
    PROVE  Suffix!SuffixInv' /\ s4' = s4
<1>0. PICK head \in [Cells -> Suffix!CellFolders \cup {Suffix!Absent}] :
        /\ \E skipped \in SUBSET (Cells \ Suffix!Changed(s1, head)) :
             /\ ~Suffix!Findings(Suffix!Seen(s1, skipped), Suffix!Seen(head, skipped))
             /\ s7' = IF Suffix!Findings(s1, head) THEN s7 \cup skipped ELSE s7
        /\ s1' = head
        /\ s5' = Suffix!Serving(s1) \cap Suffix!Serving(head)
  BY Zenon DEF Suffix!Merge
<1>1. PICK skipped \in SUBSET (Cells \ Suffix!Changed(s1, head)) :
        /\ ~Suffix!Findings(Suffix!Seen(s1, skipped), Suffix!Seen(head, skipped))
        /\ s7' = IF Suffix!Findings(s1, head) THEN s7 \cup skipped ELSE s7
  BY <1>0
<1>2. /\ s6 < MaxPRs /\ s6' = s6 + 1 /\ UNCHANGED <<s2, s3, s4, s9>>
      /\ s8' = s8 \cup Suffix!Changed(s2, s1)
  BY Zenon DEF Suffix!Merge
<1>3. /\ Suffix!SuffixTypeOK /\ Suffix!WritersAreSynced /\ Suffix!OneOwner
      /\ Suffix!ArmedAlone /\ Suffix!PrunedAlone
  BY SuffixParts
<1>4. /\ ~Suffix!TwoOwners(Suffix!Seen(s1, skipped), Suffix!Seen(head, skipped))
      /\ ~Suffix!DecommissionShared(Suffix!Seen(s1, skipped), Suffix!Seen(head, skipped))
  BY <1>1 DEF Suffix!Findings
<1>5. /\ s7 \subseteq s7' /\ s7' \subseteq s7 \cup skipped
      /\ Suffix!TwoOwners(s1, head) \/ Suffix!DecommissionShared(s1, head) => skipped \subseteq s7'
  BY <1>1 DEF Suffix!Findings
<1>6. Suffix!SuffixTypeOK'
  <2>1. s6' \in 0 .. MaxPRs
    BY <1>2, <1>3, SuffixAssumption DEF SuffixAssumption, Suffix!SuffixTypeOK
  <2>2. s5' \subseteq Cells /\ s8' \subseteq Cells /\ s7' \subseteq Cells
    BY <1>0, <1>2, <1>3, <1>5 DEF Suffix!Serving, Suffix!Changed, Suffix!SuffixTypeOK
  <2> QED
    BY <1>0, <1>2, <1>3, <2>1, <2>2 DEF Suffix!SuffixTypeOK
<1>7. Suffix!WritersAreSynced'
  BY <1>2, <1>3 DEF Suffix!WritersAreSynced, Suffix!RecordOwners
<1>8. ASSUME NEW c \in Cells, c \notin s8' PROVE s2[c] = s1[c]
  BY <1>2, <1>8 DEF Suffix!Changed
<1>9. Suffix!OneOwner'
  <2> SUFFICES ASSUME NEW c \in Suffix!RecordOwners(s2) \cup Suffix!RecordOwners(head),
                      NEW d \in Suffix!RecordOwners(s2) \cup Suffix!RecordOwners(head),
                      c # d, c \notin s7' \cup s8' \cup s9, d \notin s7' \cup s8' \cup s9
               PROVE  FALSE
    BY <1>0, <1>2 DEF Suffix!OneOwner, Suffix!RecordOwners, Suffix!Unguarded
  <2>1. ASSUME NEW e \in Suffix!RecordOwners(s2), e \notin s8' PROVE e \in Suffix!RecordOwners(s1)
    BY <1>8, <2>1 DEF Suffix!RecordOwners
  <2>2. /\ c \in Suffix!RecordOwners(s1) \cup Suffix!RecordOwners(head)
        /\ d \in Suffix!RecordOwners(s1) \cup Suffix!RecordOwners(head)
    BY <2>1
  <2>3. c \notin Suffix!Unguarded /\ d \notin Suffix!Unguarded
    BY <1>2, <1>5 DEF Suffix!Unguarded
  <2>4. CASE c \in Suffix!RecordOwners(s1) /\ d \in Suffix!RecordOwners(s1)
    BY <1>3, <2>3, <2>4 DEF Suffix!OneOwner
  <2>5. CASE c \notin Suffix!RecordOwners(s1)
    BY <1>4, <1>5, <2>2, <2>5, GreenHasOneOwner
  <2>6. CASE d \notin Suffix!RecordOwners(s1)
    BY <1>4, <1>5, <2>2, <2>6, GreenHasOneOwner
  <2> QED
    BY <2>4, <2>5, <2>6
<1>10. Suffix!ArmedAlone'
  <2> SUFFICES ASSUME NEW c \in Suffix!RecordOwners(head), c \notin s7', head[c].decommission,
                      NEW d \in Suffix!Serving(head) \ {c}, d \notin s7'
               PROVE  FALSE
    BY <1>0 DEF Suffix!ArmedAlone, Suffix!RecordOwners, Suffix!Serving
  <2>1. s1[c] = head[c] /\ s1[d] = head[d]
    BY <1>4, <1>5, GreenIsArmedAlone
  <2>2. c \in Suffix!RecordOwners(s1) \ s7 /\ s1[c].decommission
    BY <1>5, <2>1 DEF Suffix!RecordOwners
  <2>3. d \in Suffix!Serving(s1) /\ d \notin {c} \cup s7
    BY <1>5, <2>1 DEF Suffix!Serving
  <2> QED
    BY <1>3, <2>2, <2>3 DEF Suffix!ArmedAlone
<1>11. Suffix!PrunedAlone'
  <2> SUFFICES ASSUME NEW c \in Cells, c \notin s7', c \notin s8', s2[c].record,
                      s2[c].decommission
               PROVE  s5' \subseteq s7'
    BY <1>2 DEF Suffix!PrunedAlone, Suffix!Unguarded
  <2>1. s1[c] = s2[c]
    BY <1>8
  <2>2. c \in Suffix!RecordOwners(s1) \ s7 /\ s1[c].decommission
    BY <1>5, <2>1 DEF Suffix!RecordOwners
  <2>3. Suffix!Serving(s1) \subseteq {c} \cup s7
    BY <1>3, <2>2 DEF Suffix!ArmedAlone
  <2>4. c \notin Suffix!Serving(s1)
    BY <2>2 DEF Suffix!Serving
  <2> QED
    BY <1>0, <1>5, <2>3, <2>4
<1> QED
  BY <1>2, <1>6, <1>7, <1>9, <1>10, <1>11, Zenon DEF Suffix!SuffixInv

(* What ArgoCD does to the DNSRecordSet of the cell it syncs *)
LEMMA SuffixWrites ==
    ASSUME Suffix!SuffixInv, NEW c \in Cells, Suffix!Sync(c)
    PROVE  /\ s3' \subseteq Cells /\ s4' \in Cells \cup {"none"} /\ s9' \subseteq Cells
           /\ s9 \subseteq s9'
           /\ Suffix!WritersAreSynced'
           /\ s4' = "none" /\ s4 # "none" =>
                s2[c].record /\ s2[c].decommission /\ c \in s3 \ s3'
<1>1. /\ s2[c] # s1[c] /\ s2' = [s2 EXCEPT ![c] = s1[c]]
      /\ \/ Suffix!Write(c) \/ Suffix!Orphan(c) \/ Suffix!PruneRecord(c)
         \/ Suffix!NoRecord(c)
  BY Zenon DEF Suffix!Sync
<1>2. /\ s2 \in [Cells -> Suffix!CellFolders \cup {Suffix!Absent}]
      /\ s3 \subseteq Cells /\ s4 \in Cells \cup {"none"} /\ s9 \subseteq Cells
  BY SuffixParts DEF Suffix!SuffixTypeOK
<1>3. s2'[c] = s1[c] /\ \A d \in Cells : d # c => s2'[d] = s2[d]
  BY <1>1, <1>2
<1>4. /\ Suffix!RecordOwners(s2) \subseteq s3 /\ s3 \subseteq Suffix!RecordOwners(s2) \cup s9
  BY SuffixParts DEF Suffix!WritersAreSynced
<1>5. CASE Suffix!Write(c)
  <2>1. s1[c].record /\ s3' = s3 \cup {c} /\ UNCHANGED <<s4, s9>>
    BY <1>5, Zenon DEF Suffix!Write
  <2>2. Suffix!RecordOwners(s2)' = Suffix!RecordOwners(s2) \cup {c}
    BY <1>3, <2>1 DEF Suffix!RecordOwners
  <2> QED
    BY <1>2, <1>4, <2>1, <2>2 DEF Suffix!WritersAreSynced
<1>6. CASE Suffix!Orphan(c)
  <2>1. s9' = s9 \cup {c} /\ UNCHANGED <<s3, s4>> /\ ~s1[c].there
    BY <1>6, Zenon DEF Suffix!Orphan
  <2>2. ~s1[c].record
    <3>1. s1[c] \in Suffix!CellFolders \cup {Suffix!Absent}
      BY SuffixParts DEF Suffix!SuffixTypeOK
    <3>2. s1[c] \notin Suffix!CellFolders
      BY <2>1 DEF Suffix!CellFolders
    <3> QED
      BY <3>1, <3>2 DEF Suffix!Absent
  <2>3. Suffix!RecordOwners(s2)' = Suffix!RecordOwners(s2) \ {c}
    BY <1>3, <2>2 DEF Suffix!RecordOwners
  <2> QED
    BY <1>2, <1>4, <2>1, <2>3 DEF Suffix!WritersAreSynced
<1>7. CASE Suffix!PruneRecord(c)
  <2>1. /\ ~s1[c].record /\ s2[c].record /\ s3' = s3 \ {c} /\ s9' = s9
        /\ s4' = IF s2[c].decommission THEN "none" ELSE s4
    BY <1>7, Zenon DEF Suffix!PruneRecord
  <2>2. Suffix!RecordOwners(s2)' = Suffix!RecordOwners(s2) \ {c}
    BY <1>3, <2>1 DEF Suffix!RecordOwners
  <2>3. c \in s3
    BY <1>4, <2>1 DEF Suffix!RecordOwners
  <2> QED
    BY <1>2, <1>4, <2>1, <2>2, <2>3 DEF Suffix!WritersAreSynced
<1>8. CASE Suffix!NoRecord(c)
  <2>1. ~s1[c].record /\ ~s2[c].record /\ UNCHANGED <<s3, s4, s9>>
    BY <1>8, Zenon DEF Suffix!NoRecord
  <2>2. Suffix!RecordOwners(s2)' = Suffix!RecordOwners(s2)
    BY <1>3, <2>1 DEF Suffix!RecordOwners
  <2> QED
    BY <1>2, <1>4, <2>1, <2>2 DEF Suffix!WritersAreSynced
<1> QED
  BY <1>1, <1>5, <1>6, <1>7, <1>8

LEMMA SuffixSync ==
    ASSUME Suffix!SuffixInv, NEW c \in Cells, Suffix!Sync(c)
    PROVE  Suffix!SuffixInv' /\ Suffix!RecordSurvives
<1>1. /\ s2[c] # s1[c] /\ s2' = [s2 EXCEPT ![c] = s1[c]]
      /\ UNCHANGED <<s1, s5, s6, s7, s8>>
  BY Zenon DEF Suffix!Sync
<1>2. /\ Suffix!SuffixTypeOK /\ Suffix!WritersAreSynced /\ Suffix!OneOwner
      /\ Suffix!ArmedAlone /\ Suffix!PrunedAlone
  BY SuffixParts
<1>3. /\ s1 \in [Cells -> Suffix!CellFolders \cup {Suffix!Absent}]
      /\ s2 \in [Cells -> Suffix!CellFolders \cup {Suffix!Absent}]
  BY <1>2 DEF Suffix!SuffixTypeOK
<1>4. /\ s2'[c] = s1[c] /\ \A d \in Cells : d # c => s2'[d] = s2[d]
      /\ s2' \in [Cells -> Suffix!CellFolders \cup {Suffix!Absent}]
  BY <1>1, <1>3
<1>5. /\ s3' \subseteq Cells /\ s4' \in Cells \cup {"none"} /\ s9' \subseteq Cells
      /\ s9 \subseteq s9' /\ Suffix!WritersAreSynced'
      /\ s4' = "none" /\ s4 # "none" =>
           s2[c].record /\ s2[c].decommission /\ c \in s3 \ s3'
  BY SuffixWrites
<1>6. Suffix!SuffixTypeOK'
  BY <1>1, <1>2, <1>4, <1>5 DEF Suffix!SuffixTypeOK
<1>7. Suffix!Unguarded \subseteq Suffix!Unguarded'
  BY <1>1, <1>5 DEF Suffix!Unguarded
<1>8. Suffix!RecordOwners(s2)' \subseteq Suffix!RecordOwners(s2) \cup Suffix!RecordOwners(s1)
  BY <1>4 DEF Suffix!RecordOwners
<1>9. Suffix!RecordOwners(s1)' = Suffix!RecordOwners(s1)
  BY <1>1 DEF Suffix!RecordOwners
<1>10. Suffix!OneOwner'
  BY <1>2, <1>7, <1>8, <1>9 DEF Suffix!OneOwner
<1>11. Suffix!ArmedAlone'
  BY <1>1, <1>2 DEF Suffix!ArmedAlone, Suffix!RecordOwners, Suffix!Serving
<1>12. Suffix!PrunedAlone'
  BY <1>1, <1>2, <1>4, <1>7 DEF Suffix!PrunedAlone
<1>13. Suffix!RecordSurvives
  <2> SUFFICES ASSUME s4' = "none", s4 # "none", c \notin Suffix!Unguarded
               PROVE  s5 \subseteq s7
    BY <1>5 DEF Suffix!RecordSurvives
  <2> QED
    BY <1>1, <1>2, <1>5 DEF Suffix!PrunedAlone
<1> QED
  BY <1>5, <1>6, <1>10, <1>11, <1>12, <1>13, SuffixParts, Zenon DEF Suffix!SuffixInv

LEMMA SuffixReconcile ==
    ASSUME Suffix!SuffixInv, NEW c \in Cells, Suffix!Reconcile(c)
    PROVE  Suffix!SuffixInv' /\ s4' # "none"
<1>1. s4' = c /\ UNCHANGED <<s1, s2, s3, s5, s6, s7, s8, s9>>
  BY Zenon DEF Suffix!Reconcile
<1>2. s4' # "none"
  BY <1>1, SuffixAssumption DEF SuffixAssumption
<1>3. Suffix!SuffixTypeOK'
  BY <1>1 DEF Suffix!SuffixInv, Suffix!SuffixTypeOK
<1>4. /\ Suffix!WritersAreSynced' /\ Suffix!OneOwner' /\ Suffix!ArmedAlone'
      /\ Suffix!PrunedAlone'
  BY <1>1 DEF Suffix!SuffixInv, Suffix!WritersAreSynced, Suffix!OneOwner, Suffix!ArmedAlone,
     Suffix!PrunedAlone, Suffix!RecordOwners, Suffix!Serving, Suffix!Unguarded
<1> QED
  BY <1>2, <1>3, <1>4 DEF Suffix!SuffixInv

LEMMA SuffixKept ==
    ASSUME Suffix!SuffixInv, [Suffix!SuffixNext]_(Suffix!suffixVars)
    PROVE  Suffix!SuffixInv' /\ Suffix!RecordSurvives
<1>1. CASE Suffix!Merge
  BY <1>1, SuffixMerge DEF Suffix!RecordSurvives
<1>2. ASSUME NEW c \in Cells, Suffix!Sync(c)
      PROVE  Suffix!SuffixInv' /\ Suffix!RecordSurvives
  BY <1>2, SuffixSync
<1>3. ASSUME NEW c \in Cells, Suffix!Reconcile(c)
      PROVE  Suffix!SuffixInv' /\ Suffix!RecordSurvives
  BY <1>3, SuffixReconcile DEF Suffix!RecordSurvives
<1>4. CASE UNCHANGED Suffix!suffixVars
  <2>1. UNCHANGED <<s1, s2, s3, s4, s5, s6, s7, s8, s9>>
    BY <1>4 DEF Suffix!suffixVars
  <2>2. Suffix!SuffixTypeOK'
    BY <2>1, SuffixParts DEF Suffix!SuffixTypeOK
  <2>3. /\ Suffix!WritersAreSynced' /\ Suffix!OneOwner' /\ Suffix!ArmedAlone'
        /\ Suffix!PrunedAlone'
    BY <2>1, SuffixParts DEF Suffix!WritersAreSynced, Suffix!OneOwner, Suffix!ArmedAlone,
       Suffix!PrunedAlone, Suffix!RecordOwners, Suffix!Serving, Suffix!Unguarded
  <2>4. Suffix!RecordSurvives
    BY <2>1 DEF Suffix!RecordSurvives
  <2> QED
    BY <2>2, <2>3, <2>4 DEF Suffix!SuffixInv
<1> QED
  BY <1>1, <1>2, <1>3, <1>4 DEF Suffix!SuffixNext

LEMMA OneOwnerWrites ==
    ASSUME Suffix!SuffixInv
    PROVE  Suffix!OneWriter
<1>1. \A c \in s3 : c \in Suffix!RecordOwners(s2) \/ c \in Suffix!Unguarded
  BY SuffixParts DEF Suffix!WritersAreSynced, Suffix!Unguarded
<1> QED
  BY <1>1, SuffixParts DEF Suffix!OneOwner, Suffix!OneWriter

LEMMA SuffixAlways == ChangesSpec => [](part = "suffix" => Suffix!SuffixInv)
<1> DEFINE I == part = "suffix" => Suffix!SuffixInv
<1>1. ChangesInit => I
  BY SuffixStart
<1>2. I /\ [ChangesNext]_all => I'
  <2> SUFFICES ASSUME I, [ChangesNext]_all, (part = "suffix")' PROVE Suffix!SuffixInv'
    OBVIOUS
  <2>1. part = "suffix"
    BY DEF ChangesNext, all
  <2> QED
    BY <2>1, SuffixGo, SuffixKept
<1> QED
  BY <1>1, <1>2, PTL DEF ChangesSpec

(* Two cells write the one record, and it is deleted under a cell that answers *)
(* on it, only where the gates cannot answer for one (suffix_migration.findings) *)
THEOREM RecordsAreKept == ChangesSpec => RecordIsKept
<1> DEFINE I == part = "suffix" => Suffix!SuffixInv
<1>1. I => (part = "suffix" => Suffix!OneWriter)
  BY OneOwnerWrites
<1>2. I /\ [ChangesNext]_all => [part = "suffix" => Suffix!RecordSurvives]_slots
  BY SuffixGo, SuffixKept
<1> QED
  BY <1>1, <1>2, SuffixAlways, PTL DEF ChangesSpec, RecordIsKept

-----------------------------------------------------------------------------
(* Taking an environment down: Teardown *)

LEMMA DownGo ==
    ASSUME part = "teardown", [ChangesNext]_all
    PROVE  [Down!DownNext]_(Down!downVars)
  BY DEF ChangesNext, SlotStep, all, slots, Down!downVars

(* A folder's flags are not the mark of a removed one *)
LEMMA FlagsAreThere ==
    ASSUME NEW flags \in SUBSET Down!Flags
    PROVE  flags # Down!Removed
  BY DEF Down!Flags, Down!Removed

LEMMA CountsTyped == ASSUME NEW flags PROVE Down!Counts(flags) \in BOOLEAN
  BY Zenon DEF Down!Counts

LEMMA DownParts ==
    Down!DownInv <=>
        /\ Down!DownTypeOK /\ Down!HistoryTells /\ Down!GreenHolds /\ Down!Leaves
        /\ Down!NoSilentOrphan /\ Down!HoldIsServed
  BY Zenon DEF Down!DownInv, Down!TeardownIsServed

(* The days of a history *)
LEMMA DaysTyped ==
    ASSUME NEW h \in Seq([day : 0 .. MaxDay, on : BOOLEAN]), NEW i \in DOMAIN h
    PROVE  h[i].day \in Nat
<1>1. h[i] \in [day : 0 .. MaxDay, on : BOOLEAN]
  <2> DEFINE S == [day : 0 .. MaxDay, on : BOOLEAN]
  <2>1. h \in Seq(S) /\ i \in DOMAIN h
    OBVIOUS
  <2> HIDE DEF S
  <2>2. h[i] \in S
    BY <2>1
  <2> QED
    BY <2>2 DEF S
<1>2. h[i].day \in 0 .. MaxDay
  BY <1>1
<1> QED
  BY <1>2, DownAssumption DEF DownAssumption

LEMMA DownStart ==
    ASSUME ChangesInit, part = "teardown"
    PROVE  Down!DownInv
<1>1. Down!DownInit
  BY DEF ChangesInit
<1>2. /\ s1 \in {{}, {"zeroPods"}} /\ s2 = <<[day |-> 0, on |-> Down!Counts(s1)]>>
      /\ s3 = 0 /\ s4 = FALSE /\ s5 = Down!NoPr /\ s6 = "running"
      /\ s7 = IF Down!Counts(s1) THEN 0 ELSE Down!Never
  BY <1>1, Zenon DEF Down!DownInit
<1>3. s1 \in SUBSET Down!Flags /\ s1 # Down!Removed
  BY <1>2 DEF Down!Flags, Down!Removed
<1>4. 0 \in 0 .. MaxDay /\ 0 \in 0 .. Down!Never /\ Down!Never \in 0 .. Down!Never
  BY DownAssumption DEF DownAssumption, Down!Never
<1>5. Down!Counts(s1) \in BOOLEAN
  BY CountsTyped
<1>6. /\ DOMAIN s2 = {1} /\ s2[1].day = 0 /\ s2[1].on = Down!Counts(s1)
      /\ s2 \in Seq([day : 0 .. MaxDay, on : BOOLEAN])
  BY <1>2, <1>4, <1>5
<1>7. s7 \in 0 .. Down!Never
  BY <1>2, <1>4
<1>8. Down!DownTypeOK
  BY <1>2, <1>3, <1>4, <1>6, <1>7 DEF Down!DownTypeOK
<1>9. Down!HistoryTells
  <2>1. \A i \in DOMAIN s2 : s2[i].day <= s3
    BY <1>2, <1>6
  <2>2. ASSUME NEW i \in DOMAIN s2, \A j \in 1 .. i : s2[j].on PROVE s7 <= s2[i].day
    <3>1. i = 1 /\ s2[1].on
      BY <1>6, <2>2
    <3> QED
      BY <1>2, <1>6, <3>1
  <2> QED
    BY <1>6, <2>1, <2>2 DEF Down!HistoryTells
<1>10. Down!GreenHolds
  BY <1>2 DEF Down!GreenHolds, Down!NoPr
<1>11. Down!Leaves
  BY <1>2, <1>3 DEF Down!Leaves, Down!There
<1>12. Down!NoSilentOrphan /\ Down!HoldIsServed
  BY <1>2 DEF Down!NoSilentOrphan, Down!HoldIsServed
<1> QED
  BY <1>8, <1>9, <1>10, <1>11, <1>12, DownParts

(* Green: every gate is closed or lifted *)
LEMMA GreenIsClosed ==
    ASSUME NEW gates, NEW lifted, Down!Verdict(gates \ lifted) = "green"
    PROVE  gates \subseteq lifted
  BY DEF Down!Verdict

LEMMA VerdictTyped ==
    ASSUME NEW gates
    PROVE  Down!Verdict(gates) \in {"unseen", "green", "waiting", "blocked"}
  BY DEF Down!Verdict

(* A green removal that cascades served its hold or was hurried *)
LEMMA HoldIsMet ==
    ASSUME Down!HistoryTells, Down!HoldMet, Down!DownTypeOK
    PROVE  s7 + Hold <= s3
<1>1. PICK i \in DOMAIN s2 : s2[i].day + Hold <= s3 /\ \A j \in 1 .. i : s2[j].on
  BY DEF Down!HoldMet
<1>2. s7 <= s2[i].day
  BY <1>1 DEF Down!HistoryTells
<1>3. s2[i].day \in Nat
  <2>1. s2 \in Seq([day : 0 .. MaxDay, on : BOOLEAN])
    BY Zenon DEF Down!DownTypeOK
  <2> QED
    BY <2>1, DaysTyped
<1>4. s7 \in Nat /\ s3 \in Nat /\ Hold \in Nat
  <2>1. s7 \in 0 .. Down!Never /\ s3 \in 0 .. MaxDay
    BY Zenon DEF Down!DownTypeOK
  <2> QED
    BY <2>1, DownAssumption DEF DownAssumption, Down!Never
<1> QED
  BY <1>1, <1>2, <1>3, <1>4

LEMMA GreenRemoval ==
    ASSUME Down!DownTypeOK, Down!HistoryTells, NEW argocd, NEW mirror, NEW identity,
           NEW trailers,
           Down!RemovalGates(argocd, mirror, identity) \subseteq Down!LiftedBy(trailers)
    PROVE  /\ Down!Cascades(identity) /\ argocd = "answers" => s4
           /\ ~Down!Cascades(identity) => "teardown" \in trailers
           /\ Down!Cascades(identity) => "decommission" \in trailers \/ s7 + Hold <= s3
<1>1. /\ "not_live" \notin Down!LiftedBy(trailers)
      /\ "hold_retry" \notin Down!LiftedBy(trailers)
      /\ "orphan" \in Down!LiftedBy(trailers) => "teardown" \in trailers
      /\ "hold" \in Down!LiftedBy(trailers) => "decommission" \in trailers
      /\ "hold_unread" \in Down!LiftedBy(trailers) => "decommission" \in trailers
  BY DEF Down!LiftedBy
<1>2. ASSUME Down!Cascades(identity) PROVE argocd = "answers" => s4
  BY <1>1, <1>2 DEF Down!RemovalGates, Down!NotLive
<1>3. ASSUME ~Down!Cascades(identity) PROVE "teardown" \in trailers
  BY <1>1, <1>3 DEF Down!RemovalGates
<1>4. ASSUME Down!Cascades(identity), "decommission" \notin trailers PROVE s7 + Hold <= s3
  <2>1. Down!HoldGate(mirror) \subseteq Down!LiftedBy(trailers)
    BY <1>4 DEF Down!RemovalGates
  <2>2. Down!HoldMet
    BY <1>1, <1>4, <2>1 DEF Down!HoldGate
  <2> QED
    BY <2>2, HoldIsMet
<1> QED
  BY <1>2, <1>3, <1>4

(* The records of a pull request *)
LEMMA PrTyped ==
    ASSUME Down!DownTypeOK, s5 # Down!NoPr
    PROVE  s5 \in [kind : {"edit", "removal"}, flags : SUBSET Down!Flags,
                   trailers : SUBSET Down!Trailers, asked : BOOLEAN, cascade : BOOLEAN,
                   unread : BOOLEAN, lags : BOOLEAN,
                   verdict : {"unseen", "green", "waiting", "blocked"}]
  BY DEF Down!DownTypeOK

(* A step of the pull request alone *)
LEMMA DownQuiet ==
    ASSUME Down!DownInv, Down!There, UNCHANGED <<s1, s2, s3, s4, s6, s7>>, Down!GreenHolds',
           \/ s5' = Down!NoPr
           \/ s5' \in [kind : {"edit", "removal"}, flags : SUBSET Down!Flags,
                       trailers : SUBSET Down!Trailers, asked : BOOLEAN, cascade : BOOLEAN,
                       unread : BOOLEAN, lags : BOOLEAN,
                       verdict : {"unseen", "green", "waiting", "blocked"}]
    PROVE  Down!DownInv'
<1>1. Down!DownTypeOK'
  BY DownParts DEF Down!DownTypeOK
<1>2. Down!HistoryTells'
  BY DownParts DEF Down!HistoryTells, Down!There
<1>3. s6 = "running" /\ Down!Leaves'
  BY DownParts DEF Down!Leaves, Down!There
<1>4. Down!NoSilentOrphan' /\ Down!HoldIsServed'
  BY <1>3 DEF Down!NoSilentOrphan, Down!HoldIsServed
<1> QED
  BY <1>1, <1>2, <1>3, <1>4, Zenon DEF Down!DownInv, Down!TeardownIsServed

LEMMA DownOpen ==
    ASSUME Down!DownInv, Down!Open
    PROVE  Down!DownInv'
<1>1. PICK trailers \in SUBSET Down!Trailers :
        \/ \E flags \in (SUBSET Down!Flags) \ {s1} :
              s5' = [kind |-> "edit", flags |-> flags, trailers |-> trailers,
                     verdict |-> "unseen", asked |-> FALSE, cascade |-> FALSE,
                     unread |-> FALSE, lags |-> FALSE]
        \/ s5' = [kind |-> "removal", flags |-> {}, trailers |-> trailers,
                  verdict |-> "unseen", asked |-> FALSE, cascade |-> FALSE,
                  unread |-> FALSE, lags |-> FALSE]
  BY Zenon DEF Down!Open
<1>2. Down!There /\ UNCHANGED <<s1, s2, s3, s4, s6, s7>>
  BY Zenon DEF Down!Open
<1>3. /\ s5' \in [kind : {"edit", "removal"}, flags : SUBSET Down!Flags,
                  trailers : SUBSET Down!Trailers, asked : BOOLEAN, cascade : BOOLEAN,
                  unread : BOOLEAN, lags : BOOLEAN,
                  verdict : {"unseen", "green", "waiting", "blocked"}]
      /\ s5'.verdict = "unseen"
  <2>1. ASSUME NEW kind \in {"edit", "removal"}, NEW flags \in SUBSET Down!Flags,
               s5' = [kind |-> kind, flags |-> flags, trailers |-> trailers,
                      verdict |-> "unseen", asked |-> FALSE, cascade |-> FALSE,
                      unread |-> FALSE, lags |-> FALSE]
        PROVE  /\ s5' \in [kind : {"edit", "removal"}, flags : SUBSET Down!Flags,
                           trailers : SUBSET Down!Trailers, asked : BOOLEAN, cascade : BOOLEAN,
                           unread : BOOLEAN, lags : BOOLEAN,
                           verdict : {"unseen", "green", "waiting", "blocked"}]
               /\ s5'.verdict = "unseen"
    BY <2>1
  <2>2. CASE s5' = [kind |-> "removal", flags |-> {}, trailers |-> trailers,
                    verdict |-> "unseen", asked |-> FALSE, cascade |-> FALSE,
                    unread |-> FALSE, lags |-> FALSE]
    <3>1. {} \in SUBSET Down!Flags
      OBVIOUS
    <3> QED
      BY <2>1, <2>2, <3>1
  <2>3. ASSUME NEW flags \in (SUBSET Down!Flags) \ {s1},
               s5' = [kind |-> "edit", flags |-> flags, trailers |-> trailers,
                      verdict |-> "unseen", asked |-> FALSE, cascade |-> FALSE,
                      unread |-> FALSE, lags |-> FALSE]
        PROVE  /\ s5' \in [kind : {"edit", "removal"}, flags : SUBSET Down!Flags,
                           trailers : SUBSET Down!Trailers, asked : BOOLEAN, cascade : BOOLEAN,
                           unread : BOOLEAN, lags : BOOLEAN,
                           verdict : {"unseen", "green", "waiting", "blocked"}]
               /\ s5'.verdict = "unseen"
    BY <2>1, <2>3
  <2> QED
    BY <1>1, <2>2, <2>3
<1>4. Down!GreenHolds'
  BY <1>3 DEF Down!GreenHolds
<1> QED
  BY <1>2, <1>3, <1>4, DownQuiet

LEMMA DownEvaluate ==
    ASSUME Down!DownInv, NEW argocd \in {"answers", "fails"}, NEW mirror,
           NEW identity \in {"read", "unread"}, Down!Evaluate(argocd, mirror, identity)
    PROVE  Down!DownInv'
<1> DEFINE gates == IF s5.kind = "removal"
                      THEN Down!RemovalGates(argocd, mirror, identity)
                      ELSE Down!EditGates(s5.flags)
           verdict == Down!Verdict(gates \ Down!LiftedBy(s5.trailers))
           asked == (argocd = "answers")
           cascade == Down!Cascades(identity)
           unread == (identity = "unread")
<1>1. s5' = [s5 EXCEPT !.verdict = verdict, !.asked = asked, !.cascade = cascade,
                       !.unread = unread]
  BY Zenon DEF Down!Evaluate
<1>2. Down!There /\ s5 # Down!NoPr /\ UNCHANGED <<s1, s2, s3, s4, s6, s7>>
  BY Zenon DEF Down!Evaluate
<1>3. verdict \in {"unseen", "green", "waiting", "blocked"}
  BY VerdictTyped
<1>4. asked \in BOOLEAN /\ cascade \in BOOLEAN /\ unread \in BOOLEAN
  <2>1. asked \in BOOLEAN
    OBVIOUS
  <2>2. cascade \in BOOLEAN
    BY Zenon DEF Down!Cascades
  <2>3. unread \in BOOLEAN
    OBVIOUS
  <2> QED
    BY <2>1, <2>2, <2>3
<1>5. s5 \in [kind : {"edit", "removal"}, flags : SUBSET Down!Flags,
              trailers : SUBSET Down!Trailers, asked : BOOLEAN, cascade : BOOLEAN,
              unread : BOOLEAN, lags : BOOLEAN,
              verdict : {"unseen", "green", "waiting", "blocked"}]
  BY <1>2, PrTyped, DownParts
<1>6. ASSUME s5.kind = "removal", verdict = "green"
      PROVE  /\ cascade /\ asked => s4
             /\ ~cascade => "teardown" \in s5.trailers
             /\ cascade => "decommission" \in s5.trailers \/ s7 + Hold <= s3
  <2>1. gates \subseteq Down!LiftedBy(s5.trailers)
    BY <1>6, GreenIsClosed
  <2>2. Down!RemovalGates(argocd, mirror, identity) \subseteq Down!LiftedBy(s5.trailers)
    BY <1>6, <2>1
  <2> QED
    BY <2>2, GreenRemoval, DownParts
<1>7. cascade <=> ~unread /\ "decommission" \in s1
  BY DEF Down!Cascades
<1> HIDE DEF gates, verdict, asked, cascade, unread
<1>8. /\ s5' \in [kind : {"edit", "removal"}, flags : SUBSET Down!Flags,
                  trailers : SUBSET Down!Trailers, asked : BOOLEAN, cascade : BOOLEAN,
                  unread : BOOLEAN, lags : BOOLEAN,
                  verdict : {"unseen", "green", "waiting", "blocked"}]
      /\ s5'.kind = s5.kind /\ s5'.trailers = s5.trailers
      /\ s5'.verdict = verdict /\ s5'.asked = asked /\ s5'.cascade = cascade
      /\ s5'.unread = unread
  BY <1>1, <1>3, <1>4, <1>5
<1>9. Down!GreenHolds'
  <2>1. s1' = s1 /\ s4' = s4 /\ s7' = s7 /\ s3' = s3
    BY <1>2
  <2>2. Down!There'
    BY <1>2, <2>1 DEF Down!There
  <2> SUFFICES ASSUME s5'.kind = "removal", s5'.verdict = "green"
               PROVE  /\ s5'.cascade <=> ~s5'.unread /\ "decommission" \in s1'
                      /\ s5'.cascade /\ s5'.asked => s4'
                      /\ ~s5'.cascade => "teardown" \in s5'.trailers
                      /\ s5'.cascade => "decommission" \in s5'.trailers \/ s7' + Hold <= s3'
    BY <2>2, Zenon DEF Down!GreenHolds
  <2>3. s5.kind = "removal" /\ verdict = "green"
    BY <1>8
  <2>4. s5'.cascade <=> ~s5'.unread /\ "decommission" \in s1'
    BY <1>7, <1>8, <2>1
  <2>5. s5'.cascade /\ s5'.asked => s4'
    BY <1>6, <1>8, <2>1, <2>3, Zenon
  <2>6. ~s5'.cascade => "teardown" \in s5'.trailers
    BY <1>6, <1>8, <2>3
  <2>7. s5'.cascade => "decommission" \in s5'.trailers \/ s7' + Hold <= s3'
    BY <1>6, <1>8, <2>1, <2>3, Zenon
  <2> QED
    BY <2>4, <2>5, <2>6, <2>7, Zenon
<1> QED
  BY <1>2, <1>8, <1>9, DownQuiet

LEMMA DownConfirm ==
    ASSUME Down!DownInv, Down!Confirm
    PROVE  Down!DownInv'
<1>1. s5' = [s5 EXCEPT !.trailers = Down!Trailers, !.verdict = "unseen"]
  BY Zenon DEF Down!Confirm
<1>2. Down!There /\ s5 # Down!NoPr /\ UNCHANGED <<s1, s2, s3, s4, s6, s7>>
  BY Zenon DEF Down!Confirm
<1>3. s5 \in [kind : {"edit", "removal"}, flags : SUBSET Down!Flags,
              trailers : SUBSET Down!Trailers, asked : BOOLEAN, cascade : BOOLEAN,
              unread : BOOLEAN, lags : BOOLEAN,
              verdict : {"unseen", "green", "waiting", "blocked"}]
  BY <1>2, PrTyped, DownParts
<1>4. /\ s5' \in [kind : {"edit", "removal"}, flags : SUBSET Down!Flags,
                  trailers : SUBSET Down!Trailers, asked : BOOLEAN, cascade : BOOLEAN,
                  unread : BOOLEAN, lags : BOOLEAN,
                  verdict : {"unseen", "green", "waiting", "blocked"}]
      /\ s5'.verdict = "unseen"
  BY <1>1, <1>3
<1>5. Down!GreenHolds'
  BY <1>4 DEF Down!GreenHolds
<1> QED
  BY <1>2, <1>4, <1>5, DownQuiet

LEMMA DownAbandon ==
    ASSUME Down!DownInv, Down!Abandon
    PROVE  Down!DownInv'
<1>1. Down!There /\ s5' = Down!NoPr /\ UNCHANGED <<s1, s2, s3, s4, s6, s7>>
  BY Zenon DEF Down!Abandon
<1>2. Down!GreenHolds'
  BY <1>1 DEF Down!GreenHolds, Down!NoPr
<1> QED
  BY <1>1, <1>2, DownQuiet

(* The history with the commit of a merged pull request in front *)
LEMMA Prepended ==
    ASSUME NEW h \in Seq([day : 0 .. MaxDay, on : BOOLEAN]), NEW e, NEW new,
           e \in [day : 0 .. MaxDay, on : BOOLEAN], new = <<e>> \o h
    PROVE  /\ new \in Seq([day : 0 .. MaxDay, on : BOOLEAN])
           /\ new[1] = e /\ 1 \in DOMAIN new
           /\ \A i \in DOMAIN new : i # 1 => i - 1 \in DOMAIN h /\ new[i] = h[i - 1]
           /\ \A i \in DOMAIN h : i + 1 \in DOMAIN new /\ new[i + 1] = h[i]
  OBVIOUS

LEMMA DownEdit ==
    ASSUME Down!DownInv, Down!Merge, s5.kind = "edit"
    PROVE  Down!DownInv'
<1> DEFINE e == [day |-> s3, on |-> Down!Counts(s5.flags)]
<1>1. /\ s1' = s5.flags /\ s2' = <<e>> \o s2 /\ s5' = Down!NoPr
      /\ s7' = IF ~Down!Counts(s5.flags) THEN Down!Never
               ELSE IF Down!Counts(s1) THEN s7 ELSE s3
  BY Zenon DEF Down!Merge
<1>2. Down!There /\ s5 # Down!NoPr /\ UNCHANGED <<s3, s4, s6>>
  BY Zenon DEF Down!Merge
<1>3. /\ Down!DownTypeOK /\ Down!HistoryTells /\ Down!Leaves
  BY DownParts
<1>4. s5.flags \in SUBSET Down!Flags
  BY <1>2, <1>3, PrTyped
<1>5. Down!Counts(s5.flags) \in BOOLEAN /\ Down!Counts(s1) \in BOOLEAN
  BY CountsTyped
<1>6. /\ s2 \in Seq([day : 0 .. MaxDay, on : BOOLEAN]) /\ s3 \in 0 .. MaxDay
      /\ s7 \in 0 .. Down!Never /\ Down!Never = MaxDay + 1 /\ MaxDay \in Nat
  BY <1>3, DownAssumption DEF Down!DownTypeOK, Down!Never, DownAssumption
<1>7. /\ e \in [day : 0 .. MaxDay, on : BOOLEAN]
      /\ e.day = s3 /\ e.on = Down!Counts(s5.flags)
  BY <1>5, <1>6
<1> HIDE DEF e
<1>8. /\ s2' \in Seq([day : 0 .. MaxDay, on : BOOLEAN])
      /\ s2'[1] = e /\ 1 \in DOMAIN s2'
      /\ \A i \in DOMAIN s2' : i # 1 => i - 1 \in DOMAIN s2 /\ s2'[i] = s2[i - 1]
      /\ \A i \in DOMAIN s2 : i + 1 \in DOMAIN s2' /\ s2'[i + 1] = s2[i]
  BY <1>1, <1>6, <1>7, Prepended
<1>9. s7' \in 0 .. Down!Never
  BY <1>1, <1>6
<1>10. Down!DownTypeOK'
  BY <1>1, <1>2, <1>3, <1>4, <1>8, <1>9 DEF Down!DownTypeOK, Down!Never
<1>11. Down!There' /\ s6 = "running"
  BY <1>1, <1>2, <1>3, <1>4, FlagsAreThere DEF Down!There, Down!Leaves
<1>12. Down!HistoryTells'
  <2>1. ASSUME NEW i \in DOMAIN s2' PROVE s2'[i].day <= s3
    <3>1. CASE i = 1
      BY <1>6, <1>7, <1>8, <3>1
    <3>2. CASE i # 1
      BY <1>3, <1>8, <3>2 DEF Down!HistoryTells
    <3> QED
      BY <3>1, <3>2
  <2>2. ASSUME NEW i \in DOMAIN s2', \A j \in 1 .. i : s2'[j].on PROVE s7' <= s2'[i].day
    <3>1. i \in Nat \ {0}
      BY <1>8
    <3>2. s2'[1].on
      BY <2>2, <3>1
    <3>3. Down!Counts(s5.flags)
      BY <1>7, <1>8, <3>2
    <3>4. s7' = IF Down!Counts(s1) THEN s7 ELSE s3
      BY <1>1, <3>3
    <3>5. s2[1].on = Down!Counts(s1)
      BY <1>2, <1>3 DEF Down!HistoryTells
    <3>6. CASE i = 1
      <4>1. s7' <= s3
        <5>1. CASE Down!Counts(s1)
          <6>1. s2'[i].day = s3
            BY <1>7, <1>8, <3>6
          <6>2. 1 \in DOMAIN s2
            BY <1>3, <1>6 DEF Down!HistoryTells
          <6>3. s7 <= s2[1].day
            <7>1. \A j \in 1 .. 1 : j = 1
              OBVIOUS
            <7>2. \A j \in 1 .. 1 : s2[j].on
              BY <3>5, <5>1, <7>1, Zenon
            <7> QED
              BY <1>3, <6>2, <7>2, Zenon DEF Down!HistoryTells
          <6>4. s2[1].day <= s3
            BY <1>3, <6>2, Zenon DEF Down!HistoryTells
          <6>5. s2[1].day \in Nat
            BY <1>6, <6>2, DaysTyped
          <6> QED
            BY <1>6, <3>4, <5>1, <6>3, <6>4, <6>5
        <5>2. CASE ~Down!Counts(s1)
          BY <1>6, <3>4, <5>2
        <5> QED
          BY <5>1, <5>2
      <4> QED
        BY <1>7, <1>8, <3>6, <4>1
    <3>7. CASE i # 1
      <4>1. i - 1 \in DOMAIN s2 /\ s2'[i] = s2[i - 1]
        BY <1>8, <3>7
      <4>2. ASSUME NEW j \in 1 .. i - 1 PROVE s2[j].on
        <5>1. j \in DOMAIN s2
          BY <1>6, <4>1
        <5>2. j + 1 \in 1 .. i /\ s2'[j + 1] = s2[j]
          BY <1>8, <3>1, <5>1
        <5> QED
          BY <2>2, <5>2
      <4>3. s7 <= s2[i - 1].day
        BY <1>3, <4>1, <4>2 DEF Down!HistoryTells
      <4>4. Down!Counts(s1)
        BY <3>1, <3>5, <3>7, <4>2
      <4> QED
        BY <3>4, <4>1, <4>3, <4>4
    <3> QED
      BY <3>6, <3>7
  <2>3. s2'[1].on = Down!Counts(s1')
    BY <1>1, <1>7, <1>8
  <2> QED
    BY <1>2, <1>8, <2>1, <2>2, <2>3 DEF Down!HistoryTells, Down!Counts
<1>13. Down!GreenHolds'
  BY <1>1 DEF Down!GreenHolds, Down!NoPr
<1>14. Down!Leaves' /\ Down!NoSilentOrphan' /\ Down!HoldIsServed'
  BY <1>2, <1>11 DEF Down!Leaves, Down!There, Down!NoSilentOrphan, Down!HoldIsServed
<1> QED
  BY <1>10, <1>12, <1>13, <1>14, Zenon DEF Down!DownInv, Down!TeardownIsServed

LEMMA DownRemoval ==
    ASSUME Down!DownInv, Down!Merge, s5.kind # "edit"
    PROVE  Down!DownInv'
<1> DEFINE lags == s4 /\ "decommission" \notin s1
<1>1. /\ s1' = Down!Removed /\ UNCHANGED <<s2, s3, s4, s6, s7>>
      /\ s5' = [s5 EXCEPT !.lags = lags]
  BY Zenon DEF Down!Merge
<1>2. Down!There /\ s5 # Down!NoPr /\ s5.verdict = "green"
  BY Zenon DEF Down!Merge
<1>3. s5 \in [kind : {"edit", "removal"}, flags : SUBSET Down!Flags,
              trailers : SUBSET Down!Trailers, asked : BOOLEAN, cascade : BOOLEAN,
              unread : BOOLEAN, lags : BOOLEAN,
              verdict : {"unseen", "green", "waiting", "blocked"}]
  BY <1>2, PrTyped, DownParts
<1>4. lags \in BOOLEAN /\ (lags <=> s4 /\ "decommission" \notin s1)
  OBVIOUS
<1> HIDE DEF lags
<1>5. /\ s5' \in [kind : {"edit", "removal"}, flags : SUBSET Down!Flags,
                  trailers : SUBSET Down!Trailers, asked : BOOLEAN, cascade : BOOLEAN,
                  unread : BOOLEAN, lags : BOOLEAN,
                  verdict : {"unseen", "green", "waiting", "blocked"}]
      /\ s5.kind = "removal" /\ s5'.kind = "removal" /\ s5'.verdict = "green"
      /\ s5'.trailers = s5.trailers /\ s5'.asked = s5.asked /\ s5'.cascade = s5.cascade
      /\ s5'.unread = s5.unread /\ s5'.lags = lags
  BY <1>1, <1>2, <1>3, <1>4
<1>6. Down!DownTypeOK'
  BY <1>1, <1>5, DownParts DEF Down!DownTypeOK, Down!Removed
<1>7. ~Down!There'
  BY <1>1 DEF Down!There, Down!Removed
<1>8. Down!HistoryTells'
  BY <1>1, <1>7, DownParts DEF Down!HistoryTells
<1>9. Down!GreenHolds'
  <2>1. /\ s5.cascade <=> ~s5.unread /\ "decommission" \in s1
        /\ s5.cascade /\ s5.asked => s4
        /\ ~s5.cascade => "teardown" \in s5.trailers
        /\ s5.cascade => "decommission" \in s5.trailers \/ s7 + Hold <= s3
    BY <1>2, <1>5, DownParts DEF Down!GreenHolds
  <2>2. ~s5.cascade /\ s4 => s5.unread \/ lags
    BY <1>4, <2>1
  <2> QED
    BY <1>1, <1>5, <1>7, <2>1, <2>2 DEF Down!GreenHolds
<1>10. Down!Leaves'
  BY <1>5, <1>7 DEF Down!Leaves
<1>11. s6' = "running"
  BY <1>1, <1>2, DownParts DEF Down!Leaves
<1>12. Down!NoSilentOrphan' /\ Down!HoldIsServed'
  BY <1>11 DEF Down!NoSilentOrphan, Down!HoldIsServed
<1> QED
  BY <1>6, <1>8, <1>9, <1>10, <1>12, Zenon DEF Down!DownInv, Down!TeardownIsServed

LEMMA DownFinalizer ==
    ASSUME Down!DownInv, Down!ApplyFinalizer
    PROVE  Down!DownInv'
<1>1. /\ Down!There /\ s4' = ("decommission" \in s1)
      /\ UNCHANGED <<s1, s2, s3, s5, s6, s7>>
  BY Zenon DEF Down!ApplyFinalizer
<1>2. s4' \in BOOLEAN
  <2>1. ("decommission" \in s1) \in BOOLEAN
    OBVIOUS
  <2> QED
    BY <1>1, <2>1
<1>3. Down!DownTypeOK'
  BY <1>1, <1>2, DownParts DEF Down!DownTypeOK
<1>4. Down!HistoryTells' /\ Down!Leaves' /\ Down!NoSilentOrphan' /\ Down!HoldIsServed'
  BY <1>1, DownParts DEF Down!HistoryTells, Down!Leaves, Down!There, Down!NoSilentOrphan,
     Down!HoldIsServed
<1>5. Down!GreenHolds'
  BY <1>1, DownParts DEF Down!GreenHolds, Down!There
<1> QED
  BY <1>3, <1>4, <1>5, Zenon DEF Down!DownInv, Down!TeardownIsServed

LEMMA DownPrune ==
    ASSUME Down!DownInv, Down!Prune
    PROVE  Down!DownInv'
<1>1. /\ ~Down!There /\ s6' = IF s4 THEN "deleted" ELSE "orphaned"
      /\ UNCHANGED <<s1, s2, s3, s4, s5, s7>>
  BY Zenon DEF Down!Prune
<1>2. s5.kind = "removal" /\ s5.verdict = "green"
  BY <1>1, DownParts DEF Down!Leaves
<1>3. /\ s5.cascade /\ s5.asked => s4
      /\ ~s5.cascade => "teardown" \in s5.trailers
      /\ s5.cascade => "decommission" \in s5.trailers \/ s7 + Hold <= s3
      /\ ~s5.cascade /\ s4 => s5.unread \/ s5.lags
  BY <1>1, <1>2, DownParts DEF Down!GreenHolds
<1>4. Down!DownTypeOK'
  BY <1>1, DownParts DEF Down!DownTypeOK
<1>5. Down!HistoryTells' /\ Down!GreenHolds' /\ Down!Leaves'
  BY <1>1, <1>2, DownParts DEF Down!HistoryTells, Down!GreenHolds, Down!Leaves, Down!There
<1>6. Down!NoSilentOrphan'
  BY <1>1, <1>3 DEF Down!NoSilentOrphan
<1>7. Down!HoldIsServed'
  BY <1>1, <1>3 DEF Down!HoldIsServed
<1> QED
  BY <1>4, <1>5, <1>6, <1>7, Zenon DEF Down!DownInv, Down!TeardownIsServed

LEMMA DownDay ==
    ASSUME Down!DownInv, Down!NextDay
    PROVE  Down!DownInv'
<1>1. Down!There /\ s3 < MaxDay /\ s3' = s3 + 1 /\ UNCHANGED <<s1, s2, s4, s5, s6, s7>>
  BY Zenon DEF Down!NextDay
<1>2. /\ s2 \in Seq([day : 0 .. MaxDay, on : BOOLEAN]) /\ s3 \in 0 .. MaxDay
      /\ s7 \in 0 .. Down!Never /\ Down!Never = MaxDay + 1 /\ MaxDay \in Nat /\ Hold \in Nat
  BY DownParts, DownAssumption DEF Down!DownTypeOK, Down!Never, DownAssumption
<1>3. s3' \in 0 .. MaxDay
  BY <1>1, <1>2
<1>4. Down!DownTypeOK'
  BY <1>1, <1>3, DownParts DEF Down!DownTypeOK
<1>5. ASSUME NEW i \in DOMAIN s2 PROVE s2[i].day <= s3'
  <2>1. s2[i].day \in Nat
    BY <1>2, DaysTyped
  <2>2. s2[i].day <= s3
    BY Zenon, DownParts DEF Down!HistoryTells
  <2> QED
    BY <1>1, <1>2, <2>1, <2>2
<1>6. Down!HistoryTells'
  BY <1>1, <1>5, DownParts DEF Down!HistoryTells, Down!There
<1>7. s7 + Hold <= s3 => s7 + Hold <= s3'
  BY <1>1, <1>2
<1>8. Down!GreenHolds'
  BY <1>1, <1>7, DownParts DEF Down!GreenHolds, Down!There
<1>9. s6 = "running" /\ Down!Leaves'
  BY <1>1, DownParts DEF Down!Leaves, Down!There
<1>10. Down!NoSilentOrphan' /\ Down!HoldIsServed'
  BY <1>1, <1>9 DEF Down!NoSilentOrphan, Down!HoldIsServed
<1> QED
  BY <1>4, <1>6, <1>8, <1>9, <1>10, Zenon DEF Down!DownInv, Down!TeardownIsServed

LEMMA DownKept ==
    ASSUME Down!DownInv, [Down!DownNext]_(Down!downVars)
    PROVE  Down!DownInv'
<1>1. CASE UNCHANGED Down!downVars
  <2>1. UNCHANGED <<s1, s2, s3, s4, s5, s6, s7>>
    BY <1>1 DEF Down!downVars
  <2>2. Down!DownTypeOK'
    BY <2>1, DownParts DEF Down!DownTypeOK
  <2>3. Down!HistoryTells' /\ Down!GreenHolds' /\ Down!Leaves'
    BY <2>1, DownParts DEF Down!HistoryTells, Down!GreenHolds, Down!Leaves, Down!There
  <2>4. Down!NoSilentOrphan' /\ Down!HoldIsServed'
    BY <2>1, DownParts DEF Down!NoSilentOrphan, Down!HoldIsServed
  <2> QED
    BY <2>2, <2>3, <2>4, Zenon DEF Down!DownInv, Down!TeardownIsServed
<1>2. CASE Down!Merge
  BY <1>2, DownEdit, DownRemoval
<1>3. ASSUME NEW argocd \in {"answers", "fails"},
             NEW mirror \in {"ready", "unready", "unreadable"},
             NEW identity \in {"read", "unread"}, Down!Evaluate(argocd, mirror, identity)
      PROVE  Down!DownInv'
  BY <1>3, DownEvaluate
<1> QED
  BY <1>1, <1>2, <1>3, DownOpen, DownConfirm, DownAbandon, DownFinalizer, DownPrune, DownDay
  DEF Down!DownNext

LEMMA DownAlways == ChangesSpec => [](part = "teardown" => Down!DownInv)
<1> DEFINE I == part = "teardown" => Down!DownInv
<1>1. ChangesInit => I
  BY DownStart
<1>2. I /\ [ChangesNext]_all => I'
  <2> SUFFICES ASSUME I, [ChangesNext]_all, (part = "teardown")' PROVE Down!DownInv'
    OBVIOUS
  <2>1. part = "teardown"
    BY DEF ChangesNext, all
  <2> QED
    BY <2>1, DownGo, DownKept
<1> QED
  BY <1>1, <1>2, PTL DEF ChangesSpec

(* A teardown serves its hold and says what it orphans, but for the two        *)
(* deletions the gates cannot see                                             *)
(* (_evaluate_env_decommissions)                                              *)
THEOREM TeardownsAreServed == ChangesSpec => []TeardownIsServed
<1>1. (part = "teardown" => Down!DownInv) => TeardownIsServed
  BY DEF Down!DownInv, TeardownIsServed
<1> QED
  BY <1>1, DownAlways, PTL

-----------------------------------------------------------------------------
(* Clones and the ASHN map: FleetGates *)

LEMMA FleetGo ==
    ASSUME part = "fleet", [ChangesNext]_all
    PROVE  [Fleet!FleetNext]_(Fleet!fleetVars)
  BY DEF ChangesNext, SlotStep, all, slots, Fleet!fleetVars

LEMMA FleetStart ==
    ASSUME ChangesInit, part = "fleet"
    PROVE  Fleet!FleetInv
<1>1. Fleet!FleetInit
  BY DEF ChangesInit
<1>2. /\ s1 \in [folder : {[f \in Folders |-> Fleet!NoContents]},
                 config : [Fleet!Range(ConfigOf) -> Configs]]
      /\ s2 = 0 /\ s3 = {} /\ s4 = FALSE
  BY <1>1, Zenon DEF Fleet!FleetInit
<1>3. s1 \in Fleet!Fleets /\ s1.folder = [f \in Folders |-> Fleet!NoContents]
  BY <1>2 DEF Fleet!Fleets
<1>4. 0 \in 0 .. MaxGreen
  BY FleetAssumption DEF FleetAssumption
<1>5. Fleet!FleetTypeOK
  BY <1>2, <1>3, <1>4 DEF Fleet!FleetTypeOK
<1>6. Fleet!Filed(s1) = {}
  BY <1>3 DEF Fleet!Filed, Fleet!Is
<1> QED
  BY <1>2, <1>5, <1>6 DEF Fleet!FleetInv, Fleet!FleetIsSafe, Fleet!NoCloneWakesUnseen,
     Fleet!MapIsPublishable

(* A commit with a few files changed *)
LEMMA FleetEditTyped ==
    ASSUME s1 \in Fleet!Fleets, NEW head \in Fleet!Edits
    PROVE  head \in Fleet!Fleets
<1> DEFINE F == Contents \cup {Fleet!NoContents}
           K == Fleet!Range(ConfigOf)
<1>1. PICK few \in (SUBSET Folders) \X (SUBSET K) : head \in Fleet!Changing(few)
  BY DEF Fleet!Edits
<1>2. PICK fs \in [few[1] -> F], cs \in [few[2] -> Configs] :
        head = [folder |-> Fleet!Edited(s1.folder, fs), config |-> Fleet!Edited(s1.config, cs)]
  BY <1>1 DEF Fleet!Changing
<1>3. few[1] \subseteq Folders /\ few[2] \subseteq K
  OBVIOUS
<1>4. s1.folder \in [Folders -> F] /\ s1.config \in [K -> Configs]
  BY DEF Fleet!Fleets
<1> HIDE DEF F, K
<1>5. Fleet!Edited(s1.folder, fs) \in [Folders -> F]
  BY <1>3, <1>4 DEF Fleet!Edited
<1>6. Fleet!Edited(s1.config, cs) \in [K -> Configs]
  BY <1>3, <1>4 DEF Fleet!Edited
<1> QED
  BY <1>2, <1>5, <1>6 DEF Fleet!Fleets, F, K

(* A rename leads from a removed environment to an added one of its customer *)
LEMMA RenamesPair ==
    ASSUME NEW pr, pr.renames \in Fleet!Renames(pr.head)
    PROVE  /\ \A o \in Fleet!Sources(pr) :
                /\ o \in Folders /\ Fleet!Is(s1, o) /\ ~Fleet!Is(pr.head, o)
                /\ pr.renames[o] \in Folders /\ ~Fleet!Is(s1, pr.renames[o])
                /\ Fleet!Is(pr.head, pr.renames[o])
                /\ s1.folder[o].customer = pr.head.folder[pr.renames[o]].customer
           /\ \A f : \/ Fleet!Was(pr, f) = f /\ f \notin Fleet!Range(pr.renames)
                     \/ Fleet!Was(pr, f) \in Fleet!Sources(pr) /\ pr.renames[Fleet!Was(pr, f)] = f
<1>1. \A o \in Fleet!Sources(pr) :
         /\ o \in Folders /\ Fleet!Is(s1, o) /\ ~Fleet!Is(pr.head, o)
         /\ pr.renames[o] \in Folders /\ ~Fleet!Is(s1, pr.renames[o])
         /\ Fleet!Is(pr.head, pr.renames[o])
         /\ s1.folder[o].customer = pr.head.folder[pr.renames[o]].customer
  BY DEF Fleet!Renames, Fleet!Sources, Fleet!Filed
<1>2. ASSUME NEW f
      PROVE  \/ Fleet!Was(pr, f) = f /\ f \notin Fleet!Range(pr.renames)
             \/ Fleet!Was(pr, f) \in Fleet!Sources(pr) /\ pr.renames[Fleet!Was(pr, f)] = f
  BY DEF Fleet!Was, Fleet!Sources, Fleet!Range
<1> QED
  BY <1>1, <1>2

(* A folder the pull request leaves alone is the same on both sides *)
LEMMA Untouched ==
    ASSUME NEW pr, NEW f \in Folders, f \notin Fleet!Touched(pr)
    PROVE  s1.folder[f] = pr.head.folder[f] /\ (Fleet!Is(s1, f) <=> Fleet!Is(pr.head, f))
  BY DEF Fleet!Touched, Fleet!Is

(* A clone that wakes is seen *)
LEMMA WakesAreSeen ==
    ASSUME NEW pr, pr.renames \in Fleet!Renames(pr.head),
           NEW live, Fleet!Filed(s1) \subseteq live,
           NEW f \in Clones \cap Folders,
           Fleet!Is(pr.head, f), ~Fleet!Asleep(pr.head, f),
           Fleet!Was(pr, f) \in live =>
             Fleet!Is(s1, Fleet!Was(pr, f)) /\ Fleet!Asleep(s1, Fleet!Was(pr, f))
    PROVE  f \in Fleet!CloneWakes(pr, live)
<1>1. f \notin Fleet!Sources(pr)
  BY RenamesPair
<1>2. CASE f \in Fleet!Range(pr.renames)
  <2>1. PICK o \in Fleet!Sources(pr) : o = Fleet!Was(pr, f) /\ pr.renames[o] = f
    BY <1>2, RenamesPair
  <2>2. o \in Folders /\ Fleet!Is(s1, o) /\ ~Fleet!Is(s1, f)
    BY <2>1, RenamesPair
  <2>3. o \in live /\ o # f
    BY <2>2 DEF Fleet!Filed
  <2>4. f \in Fleet!Touched(pr)
    BY <2>2, Untouched
  <2>5. f \notin Fleet!NewClones(pr, live)
    BY <1>2 DEF Fleet!NewClones
  <2>6. f \in Fleet!ChangedClones(pr, live)
    BY <1>1, <2>1, <2>3, <2>4, <2>5 DEF Fleet!ChangedClones
  <2> QED
    BY <2>1, <2>3, <2>6 DEF Fleet!CloneWakes
<1>3. CASE f \notin Fleet!Range(pr.renames)
  <2>1. Fleet!Was(pr, f) = f
    BY <1>3, RenamesPair DEF Fleet!Range, Fleet!Sources
  <2>2. CASE f \notin live
    <3>1. f \in Fleet!Touched(pr)
      BY <2>2, Untouched DEF Fleet!Filed
    <3>2. f \in Fleet!NewClones(pr, live)
      BY <1>3, <2>2, <3>1 DEF Fleet!NewClones
    <3> QED
      BY <3>2 DEF Fleet!CloneWakes
  <2>3. CASE f \in live
    <3>1. Fleet!Is(s1, f) /\ Fleet!Asleep(s1, f) /\ f \notin Fleet!NewClones(pr, live)
      BY <2>1, <2>3 DEF Fleet!NewClones
    <3>2. CASE pr.head.folder[f].zeroPods # s1.folder[f].zeroPods
      <4>1. f \in Fleet!Touched(pr)
        BY <3>2, Untouched
      <4>2. f \in Fleet!ChangedClones(pr, live)
        BY <1>1, <2>1, <2>3, <3>1, <3>2, <4>1 DEF Fleet!ChangedClones
      <4> QED
        BY <2>1, <3>1, <4>2 DEF Fleet!CloneWakes
    <3>3. CASE pr.head.folder[f].zeroPods = s1.folder[f].zeroPods
      <4>1. s1.config[ConfigOf[f]].zeroPods # pr.head.config[ConfigOf[f]].zeroPods
        BY <3>1, <3>3 DEF Fleet!Asleep
      <4>2. f \in Fleet!ClonesBelow(pr, live)
        BY <1>1, <2>3, <4>1 DEF Fleet!ClonesBelow, Fleet!Gone
      <4> QED
        BY <2>1, <3>1, <4>2 DEF Fleet!CloneWakes
    <3> QED
      BY <3>2, <3>3
  <2> QED
    BY <2>2, <2>3
<1> QED
  BY <1>2, <1>3

(* With every file read, what is compared is the fleet after the merge *)
LEMMA CensusIsComplete ==
    ASSUME NEW pr, pr.renames \in Fleet!Renames(pr.head),
           NEW live, Fleet!Filed(s1) \subseteq live, NEW f \in Fleet!Filed(pr.head)
    PROVE  /\ f \in DOMAIN Fleet!Census(pr, live, {})
           /\ Fleet!Census(pr, live, {})[f] = pr.head.folder[f]
<1>1. f \in Folders /\ f \notin Fleet!Sources(pr)
  BY RenamesPair DEF Fleet!Filed
<1>2. f \in Fleet!Touched(pr) \cup ((live \cap Fleet!Filed(s1)) \ ({} \cup Fleet!Sources(pr)))
  <2>1. CASE f \notin Fleet!Touched(pr)
    BY <1>1, <2>1, Untouched DEF Fleet!Filed
  <2> QED
    BY <2>1
<1>3. f \in Fleet!Touched(pr) \/ s1.folder[f] = pr.head.folder[f]
  BY <1>1, Untouched
<1> QED
  BY <1>2, <1>3 DEF Fleet!Census

(* An ashn that is not new was there before, for the same customer *)
LEMMA OldAshns ==
    ASSUME NEW pr, pr.renames \in Fleet!Renames(pr.head), Fleet!KeepsCustomers(pr.head),
           NEW f \in Fleet!Filed(pr.head), Fleet!HasRow(pr.head, f), f \notin Fleet!NewAshns(pr)
    PROVE  /\ Fleet!Was(pr, f) \in Fleet!Filed(s1) /\ Fleet!HasRow(s1, Fleet!Was(pr, f))
           /\ s1.folder[Fleet!Was(pr, f)].ashn = pr.head.folder[f].ashn
           /\ s1.folder[Fleet!Was(pr, f)].customer = pr.head.folder[f].customer
<1> DEFINE w == Fleet!Was(pr, f)
<1>1. f \in Folders /\ Fleet!Is(pr.head, f) /\ f \notin Fleet!Sources(pr)
  BY RenamesPair DEF Fleet!Filed
<1>2. /\ \A o \in Fleet!Sources(pr) :
           /\ o \in Folders /\ Fleet!Is(s1, o) /\ ~Fleet!Is(s1, pr.renames[o])
           /\ s1.folder[o].customer = pr.head.folder[pr.renames[o]].customer
      /\ \/ w = f /\ f \notin Fleet!Range(pr.renames)
         \/ w \in Fleet!Sources(pr) /\ pr.renames[w] = f
  BY RenamesPair
<1> HIDE DEF w
<1>3. CASE f \notin Fleet!Touched(pr)
  <2>1. w = f /\ Fleet!Is(s1, f) /\ s1.folder[f] = pr.head.folder[f]
    BY <1>1, <1>2, <1>3, Untouched
  <2> QED
    BY <1>1, <2>1 DEF w, Fleet!Filed, Fleet!HasRow
<1>4. CASE f \in Fleet!Touched(pr)
  <2>1. s1.folder[w].ashn = pr.head.folder[f].ashn /\ Fleet!HasRow(s1, w)
    BY <1>1, <1>4 DEF w, Fleet!NewAshns, Fleet!HasRow
  <2>2. CASE w \in Fleet!Sources(pr) /\ pr.renames[w] = f
    BY <1>2, <2>1, <2>2 DEF w, Fleet!Filed
  <2>3. CASE w = f
    <3>1. Fleet!Is(s1, f)
      BY <2>1, <2>3 DEF Fleet!Is, Fleet!HasRow, Fleet!NoContents
    <3>2. s1.folder[f].customer = pr.head.folder[f].customer
      BY <1>1, <3>1 DEF Fleet!KeepsCustomers, Fleet!Filed
    <3> QED
      BY <1>1, <2>1, <2>3, <3>1, <3>2 DEF w, Fleet!Filed
  <2> QED
    BY <1>2, <2>2, <2>3
<1> QED
  BY <1>3, <1>4

(* An entry no candidate touches was there before, as it is *)
LEMMA OldEntries ==
    ASSUME NEW pr, pr.renames \in Fleet!Renames(pr.head),
           NEW live, Fleet!Filed(s1) \subseteq live,
           NEW f \in Fleet!Filed(pr.head), Fleet!HasRow(pr.head, f),
           f \notin Fleet!MapCandidates(pr, live)
    PROVE  /\ f \in Fleet!Filed(s1)
           /\ s1.folder[f].ashn = pr.head.folder[f].ashn
           /\ s1.folder[f].host = pr.head.folder[f].host
           /\ Fleet!Zone(s1, f) = Fleet!Zone(pr.head, f)
<1>1. f \in Folders /\ Fleet!Is(pr.head, f) /\ f \notin Fleet!Sources(pr)
  BY RenamesPair DEF Fleet!Filed
<1>2. /\ s1.folder[f].ashn = pr.head.folder[f].ashn
      /\ s1.folder[f].host = pr.head.folder[f].host
  <2>1. CASE f \notin Fleet!Touched(pr)
    BY <1>1, <2>1, Untouched
  <2>2. CASE f \in Fleet!Touched(pr)
    BY <1>1, <2>2 DEF Fleet!MapCandidates
  <2> QED
    BY <2>1, <2>2
<1>3. Fleet!Is(s1, f)
  BY <1>2 DEF Fleet!Is, Fleet!HasRow, Fleet!NoContents
<1>4. f \in Fleet!Filed(s1)
  BY <1>1, <1>3 DEF Fleet!Filed
<1>5. Fleet!Zone(s1, f) = Fleet!Zone(pr.head, f)
  BY <1>1, <1>4 DEF Fleet!MapCandidates
<1> QED
  BY <1>2, <1>4, <1>5

LEMMA ContradictTells ==
    ASSUME NEW commit, NEW f, NEW g, Fleet!Contradict(commit, f, g)
    PROVE  /\ commit.folder[f].ashn = commit.folder[g].ashn
           /\ Fleet!HasRow(commit, f) /\ Fleet!HasRow(commit, g) /\ f # g
           /\ f \in Folders => f \in Fleet!Filed(commit)
           /\ g \in Folders => g \in Fleet!Filed(commit)
           /\ Fleet!Contradict(commit, g, f)
  BY DEF Fleet!Contradict, Fleet!HasHost, Fleet!Filed, Fleet!Is, Fleet!HasRow, Fleet!NoContents

LEMMA ConflictsAreSeen ==
    ASSUME Fleet!FleetTypeOK, NEW pr, pr.renames \in Fleet!Renames(pr.head),
           Fleet!KeepsCustomers(pr.head), NEW live, Fleet!Filed(s1) \subseteq live,
           Fleet!AshnTaken(pr, live, {}) = {}, Fleet!TwoHosts(pr, live, {}) = {},
           \A f, g \in Fleet!Filed(s1) :
              s1.folder[f].ashn = s1.folder[g].ashn /\ Fleet!HasRow(s1, f) =>
                /\ s1.folder[f].customer = s1.folder[g].customer
                /\ ~Fleet!Contradict(s1, f, g),
           NEW f \in Fleet!Filed(pr.head), NEW g \in Fleet!Filed(pr.head),
           pr.head.folder[f].ashn = pr.head.folder[g].ashn, Fleet!HasRow(pr.head, f)
    PROVE  /\ pr.head.folder[f].customer = pr.head.folder[g].customer
           /\ ~Fleet!Contradict(pr.head, f, g)
<1>1. Fleet!HasRow(pr.head, g) /\ f \in Folders /\ g \in Folders
  BY DEF Fleet!HasRow, Fleet!Filed
<1> DEFINE census == Fleet!Census(pr, live, {})
<1>2. /\ f \in DOMAIN census /\ census[f] = pr.head.folder[f]
      /\ g \in DOMAIN census /\ census[g] = pr.head.folder[g]
  BY CensusIsComplete
<1> HIDE DEF census
<1>3. pr.head.folder[f].customer = pr.head.folder[g].customer
  <2>1. CASE f \in Fleet!NewAshns(pr)
    BY <1>2, <2>1 DEF Fleet!AshnTaken, census
  <2>2. CASE g \in Fleet!NewAshns(pr)
    BY <1>2, <2>2 DEF Fleet!AshnTaken, census
  <2>3. CASE f \notin Fleet!NewAshns(pr) /\ g \notin Fleet!NewAshns(pr)
    <3>1. PICK w : w = Fleet!Was(pr, f)
      OBVIOUS
    <3>2. PICK v : v = Fleet!Was(pr, g)
      OBVIOUS
    <3>3. /\ w \in Fleet!Filed(s1) /\ Fleet!HasRow(s1, w)
          /\ s1.folder[w].ashn = pr.head.folder[f].ashn
          /\ s1.folder[w].customer = pr.head.folder[f].customer
      BY <2>3, <3>1, OldAshns
    <3>4. /\ v \in Fleet!Filed(s1)
          /\ s1.folder[v].ashn = pr.head.folder[g].ashn
          /\ s1.folder[v].customer = pr.head.folder[g].customer
      BY <1>1, <2>3, <3>2, OldAshns
    <3> QED
      BY <3>3, <3>4
  <2> QED
    BY <2>1, <2>2, <2>3
<1>4. ASSUME Fleet!Contradict(pr.head, f, g) PROVE FALSE
  <2>1. f # g /\ Fleet!Contradict(pr.head, g, f)
    BY <1>4, ContradictTells
  <2>2. \A x, y : Fleet!Contradict(s1, x, y) /\ x \in Folders /\ y \in Folders => FALSE
    BY ContradictTells
  <2>3. \A x \in Folders : Fleet!Was(pr, x) \in Folders
    BY RenamesPair
  <2>4. CASE f \in Fleet!MapCandidates(pr, live)
    <3>1. Fleet!Contradict(s1, Fleet!Was(pr, f), Fleet!Was(pr, g))
      BY <1>2, <1>4, <2>1, <2>4 DEF Fleet!TwoHosts, census
    <3> QED
      BY <1>1, <2>2, <2>3, <3>1
  <2>5. CASE g \in Fleet!MapCandidates(pr, live)
    <3>1. Fleet!Contradict(s1, Fleet!Was(pr, g), Fleet!Was(pr, f))
      BY <1>2, <2>1, <2>5 DEF Fleet!TwoHosts, census
    <3> QED
      BY <1>1, <2>2, <2>3, <3>1
  <2>6. CASE f \notin Fleet!MapCandidates(pr, live) /\ g \notin Fleet!MapCandidates(pr, live)
    <3>1. /\ s1.folder[f].ashn = pr.head.folder[f].ashn
          /\ s1.folder[f].host = pr.head.folder[f].host
          /\ Fleet!Zone(s1, f) = Fleet!Zone(pr.head, f)
      BY <2>6, OldEntries
    <3>2. /\ s1.folder[g].ashn = pr.head.folder[g].ashn
          /\ s1.folder[g].host = pr.head.folder[g].host
          /\ Fleet!Zone(s1, g) = Fleet!Zone(pr.head, g)
      BY <1>1, <2>6, OldEntries
    <3>3. Fleet!Contradict(s1, f, g)
      BY <1>4, <3>1, <3>2 DEF Fleet!Contradict, Fleet!HasHost, Fleet!HasRow, Fleet!Host
    <3> QED
      BY <1>1, <2>2, <3>3
  <2> QED
    BY <2>4, <2>5, <2>6
<1> QED
  BY <1>3, <1>4

LEMMA FleetMerges ==
    ASSUME Fleet!FleetInv, Fleet!MergeGreen, Clones \subseteq Folders
    PROVE  Fleet!FleetInv'
<1>1. Fleet!FleetTypeOK /\ Fleet!MapIsPublishable
  BY DEF Fleet!FleetInv, Fleet!FleetIsSafe
<1>2. s2 < MaxGreen /\ s2' = s2 + 1
  BY Zenon DEF Fleet!MergeGreen
<1>3. PICK head \in Fleet!Edits \ {s1} : \E renames \in Fleet!Renames(head) :
        \E left \in SUBSET (Folders \ Fleet!Filed(s1)), unread \in SUBSET Fleet!Filed(s1),
           confirmed \in BOOLEAN :
          Fleet!Merge([head |-> head, renames |-> renames], Fleet!Filed(s1) \cup left,
                      unread, confirmed)
  BY Zenon DEF Fleet!MergeGreen
<1>4. PICK renames \in Fleet!Renames(head) :
        \E left \in SUBSET (Folders \ Fleet!Filed(s1)), unread \in SUBSET Fleet!Filed(s1),
           confirmed \in BOOLEAN :
          Fleet!Merge([head |-> head, renames |-> renames], Fleet!Filed(s1) \cup left,
                      unread, confirmed)
  BY <1>3, Zenon
<1>5. PICK left \in SUBSET (Folders \ Fleet!Filed(s1)), unread \in SUBSET Fleet!Filed(s1),
           confirmed \in BOOLEAN :
        Fleet!Merge([head |-> head, renames |-> renames], Fleet!Filed(s1) \cup left,
                    unread, confirmed)
  BY <1>4, Zenon
<1>6. PICK pr, live : /\ pr = [head |-> head, renames |-> renames]
                      /\ live = Fleet!Filed(s1) \cup left
  OBVIOUS
<1>7. pr.head = head /\ pr.renames \in Fleet!Renames(pr.head)
  BY <1>6
<1>8. /\ Fleet!KeepsCustomers(head)
      /\ Fleet!AshnTaken(pr, live, unread) = {}
      /\ Fleet!TwoHosts(pr, live, unread) = {}
      /\ confirmed \/ Fleet!CloneWakes(pr, live) = {}
      /\ s1' = head
      /\ s3' = IF confirmed THEN {}
               ELSE {f \in Clones :
                       /\ Fleet!Is(head, f) /\ ~Fleet!Asleep(head, f)
                       /\ Fleet!Was(pr, f) \in live =>
                            Fleet!Is(s1, Fleet!Was(pr, f)) /\ Fleet!Asleep(s1, Fleet!Was(pr, f))}
      /\ s4' = (s4 \/ unread # {})
  BY <1>5, <1>6, <1>7, Zenon DEF Fleet!Merge
<1>9. Fleet!Filed(s1) \subseteq live
  BY <1>6
<1>10. s3' = {}
  <2>1. ASSUME ~confirmed, NEW f \in s3' PROVE FALSE
    <3>1. /\ f \in Clones \cap Folders /\ Fleet!Is(head, f) /\ ~Fleet!Asleep(head, f)
          /\ Fleet!Was(pr, f) \in live =>
               Fleet!Is(s1, Fleet!Was(pr, f)) /\ Fleet!Asleep(s1, Fleet!Was(pr, f))
      BY <1>8, <2>1
    <3>2. f \in Fleet!CloneWakes(pr, live)
      BY <1>7, <1>9, <3>1, WakesAreSeen
    <3> QED
      BY <1>8, <2>1, <3>2
  <2>2. CASE confirmed
    BY <1>8, <2>2
  <2> QED
    BY <2>1, <2>2
<1>11. Fleet!FleetTypeOK'
  <2>1. head \in Fleet!Fleets
    BY <1>1, FleetEditTyped DEF Fleet!FleetTypeOK
  <2>2. s2' \in 0 .. MaxGreen
    BY <1>1, <1>2, FleetAssumption DEF Fleet!FleetTypeOK, FleetAssumption
  <2>3. s4 \in BOOLEAN /\ (unread # {}) \in BOOLEAN
    BY <1>1 DEF Fleet!FleetTypeOK
  <2>4. s4' \in BOOLEAN
    BY <1>8, <2>3
  <2> QED
    BY <1>8, <1>10, <2>1, <2>2, <2>4 DEF Fleet!FleetTypeOK, Fleet!Fleets
<1>12. Fleet!MapIsPublishable'
  <2>1. CASE s4'
    BY <2>1 DEF Fleet!MapIsPublishable
  <2>2. CASE ~s4'
    <3>1. ~s4 /\ unread = {}
      BY <1>8, <2>2
    <3>2. \A f, g \in Fleet!Filed(s1) :
             s1.folder[f].ashn = s1.folder[g].ashn /\ Fleet!HasRow(s1, f) =>
               /\ s1.folder[f].customer = s1.folder[g].customer
               /\ ~Fleet!Contradict(s1, f, g)
      BY <1>1, <3>1 DEF Fleet!MapIsPublishable
    <3>3. \A f, g \in Fleet!Filed(head) :
             head.folder[f].ashn = head.folder[g].ashn /\ Fleet!HasRow(head, f) =>
               /\ head.folder[f].customer = head.folder[g].customer
               /\ ~Fleet!Contradict(head, f, g)
      BY <1>1, <1>8, <1>7, <1>9, <3>1, <3>2, ConflictsAreSeen
    <3>4. /\ Fleet!Filed(s1)' = Fleet!Filed(head)
          /\ \A f, g : /\ Fleet!HasRow(s1, f)' = Fleet!HasRow(head, f)
                       /\ Fleet!Contradict(s1, f, g)' = Fleet!Contradict(head, f, g)
      BY <1>8 DEF Fleet!Filed, Fleet!Is, Fleet!HasRow, Fleet!Contradict, Fleet!HasHost,
         Fleet!Host, Fleet!Zone
    <3> QED
      BY <1>8, <3>3, <3>4 DEF Fleet!MapIsPublishable
  <2> QED
    BY <2>1, <2>2
<1> QED
  BY <1>10, <1>11, <1>12 DEF Fleet!FleetInv, Fleet!FleetIsSafe, Fleet!NoCloneWakesUnseen

LEMMA FleetKept ==
    ASSUME Fleet!FleetInv, [Fleet!FleetNext]_(Fleet!fleetVars)
    PROVE  Fleet!FleetInv'
<1>1. CASE UNCHANGED Fleet!fleetVars
  <2>1. UNCHANGED <<s1, s2, s3, s4>>
    BY <1>1 DEF Fleet!fleetVars
  <2>2. Fleet!FleetTypeOK' /\ Fleet!NoCloneWakesUnseen'
    BY <2>1 DEF Fleet!FleetInv, Fleet!FleetIsSafe, Fleet!FleetTypeOK, Fleet!NoCloneWakesUnseen
  <2>3. Fleet!MapIsPublishable'
    BY <2>1 DEF Fleet!FleetInv, Fleet!FleetIsSafe, Fleet!MapIsPublishable, Fleet!Filed,
       Fleet!Is, Fleet!HasRow, Fleet!Contradict, Fleet!HasHost, Fleet!Host, Fleet!Zone
  <2> QED
    BY <2>2, <2>3 DEF Fleet!FleetInv, Fleet!FleetIsSafe
<1> QED
  BY <1>1, FleetMerges, FleetAssumption DEF Fleet!FleetNext, FleetAssumption

LEMMA FleetAlways == ChangesSpec => [](part = "fleet" => Fleet!FleetInv)
<1> DEFINE I == part = "fleet" => Fleet!FleetInv
<1>1. ChangesInit => I
  BY FleetStart
<1>2. I /\ [ChangesNext]_all => I'
  <2> SUFFICES ASSUME I, [ChangesNext]_all, (part = "fleet")' PROVE Fleet!FleetInv'
    OBVIOUS
  <2>1. part = "fleet"
    BY DEF ChangesNext, all
  <2> QED
    BY <2>1, FleetGo, FleetKept
<1> QED
  BY <1>1, <1>2, PTL DEF ChangesSpec

(* Green merges, one after the other, neither wake a clone nor contradict the  *)
(* map (_detect_clone_wakes, _detect_ashn_gates, _detect_ashn_map_gates)      *)
THEOREM FleetsAreSafe == ChangesSpec => []FleetIsSafe
<1>1. (part = "fleet" => Fleet!FleetInv) => FleetIsSafe
  BY DEF Fleet!FleetInv, FleetIsSafe
<1> QED
  BY <1>1, FleetAlways, PTL

-----------------------------------------------------------------------------
(* The disks of VMs: VmMigration *)

LEMMA VmsGo ==
    ASSUME part = "vms", [ChangesNext]_all
    PROVE  [Vms!VmNext]_(Vms!vmVars)
  BY DEF ChangesNext, SlotStep, all, slots, Vms!vmVars

LEMMA VmsStart ==
    ASSUME ChangesInit, part = "vms"
    PROVE  Vms!VmInv
<1>1. Vms!VmInit
  BY DEF ChangesInit
<1> USE <1>1, VmsAssumption DEF VmsAssumption, Vms!VmInit
<1>2. s1 \subseteq Members /\ s2 \in Vms!Values /\ s2.block = Vms!NoBlock
  OBVIOUS
<1>3. s2.suffix \in DiskSuffixes
  BY <1>2 DEF Vms!Values
<1>4. Vms!VmTypeOK
  <2>1. s3 \in Vms!Jobs
    BY DEF Vms!Jobs
  <2>2. s4 \in [Members -> DiskSuffixes]
    BY <1>3
  <2>3. s5 \in BOOLEAN /\ s6 \in 0 .. VmMerges
    <3>1. s5 = FALSE /\ s6 = 0
      BY Zenon
    <3>2. 0 \in 0 .. VmMerges
      BY VmsAssumption
    <3> QED
      BY <3>1, <3>2, Zenon
  <2> QED
    BY <1>2, <2>1, <2>2, <2>3 DEF Vms!VmTypeOK
<1>5. ~Vms!RendersJob(s2)
  BY <1>2 DEF Vms!RendersJob, Vms!NoBlock
<1>6. Vms!JobRuns
  BY <1>5 DEF Vms!JobRuns
<1>7. Vms!DoneMoved
  BY DEF Vms!DoneMoved, Vms!NoJob
<1>8. Vms!OneMoves /\ Vms!HandedBackMigrated
  BY <1>2 DEF Vms!OneMoves, Vms!HandedBackMigrated
<1>9. Vms!JobForEveryBlock
  BY <1>2 DEF Vms!JobForEveryBlock, Vms!NoBlock
<1> QED
  BY <1>4, <1>6, <1>7, <1>8, <1>9 DEF Vms!VmInv, Vms!MigrationsFinish

(* A block that names a VM of the role is one *)
LEMMA NamesAreBlocks ==
    ASSUME Vms!VmTypeOK, NEW b, b.inst \in s1
    PROVE  b # Vms!NoBlock
  BY VmsAssumption DEF VmsAssumption, Vms!VmTypeOK, Vms!NoBlock

LEMMA VmsMerge ==
    ASSUME Vms!VmInv, Vms!Merge
    PROVE  Vms!VmInv'
<1>1. PICK head \in Vms!Values :
        /\ ~Vms!Unrendered(head) /\ ~Vms!SuffixOutside(head) /\ ~Vms!ChartBump(head)
        /\ Vms!HandedBack(head) => s3.done
        /\ s2' = head
        /\ s5' = (s5 \/ Vms!LeftOut(head))
        /\ s3' = CASE ~Vms!RendersJob(head) -> Vms!NoJob
                   [] Vms!Creates(head) -> [block |-> head.block, suffix |-> head.suffix,
                                            chart |-> head.chart, done |-> FALSE]
                   [] OTHER -> s3
  BY Zenon DEF Vms!Merge
<1>2. s6 < VmMerges /\ s6' = s6 + 1 /\ UNCHANGED <<s1, s4>>
  BY Zenon DEF Vms!Merge
<1>3. /\ Vms!VmTypeOK /\ Vms!JobRuns /\ Vms!DoneMoved /\ Vms!OneMoves
      /\ Vms!JobForEveryBlock /\ Vms!HandedBackMigrated
  BY DEF Vms!VmInv, Vms!MigrationsFinish
<1>4. s1 \subseteq Members /\ s2 \in Vms!Values /\ s3 \in Vms!Jobs /\ s6 \in 0 .. VmMerges
  BY <1>3 DEF Vms!VmTypeOK
<1>5. /\ head.block \in Vms!Blocks /\ head.suffix \in DiskSuffixes /\ head.chart \in Charts
  BY DEF Vms!Values
<1> DEFINE made == [block |-> head.block, suffix |-> head.suffix,
                    chart |-> head.chart, done |-> FALSE]
<1>6. /\ made.block = head.block /\ made.suffix = head.suffix /\ made.chart = head.chart
      /\ made.done = FALSE /\ made \in Vms!Jobs
  BY <1>5 DEF Vms!Jobs
<1> HIDE DEF made
<1>7. /\ ~Vms!RendersJob(head) => s3' = Vms!NoJob
      /\ Vms!Creates(head) => s3' = made
      /\ Vms!RendersJob(head) /\ ~Vms!Creates(head) => s3' = s3
  BY <1>1 DEF Vms!Creates, made
<1>8. Vms!RendersJob(head)' <=> Vms!RendersJob(head)
  BY <1>2 DEF Vms!RendersJob
<1>9. Vms!RendersJob(head) => head.block.inst \in s1 /\ head.chart # "old"
  BY DEF Vms!RendersJob
<1>10. /\ Vms!NoJob.block = Vms!NoBlock /\ Vms!NoJob.done = FALSE
       /\ Vms!NoJob \in Vms!Jobs
  BY DEF Vms!NoJob, Vms!Jobs
<1>11. ASSUME head.block.inst \in s1, s2.block # head.block, ~s5'
       PROVE  Vms!Creates(head)
  BY <1>1, <1>11 DEF Vms!Unrendered, Vms!Fresh, Vms!LeftOut
(* Values that may change only by a planned migration *)
<1>12. ASSUME ~s5', head.suffix # s2.suffix
       PROVE  s1 = {head.block.inst} /\ head.block # s2.block
  BY <1>1, <1>12 DEF Vms!SuffixOutside, Vms!LeftOut, Vms!Planned, Vms!Fresh
<1>13. ASSUME head.block.inst \in s1, s2.block = head.block
       PROVE  head.suffix = s2.suffix /\ head.chart = s2.chart
  <2>1. s2.block # Vms!NoBlock
    BY <1>3, <1>13, NamesAreBlocks
  <2> QED
    BY <1>1, <1>13, <2>1 DEF Vms!SuffixOutside, Vms!ChartBump, Vms!Planned, Vms!Fresh
<1>14. s5' \in BOOLEAN
  BY <1>1, Zenon DEF Vms!LeftOut
<1>15. s3' \in Vms!Jobs
  BY <1>4, <1>6, <1>7, <1>10
<1>16. s6' \in 0 .. VmMerges
  BY <1>2, <1>4, VmsAssumption DEF VmsAssumption
<1>17. Vms!VmTypeOK'
  BY <1>1, <1>2, <1>3, <1>14, <1>15, <1>16 DEF Vms!VmTypeOK
<1>18. ASSUME Vms!RendersJob(head), ~Vms!Creates(head)
       PROVE  Vms!RendersJob(s2) /\ head.block = s2.block
  BY <1>18 DEF Vms!Creates
<1>19. Vms!JobRuns'
  <2>1. CASE ~Vms!RendersJob(head)
    BY <1>1, <1>7, <1>8, <2>1 DEF Vms!JobRuns
  <2>2. CASE Vms!Creates(head)
    <3>1. Vms!RendersJob(head)
      BY <2>2 DEF Vms!Creates
    <3>2. made # Vms!NoJob
      BY <1>3, <1>6, <1>9, <1>10, <3>1, NamesAreBlocks
    <3> QED
      BY <1>1, <1>6, <1>7, <1>8, <2>2, <3>1, <3>2 DEF Vms!JobRuns
  <2>3. CASE Vms!RendersJob(head) /\ ~Vms!Creates(head)
    BY <1>1, <1>3, <1>7, <1>8, <1>18, <2>3 DEF Vms!JobRuns
  <2> QED
    BY <2>1, <2>2, <2>3
<1>20. Vms!DoneMoved'
  BY <1>2, <1>3, <1>6, <1>7, <1>10 DEF Vms!DoneMoved
<1>21. s5 => s5'
  BY <1>1
<1>22. Vms!OneMoves'
  <2>1. CASE head.suffix = s2.suffix
    BY <1>1, <1>2, <1>3, <1>21, <2>1 DEF Vms!OneMoves
  <2>2. CASE head.suffix # s2.suffix /\ ~s5'
    BY <1>2, <1>4, <1>12, <2>2 DEF Vms!OneMoves
  <2> QED
    BY <2>1, <2>2 DEF Vms!OneMoves
<1>23. Vms!JobForEveryBlock'
  <2> SUFFICES ASSUME head.block.inst \in s1, ~s5'
               PROVE  /\ s3' # Vms!NoJob
                      /\ s3'.block = head.block /\ s3'.suffix = head.suffix
                      /\ s3'.chart = head.chart
    BY <1>1, <1>2 DEF Vms!JobForEveryBlock
  <2>1. head.block # Vms!NoBlock
    BY <1>3, NamesAreBlocks
  <2>2. CASE Vms!Creates(head)
    BY <1>6, <1>7, <1>10, <2>1, <2>2
  <2>3. CASE ~Vms!Creates(head)
    <3>1. head.block = s2.block
      BY <1>11, <2>3
    <3>2. head.suffix = s2.suffix /\ head.chart = s2.chart
      BY <1>13, <3>1
    <3>3. s3 # Vms!NoJob /\ s3.block = s2.block /\ s3.suffix = s2.suffix /\ s3.chart = s2.chart
      BY <1>3, <1>21, <3>1 DEF Vms!JobForEveryBlock
    <3>4. Vms!RendersJob(s2)
      BY <1>3, <3>3 DEF Vms!JobRuns
    <3>5. Vms!RendersJob(head)
      BY <3>1, <3>2, <3>4 DEF Vms!RendersJob
    <3> QED
      BY <1>7, <2>3, <3>1, <3>2, <3>3, <3>5
  <2> QED
    BY <2>2, <2>3
<1>24. Vms!HandedBackMigrated'
  <2> SUFFICES ASSUME head.block = Vms!NoBlock, ~s5', NEW m \in s1
               PROVE  s4[m] = head.suffix
    BY <1>1, <1>2 DEF Vms!HandedBackMigrated
  <2>1. head.block.inst \notin s1
    BY <1>3, NamesAreBlocks
  <2>2. head.suffix = s2.suffix
    BY <1>12, <2>1
  <2>3. CASE s2.block = Vms!NoBlock
    BY <1>3, <1>21, <2>2, <2>3 DEF Vms!HandedBackMigrated
  <2>4. CASE s2.block # Vms!NoBlock
    <3>1. s3.done
      BY <1>1, <2>2, <2>4 DEF Vms!HandedBack
    <3>2. s3 # Vms!NoJob
      BY <3>1, <1>10
    <3>3. Vms!RendersJob(s2)
      BY <1>3, <3>2 DEF Vms!JobRuns
    <3>4. s2.block.inst \in s1
      BY <3>3 DEF Vms!RendersJob
    <3>5. s3.block = s2.block /\ s3.suffix = s2.suffix
      BY <1>3, <1>21, <3>4 DEF Vms!JobForEveryBlock
    <3>6. s4[s2.block.inst] = s2.suffix
      BY <1>3, <3>1, <3>5 DEF Vms!DoneMoved
    <3> QED
      BY <1>3, <1>21, <2>2, <3>4, <3>6 DEF Vms!OneMoves
  <2> QED
    BY <2>3, <2>4
<1> QED
  BY <1>17, <1>19, <1>20, <1>22, <1>23, <1>24 DEF Vms!VmInv, Vms!MigrationsFinish

LEMMA VmsJob ==
    ASSUME Vms!VmInv, Vms!JobCompletes
    PROVE  Vms!VmInv'
<1>1. /\ s3 # Vms!NoJob /\ ~s3.done
      /\ s3' = [s3 EXCEPT !.done = TRUE]
      /\ s4' = [s4 EXCEPT ![s3.block.inst] = s3.suffix]
      /\ UNCHANGED <<s1, s2, s5, s6>>
  BY Zenon DEF Vms!JobCompletes
<1>2. /\ Vms!VmTypeOK /\ Vms!JobRuns /\ Vms!DoneMoved /\ Vms!OneMoves
      /\ Vms!JobForEveryBlock /\ Vms!HandedBackMigrated
  BY DEF Vms!VmInv, Vms!MigrationsFinish
<1>3. Vms!RendersJob(s2) /\ s3.block = s2.block
  BY <1>1, <1>2 DEF Vms!JobRuns
<1>4. s2.block.inst \in s1 /\ s1 \subseteq Members /\ s4 \in [Members -> DiskSuffixes]
  BY <1>2, <1>3 DEF Vms!RendersJob, Vms!VmTypeOK
<1>5. s3 \in [block : Vms!Blocks, suffix : DiskSuffixes, chart : Charts, done : BOOLEAN]
  BY <1>1, <1>2 DEF Vms!VmTypeOK, Vms!Jobs
<1>6. /\ s3' \in [block : Vms!Blocks, suffix : DiskSuffixes, chart : Charts, done : BOOLEAN]
      /\ s3'.block = s3.block /\ s3'.suffix = s3.suffix /\ s3'.chart = s3.chart
      /\ s3'.done = TRUE
  BY <1>1, <1>5
<1>7. /\ s4' \in [Members -> DiskSuffixes] /\ s4'[s2.block.inst] = s3.suffix
      /\ \A m \in Members : m # s2.block.inst => s4'[m] = s4[m]
  BY <1>1, <1>3, <1>4, <1>5
<1>8. s2.block # Vms!NoBlock
  BY <1>2, <1>4, NamesAreBlocks
<1>9. s3' # Vms!NoJob
  BY <1>3, <1>6, <1>8 DEF Vms!NoJob
<1>10. ~s5 => s3.suffix = s2.suffix
  BY <1>2, <1>4 DEF Vms!JobForEveryBlock
<1>11. Vms!VmTypeOK'
  BY <1>1, <1>2, <1>6, <1>7 DEF Vms!VmTypeOK, Vms!Jobs
<1>12. Vms!JobRuns'
  BY <1>1, <1>3, <1>6, <1>9 DEF Vms!JobRuns, Vms!RendersJob
<1>13. Vms!DoneMoved'
  BY <1>3, <1>6, <1>7 DEF Vms!DoneMoved
<1>14. Vms!OneMoves'
  BY <1>1, <1>2, <1>4, <1>7, <1>10 DEF Vms!OneMoves
<1>15. Vms!JobForEveryBlock'
  BY <1>1, <1>2, <1>6, <1>9 DEF Vms!JobForEveryBlock
<1>16. Vms!HandedBackMigrated'
  BY <1>1, <1>8 DEF Vms!HandedBackMigrated
<1> QED
  BY <1>11, <1>12, <1>13, <1>14, <1>15, <1>16 DEF Vms!VmInv, Vms!MigrationsFinish

LEMMA VmsKept ==
    ASSUME Vms!VmInv, [Vms!VmNext]_(Vms!vmVars)
    PROVE  Vms!VmInv'
<1>1. CASE UNCHANGED Vms!vmVars
  BY <1>1 DEF Vms!vmVars, Vms!VmInv, Vms!VmTypeOK, Vms!JobRuns, Vms!RendersJob,
     Vms!DoneMoved, Vms!OneMoves, Vms!MigrationsFinish, Vms!JobForEveryBlock,
     Vms!HandedBackMigrated
<1> QED
  BY <1>1, VmsMerge, VmsJob DEF Vms!VmNext

LEMMA VmsAlways == ChangesSpec => [](part = "vms" => Vms!VmInv)
<1> DEFINE I == part = "vms" => Vms!VmInv
<1>1. ChangesInit => I
  BY VmsStart
<1>2. I /\ [ChangesNext]_all => I'
  <2> SUFFICES ASSUME I, [ChangesNext]_all, (part = "vms")' PROVE Vms!VmInv'
    OBVIOUS
  <2>1. part = "vms"
    BY DEF ChangesNext, all
  <2> QED
    BY <2>1, VmsGo, VmsKept
<1> QED
  BY <1>1, <1>2, PTL DEF ChangesSpec

(* A VM is on its new disk when it is handed back, and no merge between        *)
(* changes the plan (_vm_migrations_removed, _suffix_outside_migration)       *)
THEOREM VmsAreMigrated == ChangesSpec => []MigrationsFinish
<1>1. (part = "vms" => Vms!VmInv) => MigrationsFinish
  BY DEF Vms!VmInv, MigrationsFinish
<1> QED
  BY <1>1, VmsAlways, PTL

-----------------------------------------------------------------------------
(* The charts of a preview: ChartRevision *)

LEMMA RevisionsGo ==
    ASSUME part = "revisions", [ChangesNext]_all
    PROVE  [Revisions!RevisionNext]_(Revisions!revisionVars)
  BY DEF ChangesNext, SlotStep, all, slots, Revisions!revisionVars

LEMMA RevisionsStart ==
    ASSUME ChangesInit, part = "revisions"
    PROVE  Revisions!RevisionInv
<1>1. Revisions!RevisionInit
  BY DEF ChangesInit
<1>2. Revisions!RevisionTypeOK
  BY <1>1, RevisionsAssumption DEF RevisionsAssumption, Revisions!RevisionInit,
     Revisions!RevisionTypeOK
<1>3. Revisions!PreviewHasTheCharts
  BY <1>1 DEF Revisions!RevisionInit, Revisions!PreviewHasTheCharts
<1> QED
  BY <1>2, <1>3 DEF Revisions!RevisionInv

(* The chain of a commit ends in a version or in none *)
LEMMA EffectiveTyped ==
    ASSUME NEW c
    PROVE  Revisions!Effective(c) \in ChartVersions \cup {"none"}
<1> DEFINE set == {f \in Revisions!Files : Revisions!Setting(c, f, c.at) \in ChartVersions}
<1>1. "leaf" \in set => c.leaf \in ChartVersions
  BY DEF Revisions!Setting
<1>2. "tier" \in set => c.tier[c.at] \in ChartVersions
  BY DEF Revisions!Setting
<1>3. "root" \in set => c.root \in ChartVersions
  BY DEF Revisions!Setting
<1>4. Revisions!Effective(c) =
        CASE "leaf" \in set -> c.leaf
          [] "leaf" \notin set /\ "tier" \in set -> c.tier[c.at]
          [] set = {"root"} -> c.root
          [] OTHER -> "none"
  BY Zenon DEF Revisions!Effective, Revisions!NoVersion
<1> HIDE DEF set
<1> QED
  BY <1>1, <1>2, <1>3, <1>4

LEMMA MainTyped ==
    ASSUME s2 \in ChartVersions
    PROVE  Revisions!MainRevision \in ChartVersions
  BY EffectiveTyped DEF Revisions!MainRevision, Revisions!NoVersion

LEMMA EditedTyped ==
    ASSUME NEW c \in Revisions!Sources
    PROVE  Revisions!Edited(c) \subseteq Revisions!Sources
  BY DEF Revisions!Edited, Revisions!Sources

LEMMA HeadsTyped ==
    ASSUME s1 \in Revisions!Sources
    PROVE  Revisions!PrHeads \subseteq Revisions!Sources
  BY EditedTyped DEF Revisions!PrHeads

LEMMA SettingTyped ==
    ASSUME NEW c \in Revisions!Sources, NEW f \in Revisions!Files, NEW t \in Tiers
    PROVE  Revisions!Setting(c, f, t) \in ChartVersions \cup {"none", "unsafe"}
  BY DEF Revisions!Setting, Revisions!Sources, Revisions!Files, Revisions!Settings,
     Revisions!NoVersion, Revisions!Unsafe

(* A bump that is not seen is one that the text leaves out or one whose files   *)
(* were passed over                                                           *)
LEMMA BumpIsSeen ==
    ASSUME s1 \in Revisions!Sources, NEW head \in Revisions!PrHeads,
           NEW unread \in SUBSET Revisions!Candidates(head),
           ~Revisions!Invalid(head, unread)
    PROVE  \/ Revisions!ParentUnpinned(head)
           \/ /\ ~Revisions!SawVersion(head, unread)
              /\ \E f \in unread : Revisions!Setting(head, f, s1.at) # Revisions!NoVersion
           \/ Revisions!Deployed(head, Revisions!PrRevision(head, unread))
<1>1. head \in Revisions!Sources
  BY HeadsTyped
<1>2. CASE Revisions!Resolved(head) = Revisions!NoVersion
  BY <1>2 DEF Revisions!Deployed, Revisions!Resolved
<1>3. CASE /\ Revisions!SawVersion(head, unread) \/ Revisions!LeafTouched(head)
           /\ Revisions!Resolved(head) # Revisions!NoVersion
  BY <1>3 DEF Revisions!Deployed, Revisions!Resolved, Revisions!PrRevision
<1>4. CASE ~(Revisions!SawVersion(head, unread) \/ Revisions!LeafTouched(head))
  <2> SUFFICES ASSUME \A f \in unread :
                        Revisions!Setting(head, f, s1.at) = Revisions!NoVersion
               PROVE  Revisions!ParentUnpinned(head)
    BY <1>4
  <2>1. ASSUME NEW f \in Revisions!Candidates(head), f \notin unread
        PROVE  Revisions!Setting(head, f, s1.at) = "none"
    <3> DEFINE set == Revisions!Setting(head, f, s1.at)
    <3>1. set \in Revisions!Seen(head, unread)
      BY <2>1 DEF Revisions!Seen
    <3>2. set \notin ChartVersions
      BY <1>4, <3>1 DEF Revisions!SawVersion
    <3>3. set # "unsafe"
      BY <3>1 DEF Revisions!Invalid, Revisions!Unsafe
    <3>4. f \in Revisions!Files /\ s1.at \in Tiers
      BY DEF Revisions!Candidates, Revisions!Files, Revisions!Sources
    <3>5. set \in ChartVersions \cup {"none", "unsafe"}
      BY <1>1, <3>4, SettingTyped
    <3> QED
      BY <3>2, <3>3, <3>5
  <2> QED
    BY <1>4, <2>1 DEF Revisions!ParentUnpinned, Revisions!LeafTouched, Revisions!NoVersion
<1> QED
  BY <1>2, <1>3, <1>4

LEMMA RevisionsPreview ==
    ASSUME Revisions!RevisionInv, Revisions!Preview
    PROVE  Revisions!RevisionInv'
<1> USE DEF Revisions!RevisionInv
<1>0. PICK head \in Revisions!PrHeads : \E unread \in SUBSET Revisions!Candidates(head) :
        /\ ~Revisions!Invalid(head, unread)
        /\ s3' = {[head |-> head, old |-> Revisions!MainRevision,
                   new |-> Revisions!PrRevision(head, unread), unread |-> unread]}
  BY Zenon DEF Revisions!Preview
<1>1. PICK unread \in SUBSET Revisions!Candidates(head) :
        /\ ~Revisions!Invalid(head, unread)
        /\ s3' = {[head |-> head, old |-> Revisions!MainRevision,
                   new |-> Revisions!PrRevision(head, unread), unread |-> unread]}
  BY <1>0
<1>2. UNCHANGED <<s1, s2, s4>>
  BY Zenon DEF Revisions!Preview
<1>3. s1 \in Revisions!Sources /\ s2 \in ChartVersions
  BY DEF Revisions!RevisionTypeOK
<1>4. unread \in SUBSET Revisions!Files
  BY DEF Revisions!Candidates, Revisions!Files
<1>5. Revisions!MainRevision \in ChartVersions /\ head \in Revisions!Sources
  BY <1>3, MainTyped, HeadsTyped
<1>6. Revisions!PrRevision(head, unread) \in ChartVersions
  BY <1>5, EffectiveTyped DEF Revisions!PrRevision, Revisions!Resolved, Revisions!NoVersion
<1>7. PICK p : p = [head |-> head, old |-> Revisions!MainRevision,
                    new |-> Revisions!PrRevision(head, unread), unread |-> unread]
  OBVIOUS
<1>8. s3' = {p}
  BY <1>1, <1>7
<1>9. /\ p \in Revisions!Previews
      /\ p.head = head /\ p.old = Revisions!MainRevision
      /\ p.new = Revisions!PrRevision(head, unread) /\ p.unread = unread
  BY <1>4, <1>5, <1>6, <1>7 DEF Revisions!Previews
<1>10. Revisions!RevisionTypeOK'
  BY <1>2, <1>8, <1>9 DEF Revisions!RevisionTypeOK
<1>11. Revisions!PreviewHasTheCharts'
  <2>1. \/ Revisions!ParentUnpinned(head)
        \/ /\ ~Revisions!SawVersion(head, unread)
           /\ \E f \in unread : Revisions!Setting(head, f, s1.at) # Revisions!NoVersion
        \/ Revisions!Deployed(head, p.new)
    BY <1>1, <1>3, <1>9, BumpIsSeen
  <2>2. \/ Revisions!ParentUnpinned(head) \/ Revisions!MissedBump(p)
        \/ Revisions!Deployed(head, p.new)
    BY <1>9, <2>1 DEF Revisions!MissedBump
  <2>3. Revisions!Deployed(s1, p.old)
    BY <1>9 DEF Revisions!Deployed, Revisions!MainRevision
  <2>4. Revisions!ParentUnpinned(head)' <=> Revisions!ParentUnpinned(head)
    BY <1>2 DEF Revisions!ParentUnpinned, Revisions!Candidates
  <2>5. Revisions!MissedBump(p)' <=> Revisions!MissedBump(p)
    BY <1>2 DEF Revisions!MissedBump, Revisions!SawVersion, Revisions!Seen,
       Revisions!Candidates
  <2>6. Revisions!Deployed(s1, p.old)'
    BY <1>2, <2>3 DEF Revisions!Deployed, Revisions!Effective, Revisions!Setting
  <2>7. \/ Revisions!ParentUnpinned(p.head)' \/ Revisions!MissedBump(p)'
        \/ Revisions!Deployed(p.head, p.new)
    BY <1>9, <2>2, <2>4, <2>5
  <2> QED
    BY <1>8, <2>6, <2>7 DEF Revisions!PreviewHasTheCharts
<1> QED
  BY <1>10, <1>11

LEMMA RevisionsKept ==
    ASSUME Revisions!RevisionInv, [Revisions!RevisionNext]_(Revisions!revisionVars)
    PROVE  Revisions!RevisionInv'
<1>1. CASE Revisions!Preview
  BY <1>1, RevisionsPreview
<1>2. CASE Revisions!MergePr
  <2>1. PICK p \in s3 : s1' = p.head
    BY <1>2, Zenon DEF Revisions!MergePr
  <2>2. s3' = {} /\ s4 < RevisionMerges /\ s4' = s4 + 1 /\ s2' = s2
    BY <1>2, Zenon DEF Revisions!MergePr
  <2>3. p.head \in Revisions!Sources
    BY DEF Revisions!RevisionInv, Revisions!RevisionTypeOK, Revisions!Previews
  <2>4. Revisions!RevisionTypeOK'
    BY <2>1, <2>2, <2>3, RevisionsAssumption
    DEF Revisions!RevisionInv, Revisions!RevisionTypeOK, RevisionsAssumption
  <2>5. Revisions!PreviewHasTheCharts'
    BY <2>2 DEF Revisions!PreviewHasTheCharts
  <2> QED
    BY <2>4, <2>5 DEF Revisions!RevisionInv
<1>3. CASE Revisions!ArgoFollows
  <2>1. /\ s2' = Revisions!Effective(s1) /\ Revisions!Effective(s1) # "none"
        /\ s3' = {} /\ UNCHANGED <<s1, s4>>
    BY <1>3, Zenon DEF Revisions!ArgoFollows, Revisions!NoVersion
  <2>2. Revisions!RevisionTypeOK'
    BY <2>1, EffectiveTyped DEF Revisions!RevisionInv, Revisions!RevisionTypeOK
  <2>3. Revisions!PreviewHasTheCharts'
    BY <2>1 DEF Revisions!PreviewHasTheCharts
  <2> QED
    BY <2>2, <2>3 DEF Revisions!RevisionInv
<1>4. CASE UNCHANGED Revisions!revisionVars
  <2>1. Revisions!RevisionTypeOK => Revisions!RevisionTypeOK'
    BY <1>4 DEF Revisions!RevisionTypeOK, Revisions!revisionVars
  <2>2. Revisions!PreviewHasTheCharts => Revisions!PreviewHasTheCharts'
    BY <1>4 DEF Revisions!PreviewHasTheCharts, Revisions!revisionVars, Revisions!Deployed,
       Revisions!ParentUnpinned, Revisions!Candidates, Revisions!MissedBump,
       Revisions!SawVersion, Revisions!Seen
  <2> QED
    BY <2>1, <2>2 DEF Revisions!RevisionInv
<1> QED
  BY <1>1, <1>2, <1>3, <1>4 DEF Revisions!RevisionNext

LEMMA RevisionsAlways == ChangesSpec => [](part = "revisions" => Revisions!RevisionInv)
<1> DEFINE I == part = "revisions" => Revisions!RevisionInv
<1>1. ChangesInit => I
  BY RevisionsStart
<1>2. I /\ [ChangesNext]_all => I'
  <2> SUFFICES ASSUME I, [ChangesNext]_all, (part = "revisions")' PROVE Revisions!RevisionInv'
    OBVIOUS
  <2>1. part = "revisions"
    BY DEF ChangesNext, all
  <2> QED
    BY <2>1, RevisionsGo, RevisionsKept
<1> QED
  BY <1>1, <1>2, PTL DEF ChangesSpec

(* A preview has the charts of both sides, but for a bump whose every file was *)
(* passed over (_pr_chart_revision_checked)                                   *)
THEOREM PreviewsHaveTheCharts == ChangesSpec => []PreviewHasTheCharts
<1>1. (part = "revisions" => Revisions!RevisionInv) => PreviewHasTheCharts
  BY DEF PreviewHasTheCharts, Revisions!RevisionInv
<1> QED
  BY <1>1, RevisionsAlways, PTL

-----------------------------------------------------------------------------
(* New environments: NewEnvs *)

LEMMA NewsGo ==
    ASSUME part = "newenvs", [ChangesNext]_all
    PROVE  [News!NewEnvsNext]_(News!newEnvVars)
  BY DEF ChangesNext, SlotStep, all, slots, News!newEnvVars

LEMMA NewsCount == ASSUME NEW S PROVE News!Cardinality(S) = Cardinality(S)
  BY Zenon DEF News!Cardinality, Cardinality

(* The empty set and a singleton, the two things that work and comment are *)
LEMMA NewsOne == News!Cardinality({}) \in 0 .. 1 /\ \A x : News!Cardinality({x}) \in 0 .. 1
<1>1. Cardinality({}) = 0
  BY FS_EmptySet
<1>2. ASSUME NEW x PROVE Cardinality({x}) = 1
  BY FS_Singleton
<1>3. News!Cardinality({}) = 0 /\ \A x : News!Cardinality({x}) = 1
  BY <1>1, <1>2, NewsCount, Zenon
<1>4. 0 \in 0 .. 1 /\ 1 \in 0 .. 1
  OBVIOUS
<1> QED
  BY <1>3, <1>4, Zenon

LEMMA NewsStart ==
    ASSUME ChangesInit, part = "newenvs"
    PROVE  News!NewEnvsInv
<1>1. News!NewEnvsInit
  BY DEF ChangesInit
<1>2. News!NewEnvsTypeOK
  BY <1>1, NewEnvsAssumption, NewsOne DEF NewEnvsAssumption, News!NewEnvsInit,
     News!NewEnvsTypeOK, News!AllShapes
<1>3. News!WorkIsTrue /\ News!GreenIsCreated
  BY <1>1 DEF News!NewEnvsInit, News!WorkIsTrue, News!GreenIsCreated
<1> QED
  BY <1>2, <1>3 DEF News!NewEnvsInv

(* An environment that an evaluation calls created will be, unless a read of  *)
(* it failed: every error but the one that the first deployment cures blocks  *)
LEMMA CreatedIsTrue ==
    ASSUME NEW env, NEW e, NEW failed,
           News!Result(env, e, failed) = "created",
           <<e, "cohort">> \notin failed, <<e, "name">> \notin failed
    PROVE  News!IsCreated(env)
<1> DEFINE error == News!RenderError(env, e, failed)
<1>1. ~News!Rejected(env, e, failed) /\ error \in {"ok", "credentials"}
  BY DEF News!Result, News!Expected
<1>2. env.cohort = "ok" /\ ~env.long
  BY <1>1 DEF News!Rejected
<1>3. News!Version(env) \in s2 /\ env.helm \in {"ok", "credentials"}
  BY <1>1 DEF News!RenderError
<1> QED
  BY <1>2, <1>3 DEF News!IsCreated

LEMMA CleanIsCreated ==
    ASSUME NEW results \in SUBSET {"structural", "created", "awaiting"},
           News!Token(results) = "clean"
    PROVE  \A r \in results : r = "created"
  BY DEF News!Token

LEMMA ResultTyped ==
    ASSUME NEW env, NEW e, NEW failed
    PROVE  News!Result(env, e, failed) \in {"structural", "created", "awaiting"}
<1> DEFINE error == News!RenderError(env, e, failed)
<1> HIDE DEF error
<1> QED
  BY DEF News!Result

(* Versions are not taken from the registry *)
LEMMA StaysTrue ==
    ASSUME NEW c, News!GreenIsTrue(c), s2 \subseteq s2'
    PROVE  News!GreenIsTrue(c)'
  BY DEF News!GreenIsTrue, News!IsCreated, News!IsUnsafe, News!Version

LEMMA NewsKept ==
    ASSUME News!NewEnvsInv, [News!NewEnvsNext]_(News!newEnvVars)
    PROVE  News!NewEnvsInv'
<1> USE DEF News!NewEnvsInv, News!NewEnvsTypeOK, News!WorkIsTrue, News!GreenIsCreated
<1>1. CASE News!Evaluate
  <2>1. PICK failed \in SUBSET News!Checks :
          s3' = {[head |-> s1, failed |-> failed,
                  token |-> News!Token({News!Result(s1[e], e, failed) : e \in NewFolders}),
                  versions |-> {News!Version(s1[e]) :
                     e \in {f \in NewFolders : ~News!Rejected(s1[f], f, failed)}}
                        \cap NewVersions]}
    BY <1>1, Zenon DEF News!Evaluate
  <2>2. s6' = FALSE /\ UNCHANGED <<s1, s2, s4, s5>>
    BY <1>1, Zenon DEF News!Evaluate
  <2>3. News!NewEnvsTypeOK'
    BY <2>1, <2>2, NewsOne
  <2> DEFINE results == {News!Result(s1[e], e, failed) : e \in NewFolders}
             new == [head |-> s1, failed |-> failed, token |-> News!Token(results),
                   versions |-> {News!Version(s1[e]) :
                     e \in {f \in NewFolders : ~News!Rejected(s1[f], f, failed)}}
                        \cap NewVersions]
  <2>4. ASSUME News!Token(results) = "clean", NEW e \in NewFolders,
               <<e, "cohort">> \notin failed, <<e, "name">> \notin failed
        PROVE  News!IsCreated(s1[e])
    <3>1. results \in SUBSET {"structural", "created", "awaiting"}
      BY ResultTyped
    <3>2. News!Result(s1[e], e, failed) = "created"
      BY <2>4, <3>1, CleanIsCreated
    <3> QED
      BY <2>4, <3>2, CreatedIsTrue
  <2>5. PICK w : w = new
    OBVIOUS
  <2>6. /\ w.head = s1 /\ w.failed = failed /\ w.token = News!Token(results)
        /\ w.versions \subseteq NewVersions /\ s3' = {w}
    BY <2>1, <2>5
  <2> HIDE DEF results, new
  <2>7. News!GreenIsTrue(w)
    BY <2>4, <2>6 DEF News!GreenIsTrue
  <2>8. News!GreenIsTrue(w)'
    BY <2>2, <2>7, StaysTrue
  <2>9. News!WorkIsTrue'
    BY <2>6, <2>8
  <2>10. News!GreenIsCreated'
    BY <2>2, StaysTrue
  <2> QED
    BY <2>3, <2>9, <2>10
<1>2. CASE News!Publish
  <2>1. PICK w \in s3 :
          /\ s5' = w.versions
          /\ s4' = {[head |-> w.head, failed |-> w.failed, token |-> w.token]}
          /\ s6' = (s6 \/ w.token = "transient")
          /\ s3' = {}
          /\ UNCHANGED <<s1, s2>>
    BY <1>2, Zenon DEF News!Publish
  <2>2. s6' \in BOOLEAN
    BY <2>1, Zenon
  <2>3. News!NewEnvsTypeOK'
    BY <2>1, <2>2, NewsOne
  <2>4. News!WorkIsTrue'
    BY <2>1
  <2> DEFINE c == [head |-> w.head, failed |-> w.failed, token |-> w.token]
  <2>5. c.head = w.head /\ c.failed = w.failed /\ c.token = w.token
    OBVIOUS
  <2>6. s4' = {c}
    BY <2>1
  <2> HIDE DEF c
  <2>7. News!GreenIsTrue(c)
    BY <2>5 DEF News!GreenIsTrue
  <2>8. News!GreenIsTrue(c)'
    BY <2>1, <2>7, StaysTrue
  <2>9. News!GreenIsCreated'
    BY <2>6, <2>8
  <2> QED
    BY <2>3, <2>4, <2>9
<1>3. CASE News!PushChart
  <2>1. PICK v \in NewVersions \ s2 :
          /\ s2' = s2 \cup {v}
          /\ s6' = (s6 \/ v \in s5) \/ s6' = s6
          /\ UNCHANGED <<s1, s3, s4, s5>>
    BY <1>3, Zenon DEF News!PushChart
  <2>2. s6' \in BOOLEAN
    BY <2>1, Zenon
  <2>3. News!NewEnvsTypeOK'
    BY <2>1, <2>2
  <2>4. News!WorkIsTrue' /\ News!GreenIsCreated'
    BY <2>1, StaysTrue
  <2> QED
    BY <2>3, <2>4
<1>4. CASE News!Edit
  <2>1. PICK e \in NewFolders, shape \in Shapes : s1' = [s1 EXCEPT ![e] = shape]
    BY <1>4, Zenon DEF News!Edit
  <2>2. s6' = TRUE /\ UNCHANGED <<s2, s3, s4, s5>>
    BY <1>4, Zenon DEF News!Edit
  <2>3. News!NewEnvsTypeOK'
    BY <2>1, <2>2
  <2>4. News!WorkIsTrue' /\ News!GreenIsCreated'
    BY <2>2, StaysTrue
  <2> QED
    BY <2>3, <2>4
<1>5. CASE UNCHANGED News!newEnvVars
  <2>1. News!NewEnvsTypeOK'
    BY <1>5 DEF News!newEnvVars
  <2>2. News!WorkIsTrue' /\ News!GreenIsCreated'
    BY <1>5, StaysTrue DEF News!newEnvVars
  <2> QED
    BY <2>1, <2>2
<1> QED
  BY <1>1, <1>2, <1>3, <1>4, <1>5 DEF News!NewEnvsNext

LEMMA NewsAlways == ChangesSpec => [](part = "newenvs" => News!NewEnvsInv)
<1> DEFINE I == part = "newenvs" => News!NewEnvsInv
<1>1. ChangesInit => I
  BY NewsStart
<1>2. I /\ [ChangesNext]_all => I'
  <2> SUFFICES ASSUME I, [ChangesNext]_all, (part = "newenvs")' PROVE News!NewEnvsInv'
    OBVIOUS
  <2>1. part = "newenvs"
    BY DEF ChangesNext, all
  <2> QED
    BY <2>1, NewsGo, NewsKept
<1> QED
  BY <1>1, <1>2, PTL DEF ChangesSpec

(* The environments of a green comment are the ones Argo CD will create:       *)
(* whatever was lost or answered late, its status is that of the commit       *)
(* (_new_env_status, _evaluate_new_envs)                                      *)
THEOREM NewEnvsAreCreated == ChangesSpec => []GreenIsCreated
<1>1. (part = "newenvs" => News!NewEnvsInv) => GreenIsCreated
  BY DEF News!NewEnvsInv, GreenIsCreated
<1> QED
  BY <1>1, NewsAlways, PTL

-----------------------------------------------------------------------------
(* The merge preview: MergePreview *)

LEMMA MergesGo ==
    ASSUME part = "merges", [ChangesNext]_all
    PROVE  [Merges!MergeNext]_(Merges!mergeVars)
  BY DEF ChangesNext, SlotStep, all, slots, Merges!mergeVars

LEMMA MergesStart ==
    ASSUME ChangesInit, part = "merges"
    PROVE  Merges!MergeInv
<1>1. Merges!MergeInit
  BY DEF ChangesInit
<1>2. Merges!MergeTypeOK
  BY <1>1, MergesAssumption DEF MergesAssumption, Merges!MergeInit, Merges!MergeTypeOK,
     Merges!Pairs
<1>3. Merges!PreviewsAreRight /\ Merges!ConflictIsTold
  BY <1>1 DEF Merges!MergeInit, Merges!PreviewsAreRight, Merges!ConflictIsTold
<1> QED
  BY <1>2, <1>3 DEF Merges!MergeInv

(* A computed answer is git's or none *)
LEMMA ComputedIsRight ==
    ASSUME Merges!PreviewsAreRight, NEW base \in Mains, NEW branch \in Heads,
           NEW answers \in BOOLEAN, NEW kind \in Merges!Computed(base, branch, answers)
    PROVE  kind \in {"unknown", Merges!GitMerge(base, branch)}
<1> DEFINE hits == {p \in s7 : p.key = <<base, branch>>}
<1>1. CASE hits # {}
  <2>1. PICK p \in hits : kind = p.kind
    BY <1>1 DEF Merges!Computed, Merges!Key
  <2> QED
    BY <2>1 DEF Merges!PreviewsAreRight
<1>2. CASE hits = {}
  BY <1>2 DEF Merges!Computed, Merges!Key
<1> QED
  BY <1>1, <1>2

LEMMA GitAnswers ==
    ASSUME NEW base, NEW branch
    PROVE  Merges!GitMerge(base, branch) \in {"merge", "conflict"}
  BY DEF Merges!GitMerge

LEMMA MergesKept ==
    ASSUME Merges!MergeInv, [Merges!MergeNext]_(Merges!mergeVars)
    PROVE  Merges!MergeInv'
<1> USE MergesAssumption DEF MergesAssumption, Merges!MergeInv, Merges!MergeTypeOK,
        Merges!PreviewsAreRight, Merges!ConflictIsTold, Merges!Pairs, Merges!GitMerge
<1>1. CASE Merges!MainMoves
  BY <1>1 DEF Merges!MainMoves
<1>2. CASE Merges!PushBranch
  BY <1>2 DEF Merges!PushBranch
<1>3. CASE Merges!MergePr
  BY <1>3 DEF Merges!MergePr
<1>4. CASE Merges!Delist
  BY <1>4 DEF Merges!Delist
<1>5. CASE Merges!Fetch
  BY <1>5 DEF Merges!Fetch
<1>6. CASE Merges!DropPreviews
  BY <1>6 DEF Merges!DropPreviews
<1>7. ASSUME NEW answers \in BOOLEAN, Merges!Evaluate(answers) PROVE Merges!MergeInv'
  <2>1. PICK kind \in Merges!Computed(s2, s3, answers) :
            /\ s7' = Merges!Kept(s2, s3, kind)
            /\ s8' = {[base |-> s2, tip |-> s3,
                       kind |-> IF kind = "unknown" THEN "tip" ELSE kind]}
    BY <1>7, Zenon DEF Merges!Evaluate
  <2>2. UNCHANGED <<s1, s2, s3, s4, s5, s6, s9>>
    BY <1>7, Zenon DEF Merges!Evaluate
  <2>3. kind \in {"unknown", Merges!GitMerge(s2, s3)}
    BY ComputedIsRight
  <2>4. Merges!GitMerge(s2, s3) \in {"merge", "conflict"}
    BY GitAnswers
  <2>5. \A p \in s7' : p \in s7 \/ p = [key |-> <<s2, s3>>, kind |-> Merges!GitMerge(s2, s3)]
    BY <2>1, <2>3 DEF Merges!Kept, Merges!Key
  <2> QED
    BY <2>1, <2>2, <2>3, <2>4, <2>5
<1>8. CASE UNCHANGED Merges!mergeVars
  BY <1>8 DEF Merges!mergeVars
<1> QED
  BY <1>1, <1>2, <1>3, <1>4, <1>5, <1>6, <1>7, <1>8 DEF Merges!MergeNext

LEMMA MergesAlways == ChangesSpec => [](part = "merges" => Merges!MergeInv)
<1> DEFINE I == part = "merges" => Merges!MergeInv
<1>1. ChangesInit => I
  BY MergesStart
<1>2. I /\ [ChangesNext]_all => I'
  <2> SUFFICES ASSUME I, [ChangesNext]_all, (part = "merges")' PROVE Merges!MergeInv'
    OBVIOUS
  <2>1. part = "merges"
    BY DEF ChangesNext, all
  <2> QED
    BY <2>1, MergesGo, MergesKept
<1> QED
  BY <1>1, <1>2, PTL DEF ChangesSpec

(* A comment is right about the merge it names, and the tip stands in for it  *)
(* only while nothing better can be known (_merge_preview)                    *)
THEOREM MergesAreShown == ChangesSpec => []MergeIsShown
<1>1. (part = "merges" => Merges!MergeInv) => MergeIsShown
  <2> SUFFICES ASSUME Merges!MergeInv PROVE Merges!ConflictIsTold /\ Merges!FallbackIsNotKept
    BY DEF MergeIsShown
  <2>1. ASSUME Merges!Has(s2, s3)
        PROVE  Merges!Computed(s2, s3, TRUE) = {Merges!GitMerge(s2, s3)}
    BY <2>1 DEF Merges!MergeInv, Merges!PreviewsAreRight, Merges!Computed, Merges!Key
  <2> QED
    BY <2>1 DEF Merges!MergeInv, Merges!FallbackIsNotKept
<1> QED
  BY <1>1, MergesAlways, PTL

-----------------------------------------------------------------------------
(* What environments share: SharedContent *)

LEMMA SharedGo ==
    ASSUME part = "shared", [ChangesNext]_all
    PROVE  [Shared!SharedNext]_(Shared!sharedVars)
  BY DEF ChangesNext, SlotStep, all, slots, Shared!sharedVars

LEMMA SharedCount == ASSUME NEW S PROVE Shared!Cardinality(S) = Cardinality(S)
  BY Zenon DEF Shared!Cardinality, Cardinality

LEMMA SharedOne ==
    ASSUME NEW S, S = {} \/ \E v : S = {v}
    PROVE  Shared!Cardinality(S) <= 1
<1>1. Shared!Cardinality(S) = Cardinality(S)
  BY SharedCount
<1>2. CASE S = {}
  BY <1>1, <1>2, FS_EmptySet
<1>3. ASSUME NEW v, S = {v} PROVE Cardinality(S) = 1
  BY <1>3, FS_Singleton
<1> QED
  BY <1>1, <1>2, <1>3

(* The objects of an environment are named by its customer *)
LEMMA IdentityTyped ==
    ASSUME NEW v \in Shared!Values
    PROVE  Shared!Identity(v) \subseteq {"bucket", "dns"} \X Customers \X UcSuffixes
  BY DEF Shared!Identity, Shared!Values

LEMMA SameCustomer ==
    ASSUME NEW u, NEW v, Shared!Identity(v) \cap Shared!Identity(u) # {}
    PROVE  v.customer = u.customer /\ Shared!Identity(v) # {}
<1>1. PICK o : o \in Shared!Identity(v) /\ o \in Shared!Identity(u)
  OBVIOUS
<1>2. PICK k \in v.renders : o = <<k, v.customer, v.suffix>>
  BY <1>1 DEF Shared!Identity
<1>3. PICK l \in u.renders : o = <<l, u.customer, u.suffix>>
  BY <1>1 DEF Shared!Identity
<1> QED
  BY <1>1, <1>2, <1>3

(* The values of a live environment *)
LEMMA TheValues ==
    ASSUME Shared!HeldOnce, NEW e \in Owners, s1[e] # {}
    PROVE  s1[e] = {Shared!ValuesOf(e)} /\ Shared!ValuesOf(e) \in Shared!Values
<1>1. PICK v \in Shared!Values : s1[e] = {v}
  BY DEF Shared!HeldOnce
<1>2. Shared!ValuesOf(e) \in s1[e]
  BY <1>1 DEF Shared!ValuesOf
<1> QED
  BY <1>1, <1>2

LEMMA TheValuesNext ==
    ASSUME Shared!HeldOnce', NEW e \in Owners, s1'[e] # {}
    PROVE  s1'[e] = {Shared!ValuesOf(e)'} /\ Shared!ValuesOf(e)' \in Shared!Values
<1>1. PICK v \in Shared!Values : s1'[e] = {v}
  BY DEF Shared!HeldOnce
<1>2. Shared!ValuesOf(e)' \in s1'[e]
  BY <1>1 DEF Shared!ValuesOf
<1> QED
  BY <1>1, <1>2

LEMMA NewValuesTyped == Shared!NewValues \subseteq Shared!Values
  BY DEF Shared!NewValues

(* The objects a pull request takes or loses *)
LEMMA GoneTyped ==
    ASSUME Shared!HeldOnce, NEW e \in Owners
    PROVE  /\ Shared!Gone(e) \subseteq {"bucket", "dns"} \X Customers \X UcSuffixes
           /\ Shared!Elsewhere(e) \subseteq Shared!Gone(e)
<1>1. s1[e] \subseteq Shared!Values
  BY DEF Shared!HeldOnce
<1>2. \A v \in s1[e] : Shared!Identity(v) \subseteq {"bucket", "dns"} \X Customers \X UcSuffixes
  BY <1>1, IdentityTyped
<1>3. \A o \in Shared!Gone(e) : \E v \in s1[e] : o \in Shared!Identity(v)
  BY DEF Shared!Gone
<1>4. Shared!Elsewhere(e) \subseteq Shared!Gone(e)
  BY DEF Shared!Elsewhere
<1> QED
  BY <1>2, <1>3, <1>4

LEMMA SharedStart ==
    ASSUME ChangesInit, part = "shared"
    PROVE  Shared!SharedInv
<1>1. Shared!SharedInit
  BY DEF ChangesInit
<1>2. PICK e \in Owners, v \in Shared!NewValues :
        /\ s1 = [f \in Owners |-> IF f = e THEN {v} ELSE {}]
        /\ s2 = Shared!Identity(v)
  BY <1>1 DEF Shared!SharedInit
<1>3. s3 = {} /\ s4 = {} /\ s5 = 0 /\ s6 = {} /\ s7 = {}
  BY <1>1 DEF Shared!SharedInit
<1>4. v \in Shared!Values
  BY NewValuesTyped
<1>5. Shared!HeldOnce
  BY <1>2, <1>4 DEF Shared!HeldOnce
<1>6. \A f \in Owners : Shared!Cardinality(s1[f]) <= 1
  BY <1>5, SharedOne DEF Shared!HeldOnce
<1>7. s2 \subseteq {"bucket", "dns"} \X Customers \X UcSuffixes
  BY <1>2, <1>4, IdentityTyped
<1>8. s1 \in [Owners -> SUBSET Shared!Values]
  BY <1>2, <1>4
<1>9. s5 \in 0 .. SharedMerges
  BY <1>3, SharedAssumption DEF SharedAssumption
<1>10. Shared!SharedTypeOK
  BY <1>3, <1>6, <1>7, <1>8, <1>9 DEF Shared!SharedTypeOK
<1>11. Shared!PanelIsCurrent /\ Shared!RemovalIsGated /\ Shared!NewEnvIsWarned
  BY <1>3 DEF Shared!PanelIsCurrent, Shared!RemovalIsGated, Shared!NewEnvIsWarned
<1>12. Shared!ContentSurvives
  <2> SUFFICES ASSUME NEW f \in Owners, s1[f] # {}
               PROVE  Shared!Identity(Shared!ValuesOf(f)) \subseteq s2
    BY DEF Shared!ContentSurvives, Shared!Live
  <2>1. s1[f] = {Shared!ValuesOf(f)}
    BY <1>5, TheValues
  <2>2. Shared!ValuesOf(f) = v
    BY <2>1, <1>2
  <2> QED
    BY <1>2, <2>2
<1> QED
  BY <1>5, <1>10, <1>11, <1>12, Zenon DEF Shared!SharedInv, Shared!SharedIsShown

(* Nobody's objects go but those a reviewer was asked about, those of an        *)
(* environment that could not be read, and those under another name           *)
LEMMA SharedMerge ==
    ASSUME Shared!SharedInv, Shared!Merge
    PROVE  Shared!SharedInv'
<1>0. /\ Shared!SharedTypeOK /\ Shared!HeldOnce /\ Shared!PanelIsCurrent
      /\ Shared!RemovalIsGated /\ Shared!ContentSurvives
  BY DEF Shared!SharedInv, Shared!SharedIsShown
<1>1. PICK p \in s3 :
        /\ s1' = [s1 EXCEPT ![p.env] = p.adds]
        /\ s2' = (s2 \ Shared!Gone(p.env)) \cup UNION {Shared!Identity(v) : v \in p.adds}
        /\ s4' = IF p.gate THEN s4 \cup Shared!Gone(p.env) ELSE s4
        /\ s6' = IF p.env \in p.unread THEN s6 \cup Shared!Gone(p.env) ELSE s6
        /\ s7' = IF p.env \notin p.unread /\ ~p.gate
                   THEN s7 \cup Shared!Elsewhere(p.env) ELSE s7
  BY Zenon DEF Shared!Merge
<1>2. s3' = {} /\ s5 < SharedMerges /\ s5' = s5 + 1
  BY Zenon DEF Shared!Merge
<1>3. /\ s1 \in [Owners -> SUBSET Shared!Values] /\ p.env \in Owners
      /\ s2 \subseteq {"bucket", "dns"} \X Customers \X UcSuffixes
      /\ s4 \subseteq {"bucket", "dns"} \X Customers \X UcSuffixes
      /\ s6 \subseteq {"bucket", "dns"} \X Customers \X UcSuffixes
      /\ s7 \subseteq {"bucket", "dns"} \X Customers \X UcSuffixes
      /\ s5 \in 0 .. SharedMerges
  BY <1>0 DEF Shared!SharedTypeOK
<1>4. p.adds = {} \/ \E v \in Shared!Values : p.adds = {v}
  BY <1>0, NewValuesTyped DEF Shared!PanelIsCurrent
<1>5. /\ s1'[p.env] = p.adds
      /\ \A f \in Owners : f # p.env => s1'[f] = s1[f]
      /\ s1' \in [Owners -> SUBSET Shared!Values]
  BY <1>1, <1>3, <1>4
<1>6. Shared!HeldOnce'
  BY <1>0, <1>4, <1>5 DEF Shared!HeldOnce
<1>7. Shared!SharedTypeOK'
  <2>1. \A f \in Owners : Shared!Cardinality(s1'[f]) <= 1
    BY <1>6, SharedOne DEF Shared!HeldOnce
  <2>2. UNION {Shared!Identity(v) : v \in p.adds}
          \subseteq {"bucket", "dns"} \X Customers \X UcSuffixes
    BY <1>4, IdentityTyped
  <2>3. /\ Shared!Gone(p.env) \subseteq {"bucket", "dns"} \X Customers \X UcSuffixes
        /\ Shared!Elsewhere(p.env) \subseteq {"bucket", "dns"} \X Customers \X UcSuffixes
    BY <1>0, <1>3, GoneTyped
  <2>4. /\ s2' \subseteq {"bucket", "dns"} \X Customers \X UcSuffixes
        /\ s4' \subseteq {"bucket", "dns"} \X Customers \X UcSuffixes
        /\ s6' \subseteq {"bucket", "dns"} \X Customers \X UcSuffixes
        /\ s7' \subseteq {"bucket", "dns"} \X Customers \X UcSuffixes
    BY <1>1, <1>3, <2>2, <2>3
  <2>5. s5' \in 0 .. SharedMerges
    BY <1>2, <1>3, SharedAssumption DEF SharedAssumption
  <2> QED
    BY <1>2, <1>5, <2>1, <2>4, <2>5 DEF Shared!SharedTypeOK
<1>8. Shared!PanelIsCurrent' /\ Shared!RemovalIsGated' /\ Shared!NewEnvIsWarned'
  BY <1>2 DEF Shared!PanelIsCurrent, Shared!RemovalIsGated, Shared!NewEnvIsWarned
<1>9. Shared!ContentSurvives'
  <2> SUFFICES ASSUME NEW f \in Owners, s1'[f] # {},
                      NEW o \in Shared!Identity(Shared!ValuesOf(f)')
               PROVE  o \in s2' \cup s4' \cup s6' \cup s7'
    BY DEF Shared!ContentSurvives, Shared!Live, Shared!Identity
  <2>1. s1'[f] = {Shared!ValuesOf(f)'}
    BY <1>6, TheValuesNext
  <2>2. CASE f = p.env
    BY <1>1, <1>5, <2>1, <2>2
  <2>3. CASE f # p.env
    <3>1. s1[f] = s1'[f]
      BY <1>5, <2>3
    <3>2. s1[f] = {Shared!ValuesOf(f)}
      BY <1>0, <3>1, TheValues
    <3>3. Shared!ValuesOf(f)' = Shared!ValuesOf(f)
      BY <2>1, <3>1, <3>2
    <3>4. o \in s2 \cup s4 \cup s6 \cup s7
      BY <1>0, <3>1, <3>3 DEF Shared!ContentSurvives, Shared!Live
    <3>5. s4 \subseteq s4' /\ s6 \subseteq s6' /\ s7 \subseteq s7'
      BY <1>1
    <3>6. ASSUME o \in Shared!Gone(p.env), p.env \notin p.unread, ~p.gate PROVE o \in s7'
      <4>1. PICK v \in s1[p.env] : v.purge /\ s1[p.env] = {v}
        BY <1>0, <1>3, <3>6 DEF Shared!Gone, Shared!HeldOnce
      <4>2. o \in Shared!Identity(v) /\ o \in Shared!Identity(Shared!ValuesOf(f))
        BY <3>3, <3>6, <4>1 DEF Shared!Gone
      <4>3. Shared!ValuesOf(f).folder # v.folder
        BY <1>0, <2>3, <3>2, <3>6, <4>1, <4>2 DEF Shared!RemovalIsGated
      <4>4. o \in Shared!Elsewhere(p.env)
        BY <2>3, <3>2, <3>6, <4>1, <4>2, <4>3 DEF Shared!Elsewhere
      <4> QED
        BY <1>1, <3>6, <4>4
    <3> QED
      BY <1>1, <3>4, <3>5, <3>6
  <2> QED
    BY <2>2, <2>3
<1> QED
  BY <1>6, <1>7, <1>8, <1>9, Zenon DEF Shared!SharedInv, Shared!SharedIsShown

(* A preview compares whoever would lose something *)
LEMMA SharedRemoval ==
    ASSUME Shared!SharedInv, NEW e \in Owners, Shared!PreviewRemoval(e)
    PROVE  Shared!SharedInv'
<1>0. /\ Shared!SharedTypeOK /\ Shared!HeldOnce /\ Shared!ContentSurvives
  BY DEF Shared!SharedInv, Shared!SharedIsShown
<1>1. PICK unread \in Shared!MayBeUnread :
        s3' = {[adds |-> {}, env |-> e, unread |-> unread,
                gate |-> Shared!ValuesOf(e).purge /\ Shared!Sharers(e, unread) # {},
                warned |-> Shared!Sharers(e, unread) # {}]}
  BY Zenon DEF Shared!PreviewRemoval
<1>2. UNCHANGED <<s1, s2, s4, s5, s6, s7>> /\ s1[e] # {}
  BY Zenon DEF Shared!PreviewRemoval, Shared!Live
<1> DEFINE gate == Shared!ValuesOf(e).purge /\ Shared!Sharers(e, unread) # {}
           warned == Shared!Sharers(e, unread) # {}
<1>3. gate \in BOOLEAN /\ warned \in BOOLEAN
  BY Zenon
<1>4. PICK p : p = [adds |-> {}, env |-> e, unread |-> unread, gate |-> gate,
                    warned |-> warned]
  OBVIOUS
<1>5. s3' = {p}
  BY <1>1, <1>4, Zenon
<1>6. gate = (Shared!ValuesOf(e).purge /\ Shared!Sharers(e, unread) # {})
  BY Zenon
<1> HIDE DEF gate, warned
<1>7. unread \in SUBSET Owners
  BY DEF Shared!MayBeUnread
<1>8. /\ p.adds = {} /\ p.env = e /\ p.gate = gate /\ p.unread = unread
      /\ p \in [adds : SUBSET Shared!Values, env : Owners, unread : SUBSET Owners,
                gate : BOOLEAN, warned : BOOLEAN]
  BY <1>3, <1>4, <1>7
<1>9. Shared!SharedTypeOK'
  BY <1>0, <1>2, <1>5, <1>8 DEF Shared!SharedTypeOK
<1>10. Shared!HeldOnce'
  BY <1>0, <1>2 DEF Shared!HeldOnce
<1>11. Shared!PanelIsCurrent' /\ Shared!NewEnvIsWarned'
  <2>1. ASSUME NEW q \in s3' PROVE q.adds = {}
    BY <1>5, <1>8
  <2>2. Shared!PanelIsCurrent'
    BY <2>1, Zenon DEF Shared!PanelIsCurrent
  <2>3. ASSUME NEW q \in s3', NEW v \in q.adds PROVE FALSE
    BY <2>1, <2>3
  <2>4. Shared!NewEnvIsWarned'
    BY <2>3, Zenon DEF Shared!NewEnvIsWarned
  <2> QED
    BY <2>2, <2>4
<1>12. Shared!ContentSurvives'
  BY <1>0, <1>2 DEF Shared!ContentSurvives, Shared!Live, Shared!ValuesOf
<1>13. Shared!RemovalIsGated'
  <2> SUFFICES ASSUME NEW v \in s1[e], v.purge, e \notin unread, NEW f \in Owners \ {e},
                      NEW u \in s1[f], u.folder = v.folder,
                      Shared!Identity(v) \cap Shared!Identity(u) # {}
               PROVE  gate
    BY <1>2, <1>5, <1>8 DEF Shared!RemovalIsGated, Shared!Identity
  <2>1. s1[e] = {Shared!ValuesOf(e)} /\ s1[f] = {Shared!ValuesOf(f)}
    BY <1>0, <1>2, TheValues
  <2>2. v = Shared!ValuesOf(e) /\ u = Shared!ValuesOf(f)
    BY <2>1
  <2>3. Shared!Identity(v) # {}
    BY SameCustomer
  <2>4. f \in Shared!Candidates(e)
    BY <2>1, <2>2 DEF Shared!Candidates, Shared!Live
  <2>5. Shared!PossibleSharer(Shared!Identity(v), f, unread)
    BY <2>2 DEF Shared!PossibleSharer
  <2>6. f \in Shared!Sharers(e, unread)
    BY <2>2, <2>3, <2>4, <2>5, Zenon DEF Shared!Sharers
  <2> QED
    BY <1>6, <2>2, <2>6, Zenon
<1> QED
  BY <1>9, <1>10, <1>11, <1>12, <1>13, Zenon DEF Shared!SharedInv, Shared!SharedIsShown

LEMMA SharedAddition ==
    ASSUME Shared!SharedInv, NEW e \in Owners, Shared!PreviewAddition(e)
    PROVE  Shared!SharedInv'
<1>0. /\ Shared!SharedTypeOK /\ Shared!HeldOnce /\ Shared!ContentSurvives
  BY DEF Shared!SharedInv, Shared!SharedIsShown
<1>1. PICK v \in Shared!NewValues, unread \in Shared!MayBeUnread :
        s3' = {[adds |-> {v}, env |-> e, unread |-> unread, gate |-> FALSE,
                warned |-> Shared!Warned(v, unread)]}
  BY Zenon DEF Shared!PreviewAddition
<1>2. UNCHANGED <<s1, s2, s4, s5, s6, s7>> /\ s1[e] = {}
  BY Zenon DEF Shared!PreviewAddition, Shared!Live
<1>3. v \in Shared!Values
  BY NewValuesTyped
<1> DEFINE warned == Shared!Warned(v, unread)
<1>4. warned \in BOOLEAN
  BY Zenon DEF Shared!Warned
<1>5. PICK p : p = [adds |-> {v}, env |-> e, unread |-> unread, gate |-> FALSE,
                    warned |-> warned]
  OBVIOUS
<1>6. s3' = {p}
  BY <1>1, <1>5, Zenon
<1>7. warned = Shared!Warned(v, unread)
  OBVIOUS
<1> HIDE DEF warned
<1>8. unread \in SUBSET Owners
  BY DEF Shared!MayBeUnread
<1>9. /\ p.adds = {v} /\ p.env = e /\ p.warned = warned /\ p.unread = unread
      /\ p \in [adds : SUBSET Shared!Values, env : Owners, unread : SUBSET Owners,
                gate : BOOLEAN, warned : BOOLEAN]
  BY <1>3, <1>4, <1>5, <1>8
<1>10. Shared!SharedTypeOK'
  BY <1>0, <1>2, <1>6, <1>9 DEF Shared!SharedTypeOK
<1>11. Shared!HeldOnce'
  BY <1>0, <1>2 DEF Shared!HeldOnce
<1>12. Shared!PanelIsCurrent' /\ Shared!RemovalIsGated'
  BY <1>2, <1>6, <1>9 DEF Shared!PanelIsCurrent, Shared!RemovalIsGated, Shared!NewValues
<1>13. Shared!ContentSurvives'
  BY <1>0, <1>2 DEF Shared!ContentSurvives, Shared!Live, Shared!ValuesOf
<1>14. Shared!NewEnvIsWarned'
  <2> SUFFICES ASSUME NEW f \in Owners, s1[f] # {},
                      f \notin unread \/ Shared!ValuesOf(f).folder = v.customer,
                      Shared!Identity(v) \cap Shared!Identity(Shared!ValuesOf(f)) # {}
               PROVE  warned
    <3>1. ASSUME NEW q \in s3', NEW w \in q.adds, NEW f \in Owners, Shared!Live(f)',
                 (Shared!Identity(w) \cap Shared!Identity(Shared!ValuesOf(f)))' # {},
                 f \notin q.unread \/ Shared!ValuesOf(f)'.folder = w.customer
          PROVE  q.warned
      <4>1. q = p /\ w = v
        BY <1>6, <1>9
      <4>2. s1[f] # {} /\ Shared!ValuesOf(f)' = Shared!ValuesOf(f)
        BY <1>2, <3>1 DEF Shared!Live, Shared!ValuesOf
      <4>3. Shared!Identity(v) \cap Shared!Identity(Shared!ValuesOf(f)) # {}
        BY <3>1, <4>1, <4>2 DEF Shared!Identity
      <4> QED
        BY <1>9, <3>1, <4>1, <4>2, <4>3
    <3> QED
      BY <3>1, Zenon DEF Shared!NewEnvIsWarned
  <2>1. v.customer = Shared!ValuesOf(f).customer
    BY SameCustomer
  <2>2. f \in Shared!Siblings(v, unread)
    BY <2>1 DEF Shared!Siblings, Shared!Live
  <2>3. Shared!PossibleSharer(Shared!Identity(v), f, unread)
    BY DEF Shared!PossibleSharer
  <2> QED
    BY <1>7, <2>2, <2>3 DEF Shared!Warned
<1> QED
  BY <1>10, <1>11, <1>12, <1>13, <1>14, Zenon DEF Shared!SharedInv, Shared!SharedIsShown

LEMMA SharedEdit ==
    ASSUME Shared!SharedInv, NEW e \in Owners, Shared!EditEnv(e)
    PROVE  Shared!SharedInv'
<1>0. /\ Shared!SharedTypeOK /\ Shared!HeldOnce /\ Shared!ContentSurvives
  BY DEF Shared!SharedInv, Shared!SharedIsShown
<1>1. PICK v \in {[Shared!ValuesOf(e) EXCEPT !.purge = TRUE]}
                  \cup {[Shared!ValuesOf(e) EXCEPT !.suffix = s] : s \in UcSuffixes} :
        /\ s1' = [s1 EXCEPT ![e] = {v}]
        /\ s2' = s2 \cup Shared!Identity(v)
  BY Zenon DEF Shared!EditEnv
<1>2. /\ s1[e] # {} /\ s3' = {} /\ s5 < SharedMerges /\ s5' = s5 + 1
      /\ UNCHANGED <<s4, s6, s7>>
  BY Zenon DEF Shared!EditEnv, Shared!Live
<1>3. s1[e] = {Shared!ValuesOf(e)} /\ Shared!ValuesOf(e) \in Shared!Values
  BY <1>0, <1>2, TheValues
<1>4. v \in Shared!Values
  BY <1>1, <1>3 DEF Shared!Values
<1>5. /\ s1 \in [Owners -> SUBSET Shared!Values]
      /\ s2 \subseteq {"bucket", "dns"} \X Customers \X UcSuffixes
      /\ s5 \in 0 .. SharedMerges
  BY <1>0 DEF Shared!SharedTypeOK
<1>6. /\ s1'[e] = {v}
      /\ \A f \in Owners : f # e => s1'[f] = s1[f]
      /\ s1' \in [Owners -> SUBSET Shared!Values]
  BY <1>1, <1>4, <1>5
<1>7. Shared!HeldOnce'
  BY <1>0, <1>4, <1>6 DEF Shared!HeldOnce
<1>8. \A f \in Owners : Shared!Cardinality(s1'[f]) <= 1
  BY <1>7, SharedOne DEF Shared!HeldOnce
<1>9. s2' \subseteq {"bucket", "dns"} \X Customers \X UcSuffixes
  BY <1>1, <1>4, <1>5, IdentityTyped
<1>10. s5' \in 0 .. SharedMerges
  BY <1>2, <1>5, SharedAssumption DEF SharedAssumption
<1>11. Shared!SharedTypeOK'
  BY <1>0, <1>2, <1>6, <1>8, <1>9, <1>10 DEF Shared!SharedTypeOK
<1>12. Shared!PanelIsCurrent' /\ Shared!RemovalIsGated' /\ Shared!NewEnvIsWarned'
  BY <1>2 DEF Shared!PanelIsCurrent, Shared!RemovalIsGated, Shared!NewEnvIsWarned
<1>13. Shared!ContentSurvives'
  <2> SUFFICES ASSUME NEW f \in Owners, s1'[f] # {}
               PROVE  Shared!Identity(Shared!ValuesOf(f)') \subseteq s2' \cup s4 \cup s6 \cup s7
    BY <1>2 DEF Shared!ContentSurvives, Shared!Live, Shared!Identity
  <2>1. s1'[f] = {Shared!ValuesOf(f)'}
    BY <1>7, TheValuesNext
  <2>2. CASE f = e
    BY <1>1, <1>6, <2>1, <2>2
  <2>3. CASE f # e
    <3>1. s1[f] = s1'[f]
      BY <1>6, <2>3
    <3>2. s1[f] = {Shared!ValuesOf(f)}
      BY <1>0, <3>1, TheValues
    <3>3. Shared!ValuesOf(f)' = Shared!ValuesOf(f)
      BY <2>1, <3>1, <3>2
    <3>4. Shared!Identity(Shared!ValuesOf(f)) \subseteq s2 \cup s4 \cup s6 \cup s7
      BY <1>0, <3>1 DEF Shared!ContentSurvives, Shared!Live
    <3> QED
      BY <1>1, <3>3, <3>4
  <2> QED
    BY <2>2, <2>3
<1> QED
  BY <1>7, <1>11, <1>12, <1>13, Zenon DEF Shared!SharedInv, Shared!SharedIsShown

LEMMA SharedKept ==
    ASSUME Shared!SharedInv, [Shared!SharedNext]_(Shared!sharedVars)
    PROVE  Shared!SharedInv'
<1>1. CASE UNCHANGED Shared!sharedVars
  <2> USE DEF Shared!sharedVars
  <2>1. Shared!SharedTypeOK => Shared!SharedTypeOK'
    BY <1>1 DEF Shared!SharedTypeOK
  <2>2. (Shared!HeldOnce => Shared!HeldOnce') /\ (Shared!PanelIsCurrent => Shared!PanelIsCurrent')
    BY <1>1 DEF Shared!HeldOnce, Shared!PanelIsCurrent
  <2>3. Shared!RemovalIsGated => Shared!RemovalIsGated'
    BY <1>1 DEF Shared!RemovalIsGated
  <2>4. Shared!ContentSurvives => Shared!ContentSurvives'
    BY <1>1 DEF Shared!ContentSurvives, Shared!Live, Shared!ValuesOf
  <2>5. Shared!NewEnvIsWarned => Shared!NewEnvIsWarned'
    BY <1>1 DEF Shared!NewEnvIsWarned, Shared!Live, Shared!ValuesOf
  <2> QED
    BY <2>1, <2>2, <2>3, <2>4, <2>5, Zenon DEF Shared!SharedInv, Shared!SharedIsShown
<1> QED
  BY <1>1, SharedMerge, SharedRemoval, SharedAddition, SharedEdit DEF Shared!SharedNext

LEMMA SharedAlways == ChangesSpec => [](part = "shared" => Shared!SharedInv)
<1> DEFINE I == part = "shared" => Shared!SharedInv
<1>1. ChangesInit => I
  BY SharedStart
<1>2. I /\ [ChangesNext]_all => I'
  <2> SUFFICES ASSUME I, [ChangesNext]_all, (part = "shared")' PROVE Shared!SharedInv'
    OBVIOUS
  <2>1. part = "shared"
    BY DEF ChangesNext, all
  <2> QED
    BY <2>1, SharedGo, SharedKept
<1> QED
  BY <1>1, <1>2, PTL DEF ChangesSpec

(* Nothing shared is lost unseen but what the gate cannot see                 *)
(* (_shared_user_content_owners, _new_env_shared_lines)                       *)
THEOREM SharedContentIsShown == ChangesSpec => []SharedIsShown
<1>1. (part = "shared" => Shared!SharedInv) => SharedIsShown
  BY DEF Shared!SharedInv, SharedIsShown
<1> QED
  BY <1>1, SharedAlways, PTL

-----------------------------------------------------------------------------
(* All parts *)

LEMMA PartsAlways ==
    ChangesSpec =>
        [](part \in {"wakes", "environments", "suffix", "teardown", "fleet", "vms",
                     "revisions", "newenvs", "merges", "shared"})
<1> DEFINE I == part \in {"wakes", "environments", "suffix", "teardown", "fleet", "vms",
                          "revisions", "newenvs", "merges", "shared"}
<1>1. ChangesInit => I
  BY DEF ChangesInit
<1>2. I /\ [ChangesNext]_all => I'
  BY DEF ChangesNext, all
<1> QED
  BY <1>1, <1>2, PTL DEF ChangesSpec

LEMMA WakesAlways == ChangesSpec => [](part = "wakes" => Typed)
<1> DEFINE I == part = "wakes" => Typed
<1>1. ChangesInit => I
  BY TypedInit DEF ChangesInit
<1>2. I /\ [ChangesNext]_all => I'
  <2> SUFFICES ASSUME I, [ChangesNext]_all, (part = "wakes")' PROVE Typed'
    OBVIOUS
  <2>1. part = "wakes" /\ [Next]_vars
    BY DEF ChangesNext, SlotStep, all
  <2> QED
    BY <2>1, TypedStep
<1> QED
  BY <1>1, <1>2, PTL DEF ChangesSpec

(* Every part keeps its types: the records of the poll loop, of the caches and   *)
(* of the pull requests in flight stay what the code takes them for            *)
THEOREM ChangesTyped == ChangesSpec => []ChangesTypeOK
<1> DEFINE Parts == part \in {"wakes", "environments", "suffix", "teardown", "fleet", "vms",
                              "revisions", "newenvs", "merges", "shared"}
<1>1. /\ Parts
      /\ part = "wakes" => Typed
      /\ part = "environments" => Environments!EnvInv
      /\ part = "suffix" => Suffix!SuffixInv
      /\ part = "teardown" => Down!DownInv
      /\ part = "fleet" => Fleet!FleetInv
      /\ part = "vms" => Vms!VmInv
      /\ part = "revisions" => Revisions!RevisionInv
      /\ part = "newenvs" => News!NewEnvsInv
      /\ part = "merges" => Merges!MergeInv
      /\ part = "shared" => Shared!SharedInv
      => ChangesTypeOK
  BY DEF ChangesTypeOK, Typed, Environments!EnvInv, Suffix!SuffixInv, Down!DownInv,
     Fleet!FleetInv, Vms!VmInv, Revisions!RevisionInv, News!NewEnvsInv, Merges!MergeInv,
     Shared!SharedInv
<1> QED
  BY <1>1, PartsAlways, WakesAlways, EnvironmentsAlways, SuffixAlways, DownAlways,
     FleetAlways, VmsAlways, RevisionsAlways, NewsAlways, MergesAlways, SharedAlways, PTL

=============================================================================
