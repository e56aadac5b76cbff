----------------------------- MODULE EnvChanges -----------------------------
(***************************************************************************)
(* What a pull request does to the environments of the fleet, as           *)
(* process_pr finds it out: Bitbucket's file renames are completed by the  *)
(* identity the files declare, then four detectors read the same two       *)
(* commits, each with a rule of its own - a live environment is renamed,   *)
(* loses its cohort file, is new, or goes away - and the verdict is drawn   *)
(* from what they report.  No single detector sees the whole change.        *)
(*                                                                          *)
(* A place is the folder of one environment: its customer.yaml is the file  *)
(* of the place, and the config.yaml one folder up is its cohort.           *)
(***************************************************************************)
EXTENDS FiniteSets, Functions, Naturals

CONSTANTS
    Places,         \* folders an environment may live in
    Public,         \* the places that are blocks of a public-cloud constellation
    CohortOf,       \* the folder above each place, whose config.yaml it needs
    SpokeOf,        \* the cloud, tier and spoke of each place
    TeardownName,   \* the name a teardown of the place is reported under
    Names,          \* customer names
    Suffixes,       \* suffixes a file or a cohort may declare
    MaxEdits,       \* bound: customer.yaml and cohort files one pull request changes
    MaxStray,       \* bound: places where ArgoCD's apps and main disagree
    Mains           \* bound: the commits main may be at

NoFile == [name |-> "none", suffix |-> "absent"]
Files == [name : Names, suffix : Suffixes \cup {"undeclared"}]
Cohorts == Range(CohortOf)
CohortFiles == {"absent", "undeclared"} \cup Suffixes
Private == Places \ Public
Commit == [place : [Places -> Files \cup {NoFile}], cohort : [Cohorts -> CohortFiles]]

VARIABLES
    pr,         \* the pull request: main, the merge preview, the live apps, Bitbucket's pairs
    renames,    \* old place -> new place, as the rest of the pass believes
    planned,    \* old places of the confirmed renames
    report,     \* what the detectors put in the comment; ghost: silent, the cohorts
                \* whose file could not be read when the verdict was drawn
    verdict     \* where the pass is, or the build status it ends with

envVars == <<pr, renames, planned, report, verdict>>

Main(p) == pr.main.place[p]
Head(p) == pr.head.place[p]
Changed == {p \in Places : Main(p) # Head(p)}
HasCohort(commit, p) == commit.cohort[CohortOf[p]] # "absent"

-----------------------------------------------------------------------------
(* Identity.                                                               *)

\* Mutant of SameIdentity: an undeclared suffix is a mismatch.
StrictIdentity(f, g) == f.name = g.name /\ f.suffix = g.suffix /\ f.suffix \in Suffixes

\* The same environment?  A suffix is compared only when both sides declare one.
SameIdentity(f, g) ==
    /\ f.name = g.name
    /\ ~({f.suffix, g.suffix} \subseteq Suffixes) \/ f.suffix = g.suffix

\* The name of the apps and of the namespace: the file's suffix, else its
\* cohort's, else "a".
AppsName(commit, p) ==
    LET own == commit.place[p].suffix
        cohort == commit.cohort[CohortOf[p]]
    IN <<commit.place[p].name,
         IF own \in Suffixes THEN own ELSE IF cohort \in Suffixes THEN cohort ELSE "a">>

\* A pairing is believed unless both files could be read and disagree.
Confirmed(old, unread) ==
    {old, renames[old]} \cap unread = {} => SameIdentity(Main(old), Head(renames[old]))

-----------------------------------------------------------------------------
(* The pairing, and the two gates that end the pass at once.               *)

\* A deleted live place and an added one pair when nothing else matches the deleted one.
Matches(old, unread) ==
    {p \in Changed \ (pr.live \cup Range(pr.pairs) \cup unread) :
        Head(p) # NoFile /\ SameIdentity(Main(old), Head(p))}

Pairable(unread) ==
    {p \in (pr.live \cap Changed) \ (DOMAIN pr.pairs \cup unread) :
        Head(p) = NoFile /\ Cardinality(Matches(p, unread)) = 1}

Pair ==
    /\ verdict = "pair"
    /\ \E unread \in SUBSET Changed :
         LET found == [p \in Pairable(unread) |-> CHOOSE q \in Matches(p, unread) : TRUE]
         IN renames' = [p \in DOMAIN pr.pairs \cup DOMAIN found |->
                          IF p \in DOMAIN pr.pairs THEN pr.pairs[p] ELSE found[p]]
    /\ verdict' = "cohorts"
    /\ UNCHANGED <<pr, planned, report>>

\* The live environments that stay under a cohort file the pull request removes.
Orphaned ==
    {p \in (pr.live \cap Private) \ DOMAIN renames :
        /\ Head(p) # NoFile
        /\ HasCohort(pr.main, p) /\ ~HasCohort(pr.head, p)}

CohortGate ==
    /\ verdict = "cohorts"
    /\ verdict' = IF Orphaned # {} THEN "failed" ELSE "identity"
    /\ UNCHANGED <<pr, renames, planned, report>>

\* Mutant of Compared: the places below a changed cohort are forgotten.
ComparedWhereChanged ==
    LET moved == DOMAIN renames \cup Range(renames)
    IN {<<p, p>> : p \in (Changed \cap Private) \ moved}
       \cup {<<p, renames[p]>> : p \in {q \in DOMAIN renames : {q, renames[q]} \subseteq Private}}

\* Pairs to compare: changed in place, paired, or below a cohort that changed its suffix.
Compared ==
    LET moved == DOMAIN renames \cup Range(renames)
        below == {p \in (pr.live \cap Private) \ (moved \cup Changed) :
                    pr.main.cohort[CohortOf[p]] # pr.head.cohort[CohortOf[p]]}
    IN {<<p, p>> : p \in ((Changed \cap Private) \ moved) \cup below}
       \cup {<<p, renames[p]>> : p \in {q \in DOMAIN renames : {q, renames[q]} \subseteq Private}}

\* The environments on main whose apps or cluster this pull request changes.
IdentityHits ==
    {pair \in Compared :
        LET old == pair[1]
            new == pair[2]
        IN /\ Main(old) # NoFile /\ HasCohort(pr.main, old)
           /\ Head(new) # NoFile
           /\ \/ AppsName(pr.main, old) # AppsName(pr.head, new)
              \/ SpokeOf[old] # SpokeOf[new]}

\* What the author prepared; a rename merges only when all of it is there.
Preparations == {"confirmed", "paused_base", "paused_head"}
MayRename(plan) == plan = Preparations

IdentityGate ==
    /\ verdict = "identity"
    /\ \E plan \in SUBSET (Preparations \cup {"decommission"}) :
         IF IdentityHits # {} /\ ~MayRename(plan)
           THEN verdict' = "failed" /\ UNCHANGED planned
           ELSE /\ verdict' = "detect"
                /\ planned' = {pair[1] : pair \in IdentityHits}
    /\ UNCHANGED <<pr, renames, report>>

\* A file that could not be read ends the pass; the poll loop starts it again.
Unreadable ==
    /\ verdict \in {"cohorts", "identity", "detect"}
    /\ verdict' = "pair"
    /\ planned' = {}
    /\ UNCHANGED <<pr, renames, report>>

-----------------------------------------------------------------------------
(* The detectors, and the verdict.                                         *)

\* Changed, present at the head, of no live app, and no rename's new side.
NewEnvs == {p \in Changed \ (pr.live \cup Range(renames)) : Head(p) # NoFile}

\* The cohort file of a place was read and is not there; a read that failed is no
\* fact, and the two checks below let it pass.
Missing(p, silent) == ~HasCohort(pr.head, p) /\ CohortOf[p] \notin silent

\* New environments for which the generator makes no app.
Cohortless(news, silent) == {p \in news : Missing(p, silent)}

\* Mutant of MovesMissingCohort: a moved environment is not asked for its cohort.
MovesNotAsked(silent) == {}

\* The same for the paired ones, asked only when a live app is affected.
MovesMissingCohort(silent) == {p \in Range(renames) : Missing(p, silent)}

\* New private environments that take the names of a live one or of each other.
Duplicates(news) ==
    {p \in news \cap Private :
        /\ HasCohort(pr.head, p)
        /\ \/ \E q \in pr.live \cap Private :
                /\ Main(q) # NoFile /\ AppsName(pr.main, q) = AppsName(pr.head, p)
                /\ q \notin Changed \/ q \in DOMAIN renames \/ Head(q) # NoFile
           \/ \E q \in (news \cap Private) \ {p} : AppsName(pr.head, q) = AppsName(pr.head, p)}

\* Live places whose file changed and did not move; the deleted ones are torn down.
TeardownCandidates(unread) ==
    {p \in pr.live \cap Changed : p \in DOMAIN renames => ~Confirmed(p, unread)}
TornDown(candidates) == {p \in candidates : Head(p) = NoFile}

\* One gate per environment torn down, unless it cascades or was a planned rename.
TeardownGates(torn, armed) ==
    {p \in torn : p \in Public \/ (~armed /\ p \notin planned)}

\* The apps the normal diff leaves out: by the reported name of the environment.
SkippedForTeardown(candidates) ==
    {p \in candidates : \E q \in TornDown(candidates) : TeardownName[q] = TeardownName[p]}

\* Apps of an earlier teardown that ArgoCD still has.
Leftovers(affected) == {p \in affected : Main(p) = NoFile /\ Head(p) = NoFile}

\* The live apps that read a file of this pull request.
Affected ==
    {p \in pr.live : \/ p \in Changed
                     \/ pr.main.cohort[CohortOf[p]] # pr.head.cohort[CohortOf[p]]}

\* A render fails when the file of the place is gone and no move leads elsewhere.
RenderFails(p, unread) ==
    /\ Head(p) = NoFile
    /\ ~(p \in DOMAIN renames /\ Confirmed(p, unread))

NoReport == [news |-> {}, torn |-> {}, skipped |-> {}, rendered |-> {}, silent |-> {}]

Detect ==
    /\ verdict = "detect"
    /\ \E unread \in SUBSET (DOMAIN renames \cup Range(renames)),
          silent \in SUBSET {c \in Cohorts : pr.head.cohort[c] = "absent"},
          armed, lifted \in BOOLEAN :
         LET news == NewEnvs
             candidates == TeardownCandidates(unread)
             torn == TornDown(candidates)
             skipped == SkippedForTeardown(candidates)
             rendered == Affected \ (skipped \cup Leftovers(Affected))
             blocked == \/ Cohortless(news, silent) # {} \/ Duplicates(news) # {}
                        \/ Affected # {} /\ MovesMissingCohort(silent) # {}
                        \/ TeardownGates(torn, armed) # {} /\ ~lifted
                        \/ \E p \in rendered : RenderFails(p, unread)
         IN /\ report' = [news |-> news, torn |-> torn, skipped |-> skipped,
                          rendered |-> rendered, silent |-> silent]
            /\ verdict' = IF blocked THEN "failed" ELSE "green"
    /\ UNCHANGED <<pr, renames, planned>>

-----------------------------------------------------------------------------
(* Main is consistent: no two live private environments own the same names. *)
Consistent(p) ==
    \A q, r \in {x \in p.live \cap Private : p.main.place[x] # NoFile} :
        q # r => AppsName(p.main, q) # AppsName(p.main, r)

\* What Bitbucket pairs by content: any deleted file with any added one, one to one.
PairsOf(main, head) ==
    LET gone == {p \in Places : main.place[p] # NoFile /\ head.place[p] = NoFile}
        come == {p \in Places : main.place[p] = NoFile /\ head.place[p] # NoFile}
    IN {f \in UNION {[d -> come] : d \in SUBSET gone} : Cardinality(Range(f)) = Cardinality(DOMAIN f)}

\* The commits that differ from main in a few files.
Edited(files, changes) == [f \in DOMAIN files |-> IF f \in DOMAIN changes THEN changes[f] ELSE files[f]]
Changing(main, few) ==
    {[place |-> Edited(main.place, places), cohort |-> Edited(main.cohort, cohorts)] :
       places \in [few[1] -> Files \cup {NoFile}], cohorts \in [few[2] -> CohortFiles]}
Edits(main) ==
    UNION {Changing(main, few) :
             few \in {e \in (SUBSET Places) \X (SUBSET Cohorts) :
                       Cardinality(e[1]) + Cardinality(e[2]) <= MaxEdits}}

EnvInit ==
    /\ \E main \in Commit \cap Mains, stray \in {s \in SUBSET Places : Cardinality(s) <= MaxStray} :
         LET filed == {p \in Places : main.place[p] # NoFile}
             live == (filed \ stray) \cup (stray \ filed)
         IN \E head \in Edits(main) \ {main} : \E pairs \in PairsOf(main, head) :
              pr = [main |-> main, head |-> head, live |-> live, pairs |-> pairs]
    /\ Consistent(pr)
    /\ renames = <<>>
    /\ planned = {}
    /\ report = NoReport
    /\ verdict = "pair"

EnvNext == Pair \/ CohortGate \/ IdentityGate \/ Unreadable \/ Detect
EnvSpec == EnvInit /\ [][EnvNext]_envVars

-----------------------------------------------------------------------------
EnvTypeOK ==
    /\ pr.main \in Commit /\ pr.head \in Commit /\ pr.live \subseteq Places
    /\ DOMAIN renames \cup Range(renames) \subseteq Places
    /\ planned \subseteq Places
    /\ \A part \in DOMAIN NoReport \ {"silent"} : report[part] \subseteq Places
    /\ report.silent \subseteq Cohorts
    /\ verdict \in {"pair", "cohorts", "identity", "detect", "failed", "green"}

\* A live private environment on main, whose apps the ApplicationSet makes.
Deployed(p) == p \in pr.live \cap Private /\ Main(p) # NoFile /\ HasCohort(pr.main, p)

\* After the merge some place on the same spoke makes the same apps.
StillDeployed(p) ==
    \E q \in Private : /\ Head(q) # NoFile /\ HasCohort(pr.head, q)
                       /\ SpokeOf[q] = SpokeOf[p] /\ AppsName(pr.head, q) = AppsName(pr.main, p)

\* The move of an environment to a folder that no gate compares with it: the
\* identity gate looks at two private files only, and a cohort that could not be
\* read passes for one that is there.
MovesUnseen(p) ==
    p \in DOMAIN renames /\ (renames[p] \in Public \/ CohortOf[renames[p]] \in report.silent)

\* A pull request that takes the apps of a live private environment away goes
\* green only when the comment names it, as a teardown or as a planned rename:
\* the pairing, the two gates and the detectors leave no gap between them but the
\* one above.
NoEnvVanishes ==
    verdict = "green" =>
        \A p \in Places :
            Deployed(p) =>
                StillDeployed(p) \/ p \in report.torn \cup planned \/ MovesUnseen(p)

\* A pull request that would leave an environment without the cohort file its
\* apps are generated from never goes green, whichever of the three checks has
\* to see it: a live environment in place, a moved one, or a new one.  (A new
\* folder Bitbucket pairs with the deleted file of no live app has no check, and
\* the check of a moved or new one lets a read that fails pass; the one of a live
\* environment does not.)
CohortlessIsBlocked ==
    verdict = "green" =>
        \A p \in Private :
            Head(p) # NoFile /\ ~HasCohort(pr.head, p) =>
                /\ p \in pr.live => ~HasCohort(pr.main, p)
                /\ p \in Changed \ pr.live =>
                      \/ CohortOf[p] \in report.silent
                      \/ \E old \in DOMAIN pr.pairs \ pr.live : pr.pairs[old] = p

\* An environment whose file moves unchanged, and is paired, is reported neither
\* as new nor as torn down, and its applications stay in the diff.
MoveIsAMove ==
    \A old \in DOMAIN renames \cap pr.live :
        Main(old) = Head(renames[old]) =>
            /\ renames[old] \notin report.news
            /\ old \notin report.torn \cup report.skipped

\* Renaming a folder is neither a way round the cohort checks nor a teardown and a
\* creation (_augment_renames_with_identity_moves, _moves_missing_cohort).
MovesAreChecked == CohortlessIsBlocked /\ MoveIsAMove

\* The applications left out of the diff are those of files the pull request
\* deletes (_apps_to_skip_for_decommission: an unconfirmed candidate's apps
\* must still go through the normal pipeline).
KeptBlockIsRendered == \A p \in report.skipped : Head(p) = NoFile

\* What the proofs use.  A rename leads from a file that goes to one that comes,
\* and only Bitbucket's have an old side that is not live; nothing that stays on
\* main is the new side of one.
PairsAreMoves ==
    \A p \in DOMAIN pr.pairs : /\ p \in Places /\ Main(p) # NoFile /\ Head(p) = NoFile
                              /\ pr.pairs[p] \in Places
                              /\ Main(pr.pairs[p]) = NoFile /\ Head(pr.pairs[p]) # NoFile
RenamesAreMoves ==
    \A p \in DOMAIN renames :
        /\ p \in Changed /\ Head(p) = NoFile
        /\ renames[p] \in Places /\ Head(renames[p]) # NoFile
        /\ Main(renames[p]) = NoFile \/ renames[p] \notin pr.live
        /\ p \in pr.live \/ (p \in DOMAIN pr.pairs /\ renames[p] = pr.pairs[p])

\* The gates a pass has behind it, and the comment it has not written yet.
GatesArePassed ==
    /\ verdict \in {"identity", "detect", "green"} => Orphaned = {}
    /\ verdict \in {"detect", "green"} => planned = {pair[1] : pair \in IdentityHits}
ReportIsLast == verdict \in {"pair", "cohorts", "identity", "detect"} => report = NoReport

EnvInv ==
    /\ EnvTypeOK /\ PairsAreMoves /\ RenamesAreMoves /\ GatesArePassed /\ ReportIsLast
    /\ NoEnvVanishes
    /\ MovesAreChecked
=============================================================================
