----------------------------- MODULE FleetGates -----------------------------
(***************************************************************************)
(* Two things the prod and AEC clouds share, and that a pull request about  *)
(* one environment can break for another: whether a clone of production     *)
(* runs, which its own file or the config.yaml above it decides, and the    *)
(* ASHN map, which takes one customer and one host per ashn and is refused  *)
(* as a whole otherwise.  Each gate judges only what the pull request       *)
(* touches; the module merges green pull requests one after the other and   *)
(* looks at the fleet.                                                      *)
(*                                                                          *)
(* ArgoCD has the applications of every folder on main when a pull request  *)
(* is judged, and may still have some of removed ones.  No pull request     *)
(* changes the customer of an environment (EnvChanges has that gate).       *)
(***************************************************************************)
EXTENDS Naturals, FiniteSets, Functions

CONSTANTS
    Folders,        \* prod and AEC environments that may exist
    Clones,         \* those that are clones
    ConfigOf,       \* the config.yaml above each
    Contents,       \* what a customer.yaml may say
    Configs,        \* what a config.yaml may say
    MaxEdits,       \* bound: files one pull request changes
    MaxGreen        \* bound: merged pull requests

VARIABLES
    main,           \* the commit of main: the files of the folders and the configs
    green,          \* merged pull requests
    woken,          \* auxiliary: clones the last merge let run, with no confirmation
    noted           \* auxiliary: some comment said that files could not be checked

fleetVars == <<main, green, woken, noted>>

-----------------------------------------------------------------------------

NoContents == [customer |-> "none", zeroPods |-> "unset", ashn |-> "none", host |-> "none"]
Fleets == [folder : [Folders -> Contents \cup {NoContents}],
           config : [Range(ConfigOf) -> Configs]]

Is(commit, f) == commit.folder[f] # NoContents
Filed(commit) == {f \in Folders : Is(commit, f)}

\* The value chain: the folder's own value, else that of the config above it.
Asleep(commit, f) ==
    LET own == commit.folder[f].zeroPods
    IN (IF own = "unset" THEN commit.config[ConfigOf[f]].zeroPods ELSE own) = "true"

\* _ashn_map_row: an environment without an ashn has no entry; an entry has no
\* host where the cloud has no zone.
HasRow(commit, f) == commit.folder[f].ashn # "none"
Zone(commit, f) == commit.config[ConfigOf[f]].zone
Host(commit, f) == <<commit.folder[f].host, Zone(commit, f)>>
HasHost(commit, f) == HasRow(commit, f) /\ Zone(commit, f) # "none"

-----------------------------------------------------------------------------
(* The gates.  pr has the head and the renames, old -> new; live are the    *)
(* folders ArgoCD has applications of.                                      *)

Touched(pr) == {f \in Folders : main.folder[f] # pr.head.folder[f]}
Sources(pr) == DOMAIN pr.renames
Was(pr, f) == IF \E o \in Sources(pr) : pr.renames[o] = f
              THEN CHOOSE o \in Sources(pr) : pr.renames[o] = f ELSE f

NewClones(pr, live) ==
    {f \in (Clones \cap Touched(pr)) \ (live \cup Range(pr.renames)) : Is(pr.head, f)}

\* Mutant of ChangedClones: a moved clone is compared with itself.
ChangedInPlace(pr, live) ==
    {f \in (Clones \cap Touched(pr) \cap live) \ Sources(pr) :
        Is(pr.head, f) /\ pr.head.folder[f].zeroPods # main.folder[f].zeroPods}

\* Live clones that moved, or that changed their own value.
ChangedClones(pr, live) ==
    {f \in (Clones \cap Touched(pr)) \ (Sources(pr) \cup NewClones(pr, live)) :
        /\ Was(pr, f) \in live
        /\ Is(pr.head, f)
        /\ Was(pr, f) # f \/ pr.head.folder[f].zeroPods # main.folder[f].zeroPods}

Gone(pr, live) ==
    {f \in (Clones \cap Touched(pr) \cap live) \ Sources(pr) : ~Is(pr.head, f)}

\* Live clones below a config.yaml that changed its own value.
ClonesBelow(pr, live) ==
    {f \in (Clones \cap live) \ (Sources(pr) \cup Gone(pr, live)) :
        main.config[ConfigOf[f]].zeroPods # pr.head.config[ConfigOf[f]].zeroPods}

\* clone_wake: what was read is awake at the head, and new or asleep before.
CloneWakes(pr, live) ==
    {f \in NewClones(pr, live) : ~Asleep(pr.head, f)}
    \cup {f \in ChangedClones(pr, live) \cup ClonesBelow(pr, live) :
            ~Asleep(pr.head, f) /\ Asleep(main, Was(pr, f))}

\* The own ashn is new or changed.
NewAshns(pr) ==
    {f \in Touched(pr) \ Sources(pr) :
        pr.head.folder[f].ashn \notin {"none", main.folder[Was(pr, f)].ashn}}

\* Mutant of Census: the changed files are judged as they are on main.
CensusOfMain(pr, live, unread) ==
    [f \in (live \cap Filed(main)) \ unread |-> main.folder[f]]

\* The files an ashn is compared with: the live ones that this pull request
\* leaves alone, as on main, and all it changes, as at the head.
Census(pr, live, unread) ==
    [f \in Touched(pr) \cup ((live \cap Filed(main)) \ (unread \cup Sources(pr))) |->
        IF f \in Touched(pr) THEN pr.head.folder[f] ELSE main.folder[f]]

\* ashn_copy and ashn_taken: an environment of another customer has it.
AshnTaken(pr, live, unread) ==
    LET census == Census(pr, live, unread) IN
    {f \in NewAshns(pr) : \E g \in DOMAIN census :
        /\ census[g].ashn = pr.head.folder[f].ashn
        /\ census[g].customer # pr.head.folder[f].customer}

\* The environments whose entry of the map this pull request can change.
MapCandidates(pr, live) ==
    LET keys(x) == <<x.ashn, x.host>>
        below == {f \in live \ Sources(pr) : Zone(main, f) # Zone(pr.head, f)}
    IN Range(pr.renames)
       \cup {f \in Touched(pr) \ Sources(pr) :
                Is(pr.head, f) /\ keys(pr.head.folder[f]) # keys(main.folder[f])}
       \cup below

\* ashn_no_host, unless the entry had none on main.
HostLost(pr, live) ==
    {f \in MapCandidates(pr, live) :
        /\ HasRow(pr.head, f) /\ ~HasHost(pr.head, f)
        /\ ~(HasRow(main, Was(pr, f)) /\ ~HasHost(main, Was(pr, f)))}

Contradict(commit, f, g) ==
    /\ commit.folder[f].ashn = commit.folder[g].ashn
    /\ HasHost(commit, f) /\ HasHost(commit, g)
    /\ Host(commit, f) # Host(commit, g)

\* ashn_two_hosts, unless the two are on main already.
TwoHosts(pr, live, unread) ==
    LET census == Census(pr, live, unread) IN
    {f \in MapCandidates(pr, live) : \E g \in DOMAIN census \ {f} :
        /\ census[g].ashn = pr.head.folder[f].ashn
        /\ Contradict(pr.head, f, g)
        /\ ~Contradict(main, Was(pr, f), Was(pr, g))}

-----------------------------------------------------------------------------
(* Pull requests.                                                           *)

Edited(files, changes) == [f \in DOMAIN files |-> IF f \in DOMAIN changes THEN changes[f] ELSE files[f]]
Changing(few) ==
    {[folder |-> Edited(main.folder, fs), config |-> Edited(main.config, cs)] :
       fs \in [few[1] -> Contents \cup {NoContents}], cs \in [few[2] -> Configs]}
Edits ==
    UNION {Changing(few) : few \in {e \in (SUBSET Folders) \X (SUBSET Range(ConfigOf)) :
                                     Cardinality(e[1]) + Cardinality(e[2]) <= MaxEdits}}

\* A removed file and an added one of the same customer pair, or not.
Renames(head) ==
    LET removed == Filed(main) \ Filed(head)
        added == Filed(head) \ Filed(main)
    IN {r \in UNION {[d -> added] : d \in SUBSET removed} :
            /\ Cardinality(Range(r)) = Cardinality(DOMAIN r)
            /\ \A o \in DOMAIN r :
                  main.folder[o].customer = head.folder[r[o]].customer}

KeepsCustomers(head) ==
    \A f \in Filed(main) \cap Filed(head) : main.folder[f].customer = head.folder[f].customer

\* A pull request without an open gate is merged; the clone gate can be lifted.
Merge(pr, live, unread, confirmed) ==
    /\ KeepsCustomers(pr.head)
    /\ AshnTaken(pr, live, unread) = {}
    /\ HostLost(pr, live) = {} /\ TwoHosts(pr, live, unread) = {}
    /\ confirmed \/ CloneWakes(pr, live) = {}
    /\ main' = pr.head
    /\ woken' = IF confirmed THEN {}
                ELSE {f \in Clones :
                        /\ Is(pr.head, f) /\ ~Asleep(pr.head, f)
                        /\ Was(pr, f) \in live =>
                             Is(main, Was(pr, f)) /\ Asleep(main, Was(pr, f))}
    /\ noted' = (noted \/ unread # {})

MergeGreen ==
    /\ green < MaxGreen
    /\ \E head \in Edits \ {main} : \E renames \in Renames(head) :
       \E left \in SUBSET (Folders \ Filed(main)), unread \in SUBSET Filed(main),
          confirmed \in BOOLEAN :
         /\ Cardinality(left) + Cardinality(unread) <= 1
         /\ Merge([head |-> head, renames |-> renames], Filed(main) \cup left, unread, confirmed)
    /\ green' = green + 1

FleetInit ==
    /\ main \in [folder : {[f \in Folders |-> NoContents]},
                 config : [Range(ConfigOf) -> Configs]]
    /\ green = 0 /\ woken = {} /\ noted = FALSE

FleetNext == MergeGreen
FleetSpec == FleetInit /\ [][FleetNext]_fleetVars

-----------------------------------------------------------------------------

FleetTypeOK ==
    /\ main \in Fleets
    /\ green \in 0..MaxGreen
    /\ woken \subseteq Clones
    /\ noted \in BOOLEAN

\* No clone of production starts to run unless somebody confirmed it: whether
\* its own file, a move below another config or the config above it does it
\* (_detect_clone_wakes).  A clone that comes back while ArgoCD still has
\* applications of the removed one is left out: its value on main is the
\* config's, and it passes.
NoCloneWakesUnseen == woken = {}

\* The map can be published: one customer and one host for an ashn, whatever
\* pull requests added, moved, swapped or removed, unless a comment said that
\* some environment could not be checked (_detect_ashn_gates and
\* _detect_ashn_map_gates).
MapIsPublishable ==
    noted \/ \A f, g \in Filed(main) :
        main.folder[f].ashn = main.folder[g].ashn /\ HasRow(main, f) =>
            /\ main.folder[f].customer = main.folder[g].customer
            /\ ~Contradict(main, f, g)

\* Green merges, of several pull requests one after the other, neither wake a clone
\* nor contradict the map (the gates clone_wake, ashn_taken, ashn_two_hosts).
FleetIsSafe == NoCloneWakesUnseen /\ MapIsPublishable

\* What the proofs use: the gates are inductive as they stand.
FleetInv == FleetTypeOK /\ FleetIsSafe
=============================================================================
