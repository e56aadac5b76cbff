--------------------------- MODULE SharedContent ---------------------------
(***************************************************************************)
(* The user content bucket and DNS record of an environment are named by its  *)
(* customer and a suffix of its own, so a clone made for a migration has the  *)
(* same ones.  Removing an environment whose data purge is armed deletes them; *)
(* a preview looks for the environments that would lose them (user_content.py, *)
(* _shared_user_content_owners), and a gate blocks until a commit confirms.   *)
(* A preview of a new environment lists what it would share.                  *)
(*                                                                          *)
(* A merged pull request was previewed against the main it is merged into.    *)
(* Environments move, and tear down, in EnvChanges and Teardown.             *)
(***************************************************************************)
EXTENDS Naturals, FiniteSets

CONSTANTS
    Envs,           \* folders of environments
    Customers, Suffixes,
    MaxMerges,      \* bound: merged pull requests
    MaxUnread       \* bound: environments a preview cannot read the values of

VARIABLES
    fleet,          \* Envs -> the values of the environment on main, if any
    cloud,          \* buckets and records that exist
    panel,          \* the preview of a pull request, if any
    confirmed,      \* what a reviewer agreed to lose
    merges,         \* merged pull requests
    unproven,       \* auxiliary: what went with an environment that could not be read
    misfiled        \* auxiliary: what went though an environment had it whose folder
                    \* carries another name than the removed one's

sharedVars == <<fleet, cloud, panel, confirmed, merges, unproven, misfiled>>

Values == [customer : Customers, folder : Customers, suffix : Suffixes,
           renders : SUBSET {"bucket", "dns"}, purge : BOOLEAN]

Live(e) == fleet[e] # {}
ValuesOf(e) == CHOOSE v \in fleet[e] : TRUE

-----------------------------------------------------------------------------

\* identity: the objects of an environment; none when its chart renders none.
Identity(v) == {<<kind, v.customer, v.suffix>> : kind \in v.renders}

\* Candidates: the folders of the same name, read or not.
Candidates(e) ==
    {f \in Envs \ {e} : Live(f) /\ ValuesOf(f).folder = ValuesOf(e).folder}

\* Mutant of PossibleSharer: an environment that cannot be read shares nothing.
PossibleSharerIfRead(target, f, unread) ==
    f \notin unread /\ target \cap Identity(ValuesOf(f)) # {}

\* shared_owners: an environment that cannot be read may share.
PossibleSharer(target, f, unread) ==
    f \in unread \/ target \cap Identity(ValuesOf(f)) # {}

\* _shared_user_content_owners: a target that has, or is known to have, nothing
\* is not compared.
Sharers(e, unread) ==
    LET target == IF e \in unread THEN {} ELSE Identity(ValuesOf(e))
    IN {f \in Candidates(e) : target # {} /\ PossibleSharer(target, f, unread)}

\* _new_env_shared_lines: by the folder, or by the customer their own file has.
Siblings(v, unread) ==
    {f \in Envs : /\ Live(f)
                  /\ \/ ValuesOf(f).folder = v.customer
                     \/ f \notin unread /\ ValuesOf(f).customer = v.customer}

\* What the lines of a new environment warn of.
Warned(v, unread) ==
    \E f \in Siblings(v, unread) : PossibleSharer(Identity(v), f, unread)

-----------------------------------------------------------------------------

\* A folder may carry another customer's name.
NewValues == {v \in Values : v.renders # {} /\ ~v.purge}

SharedInit ==
    /\ \E e \in Envs : \E v \in NewValues :
         /\ fleet = [f \in Envs |-> IF f = e THEN {v} ELSE {}]
         /\ cloud = Identity(v)
    /\ panel = {} /\ confirmed = {} /\ merges = 0
    /\ unproven = {} /\ misfiled = {}

MayBeUnread == {unread \in SUBSET {f \in Envs : Live(f)} : Cardinality(unread) <= MaxUnread}

\* A pull request removes an environment.  What a preview says depends on main
\* alone, so none is shown after another before main moves.
PreviewRemoval(e) ==
    /\ panel = {} /\ Live(e)
    /\ \E unread \in MayBeUnread :
        panel' = {[adds |-> {}, env |-> e, unread |-> unread,
                   gate |-> ValuesOf(e).purge /\ Sharers(e, unread) # {},
                   warned |-> Sharers(e, unread) # {}]}
    /\ UNCHANGED <<fleet, cloud, confirmed, merges, unproven, misfiled>>

\* A pull request adds one; it blocks nothing.
PreviewAddition(e) ==
    /\ panel = {} /\ ~Live(e)
    /\ \E v \in NewValues, unread \in MayBeUnread :
        panel' = {[adds |-> {v}, env |-> e, unread |-> unread, gate |-> FALSE,
                   warned |-> Warned(v, unread)]}
    /\ UNCHANGED <<fleet, cloud, confirmed, merges, unproven, misfiled>>

\* What goes with the purge of an environment, and what of it another one has
\* whose folder carries another name.
Gone(e) == {o \in UNION {Identity(v) : v \in fleet[e]} : \E v \in fleet[e] : v.purge}
Elsewhere(e) ==
    {o \in Gone(e) : \E f \in Envs \ {e} : \E u \in fleet[f] :
                        o \in Identity(u) /\ \A v \in fleet[e] : u.folder # v.folder}

\* The pull request is merged; an open gate needs `Confirm-Teardown`.
Merge ==
    /\ merges < MaxMerges
    /\ \E p \in panel :
        /\ fleet' = [fleet EXCEPT ![p.env] = p.adds]
        /\ cloud' = (cloud \ Gone(p.env)) \cup UNION {Identity(v) : v \in p.adds}
        /\ confirmed' = IF p.gate THEN confirmed \cup Gone(p.env) ELSE confirmed
        /\ unproven' = IF p.env \in p.unread THEN unproven \cup Gone(p.env) ELSE unproven
        /\ misfiled' = IF p.env \notin p.unread /\ ~p.gate
                       THEN misfiled \cup Elsewhere(p.env) ELSE misfiled
    /\ panel' = {}
    /\ merges' = merges + 1

\* A pull request arms the purge, or turns the content of an environment to
\* another suffix; its panel is a text.
EditEnv(e) ==
    /\ merges < MaxMerges /\ Live(e)
    /\ \E v \in {[ValuesOf(e) EXCEPT !.purge = TRUE]}
                \cup {[ValuesOf(e) EXCEPT !.suffix = s] : s \in Suffixes} :
        /\ {v} # fleet[e]
        /\ fleet' = [fleet EXCEPT ![e] = {v}]
        /\ cloud' = cloud \cup Identity(v)
    /\ panel' = {}
    /\ merges' = merges + 1
    /\ UNCHANGED <<confirmed, unproven, misfiled>>

SharedNext ==
    \/ Merge
    \/ \E e \in Envs : PreviewRemoval(e) \/ PreviewAddition(e) \/ EditEnv(e)
SharedSpec == SharedInit /\ [][SharedNext]_sharedVars

-----------------------------------------------------------------------------

SharedTypeOK ==
    /\ fleet \in [Envs -> SUBSET Values] /\ \A e \in Envs : Cardinality(fleet[e]) <= 1
    /\ \A objects \in {cloud, confirmed, unproven, misfiled} :
         objects \subseteq {"bucket", "dns"} \X Customers \X Suffixes
    /\ panel \subseteq [adds : SUBSET Values, env : Envs, unread : SUBSET Envs,
                       gate : BOOLEAN, warned : BOOLEAN]
    /\ merges \in 0..MaxMerges

\* No environment on main loses its bucket or its record to the removal of
\* another one, unless a commit confirmed it in front of the gate, the removed one
\* could not be read, or the one that loses it was looked for under another name
\* (_shared_user_content_owners, the gate shared_uc; AE-15284).
ContentSurvives ==
    \A e \in Envs : Live(e) =>
        Identity(ValuesOf(e)) \subseteq cloud \cup confirmed \cup unproven \cup misfiled

\* An environment that cannot be read may share, also when it is the one removed:
\* the gate is raised (user_content.identity: "fail closed").
UnprovenIsGated ==
    \A e \in Envs : Live(e) =>
        Identity(ValuesOf(e)) \subseteq cloud \cup confirmed \cup misfiled

\* The preview of a new environment that shares a bucket or a record with a live
\* one says so, or says that it could not check (_new_env_shared_lines).  One
\* whose file cannot be read, in a folder of another name, is not found.
NewEnvIsWarned ==
    \A p \in panel : \A v \in p.adds :
        (\E f \in Envs : /\ Live(f)
                         /\ Identity(v) \cap Identity(ValuesOf(f)) # {}
                         /\ f \notin p.unread \/ ValuesOf(f).folder = v.customer) => p.warned

\* What environments share is said when the second one is created and gated when
\* the first one is removed (_new_env_shared_lines, _evaluate_env_decommissions).
SharedIsShown == ContentSurvives /\ NewEnvIsWarned

\* What the proofs use.  A panel is about the fleet as it is, and whoever would lose
\* something to a removal that was read, in a folder of the same name, is among the
\* ones its preview compares.
HeldOnce == \A e \in Envs : fleet[e] = {} \/ \E v \in Values : fleet[e] = {v}
PanelIsCurrent ==
    \A p \in panel :
        \/ p.adds = {}
        \/ fleet[p.env] = {} /\ \E v \in NewValues : p.adds = {v}
RemovalIsGated ==
    \A p \in panel : \A v \in fleet[p.env] :
        /\ v.purge /\ p.env \notin p.unread
        /\ \E f \in Envs \ {p.env} : \E u \in fleet[f] :
             u.folder = v.folder /\ Identity(v) \cap Identity(u) # {}
        => p.gate
SharedInv == SharedTypeOK /\ HeldOnce /\ PanelIsCurrent /\ RemovalIsGated /\ SharedIsShown
=============================================================================
