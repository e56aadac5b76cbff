--------------------------- MODULE SuffixMigration ---------------------------
(***************************************************************************)
(* Two cells of one customer answer on one public name while the customer   *)
(* moves from one to the other.  findings() judges one pull request at a     *)
(* time; what it protects is a shared DNS record that several pull           *)
(* requests, ArgoCD's syncs and Config Connector's reconciles change in      *)
(* turn.  The module puts the gates of findings() in front of every merge    *)
(* and lets the cluster follow main in any order.                            *)
(*                                                                          *)
(* Nothing but the panels' words makes an author wait for ArgoCD between two *)
(* merges, a sibling that cannot be read is a note in the comment, and a     *)
(* removal that cascades nothing can be confirmed: all three happen here,    *)
(* and what they can do to a record is what the properties name.  Every pull *)
(* request is judged against the main it is merged into.                     *)
(***************************************************************************)
EXTENDS Naturals

CONSTANTS
    Cells,      \* the cells of the customer, all on one public name
    MaxPRs      \* bound: merged pull requests

Absent == [record |-> FALSE, decommission |-> FALSE, vm |-> FALSE, there |-> FALSE]
\* A folder: it writes the record, it is armed for deletion, it renders the VM.
CellFolders == [record : BOOLEAN, decommission : BOOLEAN, vm : BOOLEAN, there : {TRUE}]

VARIABLES
    main,       \* the folder of each cell on main
    applied,    \* what ArgoCD last synced of each cell
    writers,    \* the cells whose DNSRecordSet exists, for Config Connector to reconcile
    record,     \* the cell whose address the record holds, or "none"
    standing,   \* the cells the last pull request left running, as it found them
    merged,     \* how many pull requests were merged
    unread,     \* auxiliary: siblings a green pull request was judged without and
                \* would not have been green with
    unsynced,   \* auxiliary: cells ArgoCD had still to sync when a pull request was merged
    orphaned    \* auxiliary: cells removed with no teardown live, their record left to
                \* Config Connector

suffixVars == <<main, applied, writers, record, standing, merged, unread, unsynced, orphaned>>

Serving(side) == {c \in Cells : side[c].there /\ ~side[c].decommission}

-----------------------------------------------------------------------------
(* The gates, from the values before and after the pull request.            *)

Changed(base, head) == {c \in Cells : base[c] # head[c]}
RecordOwners(side) == {c \in Cells : side[c].record}

\* Mutant of Rivals: only the owners after the pull request count.
RivalsAfter(base, head, c) == RecordOwners(head) \ {c}

\* Who else writes the record, on main or in this pull request.
Rivals(base, head, c) == (RecordOwners(base) \cup RecordOwners(head)) \ {c}

TwoOwners(base, head) ==
    \E c \in (RecordOwners(head) \ RecordOwners(base)) \cap Changed(base, head) : Rivals(base, head, c) # {}

NewSibling(base, head) ==
    \E c \in RecordOwners(head) \ RecordOwners(base) :
        ~base[c].there /\ \E s \in Cells \ {c} : head[s].there

\* Mutant of DecommissionShared: only the armed cell's own change is judged.
DecommissionArmed(base, head) ==
    \E c \in RecordOwners(head) \cap Changed(base, head) :
        head[c].decommission /\ Serving(head) \ {c} # {}

\* An armed cell still writes the record another cell answers on.
DecommissionShared(base, head) ==
    \E c \in RecordOwners(head) :
        /\ head[c].decommission
        /\ Serving(head) \ {c} # {}
        /\ ({c} \cup Serving(head)) \cap Changed(base, head) # {}

VmShared(base, head) ==
    \E c \in Changed(base, head) : \E o \in Cells \ {c} : head[c].vm /\ head[o].vm

Findings(base, head) ==
    \/ TwoOwners(base, head) \/ NewSibling(base, head)
    \/ DecommissionShared(base, head) \/ VmShared(base, head)

-----------------------------------------------------------------------------
\* What the check reads of a side: a skipped sibling is nowhere.
Seen(side, skipped) == [c \in Cells |-> IF c \in skipped THEN Absent ELSE side[c]]

\* A green pull request is merged.  The cells it changes are read, or it is
\* retried; a sibling that cannot be read is skipped.
Merge ==
    /\ merged < MaxPRs
    /\ \E head \in [Cells -> CellFolders \cup {Absent}] :
         /\ head # main
         /\ \E skipped \in SUBSET (Cells \ Changed(main, head)) :
              /\ ~Findings(Seen(main, skipped), Seen(head, skipped))
              /\ unread' = IF Findings(main, head) THEN unread \cup skipped ELSE unread
         /\ main' = head
         /\ standing' = Serving(main) \cap Serving(head)
    /\ merged' = merged + 1
    /\ unsynced' = unsynced \cup Changed(applied, main)
    /\ UNCHANGED <<applied, writers, record, orphaned>>

\* ArgoCD makes the DNSRecordSet of a cell or adopts the one that is there.
Write(c) ==
    /\ main[c].record
    /\ writers' = writers \cup {c}
    /\ UNCHANGED <<record, orphaned>>

\* It leaves a cell's DNSRecordSet behind when the folder goes with no cascade.
Orphan(c) ==
    /\ ~main[c].there /\ applied[c].record /\ ~applied[c].decommission
    /\ orphaned' = orphaned \cup {c}
    /\ UNCHANGED <<writers, record>>

\* It prunes the DNSRecordSet: under deletion-policy delete that takes the record
\* along, under abandon it leaves it.
PruneRecord(c) ==
    /\ ~main[c].record /\ applied[c].record
    /\ main[c].there \/ applied[c].decommission
    /\ writers' = writers \ {c}
    /\ record' = IF applied[c].decommission THEN "none" ELSE record
    /\ UNCHANGED orphaned

\* There is no DNSRecordSet of the cell that ArgoCD manages, before or after.
NoRecord(c) ==
    /\ ~main[c].record /\ ~applied[c].record
    /\ UNCHANGED <<writers, record, orphaned>>

Sync(c) ==
    /\ applied[c] # main[c]
    /\ applied' = [applied EXCEPT ![c] = main[c]]
    /\ Write(c) \/ Orphan(c) \/ PruneRecord(c) \/ NoRecord(c)
    /\ UNCHANGED <<main, standing, merged, unread, unsynced>>

\* Config Connector writes the cell's address.
Reconcile(c) ==
    /\ c \in writers
    /\ record # c
    /\ record' = c
    /\ UNCHANGED <<main, applied, writers, standing, merged, unread, unsynced, orphaned>>

SuffixInit ==
    /\ main = [c \in Cells |-> Absent]
    /\ applied = main
    /\ writers = {}
    /\ record = "none"
    /\ standing = {}
    /\ merged = 0
    /\ unread = {} /\ unsynced = {} /\ orphaned = {}

SuffixNext ==
    \/ Merge
    \/ \E c \in Cells : Sync(c) \/ Reconcile(c)

SuffixSpec == SuffixInit /\ [][SuffixNext]_suffixVars

-----------------------------------------------------------------------------
SuffixTypeOK ==
    /\ main \in [Cells -> CellFolders \cup {Absent}]
    /\ applied \in [Cells -> CellFolders \cup {Absent}]
    /\ writers \subseteq Cells /\ standing \subseteq Cells
    /\ record \in Cells \cup {"none"}
    /\ merged \in 0..MaxPRs
    /\ unread \subseteq Cells /\ unsynced \subseteq Cells /\ orphaned \subseteq Cells

\* What the gates cannot answer for: a cell whose file could not be read, one
\* ArgoCD had still to sync when the next pull request came, one left behind.
Unguarded == unread \cup unsynced \cup orphaned

\* Through any sequence of green pull requests, and in any order of the syncs,
\* two Config Connector resources write the one record only when one of the two
\* is of a cell the gates cannot answer for.
OneWriter == \A c, d \in writers : c = d \/ c \in Unguarded \/ d \in Unguarded

\* The record is never deleted under a cell that answered on the name before
\* the last pull request and still does, unless one of the two was not read or
\* the one that goes is not answered for: arming, removing and adding cells is
\* gated in whichever pull request completes the harmful pair.  What a step
\* must be.
RecordSurvives ==
    record' = "none" =>
        \/ record = "none"
        \/ standing \subseteq {record} \cup unread
        \/ (writers \ writers') \cap Unguarded # {}

\* What the proofs use: resources exist where they are synced and where they were
\* left behind; of the cells answered for, main and what is synced name one owner
\* between them, an armed owner on main serves nobody else, and what is still to
\* be pruned did not when it was merged.
WritersAreSynced ==
    RecordOwners(applied) \subseteq writers /\ writers \subseteq RecordOwners(applied) \cup orphaned
OneOwner ==
    \A c, d \in RecordOwners(applied) \cup RecordOwners(main) :
        c = d \/ c \in Unguarded \/ d \in Unguarded
ArmedAlone ==
    \A c \in RecordOwners(main) \ unread :
        main[c].decommission => Serving(main) \subseteq {c} \cup unread
PrunedAlone ==
    \A c \in Cells \ Unguarded :
        applied[c] # main[c] /\ applied[c].record /\ applied[c].decommission => standing \subseteq unread
SuffixInv ==
    SuffixTypeOK /\ WritersAreSynced /\ OneOwner /\ ArmedAlone /\ PrunedAlone
=============================================================================
