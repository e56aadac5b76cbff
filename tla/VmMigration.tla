---------------------------- MODULE VmMigration ----------------------------
(***************************************************************************)
(* The migration of a VM to a new disk name, which takes two pull requests: *)
(* the first sets the vmMigration block and the target diskNameSuffix, and   *)
(* the chart renders a Job that moves the VM; the second removes the block   *)
(* once the Job is Complete, and Config Connector takes the VM back on the   *)
(* values of main.  Each pull request is judged alone, against main.         *)
(*                                                                          *)
(* One role (svc, mongo or rabbit) of one environment, with the values its   *)
(* own customer.yaml sets.  The other target values of the plan (machine     *)
(* type, disk types) are left out: diskNameSuffix stands for them in         *)
(* HandedBack.  A render that is not complete blocks by itself.              *)
(***************************************************************************)
EXTENDS Naturals

CONSTANTS
    Members,        \* the VMs a role may have
    Suffixes,       \* values of diskNameSuffix
    Charts,         \* versions of the chart; "old" does not know vmMigration
    Attempts,       \* values of vmMigration.attempt
    MaxMerges       \* bound: merged pull requests

VARIABLES
    role,           \* the VMs of the role
    main,           \* its values on main
    job,            \* the Job in the cluster, or NoJob
    vm,             \* the suffix of the disk each VM is on
    excused,        \* auxiliary: a pull request passed that the rules leave out
    merges          \* merged pull requests

vmVars == <<role, main, job, vm, excused, merges>>

NoBlock == [inst |-> "none", attempt |-> 0]
NoJob == [block |-> NoBlock, suffix |-> "none", chart |-> "none", done |-> FALSE]

Blocks == {NoBlock} \cup [inst : Members \cup {"unknown"}, attempt : Attempts]
Values == [block : Blocks, suffix : Suffixes, armed : BOOLEAN, chart : Charts]
Jobs == {NoJob} \cup [block : Blocks, suffix : Suffixes, chart : Charts, done : BOOLEAN]

-----------------------------------------------------------------------------

\* What the chart renders.
RendersJob(values) == values.block.inst \in role /\ values.chart # "old"
Creates(head) == RendersJob(head) /\ ~(RendersJob(main) /\ head.block = main.block)

\* _planned_vm_migrations: a block that this change sets, of a VM of the role.
Fresh(head) == head.block # main.block /\ head.block.inst \in role
Armed(head) == main.armed \/ head.armed
Planned(head) == Fresh(head) /\ ~Armed(head) /\ Creates(head) /\ role = {head.block.inst}

\* Mutant of Unrendered: a member of a set is not looked at.
UnrenderedAlone(head) ==
    Fresh(head) /\ ~Armed(head) /\ ~Creates(head) /\ role = {head.block.inst}

Unrendered(head) == Fresh(head) /\ ~Armed(head) /\ ~Creates(head)

\* _vm_migrations_removed: the block leaves and the target values stay.
HandedBack(head) ==
    main.block # NoBlock /\ head.block = NoBlock /\ head.suffix = main.suffix

\* Mutant of SuffixOutside: an edit beside an unchanged block is not looked at.
SuffixAlone(head) ==
    /\ head.suffix # main.suffix
    /\ ~Planned(head)
    /\ main.block = NoBlock /\ head.block = NoBlock

\* _suffix_outside_migration
SuffixOutside(head) ==
    /\ head.suffix # main.suffix
    /\ ~Planned(head)
    /\ head.block = main.block

\* _chart_bump_during_migration
ChartBump(head) ==
    head.chart # main.chart /\ main.block # NoBlock /\ head.block = main.block

\* What the rules let pass on purpose, or with a red line only: a revert, a block
\* on a role with other VMs or on a VM it does not have, an armed deletion.
LeftOut(head) ==
    /\ head.block # main.block
    /\ \/ head.suffix # main.suffix /\ ~Planned(head)
       \/ Fresh(head) /\ Armed(head)

-----------------------------------------------------------------------------

\* A pull request without an open gate is merged and synced: vmm_pr2 is lifted by
\* the trailer, once the Job is Complete; nothing lifts the others.
Merge ==
    /\ merges < MaxMerges
    /\ \E head \in Values \ {main} :
        /\ ~Unrendered(head) /\ ~SuffixOutside(head) /\ ~ChartBump(head)
        /\ HandedBack(head) => job.done
        /\ main' = head
        /\ excused' = (excused \/ LeftOut(head))
        /\ job' = CASE ~RendersJob(head) -> NoJob
                    [] Creates(head) -> [block |-> head.block, suffix |-> head.suffix,
                                         chart |-> head.chart, done |-> FALSE]
                    [] OTHER -> job
    /\ merges' = merges + 1
    /\ UNCHANGED <<role, vm>>

\* The Job ends: its VM is on the target.
JobCompletes ==
    /\ job # NoJob /\ ~job.done
    /\ job' = [job EXCEPT !.done = TRUE]
    /\ vm' = [vm EXCEPT ![job.block.inst] = job.suffix]
    /\ UNCHANGED <<role, main, excused, merges>>

VmInit ==
    /\ role \in SUBSET Members \ {{}}
    /\ main \in {v \in Values : v.block = NoBlock}
    /\ job = NoJob
    /\ vm = [m \in Members |-> main.suffix]
    /\ excused = FALSE /\ merges = 0

VmNext == Merge \/ JobCompletes
VmSpec == VmInit /\ [][VmNext]_vmVars

-----------------------------------------------------------------------------

VmTypeOK ==
    /\ role \subseteq Members
    /\ main \in Values
    /\ job \in Jobs
    /\ vm \in [Members -> Suffixes]
    /\ excused \in BOOLEAN
    /\ merges \in 0..MaxMerges

\* While a block is on main, its Job is in the cluster as main has it, with the
\* same suffix and from the same chart: no later pull request changes the plan
\* under a Job that cannot change (_planned_vm_migrations, B3).
JobForEveryBlock ==
    main.block.inst \in role /\ ~excused =>
        /\ job # NoJob
        /\ <<job.block, job.suffix, job.chart>> = <<main.block, main.suffix, main.chart>>

\* Whenever Config Connector has the VMs, they are on the disks main names
\* (_vm_migrations_removed, _suffix_outside_migration).
HandedBackMigrated ==
    main.block = NoBlock /\ ~excused => \A m \in role : vm[m] = main.suffix

\* A VM is on the disks its migration planned when it is handed back, and no merge
\* between the two changes the plan (_summarize_vm_changes).
MigrationsFinish == JobForEveryBlock /\ HandedBackMigrated

\* What the proofs use: the Job is there when main renders one, for main's block;
\* a Job that is done has moved its VM; only a role of one VM changes its disk.
JobRuns ==
    IF RendersJob(main) THEN job # NoJob /\ job.block = main.block ELSE job = NoJob
DoneMoved == job.done => vm[job.block.inst] = job.suffix
OneMoves ==
    excused \/ (\E m \in Members : role = {m}) \/ \A m \in role : vm[m] = main.suffix
VmInv == VmTypeOK /\ JobRuns /\ DoneMoved /\ OneMoves /\ MigrationsFinish
=============================================================================
