# acme-diff-preview in TLA+

A TLA+ development kept beside the service in `src/`: specifications of its
concurrent parts, TLC configurations that check them on small instances, and
TLAPS proofs of what holds for every instance. Paths and line numbers refer to
the repository; `diff_preview.py`, `leader.py` and the other modules are those
in its `src/` directory.

## 1. The system

The service answers one question about a pull request (PR) of a configuration
repository: what would ArgoCD change if it were merged. Two replicas run the same
process. One of them, the leader, polls Bitbucket, renders each open PR on both
sides, and publishes one comment and one build status, which is the merge gate.
Both serve HTTP: webhooks, health, and pages with the full diff.

| part | state it keeps | operations | who else touches it |
|---|---|---|---|
| leader election (`leader.py`) | a Lease at the API server; `_leading`, `_last_renew`, `_observed` per pod | an election round every `retry_period`; `is_leader()`; `release()` on SIGTERM | election thread, main thread, the other pod |
| poll loop (`main`, `main_iteration`) | `_wake`, `_shutdown`, the snapshot of one iteration | read the tip of main, list PRs, hand them to a pool, wait | HTTP threads set `_wake`; SIGTERM ends it |
| PR life cycle (`process_pr`) | `_seen`, `_retry_backoff`, `_force_recompute`; Bitbucket's comment and statuses | dedup, render, publish twice, mend a stuck status, report an exception | other pod after a hand-over, webhooks |
| supersede hints | `_pr_superseded`, `_base_superseded`, `_base_observed`, `_pr_supersede_aborts` | record at a webhook, consult at entry and during a render | HTTP threads against workers |
| chart republish | `_helm_chart_cache`, `_helm_chart_pull_ts`, the chart directory, `_pr_chart_targets` | pull, prune, evict at a JFrog webhook, relay to the leader | HTTP threads against workers; the directory outlives the process |
| artifact store (`diff_ui.py`) | one bucket object per PR, one file per pod and PR, `_local_generation`, `_pending_uploads` | save, upload, retry, load, prune | workers, HTTP threads of both pods |
| path map | five module globals, 300 s | rediscover, search | login zeroes its age; HTTP threads read it |
| git mirror | a bare repository, `_mirror_sha_seen`, the merge previews | fetch, look up, merge for preview | many workers |
| value files, rate gate | `_vf_cache`, `_vf_inflight`, `_bb_ratelimit_until` | single-flight fetch, shared pause after a 429 | all workers |
| comment store | Bitbucket's list of comments, `_comment_id_cache` | find, create, update | people, the other pod, repeated requests |
| startup and health | the login's budget, `_last_progress`, the heartbeat's file | login, heartbeat, probe | the kubelet |
| chart and render cache | memory, disk and bucket, keyed by what a render depends on | pull, template both sides, audit, prune | workers; a tag that is pushed again |
| verdict of one run | what the diffs of the applications returned | comment token, build colour, seen or not | SIGTERM, a newer push, another pod |
| environments of a PR | none of its own: the files at both commits, the applications of ArgoCD | pair moves, detect new, renamed, cohortless and removed environments, gate them | - |
| gates over several PRs | main, its history, the cluster | hold and finalizer of a teardown, owner of a record, clones, ASHN map, VM migration, shared content | other PRs, ArgoCD, Config Connector |
| webhook endpoints | 15 s dedup window, a pool | verify, wake, record, evict, relay | the other pod |
| AI summary, logging, statistics | counters | one call; output | - |

What is hard in it: two replicas of which exactly one must write, over an API
that gives compare-and-swap and nothing else; a comment and a status that are two
separate writes, either of which may fail, land unheard, or be cut off; work that
is skipped because a memory says that it is done (`_seen`, the comment's tokens,
caches), where a wrong memory means a PR nobody looks at again; webhooks that are
late, lost, doubled or out of order, and arrive while the state they concern is
in use.

What makes each part correct:

- leader election: one leader at a time; a leader holds the lease; a released
  replica never leads again; no live leader is deposed; the loop is not long
  without an owner.
- PR life cycle: a green commit renders clean; what the service has stopped
  looking at has a true gate and a current comment; mending never unblocks a
  merge; in the end everything is published. `MergeGate` is this as a
  specification of its own.
- verdict: the places that conclude whether a run is fit and worth a retry
  conclude the same, however the run was cut short.
- republish: every build reaches the comment of the PRs rendered with it; a
  promised retry happens.
- poll loop and hints: no wake-up is lost; stale hints cost a bounded number of
  passes; an abort streak ends; every PR is published in the end.
- artifact store: no page is older than need be; a failed upload heals; a retry
  never uploads something older.
- services: no answer is guessed from a failure; no request that may have been
  carried out leaves a second comment that the code could have avoided; maps and
  caches are used whole and for what they were made of; no wait is for ever.
- environments and gates: a PR that goes green does after its merge, and after
  the merges of others, what its comment said, and nothing else.

## 2. Modules

| module | what it is |
|---|---|
| `LeaderElection` | `leader.py`, one action per request, answer and assignment |
| `LeaderOutage` | the same with a survivor and a date for the last sign of life |
| `PrCycle` | one PR from the snapshot to its two writes, with the chart it is rendered with |
| `MergeGate` | what the readers of a PR are promised; `PrCycle` implements it |
| `Verdict` | one run of `process_pr` from inside: token, colour, retry |
| `Supersede` | the poll loop's wake and the supersede hints, for several PRs |
| `ArtifactStore` | the full-diff page of one PR in the bucket and in the pods |
| `RateGate` | the attempts of an HTTP call, and the pause all calls share |
| `FileReads` | the mirror's index, the API, and the single-flight cache before them |
| `CommentStore` | the comments of a PR, request by request |
| `PathMap` | the maps from folders to applications, rebuilt while they are read |
| `PodLife` | login budget, main loop, heartbeat, liveness probe |
| `JFrogHook` | the chart webhook: signature, window, pool, relay |
| `RenderCache` | the main side of a diff over three caches and a directory that changes |
| `EnvChanges` | what a PR does to the environments, from pairs of files to the verdict |
| `NewEnvs` | the environments a PR adds, and what brings it back when one waits |
| `Teardown` | the history of a removal: flags, hold, finalizer, last PR |
| `SuffixMigration` | which cell of a customer writes its DNS record |
| `SharedContent` | buckets and records that two environments share |
| `FleetGates` | clones of production, and the ASHN map |
| `VmMigration` | a VM moved by a Job over two PRs |
| `ChartRevision` | the chart versions of both sides of a preview |
| `MergePreview` | the merge a preview is read from, with its cache |
| `PrParts` | four parts: `PrCycle` with faults, with a hand-over, with republishes, and `Verdict` |
| `Services` | eight parts: `ArtifactStore`, `RateGate`, `FileReads`, `CommentStore`, `PathMap`, `PodLife`, `JFrogHook`, `RenderCache` |
| `Changes` | ten parts: `Supersede`, `EnvChanges` to `MergePreview` |
| `*_proofs` | theorems about the module of that name and, for the three above, about their parts |
| `MC*` | instances: values for the constants and what TLC needs to enumerate them |

`PrCycle`, `Supersede`, `ArtifactStore`, `CommentStore` and `JFrogHook` take the
election as an atomic variable (`leader`, `leads`) that changes at any moment;
that there is one leader at a time, apart from a round that outlives the join of
`release()`, is what `LeaderElection` proves. They do not assume that a demoted
leader stops: a write already past its leadership check still lands.

How one specification holds several modules. `PrParts`, `Services` and `Changes`
each put several specifications side by side, for any values of their constants;
`MCPrParts`, `MCServices` and `MCChanges` give them small ones. The variable
`part` is chosen once and says which of them this behaviour is about; the module
that is extended keeps its own variables, the others share slots (`s1`, ...,
`v1`, ...) through `INSTANCE ... WITH`. A step of one part leaves the rest as it
was, so a behaviour of a part is a behaviour of its module and the states add
up instead of multiplying. Properties of a part are stated `part = "..." => ...`
there and in full in the module. The theorems are about these compositions, so
that each is about the very formula that TLC checks.

### LeaderElection

`time` is real time; replica `r` reads `Clock(r) = time + Offset[r]`, so clocks
are skewed by a constant and do not drift. A round is `StartTick` (the clock is
read first), `ServeGet`, then one of `CreateOrRenew`, `StandBy`, `TakeOver`, then
`ServePut` and `SetLeading`. A write is an element of `puts` until the API server
decides it; `GiveUp` and `Crash` leave it there, so it may land under a later
lease, where the resourceVersion rejects it. `release()` runs on the main thread
(`BeginRelease`, `Joined`, `Demote`, `ReleaseGet`, `ReleaseDone`) while a round
is in flight. The join waits for `retry_period` and one request (`JoinTimeout`,
leader.py:142), a round is two requests, so a round may outlive it and set
`_leading` after `release()` has cleared it (`Released`). The claims on leadership
are about replicas that are not released, and `StrayIsBrief` bounds the others.
`Tick` is held back by `Patient`, which is where the timeouts of
the code enter: a request is answered or given up within `MaxGet` or `MaxPut`, a
sleeping thread wakes within `Lag`. A process that is stopped for longer than
that and does not notice is outside the model, as it is outside what the module
promises ("Not fencing", leader.py:27-29). A restarted container keeps the pod's
name, hence its identity.

`LeaderOutage` adds two history variables. `survivor` is chosen at the start: a
replica that neither dies nor is told to stop and whose requests are answered, or
`None`, and then nothing is restricted. The others crash, come back, are told to
stop and lose requests at will. `lastSign` dates the last moment somebody led or
wrote the lease. The survivor's own writes take up to `SlowestPut`, a constant of
its own only because TLC needs short behaviours.

### PrCycle, MergeGate, Verdict

`world` is Bitbucket and the registry, `posted` what the service published,
`memory` what each pod remembers. What a snapshot (head, tip of main) renders to
is the constant `Truth`: one of the four paths through `process_pr` and a
verdict. A pass is a program counter per pod; each call to Bitbucket is one step
that can fail before it lands or land unheard, after a separate step (`Gate`)
that looks at the lease as `post_build_status` and `upsert_comment` do. Eight
kinds of fault (`FaultKinds`) share one bound. A constant says which of them an
instance has. Left out: PRs that `process_pr` drops without a trace (not against
main, merged already, outside the scope of the service), the text of comments
beyond its tokens, and more than one chart. Several comments on one PR are in
`CommentStore`.

`MergeGate` knows no pass: the comment moves to some snapshot that existed, a
status moves, a pod notes that it is done with a snapshot it has published, and
once nothing moves the leader is done with what there is. The mapping renames
`seen` to `done`; `kept` is false where the promise is suspended, in behaviours
with a hand-over. Calls that are refused for good (a 4xx) also break it, and the
behaviours with one pod leave them out: after one, `_seen_after_writes` takes the
write for done on purpose.

`Verdict` takes `Truth` apart: a set of applications, the outcome of each diff in
the order they land, what blockers, gates and new environments add, a cap, a
push, SIGTERM and a kill. `Token`, `State`, `Left` and `Mended` are the four
places that conclude. A run starts over any status an older one left on the
commit (`before`: an INPROGRESS post that is lost leaves it there,
diff_preview.py:14478), and `Raise` ends it anywhere up to the status write, also
between the comment and the status. `Mended` changes an INPROGRESS only; a status
that is final stays.

### Supersede

The HTTP thread sets `_wake` (`Wake`) and records the hint in a later step
(`RecordHint`). Webhooks are a set, so they may be overtaken or never delivered.
The main thread is `ReadBase`, `Observe`, `ListPrs`, `EndIteration`, `WaitOver`,
`ClearWake`; a worker is `Arm`, `CheckBase`, `AbortRender` or `Rendered`,
`Publish`. Writes succeed: `PrCycle` has what happens when they do not. The
stamp that orders a hint about main against an observation of main is kept as
one bit (`later`), which is all that is ever asked of it. `owed` is a ghost: how
many passes the webhooks recorded so far may still cost each PR.

### ArtifactStore

A page is the commit it is about and the number of the save that made it. A pod's
worker goes through `Begin` (the INPROGRESS status, which looks for a page),
`Save`, `Upload`, `Link` (the final status, which looks again). `load_artifact`
is a small program of its own (`Start`, `Compare`, `Download`, `StoreCopy`,
`NoteGeneration`) run by workers and HTTP threads alike; the last two are
separate steps because the file and `_local_generation` are. `.json` and
`.json.zst` are one file, and the three attempts of an upload are one.

### The services

- `RateGate`: a thread looks at the pause (`Look`), sleeps a slice, looks again
  until its slices are used up, sends, and on a 429 makes the pause longer
  (`Hold`, a maximum). Time is what is left of each sleep.
- `FileReads`: `LookIndex`, `Probe` and `NoteIndex` are the lookup that is not
  under the lock; `BeginSync` to `EndSync` the fetch that clears the index.
  `Claim`, `Follow`, `Landing` and `Store` are the single flight of a file.
  `GitFails` is a git that ran and failed, which the code takes for an absent file
  and caches; the ghost `misread` names the files this befell.
- `CommentStore`: a request is carried out (`CarriedOut`) or not, and heard or
  not, separately; `Resend` and `Lose` are the retries. A duplicate is needless
  when no lost answer, deletion or hand-over explains it.
- `PathMap`: each global is rebound in a step of its own. A hard refresh reads
  two of them and must not mix two listings in a way that touches production.
- `PodLife`: time in the login is what its attempts and pauses take; after it,
  beats.
- `JFrogHook`: pushes, repeats and a change of leader against a 15 s window per
  pod and a pool of two workers. A push inside the window and a relay that fails
  are excused by name: the code drops them knowingly.
- `RenderCache`: `Ensure` and `Land` are the pull of a tag that is pushed again
  under diffs in progress; a body is stored with the inputs it was rendered
  from, and `ServedIsRight` compares them with the key that finds it.

### What pull requests change

Each of these modules puts the gates of `process_pr` in front of a merge and
then looks at main, the fleet or the cluster, after one merge or after several.
What code a gate is made of is in the "map" of `PROJECT.json`. A read that fails
is an input wherever the code has a path for it (`unread`, `silent`, `skipped`).
Where the code lets such a read pass, the module records it in an auxiliary
variable, and the property names it as an exception, so what it excuses is that
case and no other. A merged PR was previewed against the main it is merged into;
what happens otherwise is listed in section 5.

- `EnvChanges`: `Pair`, two gates (`CohortGate`, `IdentityGate`) and `Detect` are
  one pass over two commits. `silent` are the cohort files whose read failed in
  `_evaluate_new_envs` and `_moves_missing_cohort`, which both pass then
  (6017/6047, 7072-7073); `Orphaned` reads the same file in a way that does not.
- `Teardown`: the flags on main, their history, the finalizer ArgoCD writes late,
  and one PR that edits the flags or removes the folder. `Evaluate` has three
  lookups that may fail: ArgoCD's, the mirror's history and the folder's own file
  (`Cascades`: a file that cannot be read opts into nothing, 7484-7489). `lags`
  notes that the folder went without the flag while the finalizer was still there.
- `SuffixMigration`: `main`, what ArgoCD has `applied`, who writes the record. A PR
  is merged whether or not ArgoCD has synced the last one (`unsynced`); a sibling
  that cannot be read is nowhere for the check (`Seen`, 8119-8129; `unread`); a
  removal without a cascade leaves the DNSRecordSet behind (`Orphan`, `orphaned`).
- `SharedContent`: the objects of each environment are named by its customer and
  suffix; its folder may carry another name. `unproven` and `misfiled` are the
  objects that went with an environment that could not be read, and those another
  environment had whose folder has another name.
- `ChartRevision`: `Preview` reads the changed files, some of which fail
  (`unread`), and resolves the chain of both sides.
- `FleetGates`, `VmMigration`, `NewEnvs` and `MergePreview`: their files say it.

## 3. What is checked

| run | instance | shows |
|---|---|---|
| `LeaderSafety` | `MCLeaderOutage`: 2 replicas, clocks one unit apart, lease 5, deadline 4, pause, GET and PUT 1 each, hence a join of 2; six units of time (four with the SIGTERM) with any two of a crash, a lost request and a SIGTERM, or eleven with a survivor while the other crashes and restarts | `AtMostOneLeader`, `LeaderHoldsLease`, `StrayIsBrief`, `TakenOnlyFromTheSilent`, `OutageIsBounded` |
| `PrFaults` | `MCPrParts`: four parts | `GreenWasRendered`, `SettledIsTrue`, `RecoveryNeverUnblocks`, `RepublishIsRendered`, `VerdictIsOne`, and the refinement of `MergeGate` (`KeepsThePromise`) |
| `Services` | `MCServices`: eight parts | one property or more for each service, and `WaitsEnd` |
| `Changes` | `MCChanges`: ten parts | one property or more for each kind of change, and `ChangesSettle` |
| `LeaderStrayTick` | the default timing scaled down | violates `StaysReleased`: finding 1 |
| `PrRepublishReseeded` | one pod, two builds less than `DEV_CHART_TTL` apart | violates `RepublishIsRendered`: finding 2 |
| `PrTransientForgotten` | one pod, a republish, a flaky render | violates `TransientIsRetried`: finding 3 |
| `SupersedeStreak` | one PR, three pushes | violates `StreakIsBounded`: finding 4 |
| `ArtifactsRestart` | one pod, no readers, a restart, a failed upload | violates `RetryUploadsTheNewest`: finding 5 |
| `KeptBlock` | one public constellation of two blocks | violates `KeptBlockIsRendered`: finding 6 |
| `BumpUnread` | one application, any failed reads | violates `NoBumpIsMissed`: finding 7 |
| `SharedUnread` | two environments, one that cannot be read | violates `UnprovenIsGated`: finding 8 |

### Bounds

`LeaderSafety` has room for one full take-over, including a write that lands
after its sender died and a renewal lost in between; what it cannot show for
longer histories is what the proofs are for. The deadline exceeds the join by
more than the pause, as in the code (10 > 7 + 2), so that a former leader still
hands over after a full join: the stray round, and two replicas that answer
`is_leader()` with True, are reached at time 3. The clocks differ by a whole
unit. Ten units of time without an owner are allowed (`Longest`), within the
eleven.

`PrFaults`. "faults": one pod (a branch that only goes on, `past`), two commits, two tips, three faults of seven
kinds, a push, a crash, an abort: every kind of fault that one pod meets can
combine with two others. "handover": two pods, one change of leader, and one
fault after it. "republish": two pods, three builds, no fault. `MCTruth` gives a
different path to each snapshot and turns a verdict either way when main moves.
"verdict": up to two applications and a cap of one, so that one diff is cut off
and the other not; the conclusions only look for the presence of each kind of
outcome, so two applications reach every pair. The commit starts with any status.

`Services`. Two threads at a semaphore of one; two renders and a lookup of one
file; five comments, three passes, a lost answer and two edits by people; two
listings of the fleet; two pushes, a repeat and a change of leader; two workers,
two builds and two versions of helm. Pods are alike, so the first leader is
always A.

`Changes`. "wakes": two PRs are the fewest that share a hint about main, and
three moves exceed the streak limit of two; the second PR is never pushed to, and
both start at one commit. "environments": five places: two folders under one
cohort, one under another in another spoke, one under a third whose file nobody
has made, and a public block. Main has at most two of the first three; there are
two edits and one place where ArgoCD and main disagree. The last two places are
there to be moved to (`MovesOut`): ArgoCD has no applications there, a PR brings
one of them at most, and its file declares no suffix, which is compared with
whatever the old one declared. Names and folders are alike and `Canonical` keeps
one of each class. The other parts have two cells and four
merges (the first one brings a cell to "a", and a cell keeps its VM as long as
its folder is there: `CellsMove`); a hold of two days within three; a production
environment and two clones with two green merges; two VMs and three merges; two tiers and two versions with
one merge; two new environments and two versions; three commits of main and two
of the branch; two environments and three merges. A history of removal, set-up
and removal again fits in each.

`CHECK_DEADLOCK FALSE` is set where a behaviour really ends: at a bound
(`MaxTime`, `MaxSaves`, the number of merges), and at the end of one run of
`process_pr` in "verdict".

### Fairness

- `PrCycle`: weak fairness of a pod's own steps, and of the delivery of a chart
  webhook that was sent. The main loop always comes back within 60 s (5 s on a
  standby) and every call has a timeout, so a pass always goes on. Nothing is
  assumed of pushes, merges, republishes, crashes and hand-overs.
- `Supersede`: weak fairness of the loop (its wait has a timeout) and of each
  worker. Bitbucket webhooks are promised nothing: the properties hold although
  all of them may be lost.
- `ArtifactStore`: weak fairness of the worker and of its own loads; HTTP
  requests are promised nothing.
- `RateGate`: time passes, threads go on, and a thread that waits for a slot gets
  one if slots keep being freed (strong fairness of `Send`).
- `FileReads`: the loop syncs the mirror in each iteration and git calls end
  (weak); a fetch that is tried again and again succeeds in the end (strong
  fairness of `EndSync(TRUE)`), without which nothing about the mirror could end.
- `PodLife`: the heartbeat thread and the kubelet.
- `Teardown`, `NewEnvs`: the poll loop comes back to a PR that is due; ArgoCD
  writes its finalizer in the end and answers if it is asked for ever.
- `LeaderElection` and the others: none. `OutageIsBounded` is a safety property
  over time.

## 4. What is proved

`LeaderElection_proofs`, for any set of replicas, any constant clock offsets and
any values of the timing constants:

- `TypeCorrect`: `Spec => []TypeOK`.
- `OneLeader`, `LeaderIsHolder`, `StrayEnds`, `NoLiveLeaderDeposed`, from one
  assumption on the timing, `SafeWindow`: `Deadline + MaxGet <= Duration`. With
  the defaults this is 10 + 5 <= 15 and has no slack; a deployment that raises the
  deadline or the HTTP timeout loses the guarantee. Nothing is assumed of the
  join: with the defaults it is shorter than a round (7 s against 10 s), so the
  first two are about replicas that `release()` has not demoted, and `StrayEnds`
  says how long a demoted one can lead again (10 - 7 s after the last request of
  `release()`; finding 1).

The invariant that is inductive, `IInv`, has nine parts. Mutual exclusion alone
says nothing about writes under way, and those decide the next holder. So
`Current` says what a write that can still win the compare-and-swap must be: a
renewal by the holder, the blanking of a lease by a replica that was released (or
by a process that is gone), or a take-over by a replica that watched the lease for longer than
`Duration`. `Sightings` and `Replies` say that what was watched was written at
most `MaxGet` after the watch began, across skewed clocks. `Claims` ties
`_leading` to the stored holder while a renewal counts, release apart.
`Releases` dates a round that is still under way after the join: no round begins
after the stop event. The step from `IInv` to `IInv'` is one
lemma with a case per action. `TakeOverStep` derives the action property.

`PrCycle_proofs`, for any pods, commits, tips of main and chart builds, any
`Truth`, and any number of faults, crashes, pushes and hand-overs:

- `TypeCorrect`: `Spec => []TypeOK`.
- `GreenIsRendered`: `Spec => []GreenWasRendered`.

A green status has two sources, the verdict of a pass and the token of a comment
that `fix_stuck_inprogress` trusts, and either may be written long after it was
found, by a pod that no longer leads. So the invariant follows each pass.
`Snapshots`: a pass works on a tip main has had. `Verdicts`: the comment, if it
says clean, is about a snapshot that renders clean; so is every comment a pass
has read and not yet used; and a clean verdict about to be written was rendered
for the snapshot of that pass. Which pod leads does not occur in it: the
property does not depend on the election.

`Supersede_proofs`, for any PRs, any abort limit and any number of moves:

- `TypeCorrect`: `Spec => []TypeOK`; `ChangesTyped` takes its step from here.
- `WakesAreKept`: `Spec => []NoWakeLost`, from `Wakes`: outside the read of the
  tip, news has left its mark in `_wake`.
- `WebhooksPayForAborts`: `Spec => []AbortsArePaidFor`. The argument is a
  potential. A hint about a PR can still cost it two passes while the PR renders
  or is about to, and one otherwise (`PushDebt`); a hint about main can still cost
  one to a PR that this iteration has not checked (`BaseDebt`). What the recorded
  webhooks owe never falls below the sum (`Debts`).

`ArtifactStore_proofs`, for any pods, HTTP threads and commits and any number of
saves, failures and upsets:

- `TypeCorrect`: `Spec => []TypeOK`, a part of the same invariant as in `ServicesTyped`.
- `PagesAreNoOlder`: `Spec => []PageIsNoOlder`. The property is about the end of a
  load; `LoadTrue` says what the load holds before: a file that may be a hit is
  about the commit asked for, the bucket holds nothing older than the floor while
  the load may still take from it, and what it took is no older.

`LeaderOutage_proofs`, for any replicas, clocks and timing constants (`SafeWindow`
is not needed):

- `OutageIsShort`: `OutageSpec => []OutageIsBounded`. While one replica lives and
  is answered, nobody leads for at most `Longest`: a round under way, the sleep
  after it, the lease, one more sleep and the rounds around it (12 + 15 + 7 + 10 =
  44 s with the defaults and the slowest requests). The count starts at the last
  sign of life. A round that was under way then may have read an older lease and is
  over within `Round` (`Watching`). From the next one on the survivor has sighted
  the lease as it is (`Sighted`), and each round either finds it younger than
  `Duration` or writes it. That write wins: one that beat it would have been a later
  sign of life (`Writing`). What the others do leaves the survivor alone or sets the
  count back (`OthersPass`).

`PrParts_proofs`, for any pods, commits, tips, builds and verdicts, any set of
applications and any cap, and any number of pushes of new commits, merges,
crashes, aborts, republishes and faults:

- `WhatIsSettledIsTrue`: `[]SettledIsTrue`. With one leader nobody disturbs what
  its pass has found and written (`PassStands`), and what is marked as seen is
  shown on Bitbucket or out of date for good (`SeenStands`): a pass over another
  snapshot may overwrite it and then fail, but then main or the branch has moved,
  and neither goes back (`Branch`, `Gone`).
- `MendingNeverUnblocks`: a status goes from red to green only by the write of a
  pass that has rendered, from the same invariant.
- `VerdictsAgree`: `[]VerdictIsOne`. `TokenIsState`, `TokenIsRetry` and `CleanIsFit`
  say, by cases over the outcomes, that the chains of conditions that end in a
  token, a colour and a retry agree; `VerdictInv` carries that through each way a
  run is cut short, an exception between the two writes included. A green that an
  older render left may stand until both writes have landed or the status is
  mended, and no longer; a mended colour is the run's own, or a red that stayed.
- `EveryStepKeepsThePromise`: `PartsSpec => Promise!Safety`, the refinement of
  `MergeGate` step by step: the initial states map to initial states, each step to a
  step or a stutter. It needs that a pass writes the verdict of its own snapshot or
  a failure (`Said`). `MergeGate` is its `Safety` and `CatchesUp`; the second is
  liveness and stays with TLC.

What these need is in the parts themselves: no push returns to an earlier commit,
no call is refused for good, and `SettledIsTrue` is not claimed across a hand-over.
The table in section 5 has the counterexample for each.

`Services_proofs`, one theorem for each property of `Services` that is an invariant
or an action property, over the constants' assumptions in `Services`:

- `AllBrake` (`BrakesTogether`), from `HoldCovers` and `PassedRightly`: a call that
  goes out looked before the pause was published, or used up its slices.
- `FilesNeverGuessed` (`NothingGuessed`): the cache holds what the commit has or
  nothing (`CacheIsTrue`), an answer on its way to it is what the commit has or an
  error (`FetchedIsTrue`); commits do not change. The exception is a file git
  failed to read in a commit it has: that one counts as absent (`misread`).
- `NoDuplicates` (`NoNeedlessDuplicate`): by cardinalities. The comments of the
  service and those that pods which lost the lease may still add are at most one,
  plus the lost answers, plus the hand-overs (`AllPaidFor`, `HandedOver`). While the
  leader writes there is room for its own: whatever is there besides the comment it
  found is paid for (`LeaderAddsNone`).
- `MapsWhole` (`MapsAreWhole`): who lists or binds has the lock (`OneRebuilds`), the
  maps count as stale meanwhile (`StaleMeanwhile`), and between rebuilds they are of
  one listing (`WholeBetween`).
- `StartupEnds` (`StartupEndsItself`): n pauses of a login take at least 16n - 34 s,
  so the budget ends it before the probe's patience does (`LoginIsPaced`).
  `PodAssumption` is that inequality for the longest attempt.
- `PushesAreHeard` (`PushIsHeardOnce`): whatever the leader has not been told is on
  its way, until something that is excused by name (`ToldOrOnItsWay`); refreshes
  begun and queued and deliveries not yet handled never exceed the events
  (`EachOnce`).
- `RendersAreRight` (`ServedIsRight`): a body in memory, on disk, in the bucket or in
  the hands of a diff is the render of the inputs in its key, or the tree was
  replaced between the hash and the helm run (`TiersAreRight`, `TakenIsRight`).
- `ServicesTyped` (`ServicesTypeOK`), the types of all eight parts.

`PowersOfTwo` (2^n is a number) is an assumption because it takes induction, which
this prover does not do; TLC evaluates it.

`Changes_proofs`, one theorem for each safety property of `Changes`:

- `NoEnvVanishesUnseen` (`NoEnvVanishes`): `EnvInv` keeps, label by label, which
  gates a green PR has passed (`GatesArePassed`), and that what the pairing calls a
  move is one (`PairsAreMoves`, `RenamesAreMoves`); from it a green PR names each
  environment whose applications it takes away. `MovesUnseen` are the two moves
  that no gate compares: into a public constellation, and below a cohort file whose
  read failed.
- `NoMoveIsUnchecked` (`MovesAreChecked`), from the same invariant; the check of a
  moved or a new place is excused where the read of its cohort failed.
- `RecordsAreKept` (`RecordIsKept`, an action property): who writes is who owns the
  record in what the cluster has applied, or was left behind (`WritersAreSynced`).
  The rest is about the cells the gates can answer for, all but `Unguarded`: what
  is applied and main name one owner together (`OneOwner`), an owner whose purge is
  armed serves alone (`ArmedAlone`), and the last PR left nobody running where the
  record is about to be pruned (`PrunedAlone`). A skipped sibling does not change
  what the check compares of the others (`SeenIsThere`, `SeenChanges`), so a check
  that was green with it and would not be without it puts it into `unread`.
- `TeardownsAreServed` (`TeardownIsServed`): the history says since when the flags
  count (`HistoryTells`), a green removal has its hold and the flags behind it, or
  was confirmed (`GreenHolds`), and main does not change under an open one
  (`Leaves`). `HoldIsServed` names the two confirmed removals that are deleted
  without a hold.
- `FleetsAreSafe` (`FleetIsSafe`): inductive as it stands, as each gate compares
  with the whole of main.
- `VmsAreMigrated` (`MigrationsFinish`): there is a Job exactly while main renders
  one, for the block on main (`JobRuns`), one that is done has moved its VM
  (`DoneMoved`), and one VM moves at a time or all are where main says (`OneMoves`).
- `PreviewsHaveTheCharts` (`PreviewHasTheCharts`), whichever reads fail, but for a
  bump whose every changed file was passed over (`MissedBump`, finding 7).
- `NewEnvsAreCreated` (`GreenIsCreated`): what a pass or a retry holds is true of
  the commit it is about (`WorkIsTrue`).
- `MergesAreShown` (`MergeIsShown`): a cached preview is the merge of the two
  commits in its key, or a degraded one by name (`PreviewsAreRight`).
- `SharedContentIsShown` (`SharedIsShown`): whoever would lose something to a removal
  that was read, in a folder of the same name, is compared (`RemovalIsGated`). What
  goes otherwise is `unproven` (finding 8) or `misfiled` (section 5).
- `ChangesTyped` (`ChangesTypeOK`), the types of all ten parts.

Where a part's assumption on a constant is a choice of values (`NoneAssumption`:
None is not a record or a pair; `ConstantsAssumption` and the like: bounds are
numbers), the code gives it for free. The bounds themselves are constants, so the
theorems are about any number of faults, pushes, merges or attempts.

Model-checked only, because the prover has neither fairness nor ENABLED:
`KeepsThePromise` with its `CatchesUp`, `RepublishIsRendered`, `HealsUndisturbed`,
`WaitsEnd` and `ChangesSettle`. Every invariant and every action
property of a passing run is a theorem, with the hypotheses named above.

## 5. Findings

1. `LeaderStrayTick`: `release()` joins the election thread for `retry_period`
   plus 5 s, one round may take two requests of 5 s each. A round that outlives
   the join ends in `_set_leading(True)` after the local demotion, and the replica
   that is shutting down leads again: on the lease it has renewed, or beside the
   next holder if the lease was blanked. `StrayIsBrief` says for how long.
2. `PrRepublishReseeded`: the republish webhook drops the chart's cache entry and
   pull time, not its directory. The iteration it wakes begins with
   `_prune_helm_cache`, which takes the pull time from the directory's mtime, and
   the old build is served.
3. `PrTransientForgotten`: a webhook pops `_seen` during a pass, the pass sets it
   again, the forced pass fails transiently and leaves it: the retry the comment
   promises is dropped by `_seen`.
4. `SupersedeStreak`: the check at the entry of a PR (`_arm_supersede`) does not
   look at the abort streak that the other two checks respect.
5. `ArtifactsRestart`: after a restart the pod has no generation for its file.
   When the next upload fails, the build status right after it takes the bucket's
   old object for a newer render and overwrites the new file, and the retry
   uploads the old page and reports it healed.
6. `KeptBlock`: the applications left out of the diff because their environment is
   torn down are chosen by the environment's name. The blocks of a public
   constellation share it, so one confirmed block takes out the applications of
   another one, which the PR keeps.
7. `BumpUnread`: the search for a version in the changed files takes a read that
   failed for a file without a version. The preview is published with the old
   chart, although the calls around it raise so that the PR is retried.
8. `SharedUnread`: an environment whose values cannot be read has no names to
   compare, and `shared_owners` returns before it looks at anyone: the removal is
   not gated, although an unproven identity is meant to block.

Other counterexamples the models give, each by changing the bounds of a part or of a run:

| property | instance | what happens |
|---|---|---|
| `RepublishIsRendered` | "republish" with `MaxCrashes = 1` | `_pr_chart_targets` is empty after a restart, the webhook forces nothing |
| | with `Faults = {"unsent"}` | the forced flag is consumed before a comment write that fails |
| | with `Faults = {"unrelayed"}` | a standby's relay of the webhook fails and nothing retries it |
| | with `Faults = {"slow"}` | a pull under way stores the old build after the eviction |
| | with `Truth <- MCNewEnv` | a new-environment PR notes its chart after its render |
| `GateIsTrue` | "republish" with `Faults = {"unsent"}` | a forced pass leaves INPROGRESS under a `_seen` that the webhook's victim set again |
| | "handover" | a write of the demoted leader lands after the new one's |
| `RecoveryNeverUnblocks` | two pods, a flaky render, a crash and a hand-over | `fix_stuck_inprogress` mends a status that another pod turned red after it was read |
| `CommentIsCurrent` | "faults" with `MaxPushes = 2` | a branch goes back to the commit `_seen` still names, after a write that landed unheard |
| `RetryUploadsTheNewest` | `ArtifactsRestart` with two pods and two upsets | a pending upload of a demoted pod is retried when it leads again |

In `ArtifactStore` with two HTTP threads, two downloads that overlap across a
new render of the same commit leave the older page in the file under the newer
generation (one stores last, the other notes last); that pod serves it until the
next save. With one HTTP thread the same happens between a download and a save.

Two more disagreements with comments, without a run: a hint older than the
snapshot aborts a render at the entry of a PR although diff_preview.py:14038-14039
says it cannot, and such a late hint costs two passes, the second of which may
come after a 60 s wait; and the hints a standby recorded are consumed when it
becomes leader, however old they are.

The modules about changes show more that the code does not promise, or promises
in a text only. Each is a condition in a property, an exception by name in a
definition, or a bound that keeps the case out:

- `EnvChanges`: a private folder that Bitbucket pairs with a place of a public
  constellation is compared by no gate: `_detect_live_identity_changes` keeps the
  pairs of two private files only (diff_preview.py:5002), and the pairing has taken
  the old folder out of the removals. Without `MovesUnseen` the instance violates
  `NoEnvVanishes` within five states.
- `EnvChanges`: a read of the cohort file that fails passes the checks of a moved
  and of a new place (7072-7073, 6017/6047; comments at 6010 and 7053-7054), so
  either may go green with no cohort file. The check of a live place raises.
- `EnvChanges`: `rename_new_sides` (diff_preview.py:5857) drops every new side of
  a rename from the search for new environments, more than the comment at
  5815-5822 asks for: a file paired with the deleted one of an environment that
  no application runs is checked by nobody. An identity that matches on both
  sides of two candidates is paired with either (the comment at 7127 asks for
  exactly one).
- `Teardown`: a removal that was announced as "left running", and confirmed, is
  deleted when ArgoCD has not dropped the finalizer of a flag that was taken back,
  or when the folder's own file could not be read (7484-7489, 8855-8862,
  8912-8920): the text is written from the files, and the live finalizer is asked
  for only where a cascade was announced.
- `Teardown`: a PR that only the hold blocks is seen, and nobody looks again when
  the hold is over; an application that ArgoCD could not be asked about may be
  left running, and one of the two texts about it does not say so (7345-7376
  against 8910-8920). The removal is merged against the main it was judged on; two
  PRs that are each green against the same main may both be merged before either
  is judged again.
- `SuffixMigration`: turning the record off on a cell whose purge is armed deletes
  it. Two resources write the record, or it goes under a cell that answers, in
  three ways: a sibling that cannot be read is a note and not a gate; nothing makes
  an author wait for ArgoCD between two merges; and a removal that is confirmed
  while the cell still writes leaves its resource behind. `Unguarded` names the
  cells.
- "No ArgoCD apps affected" (14455-14475): the gates of `_merge_gates` are not
  computed on this exit.
- `FleetGates`: a clone that is removed and made again meets the leftovers of the
  old one and passes; one that was merged asleep and is not in the path map yet is
  not found by a later change of its config.
- `VmMigration`: a block removed together with a change of the plan passes as a
  revert (reference.md:393); a suffix set above the role and a fresh block without a
  plan pass; only the environment's own `customer.yaml` is looked at. `excused`
  names them.
- `ChartRevision`: a version removed from a `config.yaml` above (`ParentUnpinned`).
- `NewEnvs`: a read of the cohort or of the name that fails passes its check, so a
  comment may be green for an environment that will not be created; a pull that
  fails is reported as structural and not tried again; a version that is no tag
  falls through to the one above.
- `MergePreview`: a degraded preview is published and stays until base or head
  moves.
- `SharedContent`: the search goes by folder names, so an environment in a folder
  of another name is missed (`misfiled`); arming a purge on an environment that
  shares its content is a text and no gate.
- `FileReads`: a git that runs and fails on a commit the mirror has ends in
  BB_NOT_FOUND, and the cache keeps it (3291-3294), whatever made it fail; the
  comment at 3063-3065 says that a miss is never reported as NOT_FOUND.
- `PodLife`: the startup budget counts the pauses between attempts and not the
  attempts, so it does not bound the readiness failures to two, as the comment at
  2760 says.
- `RenderCache`: a chart tree that cannot be read is documented as a bypass of the
  cache (chart_identity.py:27) and is a failed attempt; an upload that was queued
  may bring back an object the audit has discarded.

## 6. Not modelled, and the plan

`PROJECT.json` lists every part with its status. Left out for good: findings of
one diff and the Markdown of the comment (pure, sequential, unit tested; `Verdict`
has what they conclude), rendering of diff pages, the AI summary, logging and
statistics, deployment and CI. Left out as details of modelled parts: parsing of
YAML and payloads, the self-check of the registry at startup, gates that read one
diff only (immutable fields, uptime schedules, replicas), the BigQuery dataset
and the inventory of a teardown.

The elector's lock, which the SIGTERM handler takes on the thread it interrupts
(diff_preview.py:1439), is not in `LeaderElection`: a model would repeat the
observation and add nothing.

What is worth adding:

1. `RetryUploadsTheNewest` of the artifact store for a pod that does not restart,
   and `StreakIsBounded` for hints that are older than the render they meet: the
   halves of findings 4 and 5 that hold.
2. The full-diff links and the rendering profile, if they come to share state with
   the artifact store.
