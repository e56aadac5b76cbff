------------------------ MODULE ArtifactStore_proofs ------------------------
(***************************************************************************)
(* Proofs about ArtifactStore, for any pods, HTTP threads and commits, and *)
(* any number of saves, failed requests and upsets.                        *)
(*                                                                         *)
(* PageIsNoOlder is about the last step of a load; the argument follows    *)
(* what the load holds before it.  A local file that may be a hit is about *)
(* the commit asked for (compare), the bucket never holds anything older   *)
(* than the floor while the load may still take from it (download), and    *)
(* what it took is no older either (store, note).                          *)
(***************************************************************************)
EXTENDS ArtifactStore, TLAPS

(* A worker that uploads has a page, numbered by a save that took place *)
Employed ==
    \A p \in Pods :
        /\ work[p].pc \in {"announce", "render", "upload", "link"} => work[p].sha \in Commits
        /\ work[p].pc \in {"upload", "retry"} => work[p].page # NoPage
        /\ work[p].pc = "upload" => work[p].page.n <= saves

(* What a thread holds in the middle of load_artifact *)
LoadTrue(t) ==
    /\ load[t].floor <= load[t].sha
    /\ load[t].pc = "compare" => load[t].page.sha = load[t].sha
    /\ load[t].pc \in {"compare", "download"} => load[t].floor <= bucket.page.sha
    /\ load[t].pc \in {"store", "note"} => load[t].floor <= load[t].got.page.sha
    /\ load[t].pc = "done" => load[t].floor <= load[t].page.sha

Loads == \A t \in Threads : LoadTrue(t)

IInv == TypeOK /\ Employed /\ Loads

-----------------------------------------------------------------------------
(* The records, and one lemma for each way a load or a job changes *)

LoadRecords == [pc : {"idle", "compare", "download", "store", "note", "done"},
           pod : Pods \cup {None}, sha : Commits \cup {0}, page : Pages,
           got : Objects, again : BOOLEAN, floor : Commits \cup {0}]

Jobs == [pc : {"idle", "announce", "render", "upload", "link", "retry"},
         sha : Commits \cup {0}, page : Pages]

(* Members of the records, and what they hold *)
LEMMA Shapes ==
    /\ NoPage \in Pages /\ Nothing \in Objects
    /\ Unemployed \in Jobs /\ Unloaded \in LoadRecords
    /\ \A page \in Pages : page.sha \in Commits \cup {0}
    /\ \A o \in Objects : o.page \in Pages /\ o.page.sha \in Commits \cup {0} /\ o.gen \in Nat
    /\ \A a, b \in Commits \cup {0} :
          Lesser(a, b) \in Commits \cup {0} /\ Lesser(a, b) <= a /\ Lesser(a, b) <= b
BY ArtifactAssumption, SMT
DEF ArtifactAssumption, NoPage, Pages, Nothing, Objects, Unemployed, Jobs,
    Unloaded, LoadRecords, Commits, Lesser

LEMMA LoadFields ==
    ASSUME NEW r \in LoadRecords
    PROVE  /\ r.pc \in {"idle", "compare", "download", "store", "note", "done"}
           /\ r.pod \in Pods \cup {None} /\ r.sha \in Commits \cup {0}
           /\ r.page \in Pages /\ r.got \in Objects /\ r.again \in BOOLEAN
           /\ r.floor \in Commits \cup {0}
BY DEF LoadRecords

(* A thread's load is replaced, and the others are left alone *)
LEMMA SetLoad ==
    ASSUME load \in [Threads -> LoadRecords], NEW t \in Threads, NEW r \in LoadRecords,
           load' = [load EXCEPT ![t] = r]
    PROVE  /\ load' \in [Threads -> LoadRecords] /\ load'[t] = r
           /\ \A u \in Threads \ {t} : load'[u] = load[u]
BY SMT

(* One field of one load is replaced *)
LEMMA SetPc ==
    ASSUME NEW f \in [Threads -> LoadRecords], NEW t \in Threads, NEW g,
           NEW v \in {"idle", "compare", "download", "store", "note", "done"},
           g = [f EXCEPT ![t].pc = v]
    PROVE  /\ g \in [Threads -> LoadRecords]
           /\ g[t].pc = v
           /\ g[t].sha = f[t].sha /\ g[t].page = f[t].page
           /\ g[t].got = f[t].got /\ g[t].floor = f[t].floor
           /\ \A u \in Threads \ {t} : g[u] = f[u]
BY SMT DEF LoadRecords

LEMMA SetPage ==
    ASSUME NEW f \in [Threads -> LoadRecords], NEW t \in Threads, NEW g,
           NEW v \in Pages,
           g = [f EXCEPT ![t].page = v]
    PROVE  /\ g \in [Threads -> LoadRecords]
           /\ g[t].page = v
           /\ g[t].pc = f[t].pc /\ g[t].sha = f[t].sha
           /\ g[t].got = f[t].got /\ g[t].floor = f[t].floor
           /\ \A u \in Threads \ {t} : g[u] = f[u]
BY SMT DEF LoadRecords

LEMMA SetGot ==
    ASSUME NEW f \in [Threads -> LoadRecords], NEW t \in Threads, NEW g,
           NEW v \in Objects,
           g = [f EXCEPT ![t].got = v]
    PROVE  /\ g \in [Threads -> LoadRecords]
           /\ g[t].got = v
           /\ g[t].pc = f[t].pc /\ g[t].sha = f[t].sha
           /\ g[t].page = f[t].page /\ g[t].floor = f[t].floor
           /\ \A u \in Threads \ {t} : g[u] = f[u]
BY SMT DEF LoadRecords

LEMMA SetAgain ==
    ASSUME NEW f \in [Threads -> LoadRecords], NEW t \in Threads, NEW g,
           NEW v \in BOOLEAN,
           g = [f EXCEPT ![t].again = v]
    PROVE  /\ g \in [Threads -> LoadRecords]
           /\ g[t].pc = f[t].pc /\ g[t].sha = f[t].sha
           /\ g[t].page = f[t].page /\ g[t].got = f[t].got /\ g[t].floor = f[t].floor
           /\ \A u \in Threads \ {t} : g[u] = f[u]
BY SMT DEF LoadRecords

LEMMA SetFloor ==
    ASSUME NEW f \in [Threads -> LoadRecords], NEW t \in Threads, NEW g,
           NEW v \in Commits \cup {0},
           g = [f EXCEPT ![t].floor = v]
    PROVE  /\ g \in [Threads -> LoadRecords]
           /\ g[t].floor = v
           /\ g[t].pc = f[t].pc /\ g[t].sha = f[t].sha
           /\ g[t].page = f[t].page /\ g[t].got = f[t].got
           /\ \A u \in Threads \ {t} : g[u] = f[u]
BY SMT DEF LoadRecords

(* The ways a load goes on *)
LEMMA GoDone ==
    ASSUME load \in [Threads -> LoadRecords], NEW t \in Threads, NEW page \in Pages,
           Finish(t, page)
    PROVE  /\ load' \in [Threads -> LoadRecords]
           /\ load'[t].pc = "done" /\ load'[t].page = page
           /\ load'[t].sha = load[t].sha /\ load'[t].floor = load[t].floor
           /\ \A u \in Threads \ {t} : load'[u] = load[u]
<1> DEFINE g == [load EXCEPT ![t].pc = "done"]
<1>1. load' = [g EXCEPT ![t].page = page]
  BY Zenon DEF Finish
<1> HIDE DEF g
<1>2. /\ g \in [Threads -> LoadRecords]
      /\ g[t].pc = "done" /\ g[t].sha = load[t].sha /\ g[t].page = load[t].page
      /\ g[t].got = load[t].got /\ g[t].floor = load[t].floor
      /\ \A u \in Threads \ {t} : g[u] = load[u]
  BY SMT DEF g, LoadRecords
<1> QED
  <2>1. /\ load' \in [Threads -> LoadRecords]
        /\ load'[t].pc = g[t].pc /\ load'[t].page = page
        /\ load'[t].sha = g[t].sha /\ load'[t].floor = g[t].floor
        /\ \A u \in Threads \ {t} : load'[u] = g[u]
    BY <1>1, <1>2, SMT DEF LoadRecords
  <2> QED
    BY <1>2, <2>1, SMT

LEMMA GoFallBack ==
    ASSUME load \in [Threads -> LoadRecords], NEW t \in Threads,
           FallBack(t)
    PROVE  /\ load' \in [Threads -> LoadRecords]
           /\ load'[t].pc = "done" /\ load'[t].page = load[t].page
           /\ load'[t].sha = load[t].sha /\ load'[t].floor = 0
           /\ \A u \in Threads \ {t} : load'[u] = load[u]
<1> DEFINE g == [load EXCEPT ![t].pc = "done"]
<1>1. load' = [g EXCEPT ![t].floor = 0]
  BY Zenon DEF FallBack
<1> HIDE DEF g
<1>2. /\ g \in [Threads -> LoadRecords]
      /\ g[t].pc = "done" /\ g[t].sha = load[t].sha /\ g[t].page = load[t].page
      /\ g[t].got = load[t].got /\ g[t].floor = load[t].floor
      /\ \A u \in Threads \ {t} : g[u] = load[u]
  BY SMT DEF g, LoadRecords
<1> QED
  <2>1. /\ load' \in [Threads -> LoadRecords]
        /\ load'[t].pc = g[t].pc /\ load'[t].page = g[t].page
        /\ load'[t].sha = g[t].sha /\ load'[t].floor = 0
        /\ \A u \in Threads \ {t} : load'[u] = g[u]
    BY <1>1, <1>2, SMT DEF LoadRecords
  <2> QED
    BY <1>2, <2>1, SMT

(* Compare goes on to the bucket, Download takes an object, a worker gets a page *)
Doubts(t, v) == load' = [load EXCEPT ![t].pc = "download", ![t].again = v]

LEMMA GoAgain ==
    ASSUME load \in [Threads -> LoadRecords], NEW t \in Threads, NEW v \in BOOLEAN,
           Doubts(t, v)
    PROVE  /\ load' \in [Threads -> LoadRecords]
           /\ load'[t].pc = "download"
           /\ load'[t].sha = load[t].sha /\ load'[t].floor = load[t].floor
           /\ \A u \in Threads \ {t} : load'[u] = load[u]
<1> DEFINE g == [load EXCEPT ![t].pc = "download"]
<1>1. load' = [g EXCEPT ![t].again = v]
  BY Zenon DEF Doubts
<1> HIDE DEF g
<1>2. /\ g \in [Threads -> LoadRecords]
      /\ g[t].pc = "download" /\ g[t].sha = load[t].sha /\ g[t].page = load[t].page
      /\ g[t].got = load[t].got /\ g[t].floor = load[t].floor
      /\ \A u \in Threads \ {t} : g[u] = load[u]
  BY SMT DEF g, LoadRecords
<1> QED
  <2>1. /\ load' \in [Threads -> LoadRecords]
        /\ load'[t].pc = g[t].pc
        /\ load'[t].sha = g[t].sha /\ load'[t].floor = g[t].floor
        /\ \A u \in Threads \ {t} : load'[u] = g[u]
    BY <1>1, <1>2, SMT DEF LoadRecords
  <2> QED
    BY <1>2, <2>1, SMT

Takes(t, o) == load' = [load EXCEPT ![t].pc = "store", ![t].got = o]

LEMMA GoStore ==
    ASSUME load \in [Threads -> LoadRecords], NEW t \in Threads, NEW o \in Objects,
           Takes(t, o)
    PROVE  /\ load' \in [Threads -> LoadRecords]
           /\ load'[t].pc = "store" /\ load'[t].got = o
           /\ load'[t].sha = load[t].sha /\ load'[t].floor = load[t].floor
           /\ \A u \in Threads \ {t} : load'[u] = load[u]
<1> DEFINE g == [load EXCEPT ![t].pc = "store"]
<1>1. load' = [g EXCEPT ![t].got = o]
  BY Zenon DEF Takes
<1> HIDE DEF g
<1>2. /\ g \in [Threads -> LoadRecords]
      /\ g[t].pc = "store" /\ g[t].sha = load[t].sha /\ g[t].page = load[t].page
      /\ g[t].got = load[t].got /\ g[t].floor = load[t].floor
      /\ \A u \in Threads \ {t} : g[u] = load[u]
  BY SMT DEF g, LoadRecords
<1> QED
  <2>1. /\ load' \in [Threads -> LoadRecords]
        /\ load'[t].pc = g[t].pc /\ load'[t].got = o
        /\ load'[t].sha = g[t].sha /\ load'[t].floor = g[t].floor
        /\ \A u \in Threads \ {t} : load'[u] = g[u]
    BY <1>1, <1>2, SMT DEF LoadRecords
  <2> QED
    BY <1>2, <2>1, SMT

(* A Put lowers floors and nothing else *)
LEMMA SetFloors ==
    ASSUME load \in [Threads -> LoadRecords], NEW page \in Pages,
           load' = [t \in Threads |-> [load[t] EXCEPT !.floor = Lesser(@, page.sha)]]
    PROVE  /\ load' \in [Threads -> LoadRecords]
           /\ \A t \in Threads :
                /\ load'[t].pc = load[t].pc /\ load'[t].sha = load[t].sha
                /\ load'[t].page = load[t].page /\ load'[t].got = load[t].got
                /\ load'[t].floor = Lesser(load[t].floor, page.sha)
<1>1. ASSUME NEW t \in Threads
      PROVE  [load[t] EXCEPT !.floor = Lesser(@, page.sha)] \in LoadRecords
  <2> DEFINE r == load[t]
             f == Lesser(load[t].floor, page.sha)
  <2>1. r \in LoadRecords /\ f \in Commits \cup {0}
    <3>1. r \in LoadRecords
      OBVIOUS
    <3>2. r.floor \in Commits \cup {0} /\ page.sha \in Commits \cup {0}
      BY <3>1, LoadFields, Shapes, Zenon
    <3> QED
      BY <3>1, <3>2, Shapes, Zenon
  <2> HIDE DEF f
  <2> DEFINE g == [load EXCEPT ![t].floor = f]
  <2>2. g \in [Threads -> LoadRecords]
    BY <2>1, SetFloor, Zenon
  <2>3. g[t] = [load[t] EXCEPT !.floor = f]
    BY Zenon
  <2> HIDE DEF g
  <2>4. [load[t] EXCEPT !.floor = f] \in LoadRecords
    BY <2>2, <2>3, Zenon
  <2> QED
    BY <2>4 DEF f
<1>2. ASSUME NEW t \in Threads
      PROVE  load'[t] = [load[t] EXCEPT !.floor = Lesser(@, page.sha)]
  BY <1>2
<1>3. load' \in [Threads -> LoadRecords]
  BY <1>1, Zenon
<1>4. ASSUME NEW t \in Threads
      PROVE  /\ load'[t].pc = load[t].pc /\ load'[t].sha = load[t].sha
             /\ load'[t].page = load[t].page /\ load'[t].got = load[t].got
             /\ load'[t].floor = Lesser(load[t].floor, page.sha)
  <2> DEFINE r == load[t]
             f == Lesser(load[t].floor, page.sha)
  <2>1. r \in LoadRecords
    OBVIOUS
  <2>2. load'[t] = [r EXCEPT !.floor = f]
    BY <1>2
  <2> HIDE DEF r, f
  <2>3. /\ load'[t].pc = r.pc /\ load'[t].sha = r.sha
        /\ load'[t].page = r.page /\ load'[t].got = r.got
        /\ load'[t].floor = f
    BY <2>1, <2>2, SMT DEF LoadRecords
  <2> QED
    BY <2>3 DEF r, f
<1> QED
  BY <1>3, <1>4, Zenon

(* A worker's job is replaced *)
LEMMA SetJob ==
    ASSUME work \in [Pods -> Jobs], NEW p \in Pods, NEW r \in Jobs,
           work' = [work EXCEPT ![p] = r]
    PROVE  /\ work' \in [Pods -> Jobs] /\ work'[p] = r
           /\ \A q \in Pods \ {p} : work'[q] = work[q]
BY SMT

Turns(p, c, page) == work' = [work EXCEPT ![p].pc = c, ![p].page = page]

LEMMA SetJobPage ==
    ASSUME work \in [Pods -> Jobs], NEW p \in Pods, NEW page \in Pages,
           NEW c \in {"upload", "link", "retry"},
           Turns(p, c, page)
    PROVE  /\ work' \in [Pods -> Jobs]
           /\ work'[p].pc = c /\ work'[p].page = page /\ work'[p].sha = work[p].sha
           /\ \A q \in Pods \ {p} : work'[q] = work[q]
<1> DEFINE g == [work EXCEPT ![p].pc = c]
<1>1. work' = [g EXCEPT ![p].page = page]
  BY Zenon DEF Turns
<1> HIDE DEF g
<1>2. /\ g \in [Pods -> Jobs] /\ g[p].pc = c /\ g[p].sha = work[p].sha
      /\ \A q \in Pods \ {p} : g[q] = work[q]
  BY SMT DEF g, Jobs
<1>3. /\ work' \in [Pods -> Jobs]
      /\ work'[p].pc = g[p].pc /\ work'[p].page = page /\ work'[p].sha = g[p].sha
      /\ \A q \in Pods \ {p} : work'[q] = g[q]
  BY <1>1, <1>2, SMT DEF Jobs
<1> QED
  BY <1>2, <1>3, SMT

LEMMA JobFields ==
    ASSUME NEW r \in Jobs
    PROVE  /\ r.pc \in {"idle", "announce", "render", "upload", "link", "retry"}
           /\ r.sha \in Commits \cup {0} /\ r.page \in Pages
BY DEF Jobs

-----------------------------------------------------------------------------
(* What a load holds stays true *)

(* One thread takes a step and the bucket stays *)
LEMMA LoadKept ==
    ASSUME Loads, NEW t \in Threads, bucket' = bucket, LoadTrue(t)',
           \A u \in Threads \ {t} : load'[u] = load[u]
    PROVE  Loads'
BY SMT DEF Loads, LoadTrue

(* A load starts, is reset, and lives through a Put *)
LEMMA StartTrue ==
    ASSUME TypeOK, Loads, NEW t \in Threads, NEW p \in Pods, NEW c \in Commits \cup {0},
           Start(t, p, c), bucket' = bucket
    PROVE  load' \in [Threads -> LoadRecords] /\ Loads'
<1> DEFINE r == [pc    |-> IF local[p].sha = c THEN "compare" ELSE "download",
                 pod   |-> p, sha |-> c, page |-> local[p], got |-> Nothing,
                 again |-> FALSE, floor |-> Lesser(c, bucket.page.sha)]
<1>1. /\ bucket.page.sha \in Commits \cup {0} /\ local[p] \in Pages
      /\ load \in [Threads -> LoadRecords]
  BY Shapes, SMT DEF TypeOK, LoadRecords
<1>2. /\ r.floor \in Commits \cup {0} /\ r.floor <= c /\ r.floor <= bucket.page.sha
  BY <1>1, Shapes, Zenon
<1>3. r \in LoadRecords
  BY <1>1, <1>2, Shapes, SMT DEF LoadRecords
<1>4. load' = [load EXCEPT ![t] = r]
  BY DEF Start
<1>5. load' \in [Threads -> LoadRecords] /\ load'[t] = r
      /\ \A u \in Threads \ {t} : load'[u] = load[u]
  <2> HIDE DEF r
  <2> QED
    BY <1>1, <1>3, <1>4, SetLoad, Zenon
<1>6. LoadTrue(t)'
  BY <1>2, <1>5, SMT DEF LoadTrue
<1> QED
  BY <1>5, <1>6, LoadKept, Zenon

LEMMA ResetTrue ==
    ASSUME Loads, load \in [Threads -> LoadRecords], NEW t \in Threads,
           load' = [load EXCEPT ![t] = Unloaded], bucket' = bucket
    PROVE  load' \in [Threads -> LoadRecords] /\ Loads'
<1>1. /\ load' \in [Threads -> LoadRecords] /\ load'[t] = Unloaded
      /\ \A u \in Threads \ {t} : load'[u] = load[u]
  BY Shapes, SetLoad, Zenon
<1>2. LoadTrue(t)'
  BY <1>1, SMT DEF LoadTrue, Unloaded
<1> QED
  BY <1>1, <1>2, LoadKept, Zenon

LEMMA PutTrue ==
    ASSUME TypeOK, Loads, NEW page \in Pages \ {NoPage}, Put(page)
    PROVE  /\ bucket' \in Objects /\ bucket'.page = page
           /\ load' \in [Threads -> LoadRecords] /\ Loads'
<1>1. load \in [Threads -> LoadRecords]
  BY DEF TypeOK, LoadRecords
<1>2. bucket' \in Objects /\ bucket'.page = page
  BY Shapes, SMT DEF Put, TypeOK, Objects
<1>3. /\ load' \in [Threads -> LoadRecords]
      /\ \A t \in Threads :
            /\ load'[t].pc = load[t].pc /\ load'[t].sha = load[t].sha
            /\ load'[t].page = load[t].page /\ load'[t].got = load[t].got
            /\ load'[t].floor = Lesser(load[t].floor, page.sha)
  BY <1>1, SetFloors, Zenon DEF Put
<1>4. ASSUME NEW t \in Threads PROVE LoadTrue(t)'
  <2>1. /\ load[t].floor \in Commits \cup {0} /\ load[t].sha \in Commits \cup {0}
        /\ load[t].page.sha \in Commits \cup {0}
        /\ load[t].got.page.sha \in Commits \cup {0}
        /\ page.sha \in Commits \cup {0}
    BY <1>1, Shapes, LoadFields, SMT
  <2>2. /\ Lesser(load[t].floor, page.sha) \in Int
        /\ Lesser(load[t].floor, page.sha) <= load[t].floor
        /\ Lesser(load[t].floor, page.sha) <= page.sha
    BY <2>1, Shapes, SMT DEF Commits
  <2> QED
    BY <1>2, <1>3, <2>1, <2>2, SMT DEF Loads, LoadTrue, Commits
<1> QED
  BY <1>2, <1>3, <1>4, Zenon DEF Loads

-----------------------------------------------------------------------------
(* The invariant is inductive *)

LEMMA InitHolds == Init => IInv
<1> SUFFICES ASSUME Init PROVE IInv
  OBVIOUS
<1>1. TypeOK
  BY ArtifactAssumption, Shapes, SMT
  DEF ArtifactAssumption, Init, TypeOK, LoadRecords, Jobs, Threads
<1>2. Employed
  <2>1. ASSUME NEW p \in Pods PROVE work[p] = Unemployed
    BY <2>1 DEF Init
  <2>2. Unemployed.pc = "idle"
    BY DEF Unemployed
  <2>3. \A p \in Pods : work[p].pc = "idle"
    BY <2>1, <2>2
  <2> QED
    BY <2>3, Zenon DEF Employed
<1>3. Loads
  BY Shapes, SMT DEF Init, Loads, LoadTrue, Unloaded
<1> QED
  BY <1>1, <1>2, <1>3 DEF IInv

(* One entry of a function is replaced *)
LEMMA FlagTyped ==
    ASSUME NEW f \in [Pods -> BOOLEAN], NEW p \in Pods, NEW b \in BOOLEAN
    PROVE  [f EXCEPT ![p] = b] \in [Pods -> BOOLEAN]
BY SMT

LEMMA CopyTyped ==
    ASSUME NEW S, NEW f \in [Pods -> S], NEW p, NEW v \in S
    PROVE  [f EXCEPT ![p] = v] \in [Pods -> S]
<1>1. \A q \in Pods : (IF q = p THEN v ELSE f[q]) \in S
  OBVIOUS
<1>2. [f EXCEPT ![p] = v] = [q \in Pods |-> IF q = p THEN v ELSE f[q]]
  BY Zenon
<1> QED
  BY <1>1, <1>2, Zenon

(* Failed requests stay within their bound, and so do upsets *)
LEMMA LossTyped ==
    ASSUME TypeOK, Loss \/ UNCHANGED counters
    PROVE  losses' \in 0 .. MaxLosses /\ upsets' \in 0 .. MaxUpsets
BY ArtifactAssumption, SMT DEF ArtifactAssumption, TypeOK, Loss, counters

(* A step of a load that leaves the bucket and the workers alone *)
LEMMA LoadStep ==
    ASSUME IInv, load' \in [Threads -> LoadRecords], Loads', bucket' = bucket,
           local' \in [Pods -> Pages], generation' \in [Pods -> Nat],
           UNCHANGED <<pending, leader, work, ghosts>>,
           Loss \/ UNCHANGED counters
    PROVE  IInv'
<1>1. TypeOK'
  BY LossTyped, SMT DEF IInv, TypeOK, LoadRecords, ghosts
<1>2. Employed'
  BY SMT DEF IInv, Employed, ghosts
<1> QED
  BY <1>1, <1>2 DEF IInv

(* What is known of a thread's load *)
LEMMA LoadKnown ==
    ASSUME IInv, NEW t \in Threads
    PROVE  /\ load \in [Threads -> LoadRecords] /\ load[t] \in LoadRecords
           /\ LoadTrue(t)
           /\ load[t].page \in Pages /\ load[t].got \in Objects
           /\ load[t].page.sha \in Nat /\ load[t].got.page.sha \in Nat
           /\ load[t].floor \in Nat /\ bucket \in Objects /\ bucket.page.sha \in Nat
<1>1. load \in [Threads -> LoadRecords] /\ LoadTrue(t) /\ bucket \in Objects
  BY DEF IInv, TypeOK, LoadRecords, Loads
<1>2. load[t] \in LoadRecords
  BY <1>1
<1>3. \A c \in Commits \cup {0} : c \in Nat
  BY ArtifactAssumption, SMT DEF Commits
<1> QED
  BY <1>1, <1>2, <1>3, LoadFields, Shapes, Zenon

LEMMA CompareStep == ASSUME IInv, NEW t \in Threads, Compare(t) PROVE IInv'
<1>1. /\ load[t].pc = "compare"
      /\ UNCHANGED <<bucket, local, generation, pending, leader, work, ghosts>>
  BY Zenon DEF Compare, copies
<1>2. \/ Finish(t, load[t].page) /\ UNCHANGED counters
      \/ Doubts(t, TRUE) /\ UNCHANGED counters
      \/ FallBack(t) /\ Loss
  BY Zenon DEF Compare, Doubts
<1>3. load' \in [Threads -> LoadRecords] /\ Loads'
  <2>1. CASE Finish(t, load[t].page)
    <3>1. /\ load' \in [Threads -> LoadRecords]
          /\ load'[t].pc = "done" /\ load'[t].page = load[t].page
          /\ load'[t].floor = load[t].floor /\ load'[t].sha = load[t].sha
          /\ \A u \in Threads \ {t} : load'[u] = load[u]
      BY <2>1, GoDone, LoadKnown, Zenon
    <3>2. LoadTrue(t)'
      BY <1>1, <3>1, LoadKnown, SMT DEF LoadTrue
    <3> QED
      BY <1>1, <3>1, <3>2, LoadKept, Zenon DEF IInv
  <2>2. CASE Doubts(t, TRUE)
    <3>1. /\ load' \in [Threads -> LoadRecords]
          /\ load'[t].pc = "download"
          /\ load'[t].floor = load[t].floor /\ load'[t].sha = load[t].sha
          /\ \A u \in Threads \ {t} : load'[u] = load[u]
      BY <2>2, GoAgain, LoadKnown, Zenon
    <3>2. LoadTrue(t)'
      BY <1>1, <3>1, LoadKnown, SMT DEF LoadTrue
    <3> QED
      BY <1>1, <3>1, <3>2, LoadKept, Zenon DEF IInv
  <2>3. CASE FallBack(t)
    <3>1. /\ load' \in [Threads -> LoadRecords]
          /\ load'[t].pc = "done" /\ load'[t].page = load[t].page
          /\ load'[t].floor = 0 /\ load'[t].sha = load[t].sha
          /\ \A u \in Threads \ {t} : load'[u] = load[u]
      BY <2>3, GoFallBack, LoadKnown, Zenon
    <3>2. LoadTrue(t)'
      <4>1. load[t].sha \in Nat
        BY LoadKnown, LoadFields, ArtifactAssumption, SMT DEF Commits
      <4> QED
        BY <3>1, <4>1, LoadKnown, SMT DEF LoadTrue
    <3> QED
      BY <1>1, <3>1, <3>2, LoadKept, Zenon DEF IInv
  <2> QED
    BY <1>2, <2>1, <2>2, <2>3, Zenon
<1>4. local' \in [Pods -> Pages] /\ generation' \in [Pods -> Nat]
  BY <1>1, SMT DEF IInv, TypeOK
<1> QED
  BY <1>1, <1>2, <1>3, <1>4, LoadStep, Zenon

LEMMA DownloadStep == ASSUME IInv, NEW t \in Threads, Download(t) PROVE IInv'
<1> DEFINE keep == \/ bucket = Nothing
                   \/ ~load[t].again /\ bucket.page.sha = load[t].page.sha
<1>1. /\ load[t].pc = "download"
      /\ UNCHANGED <<bucket, local, generation, pending, leader, work, ghosts>>
  BY Zenon DEF Download, copies
<1>2. \/ keep /\ Finish(t, load[t].page) /\ UNCHANGED counters
      \/ Takes(t, bucket) /\ UNCHANGED counters
      \/ FallBack(t) /\ Loss
  BY Zenon DEF Download, Takes
<1>3. load' \in [Threads -> LoadRecords] /\ Loads'
  <2>1. CASE keep /\ Finish(t, load[t].page)
    <3>1. /\ load' \in [Threads -> LoadRecords]
          /\ load'[t].pc = "done" /\ load'[t].page = load[t].page
          /\ load'[t].floor = load[t].floor /\ load'[t].sha = load[t].sha
          /\ \A u \in Threads \ {t} : load'[u] = load[u]
      BY <2>1, GoDone, LoadKnown, Zenon
    <3>2. bucket.page.sha <= load[t].page.sha
      BY <2>1, LoadKnown, SMT DEF Nothing, NoPage
    <3>3. LoadTrue(t)'
      BY <1>1, <3>1, <3>2, LoadKnown, SMT DEF LoadTrue
    <3> QED
      BY <1>1, <3>1, <3>3, LoadKept, Zenon DEF IInv
  <2>2. CASE Takes(t, bucket)
    <3>1. /\ load' \in [Threads -> LoadRecords]
          /\ load'[t].pc = "store" /\ load'[t].got = bucket
          /\ load'[t].floor = load[t].floor /\ load'[t].sha = load[t].sha
          /\ \A u \in Threads \ {t} : load'[u] = load[u]
      BY <2>2, GoStore, LoadKnown, Zenon
    <3>2. LoadTrue(t)'
      BY <1>1, <3>1, LoadKnown, SMT DEF LoadTrue
    <3> QED
      BY <1>1, <3>1, <3>2, LoadKept, Zenon DEF IInv
  <2>3. CASE FallBack(t)
    <3>1. /\ load' \in [Threads -> LoadRecords]
          /\ load'[t].pc = "done" /\ load'[t].page = load[t].page
          /\ load'[t].floor = 0 /\ load'[t].sha = load[t].sha
          /\ \A u \in Threads \ {t} : load'[u] = load[u]
      BY <2>3, GoFallBack, LoadKnown, Zenon
    <3>2. LoadTrue(t)'
      <4>1. load[t].sha \in Nat
        BY LoadKnown, LoadFields, ArtifactAssumption, SMT DEF Commits
      <4> QED
        BY <3>1, <4>1, LoadKnown, SMT DEF LoadTrue
    <3> QED
      BY <1>1, <3>1, <3>2, LoadKept, Zenon DEF IInv
  <2> QED
    BY <1>2, <2>1, <2>2, <2>3, Zenon
<1>4. local' \in [Pods -> Pages] /\ generation' \in [Pods -> Nat]
  BY <1>1, SMT DEF IInv, TypeOK
<1> QED
  BY <1>1, <1>2, <1>3, <1>4, LoadStep, Zenon

LEMMA StoreStep == ASSUME IInv, NEW t \in Threads, StoreCopy(t) PROVE IInv'
<1>1. /\ load[t].pc = "store"
      /\ local' = [local EXCEPT ![load[t].pod] = load[t].got.page]
      /\ load' = [load EXCEPT ![t].pc = "note"]
      /\ UNCHANGED <<bucket, generation, pending, leader, work, ghosts, counters>>
  BY Zenon DEF StoreCopy
<1>2. /\ load' \in [Threads -> LoadRecords]
      /\ load'[t].pc = "note" /\ load'[t].got = load[t].got
      /\ load'[t].floor = load[t].floor /\ load'[t].sha = load[t].sha
      /\ \A u \in Threads \ {t} : load'[u] = load[u]
  BY <1>1, LoadKnown, SetPc, SMT
<1>3. LoadTrue(t)'
  BY <1>1, <1>2, LoadKnown, SMT DEF LoadTrue
<1>4. Loads'
  BY <1>1, <1>2, <1>3, LoadKept, Zenon DEF IInv
<1>5. load[t].got.page \in Pages
  BY LoadKnown, Shapes, Zenon
<1>6. local' \in [Pods -> Pages] /\ generation' \in [Pods -> Nat]
  BY <1>1, <1>5, CopyTyped, Zenon DEF IInv, TypeOK
<1> QED
  BY <1>1, <1>2, <1>4, <1>6, LoadStep, Zenon

LEMMA NoteStep == ASSUME IInv, NEW t \in Threads, NoteGeneration(t) PROVE IInv'
<1>1. /\ load[t].pc = "note"
      /\ generation' = [generation EXCEPT ![load[t].pod] = load[t].got.gen]
      /\ Finish(t, load[t].got.page)
      /\ UNCHANGED <<bucket, local, pending, leader, work, ghosts, counters>>
  BY Zenon DEF NoteGeneration
<1>2. load[t].got.page \in Pages /\ load[t].got.gen \in Nat
  BY LoadKnown, Shapes, Zenon
<1>3. /\ load' \in [Threads -> LoadRecords]
      /\ load'[t].pc = "done" /\ load'[t].page = load[t].got.page
      /\ load'[t].floor = load[t].floor /\ load'[t].sha = load[t].sha
      /\ \A u \in Threads \ {t} : load'[u] = load[u]
  BY <1>1, <1>2, GoDone, LoadKnown, Zenon
<1>4. LoadTrue(t)'
  BY <1>1, <1>3, LoadKnown, SMT DEF LoadTrue
<1>5. Loads'
  BY <1>1, <1>3, <1>4, LoadKept, Zenon DEF IInv
<1>6. local' \in [Pods -> Pages] /\ generation' \in [Pods -> Nat]
  BY <1>1, <1>2, CopyTyped, Zenon DEF IInv, TypeOK
<1> QED
  BY <1>1, <1>3, <1>5, <1>6, LoadStep, Zenon

LEMMA RespondStep == ASSUME IInv, NEW t \in Threads, Respond(t) PROVE IInv'
<1>1. /\ load' = [load EXCEPT ![t] = Unloaded]
      /\ UNCHANGED <<bucket, local, generation, pending, leader, work, ghosts, counters>>
  BY Zenon DEF Respond, copies
<1>2. load' \in [Threads -> LoadRecords] /\ Loads'
  BY <1>1, ResetTrue, LoadKnown, Zenon DEF IInv
<1>3. local' \in [Pods -> Pages] /\ generation' \in [Pods -> Nat]
  BY <1>1, SMT DEF IInv, TypeOK
<1> QED
  BY <1>1, <1>2, <1>3, LoadStep, Zenon

LEMMA RequestStep ==
    ASSUME IInv, NEW t \in Web, NEW p \in Pods, NEW c \in Commits, Request(t, p, c)
    PROVE  IInv'
<1>1. /\ Start(t, p, c)
      /\ UNCHANGED <<bucket, local, generation, pending, leader, work, ghosts, counters>>
  BY Zenon DEF Request, copies
<1>2. t \in Threads /\ c \in Commits \cup {0}
  BY DEF Threads
<1>3. load' \in [Threads -> LoadRecords] /\ Loads'
  BY <1>1, <1>2, StartTrue, Zenon DEF IInv
<1>4. local' \in [Pods -> Pages] /\ generation' \in [Pods -> Nat]
  BY <1>1, SMT DEF IInv, TypeOK
<1> QED
  BY <1>1, <1>3, <1>4, LoadStep, Zenon

-----------------------------------------------------------------------------
(* The worker of a pod *)

(* What is known of a pod's worker *)
LEMMA WorkKnown ==
    ASSUME IInv, NEW p \in Pods
    PROVE  /\ work \in [Pods -> Jobs] /\ work[p] \in Jobs
           /\ work[p].sha \in Commits \cup {0} /\ work[p].page \in Pages
           /\ local[p] \in Pages /\ load \in [Threads -> LoadRecords]
           /\ p \in Threads
<1>1. work \in [Pods -> Jobs] /\ load \in [Threads -> LoadRecords]
  BY DEF IInv, TypeOK, Jobs, LoadRecords
<1>2. work[p] \in Jobs
  BY <1>1
<1>3. local[p] \in Pages
  BY DEF IInv, TypeOK
<1> QED
  BY <1>1, <1>2, <1>3, JobFields, Zenon DEF Threads

(* A worker whose new job owes nothing *)
LEMMA JobKept ==
    ASSUME Employed, NEW p \in Pods, saves' = saves,
           \A q \in Pods \ {p} : work'[q] = work[q],
           work'[p].pc \in {"announce", "render", "upload", "link"} => work'[p].sha \in Commits,
           work'[p].pc \in {"upload", "retry"} => work'[p].page # NoPage,
           work'[p].pc = "upload" => work'[p].page.n <= saves
    PROVE  Employed'
BY SMT DEF Employed

(* A worker that is done rests *)
LEMMA Resting ==
    ASSUME IInv, NEW p \in Pods, saves' = saves, work' = [work EXCEPT ![p] = Unemployed]
    PROVE  work' \in [Pods -> Jobs] /\ Employed'
<1>1. /\ work' \in [Pods -> Jobs] /\ work'[p] = Unemployed
      /\ \A q \in Pods \ {p} : work'[q] = work[q]
  BY WorkKnown, Shapes, SetJob, Zenon
<1>2. Unemployed.pc = "idle"
  BY DEF Unemployed
<1> QED
  BY <1>1, <1>2, JobKept, SMT DEF IInv

(* The invariant from its parts *)
LEMMA WorkStep ==
    ASSUME IInv, bucket' \in Objects, load' \in [Threads -> LoadRecords], Loads',
           work' \in [Pods -> Jobs], Employed',
           local' \in [Pods -> Pages], generation' \in [Pods -> Nat],
           pending' \in [Pods -> BOOLEAN], leader' \in Pods,
           saves' \in 0 .. MaxSaves, finished' \in 0 .. saves',
           newest' \in Commits \cup {0},
           losses' \in 0 .. MaxLosses, upsets' \in 0 .. MaxUpsets
    PROVE  IInv'
<1>1. TypeOK'
  BY SMT DEF IInv, TypeOK, LoadRecords, Jobs
<1> QED
  BY <1>1, Zenon DEF IInv

(* What a step leaves alone keeps its type *)
LEMMA Unchanged ==
    ASSUME IInv
    PROVE  /\ UNCHANGED bucket => bucket' \in Objects
           /\ UNCHANGED local => local' \in [Pods -> Pages]
           /\ UNCHANGED generation => generation' \in [Pods -> Nat]
           /\ UNCHANGED leader => leader' \in Pods
           /\ UNCHANGED pending => pending' \in [Pods -> BOOLEAN]
           /\ UNCHANGED <<saves, finished>> =>
                saves' \in 0 .. MaxSaves /\ finished' \in 0 .. saves'
           /\ UNCHANGED newest => newest' \in Commits \cup {0}
           /\ UNCHANGED counters =>
                losses' \in 0 .. MaxLosses /\ upsets' \in 0 .. MaxUpsets
BY Zenon DEF IInv, TypeOK, counters

LEMMA BeginStep == ASSUME IInv, NEW p \in Pods, Begin(p) PROVE IInv'
<1>1. PICK c \in Commits :
        /\ work' = [work EXCEPT ![p] = [pc |-> "announce", sha |-> c, page |-> NoPage]]
        /\ Start(p, p, c)
  BY Zenon DEF Begin
<1>2. UNCHANGED <<bucket, local, generation, pending, leader, saves, finished, newest,
                  counters>>
  BY Zenon DEF Begin, copies, ghosts
<1>3. load' \in [Threads -> LoadRecords] /\ Loads'
  BY <1>1, <1>2, WorkKnown, StartTrue, SMT DEF IInv
<1>4. work' \in [Pods -> Jobs] /\ Employed'
  <2> DEFINE job == [pc |-> "announce", sha |-> c, page |-> NoPage]
  <2>1. job \in Jobs /\ job.pc = "announce" /\ job.sha = c
    BY Shapes, SMT DEF Jobs
  <2>2. work' = [work EXCEPT ![p] = job]
    BY <1>1
  <2> HIDE DEF job
  <2>3. /\ work' \in [Pods -> Jobs] /\ work'[p] = job
        /\ \A q \in Pods \ {p} : work'[q] = work[q]
    BY <2>1, <2>2, WorkKnown, SetJob, Zenon
  <2> QED
    BY <1>2, <2>1, <2>3, JobKept, SMT DEF IInv
<1> QED
  BY <1>2, <1>3, <1>4, Unchanged, WorkStep, Zenon

LEMMA LinkedStep == ASSUME IInv, NEW p \in Pods, Linked(p) PROVE IInv'
<1>1. /\ load' = [load EXCEPT ![p] = Unloaded]
      /\ UNCHANGED <<bucket, local, generation, pending, leader, saves, finished, newest,
                     counters>>
  BY Zenon DEF Linked, copies, ghosts
<1>2. load' \in [Threads -> LoadRecords] /\ Loads'
  BY <1>1, WorkKnown, ResetTrue, Zenon DEF IInv
<1>3. work' \in [Pods -> Jobs] /\ Employed'
  <2>1. CASE work[p].pc = "announce"
    <3> DEFINE job == [work[p] EXCEPT !.pc = "render"]
    <3>1. job \in Jobs /\ job.pc = "render" /\ job.sha = work[p].sha
      <4>1. work[p] \in Jobs
        BY WorkKnown
      <4> QED
        BY <4>1, SMT DEF Jobs
    <3>2. work' = [work EXCEPT ![p] = job]
      BY <2>1, Zenon DEF Linked
    <3> HIDE DEF job
    <3>3. /\ work' \in [Pods -> Jobs] /\ work'[p] = job
          /\ \A q \in Pods \ {p} : work'[q] = work[q]
      BY <3>1, <3>2, WorkKnown, SetJob, Zenon
    <3>4. job.sha \in Commits
      BY <2>1, <3>1, SMT DEF IInv, Employed
    <3> QED
      BY <1>1, <3>1, <3>3, <3>4, JobKept, SMT DEF IInv
  <2>2. CASE work[p].pc # "announce"
    BY <1>1, <2>2, Resting, Zenon DEF Linked
  <2> QED
    BY <2>1, <2>2
<1> QED
  BY <1>1, <1>2, <1>3, Unchanged, WorkStep, Zenon

LEMMA SaveStep == ASSUME IInv, NEW p \in Pods, Save(p) PROVE IInv'
<1> DEFINE page == [sha |-> work[p].sha, n |-> saves + 1]
<1>1. /\ work[p].pc = "render"
      /\ UNCHANGED <<bucket, generation, pending, leader, load, finished, counters>>
  BY Zenon DEF Save
<1>2. load' \in [Threads -> LoadRecords] /\ Loads'
  BY <1>1, SMT DEF IInv, TypeOK, LoadRecords, Loads, LoadTrue
<1>3. CASE leader = p /\ saves < MaxSaves
  <2>1. /\ local' = [local EXCEPT ![p] = page]
        /\ Turns(p, "upload", page)
        /\ saves' = saves + 1
        /\ newest' = IF page.sha > newest THEN page.sha ELSE newest
    BY <1>3, Zenon DEF Save, Turns
  <2>2. work[p].sha \in Commits /\ saves \in 0 .. MaxSaves
    BY <1>1, SMT DEF IInv, Employed, TypeOK
  <2>3. /\ page \in Pages /\ page # NoPage
        /\ page.sha \in Commits /\ page.n = saves + 1
    BY <1>3, <2>2, ArtifactAssumption, SMT
    DEF ArtifactAssumption, Pages, NoPage, Commits
  <2> HIDE DEF page
  <2>4. /\ work' \in [Pods -> Jobs]
        /\ work'[p].pc = "upload" /\ work'[p].page = page /\ work'[p].sha = work[p].sha
        /\ \A q \in Pods \ {p} : work'[q] = work[q]
    BY <2>1, <2>3, WorkKnown, SetJobPage, SMT
  <2>5. Employed'
    <3>1. ASSUME NEW q \in Pods \ {p}, work[q].pc = "upload"
          PROVE  work[q].page.n <= saves'
      <4>1. work[q].page.n <= saves /\ work[q].page \in Pages /\ work[q].page # NoPage
        BY <3>1, WorkKnown, SMT DEF IInv, Employed
      <4>2. work[q].page.n \in Nat
        BY <4>1, ArtifactAssumption, SMT DEF Pages
      <4> QED
        BY <2>1, <2>2, <4>1, <4>2, SMT
    <3> QED
      BY <2>1, <2>2, <2>3, <2>4, <3>1, SMT DEF IInv, Employed
  <2>6. local' \in [Pods -> Pages]
    BY <2>1, <2>3, CopyTyped, Zenon DEF IInv, TypeOK
  <2>7. saves' \in 0 .. MaxSaves /\ finished' \in 0 .. saves'
    BY <1>1, <1>3, <2>1, ArtifactAssumption, SMT
    DEF ArtifactAssumption, IInv, TypeOK
  <2>8. newest' \in Commits \cup {0}
    BY <2>1, <2>3, Zenon DEF IInv, TypeOK
  <2> QED
    BY <1>1, <1>2, <2>4, <2>5, <2>6, <2>7, <2>8, Unchanged, WorkStep, Zenon
<1>4. CASE ~(leader = p /\ saves < MaxSaves)
  <2>1. /\ work' = [work EXCEPT ![p] = Unemployed]
        /\ UNCHANGED <<local, saves, newest>>
    BY <1>4, Zenon DEF Save
  <2>2. work' \in [Pods -> Jobs] /\ Employed'
    BY <2>1, Resting, Zenon
  <2> QED
    BY <1>1, <1>2, <2>1, <2>2, Unchanged, WorkStep, Zenon
<1> QED
  BY <1>3, <1>4

(* The three ways an upload ends *)
LEMMA PutStep ==
    ASSUME IInv, NEW p \in Pods, work[p].pc \in {"upload", "retry"},
           Landed(p) \/ Unheard(p) \/ Lost
    PROVE  /\ bucket' \in Objects /\ load' \in [Threads -> LoadRecords] /\ Loads'
           /\ generation' \in [Pods -> Nat]
           /\ losses' \in 0 .. MaxLosses /\ upsets' \in 0 .. MaxUpsets
<1>1. work[p].page \in Pages \ {NoPage}
  BY WorkKnown, SMT DEF IInv, Employed
<1>2. losses' \in 0 .. MaxLosses /\ upsets' \in 0 .. MaxUpsets
  <2>1. Loss \/ UNCHANGED counters
    BY Zenon DEF Landed, Unheard, Lost
  <2> QED
    BY <2>1, LossTyped, Zenon DEF IInv
<1>3. CASE Put(work[p].page)
  <2>1. bucket' \in Objects /\ load' \in [Threads -> LoadRecords] /\ Loads'
    BY <1>1, <1>3, PutTrue, Zenon DEF IInv
  <2>2. bucket.gen + 1 \in Nat
    BY Shapes, SMT DEF IInv, TypeOK
  <2>3. \/ generation' = [generation EXCEPT ![p] = bucket.gen + 1]
        \/ UNCHANGED generation
    BY Zenon DEF Landed, Unheard, Lost
  <2>4. generation' \in [Pods -> Nat]
    BY <2>2, <2>3, CopyTyped, Zenon DEF IInv, TypeOK
  <2> QED
    BY <1>2, <2>1, <2>4
<1>4. CASE UNCHANGED <<bucket, load, generation>>
  <2>1. bucket' \in Objects /\ load' \in [Threads -> LoadRecords] /\ generation' \in [Pods -> Nat]
    BY <1>4, WorkKnown, Zenon DEF IInv, TypeOK
  <2>2. Loads'
    BY <1>4, SMT DEF IInv, Loads, LoadTrue
  <2> QED
    BY <1>2, <2>1, <2>2
<1> QED
  BY <1>3, <1>4, Zenon DEF Landed, Unheard, Lost

LEMMA UploadStep == ASSUME IInv, NEW p \in Pods, Upload(p) PROVE IInv'
<1>1. /\ work[p].pc = "upload"
      /\ Landed(p) \/ Unheard(p) \/ Lost
      /\ finished' = IF work[p].page.n > finished THEN work[p].page.n ELSE finished
      /\ UNCHANGED <<local, leader, saves, newest>>
  BY Zenon DEF Upload
<1>2. /\ bucket' \in Objects /\ load' \in [Threads -> LoadRecords] /\ Loads'
      /\ generation' \in [Pods -> Nat]
      /\ losses' \in 0 .. MaxLosses /\ upsets' \in 0 .. MaxUpsets
  BY <1>1, PutStep, SMT
<1>3. pending' \in [Pods -> BOOLEAN]
  <2>1. pending' = pending \/ pending' = [pending EXCEPT ![p] = TRUE]
    BY Zenon DEF Upload
  <2> QED
    BY <2>1, FlagTyped, Zenon DEF IInv, TypeOK
<1>4. Turns(p, "link", NoPage)
  BY Zenon DEF Upload, Turns
<1>5. /\ work' \in [Pods -> Jobs]
      /\ work'[p].pc = "link" /\ work'[p].sha = work[p].sha
      /\ \A q \in Pods \ {p} : work'[q] = work[q]
  BY <1>4, Shapes, WorkKnown, SetJobPage, SMT
<1>6. Employed'
  <2>1. work[p].sha \in Commits
    BY <1>1, SMT DEF IInv, Employed
  <2> QED
    BY <1>1, <1>5, <2>1, JobKept, SMT DEF IInv
<1>7. saves' \in 0 .. MaxSaves /\ finished' \in 0 .. saves'
  <2>1. work[p].page.n \in Nat /\ work[p].page.n <= saves
    <3>1. work[p].page.n <= saves /\ work[p].page \in Pages /\ work[p].page # NoPage
      BY <1>1, WorkKnown, SMT DEF IInv, Employed
    <3> QED
      BY <3>1, ArtifactAssumption, SMT DEF Pages
  <2> QED
    BY <1>1, <2>1, SMT DEF IInv, TypeOK
<1> QED
  BY <1>1, <1>2, <1>3, <1>5, <1>6, <1>7, Unchanged, WorkStep, Zenon

LEMMA LinkStep == ASSUME IInv, NEW p \in Pods, Link(p) PROVE IInv'
<1>1. UNCHANGED <<bucket, local, generation, pending, leader, saves, finished, newest,
                  counters>>
  BY Zenon DEF Link, copies, ghosts
<1>2. \/ Start(p, p, work[p].sha) /\ UNCHANGED work
      \/ work' = [work EXCEPT ![p] = Unemployed] /\ UNCHANGED load
  BY Zenon DEF Link
<1>3. load' \in [Threads -> LoadRecords] /\ Loads'
  <2>1. CASE Start(p, p, work[p].sha)
    BY <1>1, <2>1, WorkKnown, StartTrue, Zenon DEF IInv
  <2>2. CASE UNCHANGED load
    BY <1>1, <2>2, SMT DEF IInv, TypeOK, LoadRecords, Loads, LoadTrue
  <2> QED
    BY <1>2, <2>1, <2>2
<1>4. work' \in [Pods -> Jobs] /\ Employed'
  <2>1. CASE UNCHANGED work
    BY <1>1, <2>1, WorkKnown, SMT DEF IInv, Employed
  <2>2. CASE work' = [work EXCEPT ![p] = Unemployed]
    BY <1>1, <2>2, Resting, Zenon
  <2> QED
    BY <1>2, <2>1, <2>2
<1> QED
  BY <1>1, <1>3, <1>4, Unchanged, WorkStep, Zenon

LEMMA BeginRetryStep == ASSUME IInv, NEW p \in Pods, BeginRetry(p) PROVE IInv'
<1>1. UNCHANGED <<bucket, local, generation, leader, load, saves, finished, newest,
                  counters>>
  BY Zenon DEF BeginRetry, ghosts
<1>2. load' \in [Threads -> LoadRecords] /\ Loads'
  BY <1>1, SMT DEF IInv, TypeOK, LoadRecords, Loads, LoadTrue
<1>3. CASE local[p] = NoPage
  <2>1. pending' = [pending EXCEPT ![p] = FALSE] /\ UNCHANGED work
    BY <1>3, Zenon DEF BeginRetry
  <2>2. pending' \in [Pods -> BOOLEAN]
    BY <2>1, FlagTyped, Zenon DEF IInv, TypeOK
  <2>3. work' \in [Pods -> Jobs] /\ Employed'
    BY <1>1, <2>1, WorkKnown, SMT DEF IInv, Employed
  <2> QED
    BY <1>1, <1>2, <2>2, <2>3, Unchanged, WorkStep, Zenon
<1>4. CASE local[p] # NoPage
  <2>1. Turns(p, "retry", local[p]) /\ UNCHANGED pending
    BY <1>4, Zenon DEF BeginRetry, Turns
  <2>2. /\ work' \in [Pods -> Jobs]
        /\ work'[p].pc = "retry" /\ work'[p].page = local[p]
        /\ \A q \in Pods \ {p} : work'[q] = work[q]
    BY <2>1, WorkKnown, SetJobPage, SMT
  <2>3. Employed'
    BY <1>1, <1>4, <2>2, JobKept, SMT DEF IInv
  <2> QED
    BY <1>1, <1>2, <2>1, <2>2, <2>3, Unchanged, WorkStep, Zenon
<1> QED
  BY <1>3, <1>4

LEMMA EndRetryStep == ASSUME IInv, NEW p \in Pods, EndRetry(p) PROVE IInv'
<1>1. /\ work[p].pc = "retry"
      /\ Landed(p) \/ Unheard(p) \/ Lost
      /\ work' = [work EXCEPT ![p] = Unemployed]
      /\ UNCHANGED <<local, leader, saves, finished, newest>>
  BY Zenon DEF EndRetry, ghosts
<1>2. /\ bucket' \in Objects /\ load' \in [Threads -> LoadRecords] /\ Loads'
      /\ generation' \in [Pods -> Nat]
      /\ losses' \in 0 .. MaxLosses /\ upsets' \in 0 .. MaxUpsets
  BY <1>1, PutStep, SMT
<1>3. pending' \in [Pods -> BOOLEAN]
  <2>1. pending' = pending \/ pending' = [pending EXCEPT ![p] = FALSE]
    BY Zenon DEF EndRetry
  <2> QED
    BY <2>1, FlagTyped, Zenon DEF IInv, TypeOK
<1>4. work' \in [Pods -> Jobs] /\ Employed'
  BY <1>1, Resting, Zenon
<1> QED
  BY <1>1, <1>2, <1>3, <1>4, Unchanged, WorkStep, Zenon

LEMMA UpsetTyped ==
    ASSUME IInv, Upset
    PROVE  losses' \in 0 .. MaxLosses /\ upsets' \in 0 .. MaxUpsets
BY ArtifactAssumption, SMT DEF ArtifactAssumption, IInv, TypeOK, Upset

LEMMA RestartStep == ASSUME IInv, NEW p \in Pods, Restart(p) PROVE IInv'
<1>1. /\ Upset
      /\ generation' = [generation EXCEPT ![p] = 0]
      /\ pending' = [pending EXCEPT ![p] = FALSE]
      /\ work' = [work EXCEPT ![p] = Unemployed]
      /\ load' = [t \in Threads |->
                    IF t = p \/ load[t].pod = p THEN Unloaded ELSE load[t]]
      /\ UNCHANGED <<bucket, local, leader, saves, finished, newest>>
  BY Zenon DEF Restart, ghosts
<1>2. \A t \in Threads : load'[t] = Unloaded \/ load'[t] = load[t]
  BY <1>1, Zenon
<1>3. load' \in [Threads -> LoadRecords]
  BY <1>1, WorkKnown, Shapes, Zenon
<1>4. Loads'
  <2>1. ASSUME NEW t \in Threads PROVE LoadTrue(t)'
    <3>1. CASE load'[t] = Unloaded
      BY <3>1, SMT DEF LoadTrue, Unloaded
    <3>2. CASE load'[t] = load[t]
      BY <1>1, <3>2, LoadKnown, SMT DEF LoadTrue
    <3> QED
      BY <1>2, <3>1, <3>2
  <2> QED
    BY <2>1 DEF Loads
<1>5. generation' \in [Pods -> Nat]
  BY <1>1, CopyTyped, SMT DEF IInv, TypeOK
<1>6. pending' \in [Pods -> BOOLEAN]
  BY <1>1, FlagTyped, Zenon DEF IInv, TypeOK
<1>7. work' \in [Pods -> Jobs] /\ Employed'
  BY <1>1, Resting, Zenon
<1> QED
  BY <1>1, <1>3, <1>4, <1>5, <1>6, <1>7, UpsetTyped, Unchanged, WorkStep, Zenon

LEMMA PruneStep == ASSUME IInv, NEW p \in Pods, Prune(p) PROVE IInv'
<1>1. /\ Upset
      /\ local' = [local EXCEPT ![p] = NoPage]
      /\ UNCHANGED <<bucket, generation, pending, leader, work, load,
                     saves, finished, newest>>
  BY Zenon DEF Prune, ghosts
<1>2. load' \in [Threads -> LoadRecords] /\ Loads'
  BY <1>1, SMT DEF IInv, TypeOK, LoadRecords, Loads, LoadTrue
<1>3. local' \in [Pods -> Pages]
  BY <1>1, CopyTyped, Shapes, Zenon DEF IInv, TypeOK
<1>4. work' \in [Pods -> Jobs] /\ Employed'
  BY <1>1, WorkKnown, SMT DEF IInv, Employed
<1> QED
  BY <1>1, <1>2, <1>3, <1>4, UpsetTyped, Unchanged, WorkStep, Zenon

LEMMA HandoverStep == ASSUME IInv, Handover PROVE IInv'
<1>1. /\ Upset /\ leader' \in Pods
      /\ UNCHANGED <<bucket, local, generation, pending, work, load,
                     saves, finished, newest>>
  BY Zenon DEF Handover, copies, ghosts
<1>2. load' \in [Threads -> LoadRecords] /\ Loads'
  BY <1>1, SMT DEF IInv, TypeOK, LoadRecords, Loads, LoadTrue
<1>3. work' \in [Pods -> Jobs] /\ Employed'
  BY <1>1, SMT DEF IInv, TypeOK, Jobs, Employed
<1> QED
  BY <1>1, <1>2, <1>3, UpsetTyped, Unchanged, WorkStep, Zenon

LEMMA NextHolds == IInv /\ [Next]_vars => IInv'
<1> SUFFICES ASSUME IInv, [Next]_vars PROVE IInv'
  OBVIOUS
<1>1. ASSUME NEW t \in Threads, Loading(t) PROVE IInv'
  BY <1>1, CompareStep, DownloadStep, StoreStep, NoteStep, RespondStep, Zenon DEF Loading
<1>2. ASSUME NEW t \in Web, NEW p \in Pods, NEW c \in Commits, Request(t, p, c) PROVE IInv'
  BY <1>2, RequestStep, Zenon
<1>3. ASSUME NEW p \in Pods, Working(p) PROVE IInv'
  BY <1>3, LinkedStep, SaveStep, UploadStep, LinkStep, BeginRetryStep, EndRetryStep, Zenon
  DEF Working
<1>4. ASSUME NEW p \in Pods, Begin(p) \/ Restart(p) \/ Prune(p) PROVE IInv'
  BY <1>4, BeginStep, RestartStep, PruneStep, Zenon
<1>5. CASE UNCHANGED vars
  <2>1. UNCHANGED <<bucket, local, generation, pending, leader, work, load,
                    saves, finished, newest, counters>>
    BY <1>5, Zenon DEF vars, copies, ghosts
  <2>2. load' \in [Threads -> LoadRecords] /\ Loads'
    BY <2>1, SMT DEF IInv, TypeOK, LoadRecords, Loads, LoadTrue
  <2>3. work' \in [Pods -> Jobs] /\ Employed'
    BY <2>1, SMT DEF IInv, TypeOK, Jobs, Employed
  <2> QED
    BY <2>1, <2>2, <2>3, Unchanged, WorkStep, Zenon
<1> QED
  BY <1>1, <1>2, <1>3, <1>4, <1>5, HandoverStep, Zenon DEF Next

-----------------------------------------------------------------------------
(* The theorems *)

(* Every reachable state is type-correct. *)
THEOREM TypeCorrect == Spec => []TypeOK
<1>1. IInv => TypeOK
  BY DEF IInv
<1> QED
  BY <1>1, InitHolds, NextHolds, PTL DEF Spec

(* No request and no build status is answered with a page about an older     *)
(* commit than the one asked for, unless the bucket held an older one during *)
(* the load or did not answer (load_artifact).                               *)
THEOREM PagesAreNoOlder == Spec => []PageIsNoOlder
<1>1. IInv => PageIsNoOlder
  BY DEF IInv, Loads, LoadTrue, PageIsNoOlder
<1> QED
  BY <1>1, InitHolds, NextHolds, PTL DEF Spec
=============================================================================
