---------------------------- MODULE RenderCache -----------------------------
(***************************************************************************)
(* The render of the main side in a diff of one application:               *)
(* _run_one_diff and the retries of argocd_diff around it                  *)
(* (src/src/diff_preview.py), the tiers of the render cache                *)
(* (src/src/render_cache.py) and the digest of the chart tree that keys it *)
(* (src/src/chart_identity.py), while the tag of a dev chart is pushed     *)
(* again and its directory is replaced under the diffs that use it.        *)
(*                                                                         *)
(* What helm renders is known by its inputs: the tree in the chart's       *)
(* directory, the values and the helm binary.  Memory and disk are one     *)
(* tier here: they are written together, and what memory drops is still    *)
(* on disk.                                                                *)
(***************************************************************************)
EXTENDS Integers, FiniteSets

CONSTANTS
    Workers,      \* threads that diff
    MaxBuild,     \* bound on the builds pushed under the tag
    Values,       \* contents of the value files
    MaxHelm,      \* bound on the helm binaries of successive images
    MaxStale,     \* bound on how often the tree in the directory gets stale
    Retries       \* DIFF_RETRIES

VARIABLES
    registry,     \* the build a pull would fetch
    dir,          \* the build in the chart's directory, 0 while there is none
    usable,       \* _ensure_chart takes the directory as it is
    stales,       \* how often it did not
    pulling,      \* who is in a pull
    helm,         \* the helm binary of this pod
    local,        \* memory and disk: content key -> what was rendered
    bucket,       \* the durable tier
    uploads,      \* uploads in the subtask pool
    worker,
    torn          \* ghost: keys a tree was rendered for that was not the one hashed

cacheVars == <<registry, dir, usable, stales, pulling, helm, local, bucket, uploads, worker, torn>>

-----------------------------------------------------------------------------

Inputs == [tree : 0 .. MaxBuild, vals : Values, helm : 0 .. MaxHelm]
NoRender == [tree |-> 0, vals |-> CHOOSE v \in Values : TRUE, helm |-> 0]
Entry == [key : Inputs, body : Inputs]

Diffs ==
    [pc : {"idle", "land", "hash", "render", "hit", "done", "failed"}, n : 0 .. Retries - 1,
     inputs : Inputs, key : Inputs, body : Inputs]
Resting == [pc |-> "idle", n |-> 0, inputs |-> NoRender, key |-> NoRender, body |-> NoRender]

(* A tier is a set of entries with one body per key *)
Holds(tier, k) == \E e \in tier : e.key = k
BodyOf(tier, k) == (CHOOSE e \in tier : e.key = k).body
Without(tier, k) == {e \in tier : e.key # k}
Stored(tier, k, b) == Without(tier, k) \cup {[key |-> k, body |-> b]}

CacheTypeOK ==
    /\ registry \in 1 .. MaxBuild /\ dir \in 0 .. MaxBuild
    /\ usable \in BOOLEAN /\ stales \in 0 .. MaxStale
    /\ pulling \subseteq Workers
    /\ helm \in 1 .. MaxHelm
    /\ \A tier \in {local, bucket, uploads} : tier \subseteq Entry
    /\ worker \in [Workers -> Diffs]
    /\ torn \subseteq Inputs

CacheInit ==
    /\ registry = 1 /\ dir = 0 /\ usable = FALSE /\ stales = 0 /\ pulling = {} /\ helm = 1
    /\ local = {} /\ bucket = {} /\ uploads = {}
    /\ worker = [w \in Workers |-> Resting]
    /\ torn = {}

Set(w, r) == worker' = [worker EXCEPT ![w] = r]

-----------------------------------------------------------------------------
(* The outside: the registry, the pod, the webhook *)

PushAgain ==
    /\ registry < MaxBuild
    /\ registry' = registry + 1
    /\ UNCHANGED <<dir, usable, stales, pulling, helm, local, bucket, uploads, worker, torn>>

(* DEV_CHART_TTL is over, or _invalidate_for_republish evicted the tag *)
Stale ==
    /\ usable /\ usable' = FALSE
    /\ stales < MaxStale /\ stales' = stales + 1
    /\ UNCHANGED <<registry, dir, pulling, helm, local, bucket, uploads, worker, torn>>

(* A pod of the next image: only the bucket is left *)
NewPod ==
    /\ helm < MaxHelm
    /\ helm' = helm + 1
    /\ dir' = 0 /\ usable' = FALSE /\ pulling' = {}
    /\ local' = {} /\ uploads' = {}
    /\ worker' = [w \in Workers |-> Resting]
    /\ UNCHANGED <<registry, stales, bucket, torn>>

-----------------------------------------------------------------------------
(* One attempt of _run_one_diff, main side *)

(* argocd_diff: a failure that may pass is tried again, up to DIFF_RETRIES *)
Failed(w) ==
    LET wk == worker[w] IN
    IF wk.n < Retries - 1
    THEN [Resting EXCEPT !.pc = "idle", !.n = wk.n + 1]
    ELSE [Resting EXCEPT !.pc = "failed"]

(* _ensure_chart: a stale tree is parked aside.  Who finds one drops the pull *)
(* lock and makes a new one, so only who finds no tree waits for a pull      *)
Ensure(w) ==
    /\ worker[w].pc \in {"idle", "done", "failed"}
    /\ LET n == IF worker[w].pc = "idle" THEN worker[w].n ELSE 0 IN
       IF usable /\ dir # 0
       THEN /\ Set(w, [Resting EXCEPT !.pc = "hash", !.n = n])
            /\ UNCHANGED <<dir, pulling>>
       ELSE /\ dir # 0 \/ pulling = {}
            /\ pulling' = pulling \cup {w} /\ dir' = 0
            /\ Set(w, [Resting EXCEPT !.pc = "land", !.n = n])
    /\ UNCHANGED <<registry, usable, stales, helm, local, bucket, uploads, torn>>

(* The fresh pull lands at the same path, unless another one did before; or  *)
(* three tries of it failed                                                  *)
Land(w) ==
    /\ worker[w].pc = "land"
    /\ pulling' = pulling \ {w}
    /\ \/ /\ dir' = IF dir = 0 THEN registry ELSE dir
          /\ usable' = TRUE
          /\ Set(w, [worker[w] EXCEPT !.pc = "hash"])
       \/ Set(w, Failed(w)) /\ UNCHANGED <<dir, usable>>
    /\ UNCHANGED <<registry, stales, helm, local, bucket, uploads, torn>>

(* Mutant of ContentKey: the renderer is no part of the key *)
ContentKeyAnyHelm(in) == [in EXCEPT !.helm = 0]

(* _main_render_content_key: a missing directory hashes to a sentinel *)
ContentKey(in) == in

(* _main_render_cache_get: the local tiers, then the bucket, which warms them *)
Hash(w, vals) ==
    LET in == [tree |-> dir, vals |-> vals, helm |-> helm]
        key == ContentKey(in)
        wk == [worker[w] EXCEPT !.inputs = in, !.key = key]
    IN
    /\ worker[w].pc = "hash"
    /\ \/ /\ Holds(local, key)
          /\ Set(w, [wk EXCEPT !.pc = "hit", !.body = BodyOf(local, key)])
          /\ UNCHANGED local
       \/ /\ ~Holds(local, key) /\ Holds(bucket, key)
          /\ Set(w, [wk EXCEPT !.pc = "hit", !.body = BodyOf(bucket, key)])
          /\ local' = Stored(local, key, BodyOf(bucket, key))
       \/ /\ ~Holds(local, key)          \* nothing there, or it could not be read
          /\ Set(w, [wk EXCEPT !.pc = "render"])
          /\ UNCHANGED local
    /\ UNCHANGED <<registry, dir, usable, stales, pulling, helm, bucket, uploads, torn>>

(* The tree was moved away while it was being hashed: ChartTreeUnreadable is *)
(* an error of the attempt like any other                                    *)
Unreadable(w) ==
    /\ worker[w].pc = "hash" /\ dir = 0
    /\ Set(w, Failed(w))
    /\ UNCHANGED <<registry, dir, usable, stales, pulling, helm, local, bucket, uploads, torn>>

(* _main_render_cache_put: through every tier, the bucket's in the background *)
Put(key, body) ==
    /\ local' = Stored(local, key, body)
    /\ uploads' = uploads \cup {[key |-> key, body |-> body]}
    /\ torn' = IF body.tree = key.tree THEN torn ELSE torn \cup {key}

(* helm template on whatever is at the path by now *)
Render(w) ==
    LET wk == worker[w]
        body == [wk.inputs EXCEPT !.tree = dir]
    IN
    /\ wk.pc = "render"
    /\ IF dir = 0
       THEN Set(w, Failed(w)) /\ UNCHANGED <<local, uploads, torn>>
       ELSE /\ Put(wk.key, body)
            /\ Set(w, [wk EXCEPT !.pc = "done", !.body = body])
    /\ UNCHANGED <<registry, dir, usable, stales, pulling, helm, bucket>>

Served(w) ==
    /\ worker[w].pc = "hit"
    /\ Set(w, [worker[w] EXCEPT !.pc = "done"])
    /\ UNCHANGED <<registry, dir, usable, stales, pulling, helm, local, bucket, uploads, torn>>

(* The shadow audit of a sampled hit: what differs from a fresh render is    *)
(* discarded from every tier, and the fresh render stored                    *)
Audit(w) ==
    LET wk == worker[w]
        body == [wk.inputs EXCEPT !.tree = dir]
    IN
    /\ wk.pc = "hit" /\ dir # 0 /\ body # wk.body
    /\ bucket' = Without(bucket, wk.key)
    /\ Put(wk.key, body)
    /\ Set(w, [wk EXCEPT !.pc = "done", !.body = body])
    /\ UNCHANGED <<registry, dir, usable, stales, pulling, helm>>

-----------------------------------------------------------------------------

(* An upload lands, or is lost *)
Upload(e) ==
    /\ uploads' = uploads \ {e}
    /\ bucket' = Stored(bucket, e.key, e.body) \/ UNCHANGED bucket
    /\ UNCHANGED <<registry, dir, usable, stales, pulling, helm, local, worker, torn>>

CacheNext ==
    \/ PushAgain \/ Stale \/ NewPod
    \/ \E w \in Workers :
          \/ Ensure(w) \/ Land(w) \/ Unreadable(w) \/ Render(w) \/ Served(w) \/ Audit(w)
          \/ \E vals \in Values : Hash(w, vals)
    \/ \E e \in uploads : Upload(e)

CacheSpec == CacheInit /\ [][CacheNext]_cacheVars

-----------------------------------------------------------------------------
(* Properties *)

(* What a diff uses as its main side is the render of the inputs it hashed,  *)
(* whichever diff, thread or pod rendered it: unless, for this very key, the *)
(* tree was replaced between some diff's hash and its helm run               *)
ServedIsRight ==
    \A w \in Workers :
        worker[w].pc = "done" => worker[w].body = worker[w].inputs \/ worker[w].key \in torn

(* Inductive: what any tier has under a key is that key's render, and what a *)
(* diff took from there is what it looked for                                *)
TiersAreRight ==
    \A tier \in {local, bucket, uploads} :
        \A e \in tier : e.body = e.key \/ e.key \in torn
TakenIsRight ==
    \A w \in Workers :
        /\ worker[w].pc \in {"render", "hit", "done"} => worker[w].key = worker[w].inputs
        /\ worker[w].pc \in {"hit", "done"} =>
             worker[w].body = worker[w].key \/ worker[w].key \in torn

CacheInv == CacheTypeOK /\ TiersAreRight /\ TakenIsRight
=============================================================================
